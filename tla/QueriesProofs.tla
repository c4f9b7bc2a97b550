---------------------------- MODULE QueriesProofs ----------------------------
(***************************************************************************)
(* Theorems about Queries, for any finite set of documents and fields, any *)
(* schema and any contents the schema allows. One inductive invariant says *)
(* that the tables hold, of every live document, what its frontmatter gave *)
(* when its row was written, and nothing of any other.                     *)
(***************************************************************************)
EXTENDS Queries, FiniteSetTheorems, WellFoundedInduction, TLAPS

\* What the tables hold of d.
NothingOf(d) ==
  /\ db.fields[d] = NoFields
  /\ db.relations[d] = NoRelations
  /\ db.objects[d] = {}

AllOf(d, fm) ==
  /\ db.documents[d] = Row(d, fm)
  /\ db.fields[d] = FieldIndex(d, fm)
  /\ db.relations[d] = Relations(d, fm)
  /\ db.objects[d] = Objects(d, fm)

Derived(d) ==
  \/ db.documents[d] = NoRow /\ NothingOf(d)
  \/ /\ \E fm \in Contents[d] : db.documents[d] = [Row(d, fm) EXCEPT !.deleted = TRUE]
     /\ NothingOf(d)
  \/ \E fm \in Contents[d] : AllOf(d, fm)

Tables ==
  /\ DOMAIN files = Docs
  /\ db = [documents |-> db.documents, fields |-> db.fields,
           relations |-> db.relations, objects |-> db.objects]
  /\ DOMAIN db.documents = Docs /\ DOMAIN db.fields = Docs
  /\ DOMAIN db.relations = Docs /\ DOMAIN db.objects = Docs
  /\ db.documents = [d \in Docs |-> db.documents[d]]
  /\ db.fields = [d \in Docs |-> db.fields[d]]
  /\ db.relations = [d \in Docs |-> db.relations[d]]
  /\ db.objects = [d \in Docs |-> db.objects[d]]
  /\ files = [d \in Docs |-> files[d]]

Inv ==
  /\ Tables
  /\ \A d \in Docs : files[d] = NoFile \/ files[d] \in Contents[d]
  /\ \A d \in Docs : Derived(d)

(* ---- The invariant --------------------------------------------------------- *)

\* A row is live when it is there and has no mark.
LEMMA RowFacts ==
  ASSUME NEW d \in Docs, NEW fm \in Contents[d]
  PROVE  /\ Row(d, fm) # NoRow
         /\ Row(d, fm).type = TypeOf[d] /\ Row(d, fm).hash = fm /\ ~Row(d, fm).deleted
         /\ [Row(d, fm) EXCEPT !.deleted = TRUE] # NoRow
         /\ [Row(d, fm) EXCEPT !.deleted = TRUE].deleted
<1>1. fm \in UNION {Contents[e] : e \in Docs} /\ TypeOf[d] \in Types
  BY NamesAssumption
<1>2. /\ Row(d, fm) \in [type : Types, hash : UNION {Contents[e] : e \in Docs}, deleted : BOOLEAN]
      /\ [Row(d, fm) EXCEPT !.deleted = TRUE]
           \in [type : Types, hash : UNION {Contents[e] : e \in Docs}, deleted : BOOLEAN]
  BY <1>1 DEF Row
<1>3. Row(d, fm) # NoRow /\ [Row(d, fm) EXCEPT !.deleted = TRUE] # NoRow
  BY <1>2, NullsAssumption
<1> QED
  BY <1>3 DEF Row

\* A live document has all of its frontmatter in the tables, another nothing.
LEMMA LiveDerived ==
  ASSUME NEW d \in Docs, Derived(d)
  PROVE  /\ Live(d) => \E fm \in Contents[d] : AllOf(d, fm)
         /\ ~Live(d) => NothingOf(d)
<1>1. ASSUME NEW fm \in Contents[d], db.documents[d] = [Row(d, fm) EXCEPT !.deleted = TRUE]
      PROVE  ~Live(d)
  BY <1>1, RowFacts DEF Live
<1>2. ASSUME NEW fm \in Contents[d], AllOf(d, fm)
      PROVE  Live(d)
  BY <1>2, RowFacts DEF Live, AllOf
<1>3. db.documents[d] = NoRow => ~Live(d)
  BY DEF Live
<1> QED
  BY <1>1, <1>2, <1>3 DEF Derived

LEMMA InitInv == Init => Inv
<1> SUFFICES ASSUME Init PROVE Inv
  OBVIOUS
<1>1. Tables
  BY DEF Init, Tables
<1> QED
  BY <1>1 DEF Init, Inv, Derived, NothingOf

\* The tables change at d only.
ChangedAt(d) ==
  /\ db' = [documents |-> db'.documents, fields |-> db'.fields,
            relations |-> db'.relations, objects |-> db'.objects]
  /\ db'.documents = [db.documents EXCEPT ![d] = db'.documents[d]]
  /\ db'.fields = [db.fields EXCEPT ![d] = db'.fields[d]]
  /\ db'.relations = [db.relations EXCEPT ![d] = db'.relations[d]]
  /\ db'.objects = [db.objects EXCEPT ![d] = db'.objects[d]]
  /\ files' = [files EXCEPT ![d] = files'[d]]

\* A step that changes the tables at d only leaves the invariant to be shown at d.
LEMMA ChangedInv ==
  ASSUME Inv, NEW d \in Docs, ChangedAt(d),
         files'[d] = NoFile \/ files'[d] \in Contents[d], Derived(d)'
  PROVE  Inv'
<1>t. Tables
  BY DEF Inv
<1>2. /\ DOMAIN files' = Docs
      /\ DOMAIN db'.documents = Docs /\ DOMAIN db'.fields = Docs
      /\ DOMAIN db'.relations = Docs /\ DOMAIN db'.objects = Docs
  BY <1>t DEF Tables, ChangedAt
<1>3. Tables'
  <2>1. db'.documents = [e \in Docs |-> db'.documents[e]]
    BY <1>t DEF Tables, ChangedAt
  <2>2. db'.fields = [e \in Docs |-> db'.fields[e]]
    BY <1>t DEF Tables, ChangedAt
  <2>3. db'.relations = [e \in Docs |-> db'.relations[e]]
    BY <1>t DEF Tables, ChangedAt
  <2>4. db'.objects = [e \in Docs |-> db'.objects[e]]
    BY <1>t DEF Tables, ChangedAt
  <2>5. files' = [e \in Docs |-> files'[e]]
    BY <1>t DEF Tables, ChangedAt
  <2> QED
    BY <1>2, <2>1, <2>2, <2>3, <2>4, <2>5 DEF Tables, ChangedAt
<1>4. ASSUME NEW e \in Docs, e # d
      PROVE  /\ files'[e] = files[e]
             /\ db'.documents[e] = db.documents[e] /\ db'.fields[e] = db.fields[e]
             /\ db'.relations[e] = db.relations[e] /\ db'.objects[e] = db.objects[e]
  BY <1>t, <1>4 DEF Tables, ChangedAt
<1>5. ASSUME NEW e \in Docs, e # d
      PROVE  Derived(e)'
  <2>1. Derived(e)
    BY DEF Inv
  <2> QED
    BY <1>4, <1>5, <2>1 DEF Derived, NothingOf, AllOf
<1>6. \A e \in Docs : files'[e] = NoFile \/ files'[e] \in Contents[e]
  BY <1>4 DEF Inv
<1> QED
  BY <1>3, <1>5, <1>6 DEF Inv

\* What INSERT OR REPLACE makes of the tables.
LEMMA Replaced ==
  ASSUME Tables, NEW d \in Docs, NEW row
  PROVE  LET t == Replace(db, d, row) IN
         /\ t = [documents |-> t.documents, fields |-> t.fields,
                 relations |-> t.relations, objects |-> t.objects]
         /\ t.documents = [db.documents EXCEPT ![d] = row] /\ t.documents[d] = row
         /\ t.fields = [db.fields EXCEPT ![d] = NoFields] /\ t.fields[d] = NoFields
         /\ t.relations = [db.relations EXCEPT ![d] = NoRelations] /\ t.relations[d] = NoRelations
         /\ t.objects = [db.objects EXCEPT ![d] = {}] /\ t.objects[d] = {}
<1> DEFINE t == Replace(db, d, row)
<1>1. t = [documents |-> [db.documents EXCEPT ![d] = row],
           fields |-> [db.fields EXCEPT ![d] = NoFields],
           relations |-> [db.relations EXCEPT ![d] = NoRelations],
           objects |-> [db.objects EXCEPT ![d] = {}]]
  BY DEF Replace
<1> HIDE DEF t
<1>2. /\ t.documents = [db.documents EXCEPT ![d] = row]
      /\ t.fields = [db.fields EXCEPT ![d] = NoFields]
      /\ t.relations = [db.relations EXCEPT ![d] = NoRelations]
      /\ t.objects = [db.objects EXCEPT ![d] = {}]
  BY <1>1
<1>3. t.documents[d] = row /\ t.fields[d] = NoFields /\ t.relations[d] = NoRelations
      /\ t.objects[d] = {}
  BY <1>2 DEF Tables
<1>4. t = [documents |-> t.documents, fields |-> t.fields,
           relations |-> t.relations, objects |-> t.objects]
  BY <1>1
<1> QED
  BY <1>2, <1>3, <1>4 DEF t

LEMMA WriteInv ==
  ASSUME Inv, NEW d \in Docs, NEW fm \in Contents[d], Write(d, fm)
  PROVE  Inv'
<1>t. Tables
  BY DEF Inv
<1>1. files' = [files EXCEPT ![d] = fm] /\ files'[d] = fm
  BY <1>t DEF Write, Tables
<1> DEFINE t == Replace(db, d, Row(d, fm))
<1>2. db' = [t EXCEPT !.fields[d] = FieldIndex(d, fm), !.relations[d] = Relations(d, fm),
                      !.objects[d] = Objects(d, fm)]
  BY DEF Write, Materialize
<1>3. /\ t = [documents |-> t.documents, fields |-> t.fields,
              relations |-> t.relations, objects |-> t.objects]
      /\ t.documents = [db.documents EXCEPT ![d] = Row(d, fm)]
      /\ t.fields = [db.fields EXCEPT ![d] = NoFields]
      /\ t.relations = [db.relations EXCEPT ![d] = NoRelations]
      /\ t.objects = [db.objects EXCEPT ![d] = {}]
  BY <1>t, Replaced
<1> HIDE DEF t
<1>4. db' = [documents |-> t.documents,
             fields    |-> [t.fields EXCEPT ![d] = FieldIndex(d, fm)],
             relations |-> [t.relations EXCEPT ![d] = Relations(d, fm)],
             objects   |-> [t.objects EXCEPT ![d] = Objects(d, fm)]]
  BY <1>2, <1>3
<1>5. /\ db'.documents = t.documents
      /\ db'.fields = [t.fields EXCEPT ![d] = FieldIndex(d, fm)]
      /\ db'.relations = [t.relations EXCEPT ![d] = Relations(d, fm)]
      /\ db'.objects = [t.objects EXCEPT ![d] = Objects(d, fm)]
      /\ db' = [documents |-> db'.documents, fields |-> db'.fields,
                relations |-> db'.relations, objects |-> db'.objects]
  BY <1>4
<1>6. /\ db'.documents = [db.documents EXCEPT ![d] = Row(d, fm)]
      /\ db'.fields = [db.fields EXCEPT ![d] = FieldIndex(d, fm)]
      /\ db'.relations = [db.relations EXCEPT ![d] = Relations(d, fm)]
      /\ db'.objects = [db.objects EXCEPT ![d] = Objects(d, fm)]
  <2>1. db'.documents = [db.documents EXCEPT ![d] = Row(d, fm)]
    BY <1>3, <1>5
  <2>2. db'.fields = [db.fields EXCEPT ![d] = FieldIndex(d, fm)]
    BY <1>3, <1>5, <1>t DEF Tables
  <2>3. db'.relations = [db.relations EXCEPT ![d] = Relations(d, fm)]
    BY <1>3, <1>5, <1>t DEF Tables
  <2>4. db'.objects = [db.objects EXCEPT ![d] = Objects(d, fm)]
    BY <1>3, <1>5, <1>t DEF Tables
  <2> QED
    BY <2>1, <2>2, <2>3, <2>4
<1>7. /\ db'.documents[d] = Row(d, fm) /\ db'.fields[d] = FieldIndex(d, fm)
      /\ db'.relations[d] = Relations(d, fm) /\ db'.objects[d] = Objects(d, fm)
  BY <1>6, <1>t DEF Tables
<1>8. ChangedAt(d)
  BY <1>1, <1>5, <1>6, <1>7 DEF ChangedAt
<1>9. Derived(d)'
  BY <1>7 DEF Derived, AllOf
<1> QED
  BY <1>1, <1>8, <1>9, ChangedInv

\* Whatever row replaces that of d, nothing else of d is left.
LEMMA ReplaceInv ==
  ASSUME Inv, NEW d \in Docs, NEW row, db' = Replace(db, d, row),
         files' = [files EXCEPT ![d] = NoFile],
         \/ row = NoRow
         \/ \E fm \in Contents[d] : row = [Row(d, fm) EXCEPT !.deleted = TRUE]
  PROVE  Inv'
<1>t. Tables
  BY DEF Inv
<1>1. files'[d] = NoFile
  BY <1>t DEF Tables
<1> DEFINE t == Replace(db, d, row)
<1>2. db' = t
  OBVIOUS
<1>3. /\ t = [documents |-> t.documents, fields |-> t.fields,
              relations |-> t.relations, objects |-> t.objects]
      /\ t.documents = [db.documents EXCEPT ![d] = row] /\ t.documents[d] = row
      /\ t.fields = [db.fields EXCEPT ![d] = NoFields] /\ t.fields[d] = NoFields
      /\ t.relations = [db.relations EXCEPT ![d] = NoRelations] /\ t.relations[d] = NoRelations
      /\ t.objects = [db.objects EXCEPT ![d] = {}] /\ t.objects[d] = {}
  BY <1>t, Replaced
<1> HIDE DEF t
<1>4. ChangedAt(d)
  BY <1>1, <1>2, <1>3 DEF ChangedAt
<1>5. Derived(d)'
  BY <1>2, <1>3 DEF Derived, NothingOf
<1> QED
  BY <1>1, <1>4, <1>5, ChangedInv

LEMMA SoftDeleteInv ==
  ASSUME Inv, NEW d \in Docs, SoftDelete(d)
  PROVE  Inv'
<1>1. PICK fm \in Contents[d] : db.documents[d] = Row(d, fm)
  BY LiveDerived DEF SoftDelete, Inv, AllOf
<1>2. [db.documents[d] EXCEPT !.deleted = TRUE] = [Row(d, fm) EXCEPT !.deleted = TRUE]
  BY <1>1
<1> QED
  BY <1>2, ReplaceInv DEF SoftDelete

LEMMA EditInv ==
  ASSUME Inv, NEW d \in Docs, NEW fm \in Contents[d] \union {NoFile}, Edit(d, fm)
  PROVE  Inv'
<1>1. /\ files' = [files EXCEPT ![d] = fm]
      /\ db' = db
  BY DEF Edit
<1>2. Tables'
  BY <1>1 DEF Inv, Tables
<1>3. \A e \in Docs : files'[e] = NoFile \/ files'[e] \in Contents[e]
  BY <1>1 DEF Inv, Tables
<1>4. \A e \in Docs : Derived(e)'
  BY <1>1 DEF Inv, Derived, NothingOf, AllOf
<1> QED
  BY <1>2, <1>3, <1>4 DEF Inv

LEMMA ReindexInv ==
  ASSUME Inv, Reindex
  PROVE  Inv'
<1> DEFINE gone == {d \in Docs \ OnDisk : db.documents[d] # NoRow /\ ~db.documents[d].deleted}
           rows == [d \in Docs |-> IF d \in OnDisk THEN Row(d, files[d])
                                   ELSE IF d \in gone THEN NoRow ELSE db.documents[d]]
           fields == [d \in Docs |-> IF d \in OnDisk THEN FieldIndex(d, files[d])
                                     ELSE IF d \in gone THEN NoFields ELSE db.fields[d]]
           relations == [d \in Docs |-> IF d \in OnDisk THEN Relations(d, files[d])
                                        ELSE IF d \in gone THEN NoRelations ELSE db.relations[d]]
           objects == [d \in Docs |-> IF d \in OnDisk THEN Objects(d, files[d])
                                      ELSE IF d \in gone THEN {} ELSE db.objects[d]]
<1>1. db' = [documents |-> rows, fields |-> fields, relations |-> relations, objects |-> objects]
  BY DEF Reindex, Reindexed
<1>g. \A d \in Docs \ OnDisk : d \in gone <=> Live(d)
  BY DEF Live
<1> HIDE DEF gone
<1>2. ASSUME NEW d \in Docs
      PROVE  /\ rows[d] = IF d \in OnDisk THEN Row(d, files[d])
                          ELSE IF d \in gone THEN NoRow ELSE db.documents[d]
             /\ fields[d] = IF d \in OnDisk THEN FieldIndex(d, files[d])
                            ELSE IF d \in gone THEN NoFields ELSE db.fields[d]
             /\ relations[d] = IF d \in OnDisk THEN Relations(d, files[d])
                               ELSE IF d \in gone THEN NoRelations ELSE db.relations[d]
             /\ objects[d] = IF d \in OnDisk THEN Objects(d, files[d])
                             ELSE IF d \in gone THEN {} ELSE db.objects[d]
  OBVIOUS
<1>3. /\ DOMAIN rows = Docs /\ DOMAIN fields = Docs
      /\ DOMAIN relations = Docs /\ DOMAIN objects = Docs
      /\ rows = [d \in Docs |-> rows[d]] /\ fields = [d \in Docs |-> fields[d]]
      /\ relations = [d \in Docs |-> relations[d]] /\ objects = [d \in Docs |-> objects[d]]
  OBVIOUS
<1> HIDE DEF rows, fields, relations, objects
<1>4. /\ db'.documents = rows /\ db'.fields = fields
      /\ db'.relations = relations /\ db'.objects = objects
  BY <1>1
<1>5. files' = files
  BY DEF Reindex
<1>6. Tables'
  BY <1>1, <1>3, <1>4, <1>5 DEF Inv, Tables
<1>7. ASSUME NEW d \in Docs
      PROVE  Derived(d)'
  <2>1. CASE d \in OnDisk
    <3>1. files[d] \in Contents[d]
      BY <2>1 DEF OnDisk, Inv
    <3>2. AllOf(d, files[d])'
      BY <1>2, <1>4, <1>5, <2>1 DEF AllOf
    <3>3. \E fm \in Contents[d] : AllOf(d, fm)'
      BY <3>1, <3>2, <1>5
    <3> QED
      BY <3>3 DEF Derived
  <2>2. CASE d \in gone /\ d \notin OnDisk
    BY <1>2, <1>4, <2>2 DEF Derived, NothingOf
  <2>3. CASE d \notin gone /\ d \notin OnDisk
    <3>1. /\ db'.documents[d] = db.documents[d] /\ db'.fields[d] = db.fields[d]
          /\ db'.relations[d] = db.relations[d] /\ db'.objects[d] = db.objects[d]
      BY <1>2, <1>4, <2>3
    <3>2. Derived(d)
      BY DEF Inv
    <3> QED
      BY <3>1, <3>2 DEF Derived, NothingOf, AllOf
  <2> QED
    BY <2>1, <2>2, <2>3
<1> QED
  BY <1>5, <1>6, <1>7 DEF Inv

LEMMA NextInv == Inv /\ [Next]_vars => Inv'
<1> SUFFICES ASSUME Inv, [Next]_vars PROVE Inv'
  OBVIOUS
<1>1. ASSUME NEW d \in Docs, NEW fm \in Contents[d], Write(d, fm) PROVE Inv'
  BY <1>1, WriteInv
<1>2. ASSUME NEW d \in Docs, HardDelete(d) PROVE Inv'
  BY <1>2, ReplaceInv DEF HardDelete, RemoveDocument
<1>3. ASSUME NEW d \in Docs, SoftDelete(d) PROVE Inv'
  BY <1>3, SoftDeleteInv
<1>4. ASSUME NEW d \in Docs, NEW fm \in Contents[d] \union {NoFile}, Edit(d, fm) PROVE Inv'
  BY <1>4, EditInv
<1>5. ASSUME Reindex PROVE Inv'
  BY <1>5, ReindexInv
<1>6. ASSUME UNCHANGED vars PROVE Inv'
  <2>1. files' = files /\ db' = db
    BY <1>6 DEF vars
  <2>2. Tables'
    BY <2>1 DEF Inv, Tables
  <2>3. \A e \in Docs : Derived(e)'
    BY <2>1 DEF Inv, Derived, NothingOf, AllOf
  <2> QED
    BY <2>1, <2>2, <2>3 DEF Inv
<1> QED
  BY <1>1, <1>2, <1>3, <1>4, <1>5, <1>6 DEF Next

LEMMA InvHolds == Spec => []Inv
BY InitInv, NextInv, PTL DEF Spec

(* ---- What a clean sweep says ----------------------------------------------- *)

\* A file's frontmatter, field by field.
LEMMA Frontmatter ==
  ASSUME NEW d \in Docs, NEW fm \in Contents[d]
  PROVE  /\ \A f \in Names \union {Body} :
              fm[f] \in Seq(Texts) /\ \A i \in DOMAIN fm[f] : fm[f][i] \in Texts
         /\ \A f \in Names : FieldIndex(d, fm)[f]
                               \in Seq([text : Texts, num : Int \union {NoNum}])
         /\ Relations(d, fm) \in [Names \union {Body} -> Seq(Texts)]
<1>1. fm \in [Names \union {Body} -> Seq(Texts)]
  BY ContentsAssumption
<1>2. \A f \in Names \union {Body} :
        fm[f] \in Seq(Texts) /\ \A i \in DOMAIN fm[f] : fm[f][i] \in Texts
  BY <1>1
<1>3. ASSUME NEW f \in Names
      PROVE  FieldIndex(d, fm)[f] \in Seq([text : Texts, num : Int \union {NoNum}])
  <2>1. \A t \in Texts : Cell(d, f, t) \in [text : Texts, num : Int \union {NoNum}]
    BY NumOfAssumption DEF Cell
  <2>2. fm[f] \in Seq(Texts)
    BY <1>2
  <2>3. [i \in DOMAIN fm[f] |-> Cell(d, f, fm[f][i])]
          \in Seq([text : Texts, num : Int \union {NoNum}])
    <3> DEFINE n == Len(fm[f])
               cells == [i \in 1..n |-> Cell(d, f, fm[f][i])]
    <3>1. n \in Nat /\ DOMAIN fm[f] = 1..n
      BY <2>2
    <3>2. \A i \in 1..n : fm[f][i] \in Texts
      BY <2>2
    <3> HIDE DEF n
    <3>3. cells \in [1..n -> [text : Texts, num : Int \union {NoNum}]]
      BY <2>1, <3>2
    <3>4. cells \in Seq([text : Texts, num : Int \union {NoNum}])
      BY <3>1, <3>3
    <3> QED
      BY <3>1, <3>4
  <2>4. <<>> \in Seq([text : Texts, num : Int \union {NoNum}])
    OBVIOUS
  <2> QED
    BY <2>3, <2>4 DEF FieldIndex
<1>4. Relations(d, fm) \in [Names \union {Body} -> Seq(Texts)]
  BY <1>2 DEF Relations
<1> QED
  BY <1>2, <1>3, <1>4

LEMMA InvType == Inv => TypeOK
<1> SUFFICES ASSUME Inv PROVE TypeOK
  OBVIOUS
<1>1. ASSUME NEW d \in Docs
      PROVE  /\ db.documents[d] = NoRow \/ db.documents[d].type \in Types
             /\ db.fields[d] \in [Names -> Seq([text : Texts, num : Int \union {NoNum}])]
             /\ db.relations[d] \in [Names \union {Body} -> Seq(Texts)]
  <2>0. Derived(d) /\ TypeOf[d] \in Types
    BY NamesAssumption DEF Inv
  <2>1. ASSUME NothingOf(d)
        PROVE  /\ db.fields[d] \in [Names -> Seq([text : Texts, num : Int \union {NoNum}])]
               /\ db.relations[d] \in [Names \union {Body} -> Seq(Texts)]
    BY <2>1 DEF NothingOf, NoFields, NoRelations
  <2>2. ASSUME NEW fm \in Contents[d], AllOf(d, fm)
        PROVE  /\ db.documents[d].type = TypeOf[d]
               /\ db.fields[d] \in [Names -> Seq([text : Texts, num : Int \union {NoNum}])]
               /\ db.relations[d] \in [Names \union {Body} -> Seq(Texts)]
    <3>1. db.documents[d].type = TypeOf[d]
      BY <2>2 DEF AllOf, Row
    <3>2. FieldIndex(d, fm) = [f \in Names |-> FieldIndex(d, fm)[f]]
      BY DEF FieldIndex
    <3>3. db.fields[d] \in [Names -> Seq([text : Texts, num : Int \union {NoNum}])]
      BY <2>2, <3>2, Frontmatter DEF AllOf
    <3>4. db.relations[d] \in [Names \union {Body} -> Seq(Texts)]
      <4>1. db.relations[d] = Relations(d, fm)
        BY <2>2 DEF AllOf
      <4>2. Relations(d, fm) \in [Names \union {Body} -> Seq(Texts)]
        BY Frontmatter
      <4> QED
        BY <4>1, <4>2
    <3> QED
      BY <3>1, <3>3, <3>4
  <2>3. ASSUME NEW fm \in Contents[d], db.documents[d] = [Row(d, fm) EXCEPT !.deleted = TRUE]
        PROVE  db.documents[d].type = TypeOf[d]
    BY <2>3 DEF Row
  <2> QED
    BY <2>0, <2>1, <2>2, <2>3 DEF Derived
<1> QED
  BY <1>1 DEF Inv, Tables, TypeOK

\* The tables of a well-formed index: files and rows of the right types. The
\* writes, deletes and reindexing of src/src/engine/writes.ts and
\* src/src/engine/indexing.ts keep them so, whatever is edited in between.
THEOREM TypeCorrect == Spec => []TypeOK
BY InvHolds, InvType, PTL

\* Without drift, the live documents are those with a file, and the tables hold
\* what their files say.
LEMMA CleanRows ==
  ASSUME Inv, Clean
  PROVE  /\ LiveDocs = OnDisk
         /\ \A d \in Docs :
              /\ Live(d) <=> files[d] # NoFile
              /\ Live(d) => files[d] \in Contents[d] /\ AllOf(d, files[d])
              /\ ~Live(d) => NothingOf(d)
<1>1. /\ OnDisk \ LiveDocs = {}
      /\ {d \in OnDisk \intersect LiveDocs : db.documents[d].hash # files[d]} = {}
      /\ LiveDocs \ OnDisk = {}
  BY DEF Clean, Integrity
<1>2. LiveDocs = OnDisk
  BY <1>1
<1>3. \A d \in Docs : Live(d) <=> files[d] # NoFile
  BY <1>2 DEF LiveDocs, OnDisk
<1>4. ASSUME NEW d \in Docs, Live(d)
      PROVE  files[d] \in Contents[d] /\ AllOf(d, files[d])
  <2>1. PICK fm \in Contents[d] : AllOf(d, fm)
    BY <1>4, LiveDerived DEF Inv
  <2>2. d \in OnDisk \intersect LiveDocs
    BY <1>2, <1>4 DEF LiveDocs
  <2>3. db.documents[d].hash = files[d]
    BY <1>1, <2>2
  <2>4. db.documents[d].hash = fm
    BY <2>1 DEF AllOf, Row
  <2> QED
    BY <2>1, <2>3, <2>4
<1>5. \A d \in Docs : ~Live(d) => NothingOf(d)
  BY LiveDerived DEF Inv
<1> QED
  BY <1>2, <1>3, <1>4, <1>5

(* ---- Filters ----------------------------------------------------------------- *)

Plain == {"eq", "neq", "contains", "in", "gte", "lte", "gt", "lt"}

\* The cell of a value meets a condition other than a between in SQL just when
\* the value meets it.
LEMMA CellMeets ==
  ASSUME NEW d \in Docs, NEW f \in Names, NEW t \in Texts, NEW c \in Conditions,
         c.op # "between"
  PROVE  Satisfies(Cell(d, f, t), c) <=> Meets(d, f, t, c)
<1>1. /\ Cell(d, f, t).text = t /\ t \in Nat
      /\ Cell(d, f, t).num # NoNum
           <=> Schema[TypeOf[d]][f].kind = "number" /\ NumOf[t] # NoNum
      /\ Cell(d, f, t).num # NoNum => Cell(d, f, t).num = NumOf[t] /\ NumOf[t] \in Int
  BY NumOfAssumption, TextsAssumption DEF Cell
<1>2. CASE c.op \in Ranges
  <2>1. c.value \in Operands
    BY <1>2 DEF Conditions, Ranges
  <2>2. /\ c.value.text \in Nat
        /\ c.value.number => NumOf[c.value.text] \in Int
        /\ c.value.number \in BOOLEAN
    BY <2>1, NumOfAssumption, TextsAssumption DEF Operands
  <2> HIDE DEF Cell
  <2>3. CASE c.op = "gt"
    BY <1>1, <2>2, <2>3 DEF Satisfies, Meets, Ordered, Ranges
  <2>4. CASE c.op = "gte"
    BY <1>1, <2>2, <2>4 DEF Satisfies, Meets, Ordered, Ranges
  <2>5. CASE c.op = "lt"
    BY <1>1, <2>2, <2>5 DEF Satisfies, Meets, Ordered, Ranges
  <2>6. CASE c.op = "lte"
    BY <1>1, <2>2, <2>6 DEF Satisfies, Meets, Ordered, Ranges
  <2> QED
    BY <1>2, <2>3, <2>4, <2>5, <2>6 DEF Ranges
<1>3. CASE c.op = "eq"
  BY <1>1, <1>3 DEF Satisfies, Meets
<1>4. CASE c.op = "neq"
  BY <1>1, <1>4 DEF Satisfies, Meets
<1>5. CASE c.op = "contains"
  BY <1>1, <1>5 DEF Satisfies, Meets
<1>6. CASE c.op = "in"
  BY <1>1, <1>6 DEF Satisfies, Meets
<1> QED
  BY <1>2, <1>3, <1>4, <1>5, <1>6 DEF Conditions

\* A between holds of a value just when both of its bounds do.
LEMMA BetweenMeets ==
  ASSUME NEW d \in Docs, NEW f \in Names, NEW t \in Texts, NEW c \in Conditions,
         c.op = "between"
  PROVE  Meets(d, f, t, c) <=> \A a \in Atomics(c) : Satisfies(Cell(d, f, t), a)
<1> DEFINE low == [op |-> "gte", value |-> c.lo]
           high == [op |-> "lte", value |-> c.hi]
<1>1. c.lo \in Operands /\ c.hi \in Operands
  BY DEF Conditions, Ranges
<1>2. low \in Conditions /\ high \in Conditions
  BY <1>1 DEF Conditions, Ranges
<1>3. Atomics(c) = {low, high}
  BY DEF Atomics
<1>4. Meets(d, f, t, c) <=> Meets(d, f, t, low) /\ Meets(d, f, t, high)
  BY DEF Meets
<1>5. /\ Satisfies(Cell(d, f, t), low) <=> Meets(d, f, t, low)
      /\ Satisfies(Cell(d, f, t), high) <=> Meets(d, f, t, high)
  BY <1>2, CellMeets
<1> QED
  BY <1>3, <1>4, <1>5

\* What FindDocuments finds for one condition on one field.
LEMMA FoundByOne ==
  ASSUME NEW f \in Names, NEW c \in Conditions, FindDocuments(AnyType, Only(f, c)).ok
  PROVE  \A d \in Docs :
           d \in FindDocuments(AnyType, Only(f, c)).results
             <=> Live(d) /\ Passes(d, f, Atomics(c))
<1> DEFINE raw == Only(f, c)
           filters == [g \in DOMAIN raw |-> Expand(raw[g])]
<1>1. DOMAIN raw = {f} /\ raw[f] = <<c>>
  BY DEF Only
<1>2. DOMAIN filters = {f} /\ filters[f] = Expand(<<c>>)
  BY <1>1
<1>3. Expand(<<c>>) = Atomics(c)
  BY DEF Expand
<1>4. FindDocuments(AnyType, raw).results = Matching(AnyType, filters)
  BY DEF FindDocuments, Refused
<1> HIDE DEF raw, filters
<1>5. \A d \in Docs : d \in Matching(AnyType, filters)
                        <=> Live(d) /\ Passes(d, f, Atomics(c))
  BY <1>2, <1>3 DEF Matching, LiveDocs
<1> QED
  BY <1>4, <1>5 DEF raw

\* What a query promises of one condition and one document.
Answers(d, f, c) ==
  /\ ~Spans(d, f, c) =>
       (d \in FindDocuments(AnyType, Only(f, c)).results <=>
          /\ files[d] # NoFile /\ Indexed(d, f)
          /\ \E i \in DOMAIN files[d][f] : Meets(d, f, files[d][f][i], c))
  /\ c.op = "eq" /\ VerifyField(d, f, c.value.text) /\ Indexed(d, f) =>
       d \in FindDocuments(AnyType, Only(f, c)).results

LEMMA CleanAnswers ==
  ASSUME Inv, Clean, NEW d \in Docs, NEW f \in Names, NEW c \in Conditions,
         FindDocuments(AnyType, Only(f, c)).ok
  PROVE  Answers(d, f, c)
<1> DEFINE found == d \in FindDocuments(AnyType, Only(f, c)).results
           items == files[d][f]
<1>1. found <=> Live(d) /\ Passes(d, f, Atomics(c))
  BY FoundByOne
<1>2. Live(d) <=> files[d] # NoFile
  BY CleanRows
<1>3. ASSUME Live(d), Indexed(d, f)
      PROVE  /\ files[d] \in Contents[d]
             /\ items \in Seq(Texts) /\ \A i \in DOMAIN items : items[i] \in Texts
             /\ DOMAIN db.fields[d][f] = DOMAIN items
             /\ \A i \in DOMAIN items : db.fields[d][f][i] = Cell(d, f, items[i])
  <2>1. files[d] \in Contents[d] /\ db.fields[d] = FieldIndex(d, files[d])
    BY <1>3, CleanRows DEF AllOf
  <2>2. items \in Seq(Texts) /\ \A i \in DOMAIN items : items[i] \in Texts
    BY <2>1, Frontmatter
  <2>3. db.fields[d][f] = [i \in DOMAIN items |-> Cell(d, f, items[i])]
    BY <1>3, <2>1 DEF FieldIndex
  <2> QED
    BY <2>1, <2>2, <2>3
<1>4. ASSUME Live(d), ~Indexed(d, f)
      PROVE  ~Passes(d, f, Atomics(c))
  <2>1. db.fields[d][f] = <<>>
    BY <1>4, CleanRows DEF AllOf, FieldIndex
  <2>2. DOMAIN db.fields[d][f] = {}
    BY <2>1
  <2>3. \E a : a \in Atomics(c)
    BY DEF Atomics
  <2> QED
    BY <2>2, <2>3 DEF Passes
<1>5. ASSUME Live(d), Indexed(d, f), c.op # "between"
      PROVE  Passes(d, f, Atomics(c)) <=> \E i \in DOMAIN items : Meets(d, f, items[i], c)
  <2>1. Atomics(c) = {c}
    BY <1>5 DEF Atomics
  <2>2. Passes(d, f, Atomics(c))
          <=> \E i \in DOMAIN items : Satisfies(Cell(d, f, items[i]), c)
    BY <1>3, <1>5, <2>1 DEF Passes
  <2>3. \A i \in DOMAIN items : Satisfies(Cell(d, f, items[i]), c) <=> Meets(d, f, items[i], c)
    BY <1>3, <1>5, CellMeets
  <2> QED
    BY <2>2, <2>3
<1>6. ASSUME Live(d), Indexed(d, f), c.op = "between", ~Spans(d, f, c)
      PROVE  Passes(d, f, Atomics(c)) <=> \E i \in DOMAIN items : Meets(d, f, items[i], c)
  <2>1. Schema[TypeOf[d]][f].kind \in {"string", "number", "ref"}
    <3>1. Schema[TypeOf[d]][f].kind \in Kinds
      BY NamesAssumption, SchemaAssumption
    <3> QED
      BY <1>6, <3>1 DEF Indexed, Spans, Kinds
  <2>2. Len(items) <= 1
    BY <1>3, <1>6, <2>1, ScalarsAssumption
  <2>3. Len(items) \in Nat /\ DOMAIN items = 1..Len(items)
    BY <1>3, <1>6
  <2>4. \A i, j \in DOMAIN items : i = j
    BY <2>2, <2>3
  <2>5. \A i \in DOMAIN items : Meets(d, f, items[i], c)
                                  <=> \A a \in Atomics(c) : Satisfies(Cell(d, f, items[i]), a)
    BY <1>3, <1>6, BetweenMeets
  <2>6. Passes(d, f, Atomics(c))
          <=> \A a \in Atomics(c) : \E i \in DOMAIN items : Satisfies(Cell(d, f, items[i]), a)
    BY <1>3, <1>6 DEF Passes
  <2>7. \E a : a \in Atomics(c)
    BY DEF Atomics
  <2> QED
    BY <2>4, <2>5, <2>6, <2>7
<1>7. ~Spans(d, f, c) =>
        (found <=> /\ files[d] # NoFile /\ Indexed(d, f)
                   /\ \E i \in DOMAIN items : Meets(d, f, items[i], c))
  BY <1>1, <1>2, <1>4, <1>5, <1>6
<1>8. c.op = "eq" /\ VerifyField(d, f, c.value.text) /\ Indexed(d, f) => found
  <2> SUFFICES ASSUME c.op = "eq", VerifyField(d, f, c.value.text), Indexed(d, f)
               PROVE  found
    OBVIOUS
  <2>1. ~Spans(d, f, c)
    BY DEF Spans
  <2>2. items = <<c.value.text>> /\ files[d] # NoFile
    BY DEF VerifyField
  <2>3. 1 \in DOMAIN items /\ items[1] = c.value.text
    BY <2>2
  <2>4. Meets(d, f, items[1], c)
    BY <2>3 DEF Meets
  <2> QED
    BY <1>7, <2>1, <2>2, <2>3, <2>4
<1> QED
  BY <1>7, <1>8 DEF Answers

\* When the sweep finds no drift, maad_query answers one condition on one field
\* with the documents whose frontmatter meets it, and maad_verify grounds no value
\* that an eq query misses: findDocuments and buildFilterSQL
\* (src/src/backend/sqlite/index.ts) and verifyField (src/src/engine/reads.ts).
THEOREM FindMatchesHolds == Spec => []FindMatchesFrontmatter
<1>1. Inv => FindMatchesFrontmatter
  <2> SUFFICES ASSUME Inv, Clean, NEW f \in Names, NEW c \in Conditions,
                      FindDocuments(AnyType, Only(f, c)).ok
               PROVE  /\ \A d \in Docs :
                           ~Spans(d, f, c) =>
                             (d \in FindDocuments(AnyType, Only(f, c)).results <=>
                                /\ files[d] # NoFile /\ Indexed(d, f)
                                /\ \E i \in DOMAIN files[d][f] : Meets(d, f, files[d][f][i], c))
                      /\ c.op = "eq" =>
                           \A d \in Docs : VerifyField(d, f, c.value.text) /\ Indexed(d, f) =>
                             d \in FindDocuments(AnyType, Only(f, c)).results
    BY DEF FindMatchesFrontmatter
  <2>1. \A d \in Docs : Answers(d, f, c)
    BY CleanAnswers
  <2> QED
    BY <2>1 DEF Answers
<1> QED
  BY <1>1, InvHolds, PTL

(* ---- Sums ---------------------------------------------------------------------- *)

\* A set of numbers has a least one.
LEMMA LeastNat ==
  ASSUME NEW T, T \subseteq Nat, T # {}
  PROVE  \E n \in T : \A m \in T : n <= m
<1> DEFINE R == OpToRel(<, Nat)
<1>1. IsWellFoundedOn(R, Nat)
  BY NatLessThanWellFounded, Zenon
<1> HIDE DEF R
<1>2. \E n \in T : \A m \in T : ~(<<m, n>> \in R)
  BY <1>1, WFMin, Zenon
<1>3. PICK n \in T : \A m \in T : ~(<<m, n>> \in R)
  BY <1>2
<1>4. ASSUME NEW m \in T
      PROVE  n <= m
  <2>1. m \in Nat /\ n \in Nat
    OBVIOUS
  <2>2. m < n => <<m, n>> \in R
    BY <2>1, Zenon DEF OpToRel, R
  <2>3. ~(m < n)
    BY <1>3, <2>2, Zenon
  <2> QED
    BY <2>1, <2>3
<1> QED
  BY <1>4

\* Induction over the subsets of a finite set, in a form without an operator:
\* a family of them that has {} and grows by one element has them all.
LEMMA FamilyInduction ==
  ASSUME NEW S, IsFiniteSet(S), NEW G, {} \in G,
         \A U \in SUBSET S : U # {} /\ (\A x \in U : U \ {x} \in G) => U \in G
  PROVE  \A U \in SUBSET S : U \in G
<1> SUFFICES ASSUME NEW V \in SUBSET S, V \notin G PROVE FALSE
  OBVIOUS
<1> DEFINE Bad == {n \in Nat : \E U \in SUBSET S : Cardinality(U) = n /\ U \notin G}
<1>1. \A U \in SUBSET S : IsFiniteSet(U) /\ Cardinality(U) \in Nat
  BY FS_Subset, FS_CardinalityType
<1>2. Bad \subseteq Nat /\ Bad # {}
  BY <1>1
<1>3. PICK n \in Bad : \A m \in Bad : n <= m
  BY <1>2, LeastNat
<1>4. PICK U \in SUBSET S : Cardinality(U) = n /\ U \notin G
  BY <1>3
<1>5. ASSUME NEW x \in U PROVE U \ {x} \in G
  <2>1. Cardinality(U \ {x}) = n - 1 /\ U \ {x} \in SUBSET S
    BY <1>1, <1>4, FS_RemoveElement
  <2>2. Cardinality(U \ {x}) \in Nat
    BY <1>1, <2>1
  <2>3. ~(n <= n - 1)
    BY <1>3
  <2> QED
    BY <1>3, <2>1, <2>2, <2>3
<1> QED
  BY <1>4, <1>5

\* g adds up f over the subsets of S, in whatever order.
Adds(g, f, S) ==
  /\ g \in [SUBSET S -> Int]
  /\ g[{}] = 0
  /\ \A U \in SUBSET S : \A x \in U : g[U] = f[x] + g[U \ {x}]

LEMMA AdderStep ==
  ASSUME NEW U, NEW x \in U, NEW f, NEW h, Adds(h, f, U \ {x}),
         \A y \in U : f[y] \in Int
  PROVE  \E g : Adds(g, f, U)
<1> DEFINE g == [T \in SUBSET U |-> IF x \in T THEN f[x] + h[T \ {x}] ELSE h[T]]
<1>1. \A T \in SUBSET U : T \ {x} \in SUBSET (U \ {x}) /\ h[T \ {x}] \in Int
  BY DEF Adds
<1>2. \A T \in SUBSET U : x \notin T => T \in SUBSET (U \ {x}) /\ h[T] \in Int
  BY DEF Adds
<1>3. g \in [SUBSET U -> Int]
  <2>1. \A T \in SUBSET U : (IF x \in T THEN f[x] + h[T \ {x}] ELSE h[T]) \in Int
    <3>1. ASSUME NEW T \in SUBSET U, x \in T PROVE f[x] + h[T \ {x}] \in Int
      BY <1>1
    <3> QED
      BY <1>2, <3>1
  <2> QED
    BY <2>1
<1>4. g[{}] = 0
  BY DEF Adds
<1>5. ASSUME NEW T \in SUBSET U, NEW y \in T
      PROVE  g[T] = f[y] + g[T \ {y}]
  <2>1. CASE y = x
    BY <2>1
  <2>2. CASE y # x /\ x \notin T
    <3>1. T \in SUBSET (U \ {x}) /\ T \ {y} \in SUBSET U /\ x \notin T \ {y}
      BY <2>2
    <3>2. h[T] = f[y] + h[T \ {y}]
      BY <3>1 DEF Adds
    <3> QED
      BY <2>2, <3>1, <3>2
  <2>3. CASE y # x /\ x \in T
    <3>1. y \in T \ {x} /\ T \ {x} \in SUBSET (U \ {x})
      BY <2>3
    <3>2. h[T \ {x}] = f[y] + h[(T \ {x}) \ {y}]
      BY <3>1 DEF Adds
    <3>3. (T \ {x}) \ {y} = (T \ {y}) \ {x} /\ T \ {y} \in SUBSET U /\ x \in T \ {y}
      BY <2>3
    <3>4. g[T] = f[x] + h[T \ {x}] /\ g[T \ {y}] = f[x] + h[(T \ {y}) \ {x}]
      BY <2>3, <3>3
    <3>5. f[x] \in Int /\ f[y] \in Int /\ h[(T \ {y}) \ {x}] \in Int
      BY <1>1, <3>3
    <3> HIDE DEF g
    <3> DEFINE rest == h[(T \ {y}) \ {x}]
    <3>6. h[T \ {x}] = f[y] + rest
      BY <3>2, <3>3, Zenon
    <3>7. g[T] = f[x] + (f[y] + rest) /\ g[T \ {y}] = f[x] + rest
      BY <3>4, <3>6, Zenon
    <3>8. rest \in Int
      BY <3>5
    <3> HIDE DEF rest
    <3>9. f[x] + (f[y] + rest) = f[y] + (f[x] + rest)
      BY <3>5, <3>8
    <3> QED
      BY <3>7, <3>9, Zenon
  <2> QED
    BY <2>1, <2>2, <2>3
<1> HIDE DEF g
<1> QED
  BY <1>3, <1>4, <1>5 DEF Adds

LEMMA AdderExists ==
  ASSUME NEW S, IsFiniteSet(S), NEW f, \A x \in S : f[x] \in Int
  PROVE  \E g : Adds(g, f, S)
<1> DEFINE G == {U \in SUBSET S : \E g : Adds(g, f, U)}
<1>1. {} \in G
  <2> DEFINE zero == [U \in SUBSET {} |-> 0]
  <2>1. Adds(zero, f, {})
    BY DEF Adds
  <2> QED
    BY <2>1
<1>2. ASSUME NEW U \in SUBSET S, U # {}, \A x \in U : U \ {x} \in G
      PROVE  U \in G
  <2>1. PICK x \in U : TRUE
    BY <1>2
  <2>2. PICK h : Adds(h, f, U \ {x})
    BY <1>2, <2>1
  <2>3. \A y \in U : f[y] \in Int
    OBVIOUS
  <2>4. \E g : Adds(g, f, U)
    BY <2>1, <2>2, <2>3, AdderStep
  <2> QED
    BY <2>4
<1> HIDE DEF G
<1>3. \A U \in SUBSET S : U # {} /\ (\A x \in U : U \ {x} \in G) => U \in G
  BY <1>2, Zenon
<1>4. \A U \in SUBSET S : U \in G
  BY <1>1, <1>3, FamilyInduction, Zenon
<1>5. S \in SUBSET S
  OBVIOUS
<1> QED
  BY <1>4, <1>5 DEF G

\* The function that SumFunctionOnSet folds with.
Iterates(it, f, S) ==
  it = [s \in SUBSET S |-> IF s = {} THEN 0
                           ELSE LET x == CHOOSE y \in s : TRUE IN f[x] + it[s \ {x}]]

LEMMA SumUnfold ==
  ASSUME NEW f, NEW S
  PROVE  SumFunctionOnSet(f, S) = (CHOOSE it : Iterates(it, f, S))[S]
BY DEF SumFunctionOnSet, FoldFunctionOnSet, MapThenFoldSet, Iterates

LEMMA SumIsAdded ==
  ASSUME NEW S, IsFiniteSet(S), NEW f, NEW g, Adds(g, f, S)
  PROVE  SumFunctionOnSet(f, S) = g[S]
<1>1. Iterates(g, f, S)
  <2> DEFINE body(s) == IF s = {} THEN 0
                        ELSE LET x == CHOOSE y \in s : TRUE IN f[x] + g[s \ {x}]
  <2>1. ASSUME NEW s \in SUBSET S
        PROVE  g[s] = body(s)
    <3>1. CASE s = {}
      BY <3>1 DEF Adds
    <3>2. CASE s # {}
      <4>1. (CHOOSE y \in s : TRUE) \in s
        BY <3>2
      <4> QED
        BY <3>2, <4>1 DEF Adds
    <3> QED
      BY <3>1, <3>2
  <2>2. g = [s \in SUBSET S |-> g[s]]
    BY DEF Adds
  <2> HIDE DEF body
  <2>3. g = [s \in SUBSET S |-> body(s)]
    BY <2>1, <2>2
  <2> QED
    BY <2>3 DEF body, Iterates
<1>2. PICK it : it = CHOOSE i : Iterates(i, f, S)
  OBVIOUS
<1>3. Iterates(it, f, S)
  BY <1>1, <1>2, Zenon
<1>4. \A s \in SUBSET S :
        it[s] = IF s = {} THEN 0 ELSE LET x == CHOOSE y \in s : TRUE IN f[x] + it[s \ {x}]
  BY <1>3 DEF Iterates
<1> DEFINE G == {s \in SUBSET S : it[s] = g[s]}
<1>5. {} \in G
  BY <1>4 DEF Adds
<1>6. ASSUME NEW U \in SUBSET S, U # {}, \A x \in U : U \ {x} \in G
      PROVE  U \in G
  <2>1. PICK x \in U : x = CHOOSE y \in U : TRUE
    BY <1>6
  <2>2. it[U] = f[x] + it[U \ {x}]
    BY <1>4, <1>6, <2>1
  <2>3. g[U] = f[x] + g[U \ {x}]
    BY DEF Adds
  <2>4. it[U \ {x}] = g[U \ {x}]
    BY <1>6
  <2> QED
    BY <2>2, <2>3, <2>4
<1> HIDE DEF G
<1>7. \A U \in SUBSET S : U # {} /\ (\A x \in U : U \ {x} \in G) => U \in G
  BY <1>6, Zenon
<1>8. \A U \in SUBSET S : U \in G
  BY <1>5, <1>7, FamilyInduction, Zenon
<1>9. S \in SUBSET S
  OBVIOUS
<1> QED
  BY <1>2, <1>8, <1>9, SumUnfold DEF G

\* A sum is that of one element and of the others.
LEMMA SumSteps ==
  ASSUME NEW S, IsFiniteSet(S), NEW f, \A x \in S : f[x] \in Int
  PROVE  /\ SumFunctionOnSet(f, {}) = 0
         /\ SumFunctionOnSet(f, S) \in Int
         /\ \A x \in S : SumFunctionOnSet(f, S) = f[x] + SumFunctionOnSet(f, S \ {x})
<1>1. PICK g : Adds(g, f, S)
  BY AdderExists
<1>2. SumFunctionOnSet(f, S) = g[S] /\ g[S] \in Int
  <2>1. g[S] \in Int
    BY <1>1 DEF Adds
  <2>2. SumFunctionOnSet(f, S) = g[S]
    BY <1>1, SumIsAdded
  <2> QED
    BY <2>1, <2>2
<1>3. ASSUME NEW T \in SUBSET S
      PROVE  SumFunctionOnSet(f, T) = g[T]
  <2> DEFINE h == [U \in SUBSET T |-> g[U]]
  <2>1. \A U \in SUBSET T : U \in SUBSET S /\ g[U] \in Int
    BY <1>1 DEF Adds
  <2>2. Adds(h, f, T)
    <3>1. h \in [SUBSET T -> Int] /\ h[{}] = 0
      BY <1>1, <2>1 DEF Adds
    <3>2. ASSUME NEW U \in SUBSET T, NEW x \in U
          PROVE  h[U] = f[x] + h[U \ {x}]
      <4>1. g[U] = f[x] + g[U \ {x}]
        BY <1>1, <2>1 DEF Adds
      <4>2. h[U] = g[U] /\ h[U \ {x}] = g[U \ {x}]
        OBVIOUS
      <4> QED
        BY <4>1, <4>2
    <3> HIDE DEF h
    <3> QED
      BY <3>1, <3>2 DEF Adds
  <2>3. IsFiniteSet(T)
    BY FS_Subset
  <2> HIDE DEF h
  <2>4. SumFunctionOnSet(f, T) = h[T]
    BY <2>2, <2>3, SumIsAdded
  <2> QED
    BY <2>4 DEF h
<1>4. SumFunctionOnSet(f, {}) = 0
  BY <1>1, <1>3 DEF Adds
<1>5. \A x \in S : SumFunctionOnSet(f, S) = f[x] + SumFunctionOnSet(f, S \ {x})
  BY <1>1, <1>2, <1>3 DEF Adds
<1> QED
  BY <1>2, <1>4, <1>5

\* Elements that count for nothing can be left out of a sum.
LEMMA SumSupport ==
  ASSUME NEW S, IsFiniteSet(S), NEW T \in SUBSET S, NEW f, NEW g,
         \A x \in S : f[x] \in Int,
         \A x \in T : g[x] = f[x],
         \A x \in S \ T : f[x] = 0
  PROVE  SumFunctionOnSet(f, S) = SumFunctionOnSet(g, T)
<1> DEFINE G == {U \in SUBSET S : SumFunctionOnSet(f, U) = SumFunctionOnSet(g, U \intersect T)}
<1>1. \A U \in SUBSET S : IsFiniteSet(U) /\ \A x \in U : f[x] \in Int
  BY FS_Subset
<1>2. \A U \in SUBSET T : IsFiniteSet(U) /\ \A x \in U : g[x] \in Int
  BY FS_Subset
<1>3. SumFunctionOnSet(f, {}) = 0 /\ SumFunctionOnSet(g, {}) = 0
  BY SumSteps, FS_EmptySet
<1>4. {} \in G
  <2>1. {} \intersect T = {}
    OBVIOUS
  <2> QED
    BY <1>3, <2>1
<1>5. ASSUME NEW U \in SUBSET S, U # {}, \A x \in U : U \ {x} \in G
      PROVE  U \in G
  <2>1. PICK x \in U : TRUE
    BY <1>5
  <2>2. SumFunctionOnSet(f, U) = f[x] + SumFunctionOnSet(f, U \ {x})
    BY <1>1, SumSteps
  <2>3. SumFunctionOnSet(f, U \ {x}) = SumFunctionOnSet(g, (U \ {x}) \intersect T)
    BY <1>5
  <2>4. SumFunctionOnSet(g, (U \ {x}) \intersect T) \in Int
    <3>1. (U \ {x}) \intersect T \in SUBSET T
      OBVIOUS
    <3> QED
      BY <1>2, <3>1, SumSteps
  <2>5. CASE x \in T
    <3>1. /\ U \intersect T \in SUBSET T /\ x \in U \intersect T
          /\ (U \intersect T) \ {x} = (U \ {x}) \intersect T
      BY <2>5
    <3>2. SumFunctionOnSet(g, U \intersect T)
            = g[x] + SumFunctionOnSet(g, (U \intersect T) \ {x})
      BY <1>2, <3>1, SumSteps
    <3>3. g[x] = f[x]
      BY <2>5
    <3>4. SumFunctionOnSet(f, U) = SumFunctionOnSet(g, U \intersect T)
      BY <2>2, <2>3, <3>1, <3>2, <3>3
    <3> QED
      BY <3>4
  <2>6. CASE x \notin T
    <3>1. (U \ {x}) \intersect T = U \intersect T
      BY <2>6
    <3>2. f[x] = 0
      BY <2>6
    <3>3. SumFunctionOnSet(f, U) = SumFunctionOnSet(f, U \ {x})
      BY <2>2, <2>3, <2>4, <3>2
    <3>4. SumFunctionOnSet(f, U) = SumFunctionOnSet(g, U \intersect T)
      BY <2>3, <3>1, <3>3
    <3> QED
      BY <3>4
  <2> QED
    BY <2>5, <2>6
<1> HIDE DEF G
<1>6. \A U \in SUBSET S : U # {} /\ (\A x \in U : U \ {x} \in G) => U \in G
  BY <1>5, Zenon
<1>7. \A U \in SUBSET S : U \in G
  BY <1>4, <1>6, FamilyInduction, Zenon
<1>8. S \in SUBSET S /\ S \intersect T = T
  OBVIOUS
<1> QED
  BY <1>7, <1>8 DEF G

\* Two functions that agree on a set have one sum over it.
LEMMA SumSame ==
  ASSUME NEW S, IsFiniteSet(S), NEW f, NEW g, \A x \in S : f[x] \in Int /\ g[x] = f[x]
  PROVE  SumFunctionOnSet(f, S) = SumFunctionOnSet(g, S)
<1>1. S \in SUBSET S /\ \A x \in S \ S : f[x] = 0
  OBVIOUS
<1> QED
  BY <1>1, SumSupport

LEMMA SumUnion ==
  ASSUME NEW A, IsFiniteSet(A), NEW B, IsFiniteSet(B), A \intersect B = {}, NEW f,
         \A x \in A \union B : f[x] \in Int
  PROVE  SumFunctionOnSet(f, A \union B) = SumFunctionOnSet(f, A) + SumFunctionOnSet(f, B)
<1> DEFINE G == {U \in SUBSET B :
                   SumFunctionOnSet(f, A \union U) = SumFunctionOnSet(f, A) + SumFunctionOnSet(f, U)}
<1>1. \A U \in SUBSET B : /\ IsFiniteSet(U) /\ IsFiniteSet(A \union U)
                          /\ \A x \in A \union U : f[x] \in Int
  BY FS_Subset, FS_Union
<1>2. \A U \in SUBSET B : SumFunctionOnSet(f, U) \in Int
  BY <1>1, SumSteps
<1>3. SumFunctionOnSet(f, {}) = 0 /\ SumFunctionOnSet(f, A) \in Int
  BY SumSteps
<1>4. {} \in G
  <2>1. A \union {} = A
    OBVIOUS
  <2> QED
    BY <1>3, <2>1
<1>5. ASSUME NEW U \in SUBSET B, U # {}, \A x \in U : U \ {x} \in G
      PROVE  U \in G
  <2>1. PICK x \in U : TRUE
    BY <1>5
  <2>2. (A \union U) \ {x} = A \union (U \ {x}) /\ x \in A \union U
    OBVIOUS
  <2>3. SumFunctionOnSet(f, A \union U) = f[x] + SumFunctionOnSet(f, A \union (U \ {x}))
    <3> DEFINE W == A \union U
    <3>1. IsFiniteSet(W) /\ (\A y \in W : f[y] \in Int) /\ x \in W
      BY <1>1, <2>2
    <3> HIDE DEF W
    <3>2. SumFunctionOnSet(f, W) = f[x] + SumFunctionOnSet(f, W \ {x})
      BY <3>1, SumSteps
    <3> QED
      BY <2>2, <3>2 DEF W
  <2>4. SumFunctionOnSet(f, U) = f[x] + SumFunctionOnSet(f, U \ {x})
    BY <1>1, SumSteps
  <2>5. SumFunctionOnSet(f, A \union (U \ {x}))
          = SumFunctionOnSet(f, A) + SumFunctionOnSet(f, U \ {x})
    BY <1>5
  <2>6. f[x] \in Int /\ SumFunctionOnSet(f, U \ {x}) \in Int
    <3>1. U \ {x} \in SUBSET B
      OBVIOUS
    <3> QED
      BY <1>2, <3>1
  <2>7. SumFunctionOnSet(f, A \union U) = SumFunctionOnSet(f, A) + SumFunctionOnSet(f, U)
    BY <1>3, <2>3, <2>4, <2>5, <2>6
  <2> QED
    BY <2>7
<1> HIDE DEF G
<1>6. \A U \in SUBSET B : U # {} /\ (\A x \in U : U \ {x} \in G) => U \in G
  BY <1>5, Zenon
<1>7. \A U \in SUBSET B : U \in G
  BY <1>4, <1>6, FamilyInduction, Zenon
<1>8. B \in SUBSET B
  OBVIOUS
<1> QED
  BY <1>7, <1>8 DEF G

\* A sum is that of the sums of its groups.
Grouped(S, V, key, f, F) ==
  /\ \A x \in S : key[x] \in V /\ f[x] \in Int
  /\ \A v \in V : F[v] = SumFunctionOnSet(f, {x \in S : key[x] = v})

LEMMA SumFibers ==
  ASSUME NEW S, IsFiniteSet(S), NEW V, IsFiniteSet(V), NEW key, NEW f, NEW F,
         Grouped(S, V, key, f, F)
  PROVE  SumFunctionOnSet(F, V) = SumFunctionOnSet(f, S)
<1> DEFINE of(U) == {x \in S : key[x] \in U}
           with(v) == {x \in S : key[x] = v}
           G == {U \in SUBSET V : SumFunctionOnSet(F, U) = SumFunctionOnSet(f, of(U))}
<1>g. \A x \in S : key[x] \in V /\ f[x] \in Int
  BY DEF Grouped
<1>1. \A T \in SUBSET S : /\ IsFiniteSet(T) /\ \A x \in T : f[x] \in Int
                          /\ SumFunctionOnSet(f, T) \in Int
  <2> SUFFICES ASSUME NEW T \in SUBSET S
               PROVE  /\ IsFiniteSet(T) /\ \A x \in T : f[x] \in Int
                      /\ SumFunctionOnSet(f, T) \in Int
    OBVIOUS
  <2>1. IsFiniteSet(T) /\ \A x \in T : f[x] \in Int
    BY <1>g, FS_Subset
  <2> QED
    BY <2>1, SumSteps
<1>2. \A v \in V : F[v] = SumFunctionOnSet(f, with(v)) /\ F[v] \in Int
  BY <1>1 DEF Grouped
<1>3. \A U \in SUBSET V : IsFiniteSet(U) /\ \A v \in U : F[v] \in Int
  BY <1>2, FS_Subset
<1>4. {} \in G
  <2>1. of({}) = {}
    OBVIOUS
  <2>2. SumFunctionOnSet(F, {}) = 0 /\ SumFunctionOnSet(f, {}) = 0
    BY <1>1, <1>3, SumSteps
  <2> QED
    BY <2>1, <2>2
<1>5. ASSUME NEW U \in SUBSET V, U # {}, \A v \in U : U \ {v} \in G
      PROVE  U \in G
  <2>1. PICK v \in U : TRUE
    BY <1>5
  <2>2. SumFunctionOnSet(F, U) = F[v] + SumFunctionOnSet(F, U \ {v})
    BY <1>3, SumSteps
  <2>3. SumFunctionOnSet(F, U \ {v}) = SumFunctionOnSet(f, of(U \ {v}))
    BY <1>5
  <2>4. /\ of(U) = of(U \ {v}) \union with(v)
        /\ of(U \ {v}) \intersect with(v) = {}
        /\ of(U \ {v}) \in SUBSET S /\ with(v) \in SUBSET S
    OBVIOUS
  <2> HIDE DEF of, with
  <2>5. SumFunctionOnSet(f, of(U))
          = SumFunctionOnSet(f, of(U \ {v})) + SumFunctionOnSet(f, with(v))
    <3> DEFINE P == of(U \ {v})
               Q == with(v)
    <3>1. /\ IsFiniteSet(P) /\ IsFiniteSet(Q) /\ P \intersect Q = {}
          /\ \A x \in P \union Q : f[x] \in Int
      BY <1>1, <2>4
    <3> HIDE DEF P, Q
    <3>2. SumFunctionOnSet(f, P \union Q) = SumFunctionOnSet(f, P) + SumFunctionOnSet(f, Q)
      BY <3>1, SumUnion
    <3> QED
      BY <2>4, <3>2 DEF P, Q
  <2>6. F[v] = SumFunctionOnSet(f, with(v)) /\ F[v] \in Int
    BY <1>2
  <2>7. SumFunctionOnSet(f, of(U \ {v})) \in Int
    BY <1>1, <2>4
  <2>8. SumFunctionOnSet(F, U) = SumFunctionOnSet(f, of(U))
    BY <2>2, <2>3, <2>5, <2>6, <2>7
  <2> QED
    BY <2>8
<1>6. of(V) = S
  BY <1>g
<1> HIDE DEF G
<1>7. \A U \in SUBSET V : U # {} /\ (\A v \in U : U \ {v} \in G) => U \in G
  BY <1>5, Zenon
<1>8. \A U \in SUBSET V : U \in G
  BY <1>4, <1>7, FamilyInduction, Zenon
<1>9. V \in SUBSET V
  OBVIOUS
<1> QED
  BY <1>6, <1>8, <1>9 DEF G

LEMMA ImageFinite ==
  ASSUME NEW S, IsFiniteSet(S), NEW b, NEW T,
         \A x \in S : b[x] \in T, \A y \in T : \E x \in S : y = b[x]
  PROVE  IsFiniteSet(T)
<1> DEFINE onto == [x \in S |-> b[x]]
<1>1. onto \in Surjection(S, T)
  BY DEF Surjection
<1> HIDE DEF onto
<1> QED
  BY <1>1, FS_Surjection

\* Renaming what is added up does not change a sum.
LEMMA SumRenamed ==
  ASSUME NEW S, IsFiniteSet(S), NEW b, NEW f, NEW g,
         \A x \in S : f[x] \in Int /\ g[b[x]] = f[x],
         \A x, y \in S : b[x] = b[y] => x = y
  PROVE  SumFunctionOnSet(g, {b[x] : x \in S}) = SumFunctionOnSet(f, S)
<1> DEFINE im(U) == {b[x] : x \in U}
           G == {U \in SUBSET S : SumFunctionOnSet(g, im(U)) = SumFunctionOnSet(f, U)}
<1>1. \A U \in SUBSET S : IsFiniteSet(U) /\ \A x \in U : f[x] \in Int
  BY FS_Subset
<1>2. ASSUME NEW U \in SUBSET S
      PROVE  IsFiniteSet(im(U)) /\ \A y \in im(U) : g[y] \in Int
  <2>1. IsFiniteSet(im(U))
    <3>1. IsFiniteSet(U)
      BY <1>1
    <3>2. (\A x \in U : b[x] \in im(U)) /\ (\A y \in im(U) : \E x \in U : y = b[x])
      OBVIOUS
    <3> HIDE DEF im
    <3> QED
      BY <3>1, <3>2, ImageFinite
  <2>2. \A y \in im(U) : g[y] \in Int
    OBVIOUS
  <2> QED
    BY <2>1, <2>2
<1>3. {} \in G
  <2>1. im({}) = {}
    OBVIOUS
  <2>2. SumFunctionOnSet(g, {}) = 0 /\ SumFunctionOnSet(f, {}) = 0
    BY SumSteps, FS_EmptySet
  <2> QED
    BY <2>1, <2>2
<1>4. ASSUME NEW U \in SUBSET S, U # {}, \A x \in U : U \ {x} \in G
      PROVE  U \in G
  <2>1. PICK x \in U : TRUE
    BY <1>4
  <2>2. SumFunctionOnSet(f, U) = f[x] + SumFunctionOnSet(f, U \ {x})
    BY <1>1, SumSteps
  <2>3. SumFunctionOnSet(g, im(U \ {x})) = SumFunctionOnSet(f, U \ {x})
    BY <1>4
  <2>4. im(U) \ {b[x]} = im(U \ {x}) /\ b[x] \in im(U) /\ g[b[x]] = f[x]
    OBVIOUS
  <2> HIDE DEF im
  <2>5. SumFunctionOnSet(g, im(U)) = g[b[x]] + SumFunctionOnSet(g, im(U) \ {b[x]})
    BY <1>2, <2>4, SumSteps
  <2>6. SumFunctionOnSet(g, im(U)) = SumFunctionOnSet(f, U)
    BY <2>2, <2>3, <2>4, <2>5
  <2> QED
    BY <2>6
<1> HIDE DEF G
<1>5. \A U \in SUBSET S : U # {} /\ (\A x \in U : U \ {x} \in G) => U \in G
  BY <1>4, Zenon
<1>6. \A U \in SUBSET S : U \in G
  BY <1>3, <1>5, FamilyInduction, Zenon
<1>7. S \in SUBSET S
  OBVIOUS
<1> QED
  BY <1>6, <1>7 DEF G

\* A count is a sum of ones.
LEMMA CardIsSum ==
  ASSUME NEW S, IsFiniteSet(S), NEW one, \A x \in S : one[x] = 1
  PROVE  Cardinality(S) = SumFunctionOnSet(one, S)
<1> DEFINE G == {U \in SUBSET S : Cardinality(U) = SumFunctionOnSet(one, U)}
<1>1. \A U \in SUBSET S : /\ IsFiniteSet(U) /\ \A x \in U : one[x] \in Int
                          /\ Cardinality(U) \in Nat
  BY FS_Subset, FS_CardinalityType
<1>2. {} \in G
  <2>1. SumFunctionOnSet(one, {}) = 0
    BY SumSteps, FS_EmptySet
  <2> QED
    BY <2>1, FS_EmptySet
<1>3. ASSUME NEW U \in SUBSET S, U # {}, \A x \in U : U \ {x} \in G
      PROVE  U \in G
  <2>1. PICK x \in U : TRUE
    BY <1>3
  <2>2. SumFunctionOnSet(one, U) = 1 + SumFunctionOnSet(one, U \ {x})
    BY <1>1, SumSteps
  <2>3. Cardinality(U \ {x}) = Cardinality(U) - 1
    BY <1>1, FS_RemoveElement
  <2>4. Cardinality(U \ {x}) = SumFunctionOnSet(one, U \ {x})
    BY <1>3
  <2>5. Cardinality(U) = SumFunctionOnSet(one, U)
    BY <1>1, <2>2, <2>3, <2>4
  <2> QED
    BY <2>5
<1> HIDE DEF G
<1>4. \A U \in SUBSET S : U # {} /\ (\A x \in U : U \ {x} \in G) => U \in G
  BY <1>3, Zenon
<1>5. \A U \in SUBSET S : U \in G
  BY <1>2, <1>4, FamilyInduction, Zenon
<1>6. S \in SUBSET S
  OBVIOUS
<1> QED
  BY <1>5, <1>6 DEF G

(* ---- Links --------------------------------------------------------------------- *)

Fields == Names \union {Body}
Linked(d, f) == f = Body \/ IsRef(d, f)
Has(d, f, t) == files[d] # NoFile /\ \E i \in DOMAIN files[d][f] : files[d][f][i] = t

\* Without drift, the relationships of a document are the ref fields of its file.
LEMMA RelationItems ==
  ASSUME Inv, Clean, NEW d \in Docs, NEW f \in Fields
  PROVE  /\ files[d] # NoFile /\ Linked(d, f) =>
              db.relations[d][f] = files[d][f] /\ files[d][f] \in Seq(Texts)
         /\ ~(files[d] # NoFile /\ Linked(d, f)) => db.relations[d][f] = <<>>
<1>1. ASSUME files[d] # NoFile
      PROVE  /\ Linked(d, f) => db.relations[d][f] = files[d][f] /\ files[d][f] \in Seq(Texts)
             /\ ~Linked(d, f) => db.relations[d][f] = <<>>
  <2>1. files[d] \in Contents[d] /\ db.relations[d] = Relations(d, files[d])
    BY <1>1, CleanRows DEF AllOf
  <2>2. files[d][f] \in Seq(Texts)
    BY <2>1, Frontmatter DEF Fields
  <2> QED
    BY <2>1, <2>2 DEF Relations, Linked, Fields
<1>2. files[d] = NoFile => db.relations[d][f] = <<>>
  <2>1. files[d] = NoFile => db.relations[d] = NoRelations
    BY CleanRows DEF NothingOf
  <2> QED
    BY <2>1 DEF NoRelations, Fields
<1> QED
  BY <1>1, <1>2

\* A reference from a field is one of its items.
LEMMA RefsItems ==
  ASSUME NEW d, NEW F
  PROVE  /\ \A f \in F : \A i \in DOMAIN db.relations[d][f] : <<f, i>> \in Refs(d, F)
         /\ \A e \in Refs(d, F) : /\ e = <<e[1], e[2]>> /\ e[1] \in F
                                  /\ e[2] \in DOMAIN db.relations[d][e[1]]
BY DEF Refs

LEMMA EdgesItems ==
  ASSUME Inv, Clean, NEW d \in Docs, NEW f \in Fields, NEW t
  PROVE  [field |-> f, target |-> t] \in Edges(d) <=> Linked(d, f) /\ Has(d, f, t)
<1>1. [field |-> f, target |-> t] \in Edges(d)
        <=> \E i \in DOMAIN db.relations[d][f] : db.relations[d][f][i] = t
  <2>1. ASSUME NEW i \in DOMAIN db.relations[d][f], db.relations[d][f][i] = t
        PROVE  [field |-> f, target |-> t] \in Edges(d)
    <3>1. <<f, i>> \in Refs(d, Fields)
      BY RefsItems
    <3> QED
      BY <2>1, <3>1 DEF Edges, Fields
  <2>2. ASSUME [field |-> f, target |-> t] \in Edges(d)
        PROVE  \E i \in DOMAIN db.relations[d][f] : db.relations[d][f][i] = t
    <3>1. PICK e \in Refs(d, Fields) :
            [field |-> f, target |-> t] = [field |-> e[1], target |-> db.relations[d][e[1]][e[2]]]
      BY <2>2 DEF Edges, Fields
    <3>2. f = e[1] /\ t = db.relations[d][e[1]][e[2]]
      BY <3>1
    <3>3. e[2] \in DOMAIN db.relations[d][e[1]]
      BY RefsItems
    <3> QED
      BY <3>2, <3>3
  <2> QED
    BY <2>1, <2>2
<1>2. DOMAIN <<>> = {}
  OBVIOUS
<1>3. CASE files[d] # NoFile /\ Linked(d, f)
  BY <1>1, <1>3, RelationItems DEF Has
<1>4. CASE ~(files[d] # NoFile /\ Linked(d, f))
  BY <1>1, <1>2, <1>4, RelationItems DEF Has
<1> QED
  BY <1>3, <1>4

\* Every edge is a record of its field and its target.
LEMMA EdgeShape ==
  ASSUME NEW d
  PROVE  \A e \in Edges(d) : e = [field |-> e.field, target |-> e.target] /\ e.field \in Fields
<1> SUFFICES ASSUME NEW e \in Edges(d)
             PROVE  e = [field |-> e.field, target |-> e.target] /\ e.field \in Fields
  OBVIOUS
<1>1. PICK r \in Refs(d, Fields) :
        e = [field |-> r[1], target |-> db.relations[d][r[1]][r[2]]]
  BY DEF Edges, Fields
<1>2. r[1] \in Fields
  BY RefsItems
<1> QED
  BY <1>1, <1>2

\* An edge to another document is listed at both ends.
LEMMA BothEnds ==
  ASSUME Inv, Clean, NEW a \in Docs, NEW f \in Fields, NEW b \in Docs, a # b
  PROVE  /\ [id |-> b, type |-> TypeNow(b), field |-> f] \in Outgoing(a)
              <=> Linked(a, f) /\ Has(a, f, b)
         /\ [id |-> a, type |-> TypeNow(a), field |-> f] \in Incoming(b)
              <=> Linked(a, f) /\ Has(a, f, b)
<1> DEFINE edge == [field |-> f, target |-> b]
           out == [id |-> b, type |-> TypeNow(b), field |-> f]
           in == [id |-> a, type |-> TypeNow(a), field |-> f]
<1>1. edge \in Edges(a) <=> Linked(a, f) /\ Has(a, f, b)
  BY EdgesItems
<1>2. out \in Outgoing(a) <=> edge \in Edges(a)
  <2>1. edge \in Edges(a) => out \in Outgoing(a)
    BY DEF Outgoing
  <2>2. ASSUME out \in Outgoing(a)
        PROVE  edge \in Edges(a)
    <3>1. PICK e \in Edges(a) :
            out = [id |-> e.target, type |-> TypeNow(e.target), field |-> e.field]
      BY <2>2 DEF Outgoing
    <3>2. e.target = b /\ e.field = f
      BY <3>1
    <3> QED
      BY <3>2, EdgeShape
  <2> QED
    BY <2>1, <2>2
<1>3. in \in Incoming(b) <=> edge \in Edges(a)
  <2> DEFINE from(s) == {[id |-> s, type |-> TypeNow(s), field |-> e.field] :
                           e \in {g \in Edges(s) : g.target = b}}
  <2>1. ASSUME edge \in Edges(a)
        PROVE  in \in Incoming(b)
    <3>1. edge.target = b /\ edge.field = f
      OBVIOUS
    <3>2. in \in from(a)
      BY <2>1, <3>1
    <3> HIDE DEF from
    <3>3. in \in UNION {from(s) : s \in Docs \ {b}}
      BY <3>2
    <3> QED
      BY <3>3 DEF Incoming, from
  <2>2. ASSUME in \in Incoming(b)
        PROVE  edge \in Edges(a)
    <3>1. in \in UNION {from(s) : s \in Docs \ {b}}
      BY <2>2 DEF Incoming
    <3> HIDE DEF from
    <3>2. PICK s \in Docs \ {b} : in \in from(s)
      BY <3>1
    <3> USE DEF from
    <3>3. PICK e \in Edges(s) :
            e.target = b /\ in = [id |-> s, type |-> TypeNow(s), field |-> e.field]
      BY <3>2
    <3>4. s = a /\ e.field = f
      BY <3>3
    <3> QED
      BY <3>3, <3>4, EdgeShape
  <2> QED
    BY <2>1, <2>2
<1> QED
  BY <1>1, <1>2, <1>3

\* A document has finitely many references.
LEMMA RefsFinite ==
  ASSUME NEW d, NEW F, IsFiniteSet(F), \A f \in F : IsFiniteSet(DOMAIN db.relations[d][f])
  PROVE  IsFiniteSet(Refs(d, F))
<1> DEFINE G == {U \in SUBSET F : IsFiniteSet(Refs(d, U))}
<1>1. {} \in G
  <2>1. Refs(d, {}) = {}
    BY DEF Refs
  <2> QED
    BY <2>1, FS_EmptySet
<1>2. ASSUME NEW U \in SUBSET F, U # {}, \A x \in U : U \ {x} \in G
      PROVE  U \in G
  <2>1. PICK f \in U : TRUE
    BY <1>2
  <2> DEFINE here == {f} \X (DOMAIN db.relations[d][f])
  <2>2. Refs(d, U) = Refs(d, U \ {f}) \union here
    BY DEF Refs
  <2>3. IsFiniteSet(here)
    BY FS_Singleton, FS_Product
  <2>4. IsFiniteSet(Refs(d, U \ {f}))
    BY <1>2
  <2> HIDE DEF here
  <2>5. IsFiniteSet(Refs(d, U))
    BY <2>2, <2>3, <2>4, FS_Union
  <2> QED
    BY <2>5
<1> HIDE DEF G
<1>3. \A U \in SUBSET F : U # {} /\ (\A x \in U : U \ {x} \in G) => U \in G
  BY <1>2, Zenon
<1>4. \A U \in SUBSET F : U \in G
  BY <1>1, <1>3, FamilyInduction, Zenon
<1>5. F \in SUBSET F
  OBVIOUS
<1> QED
  BY <1>4, <1>5 DEF G

LEMMA DanglingFacts ==
  ASSUME Inv, Clean, NEW d \in Docs
  PROVE  /\ IsFiniteSet(Dangling(d)) /\ Cardinality(Dangling(d)) \in Int
         /\ ~Live(d) => Dangling(d) = {}
         /\ Dangling(d) # {}
              <=> \E f \in Names : /\ IsRef(d, f) /\ files[d] # NoFile
                                   /\ \E i \in DOMAIN files[d][f] : files[d][f][i] \notin OnDisk
<1>1. \A f \in Names : IsFiniteSet(DOMAIN db.relations[d][f])
  <2> SUFFICES ASSUME NEW f \in Names PROVE IsFiniteSet(DOMAIN db.relations[d][f])
    OBVIOUS
  <2>1. db.relations[d][f] \in Seq(Texts)
    BY InvType DEF TypeOK
  <2>2. DOMAIN db.relations[d][f] = 1..Len(db.relations[d][f]) /\ Len(db.relations[d][f]) \in Nat
    BY <2>1
  <2> QED
    BY <2>2, FS_Interval
<1>2. IsFiniteSet(Refs(d, Names))
  BY <1>1, RefsFinite, FiniteAssumption
<1>3. Dangling(d) \in SUBSET Refs(d, Names)
  BY DEF Dangling
<1>4. IsFiniteSet(Dangling(d)) /\ Cardinality(Dangling(d)) \in Int
  BY <1>2, <1>3, FS_Subset, FS_CardinalityType
<1>5. Dangling(d) # {}
        <=> \E f \in Names : \E i \in DOMAIN db.relations[d][f] :
              db.relations[d][f][i] \notin LiveDocs
  <2>1. ASSUME NEW e \in Dangling(d)
        PROVE  \E f \in Names : \E i \in DOMAIN db.relations[d][f] :
                 db.relations[d][f][i] \notin LiveDocs
    BY RefsItems DEF Dangling
  <2>2. ASSUME NEW f \in Names, NEW i \in DOMAIN db.relations[d][f],
               db.relations[d][f][i] \notin LiveDocs
        PROVE  <<f, i>> \in Dangling(d)
    BY <2>2, RefsItems DEF Dangling
  <2> QED
    BY <2>1, <2>2
<1>6. ASSUME NEW f \in Names
      PROVE  /\ IsRef(d, f) /\ files[d] # NoFile => db.relations[d][f] = files[d][f]
             /\ ~(IsRef(d, f) /\ files[d] # NoFile) => DOMAIN db.relations[d][f] = {}
  <2>1. f \in Fields /\ (Linked(d, f) <=> IsRef(d, f))
    BY NamesAssumption DEF Fields, Linked
  <2>2. DOMAIN <<>> = {}
    OBVIOUS
  <2> QED
    BY <2>1, <2>2, RelationItems
<1>7. LiveDocs = OnDisk
  BY CleanRows
<1>8. ASSUME ~Live(d)
      PROVE  Dangling(d) = {}
  <2>1. files[d] = NoFile
    BY <1>8, CleanRows
  <2> QED
    BY <1>5, <1>6, <2>1
<1>9. (\E f \in Names : \E i \in DOMAIN db.relations[d][f] : db.relations[d][f][i] \notin LiveDocs)
        <=> \E f \in Names : /\ IsRef(d, f) /\ files[d] # NoFile
                             /\ \E i \in DOMAIN files[d][f] : files[d][f][i] \notin OnDisk
  BY <1>6, <1>7
<1> QED
  BY <1>4, <1>5, <1>8, <1>9

\* The count of broken references is that of the documents listed with them.
LEMMA BrokenCounted ==
  ASSUME Inv, Clean
  PROVE  CountBrokenRefs = SumFunction([d \in DOMAIN BrokenRefs |-> Cardinality(BrokenRefs[d])])
<1> DEFINE S == {d \in LiveDocs : Dangling(d) # {}}
           all == [d \in Docs |-> Cardinality(Dangling(d))]
           some == [d \in S |-> Cardinality(Dangling(d))]
<1>1. S \in SUBSET Docs
  BY DEF LiveDocs
<1>2. DOMAIN BrokenRefs = S
  BY DEF BrokenRefs
<1>3. \A d \in S : BrokenRefs[d] = Dangling(d)
  BY DEF BrokenRefs
<1>4. \A d \in Docs : all[d] \in Int
  BY DanglingFacts
<1>5. \A d \in S : some[d] = all[d]
  BY <1>1
<1>6. \A d \in Docs \ S : all[d] = 0
  <2> SUFFICES ASSUME NEW d \in Docs \ S PROVE all[d] = 0
    OBVIOUS
  <2>1. Dangling(d) = {}
    BY DanglingFacts DEF LiveDocs
  <2> QED
    BY <2>1, FS_EmptySet
<1>7. DOMAIN all = Docs /\ DOMAIN some = S
  OBVIOUS
<1>8. [d \in DOMAIN BrokenRefs |-> Cardinality(BrokenRefs[d])] = some
  BY <1>2, <1>3
<1>c. CountBrokenRefs = SumFunction(all)
  BY DEF CountBrokenRefs
<1> HIDE DEF S, all, some
<1>9. SumFunctionOnSet(all, Docs) = SumFunctionOnSet(some, S)
  BY <1>1, <1>4, <1>5, <1>6, SumSupport, FiniteAssumption
<1> QED
  BY <1>7, <1>8, <1>9, <1>c DEF SumFunction

LEMMA FieldsFinite == IsFiniteSet(Fields)
BY FiniteAssumption, FS_Singleton, FS_Union DEF Fields

\* The relationships counted for a document are the items of its file's refs.
LEMMA ItemsCounted ==
  ASSUME Inv, Clean, NEW d \in Docs
  PROVE  LET all == SumFunction([f \in Fields |-> Len(db.relations[d][f])]) IN
         /\ all \in Int
         /\ files[d] = NoFile => all = 0
         /\ files[d] # NoFile =>
              all = SumFunction([f \in {g \in Fields : Linked(d, g)} |-> Len(files[d][f])])
<1> DEFINE len == [f \in Fields |-> Len(db.relations[d][f])]
           L == {g \in Fields : Linked(d, g)}
           own == [f \in L |-> Len(files[d][f])]
           none == [f \in {} |-> 0]
<1>1. \A f \in Fields : len[f] \in Int
  <2> SUFFICES ASSUME NEW f \in Fields PROVE Len(db.relations[d][f]) \in Int
    OBVIOUS
  <2>1. db.relations[d][f] \in Seq(Texts)
    BY InvType DEF TypeOK, Fields
  <2> QED
    BY <2>1
<1>2. L \in SUBSET Fields /\ DOMAIN len = Fields /\ DOMAIN own = L
  OBVIOUS
<1>3. ASSUME NEW f \in Fields, ~(files[d] # NoFile /\ Linked(d, f))
      PROVE  len[f] = 0
  <2>1. db.relations[d][f] = <<>>
    BY <1>3, RelationItems
  <2> QED
    BY <2>1
<1>4. ASSUME files[d] # NoFile
      PROVE  \A f \in L : own[f] = len[f]
  <2> SUFFICES ASSUME NEW f \in L PROVE own[f] = len[f]
    OBVIOUS
  <2>1. db.relations[d][f] = files[d][f]
    BY <1>4, RelationItems
  <2> QED
    BY <2>1
<1>5. SumFunctionOnSet(none, {}) = 0
  BY SumSteps, FS_EmptySet
<1>6. \A f \in Fields \ L : ~Linked(d, f)
  OBVIOUS
<1> HIDE DEF len, L, own
<1>7. SumFunctionOnSet(len, Fields) \in Int
  BY <1>1, SumSteps, FieldsFinite
<1>8. ASSUME files[d] = NoFile
      PROVE  SumFunctionOnSet(len, Fields) = 0
  <2>1. \A f \in Fields \ {} : len[f] = 0
    BY <1>3, <1>8
  <2>2. SumFunctionOnSet(len, Fields) = SumFunctionOnSet(none, {})
    <3>1. {} \in SUBSET Fields /\ \A f \in {} : none[f] = len[f]
      OBVIOUS
    <3> HIDE DEF none
    <3> QED
      BY <1>1, <2>1, <3>1, SumSupport, FieldsFinite
  <2> QED
    BY <1>5, <2>2
<1>9. ASSUME files[d] # NoFile
      PROVE  SumFunctionOnSet(len, Fields) = SumFunctionOnSet(own, L)
  <2>1. \A f \in Fields \ L : len[f] = 0
    BY <1>3, <1>6
  <2> QED
    BY <1>1, <1>2, <1>4, <1>9, <2>1, SumSupport, FieldsFinite
<1>10. SumFunction(len) = SumFunctionOnSet(len, Fields) /\ SumFunction(own) = SumFunctionOnSet(own, L)
  BY <1>2 DEF SumFunction
<1> QED
  BY <1>7, <1>8, <1>9, <1>10 DEF len, L, own

LEMMA RelationsCounted ==
  ASSUME Inv, Clean
  PROVE  Stats.totalRelationships =
           SumFunction([d \in OnDisk |->
             SumFunction([f \in {g \in Fields : Linked(d, g)} |-> Len(files[d][f])])])
<1> DEFINE count == [d \in Docs |-> SumFunction([f \in Fields |-> Len(db.relations[d][f])])]
           own == [d \in OnDisk |->
                     SumFunction([f \in {g \in Fields : Linked(d, g)} |-> Len(files[d][f])])]
<1>1. OnDisk \in SUBSET Docs /\ \A d \in Docs : d \in OnDisk <=> files[d] # NoFile
  BY DEF OnDisk
<1>2. \A d \in Docs : count[d] \in Int
  BY ItemsCounted
<1>3. \A d \in OnDisk : own[d] = count[d]
  BY <1>1, ItemsCounted
<1>4. \A d \in Docs \ OnDisk : count[d] = 0
  BY <1>1, ItemsCounted
<1>5. DOMAIN count = Docs /\ DOMAIN own = OnDisk
  OBVIOUS
<1>6. Stats.totalRelationships = SumFunction(count)
  BY DEF Stats, Fields
<1> HIDE DEF count, own
<1>7. SumFunctionOnSet(count, Docs) = SumFunctionOnSet(own, OnDisk)
  BY <1>1, <1>2, <1>3, <1>4, SumSupport, FiniteAssumption
<1> QED
  BY <1>5, <1>6, <1>7 DEF SumFunction, own

\* A value is found as an object in the documents whose files have it.
LEMMA ObjectsFound ==
  ASSUME Inv, Clean, NEW d \in OnDisk, NEW f \in Names, files[d][f] # <<>>
  PROVE  {h[1] : h \in SearchObjects(f, files[d][f])}
           = {e \in OnDisk : Indexed(e, f) /\ files[e][f] = files[d][f]}
<1> DEFINE v == files[d][f]
           object == [subtype |-> f, value |-> v]
<1>1. ASSUME NEW e \in Docs, NEW o \in db.objects[e], o.subtype = f, o.value = v
      PROVE  e \in OnDisk /\ Indexed(e, f) /\ files[e][f] = v
  <2>1. files[e] # NoFile
    <3>1. db.objects[e] # {}
      OBVIOUS
    <3> QED
      BY <3>1, CleanRows DEF NothingOf
  <2>2. o \in Objects(e, files[e])
    BY <2>1, CleanRows DEF AllOf
  <2>3. f # Body
    BY NamesAssumption
  <2>4. \E g \in Names : Indexed(e, g) /\ o = [subtype |-> g, value |-> files[e][g]]
    BY <1>1, <2>2, <2>3 DEF Objects
  <2> QED
    BY <1>1, <2>1, <2>4 DEF OnDisk
<1>2. ASSUME NEW e \in OnDisk, Indexed(e, f), files[e][f] = v
      PROVE  e \in Docs /\ object \in db.objects[e]
  <2>1. e \in Docs /\ files[e] # NoFile
    BY DEF OnDisk
  <2>2. db.objects[e] = Objects(e, files[e])
    BY <2>1, CleanRows DEF AllOf
  <2>3. object \in Objects(e, files[e])
    BY <1>2 DEF Objects
  <2> QED
    BY <2>1, <2>2, <2>3
<1>3. ASSUME NEW e, e \in {h[1] : h \in SearchObjects(f, v)}
      PROVE  e \in {x \in OnDisk : Indexed(x, f) /\ files[x][f] = v}
  <2>1. PICK h \in SearchObjects(f, v) : e = h[1]
    BY <1>3
  <2>2. h[1] \in Docs /\ h[2] \in db.objects[h[1]] /\ h[2].subtype = f /\ h[2].value = v
    BY DEF SearchObjects
  <2> QED
    BY <1>1, <2>1, <2>2
<1>4. ASSUME NEW e \in OnDisk, Indexed(e, f), files[e][f] = v
      PROVE  e \in {h[1] : h \in SearchObjects(f, v)}
  <2>1. object \in UNION {db.objects[x] : x \in Docs}
    BY <1>2, <1>4
  <2>2. <<e, object>> \in SearchObjects(f, v)
    BY <1>2, <1>4, <2>1 DEF SearchObjects
  <2> QED
    BY <2>2
<1> HIDE DEF v
<1>5. {h[1] : h \in SearchObjects(f, v)} = {e \in OnDisk : Indexed(e, f) /\ files[e][f] = v}
  BY <1>3, <1>4
<1> QED
  BY <1>5 DEF v

\* When the sweep finds no drift, every edge is seen from both ends and comes from
\* a file, a document is broken just when a ref of its file leads to no file, the
\* counts of maad_summary and maad_verify are those of the files, and a search of
\* objects finds the files with the value: getRelationships, getBrokenRefs,
\* countBrokenRefs, getStats and searchObjects of src/src/backend/sqlite/index.ts.
THEOREM LinksMatchHolds == Spec => []LinksMatchFrontmatter
<1>1. Inv => LinksMatchFrontmatter
  <2> SUFFICES ASSUME Inv, Clean PROVE LinksMatchFrontmatter
    BY DEF LinksMatchFrontmatter
  <2>1. ASSUME NEW a \in Docs, NEW f \in Names \union {Body}, NEW b \in Docs \ {a}
        PROVE  LET out == [id |-> b, type |-> TypeNow(b), field |-> f]
                   in == [id |-> a, type |-> TypeNow(a), field |-> f] IN
               /\ out \in Outgoing(a) <=> in \in Incoming(b)
               /\ out \in Outgoing(a)
                    <=> /\ f = Body \/ IsRef(a, f)
                        /\ files[a] # NoFile
                        /\ \E i \in DOMAIN files[a][f] : files[a][f][i] = b
    <3>1. /\ [id |-> b, type |-> TypeNow(b), field |-> f] \in Outgoing(a)
               <=> Linked(a, f) /\ Has(a, f, b)
          /\ [id |-> a, type |-> TypeNow(a), field |-> f] \in Incoming(b)
               <=> Linked(a, f) /\ Has(a, f, b)
      BY BothEnds DEF Fields
    <3> QED
      BY <3>1, Zenon DEF Linked, Has
  <2>2. ASSUME NEW d \in Docs
        PROVE  (\E f \in Names : /\ IsRef(d, f) /\ files[d] # NoFile
                                 /\ \E i \in DOMAIN files[d][f] : files[d][f][i] \notin OnDisk)
                 <=> d \in DOMAIN BrokenRefs
    <3>1. d \in DOMAIN BrokenRefs <=> Dangling(d) # {}
      BY DanglingFacts DEF BrokenRefs, LiveDocs
    <3> QED
      BY <3>1, DanglingFacts
  <2>3. CountBrokenRefs = SumFunction([d \in DOMAIN BrokenRefs |-> Cardinality(BrokenRefs[d])])
    BY BrokenCounted
  <2>4. Stats.totalDocuments = Cardinality(OnDisk)
    BY CleanRows DEF Stats
  <2>5. Stats.totalRelationships =
          SumFunction([d \in OnDisk |->
            SumFunction([f \in {g \in Names \union {Body} : g = Body \/ IsRef(d, g)} |->
              Len(files[d][f])])])
    BY RelationsCounted DEF Fields, Linked
  <2>6. \A d \in OnDisk, f \in Names : files[d][f] # <<>> =>
          {h[1] : h \in SearchObjects(f, files[d][f])}
            = {e \in OnDisk : Indexed(e, f) /\ files[e][f] = files[d][f]}
    BY ObjectsFound
  <2> QED
    BY <2>1, <2>2, <2>3, <2>4, <2>5, <2>6, Zenon DEF LinksMatchFrontmatter
<1> QED
  BY <1>1, InvHolds, PTL

(* ---- Chains -------------------------------------------------------------------- *)

\* The walks that Resolve and Leads choose.
HopsFrom(at, d, hops) ==
  at = [n \in 0..Len(hops) |-> IF n = 0 THEN d ELSE Hop(at[n - 1], hops[n])]
FollowsFrom(at, d, hops) ==
  at = [n \in 0..Len(hops) |-> IF n = 0 THEN d ELSE Follow(at[n - 1], hops[n])]

LEMMA ResolveWalk ==
  ASSUME NEW d, NEW hops, NEW w, HopsFrom(w, d, hops)
  PROVE  \E at : HopsFrom(at, d, hops) /\ Resolve(d, hops) = at[Len(hops)]
<1>1. PICK at : at = CHOOSE i : HopsFrom(i, d, hops)
  OBVIOUS
<1>2. HopsFrom(at, d, hops)
  BY <1>1, Zenon
<1>3. Resolve(d, hops) = (CHOOSE i : HopsFrom(i, d, hops))[Len(hops)]
  BY DEF Resolve, HopsFrom
<1> QED
  BY <1>1, <1>2, <1>3

LEMMA LeadsWalk ==
  ASSUME NEW d, NEW hops, NEW w, FollowsFrom(w, d, hops)
  PROVE  \E at : FollowsFrom(at, d, hops) /\ Leads(d, hops) = at[Len(hops)]
<1>1. PICK at : at = CHOOSE i : FollowsFrom(i, d, hops)
  OBVIOUS
<1>2. FollowsFrom(at, d, hops)
  BY <1>1, Zenon
<1>3. Leads(d, hops) = (CHOOSE i : FollowsFrom(i, d, hops))[Len(hops)]
  BY DEF Leads, FollowsFrom
<1> QED
  BY <1>1, <1>2, <1>3

LEMMA ResolveOne ==
  ASSUME NEW d, NEW s
  PROVE  Resolve(d, <<s>>) = Hop(d, s)
<1> DEFINE w == [n \in 0..1 |-> IF n = 0 THEN d ELSE Hop(d, s)]
<1>1. HopsFrom(w, d, <<s>>)
  BY DEF HopsFrom
<1>2. PICK at : HopsFrom(at, d, <<s>>) /\ Resolve(d, <<s>>) = at[1]
  BY <1>1, ResolveWalk
<1>3. at[0] = d /\ at[1] = Hop(at[0], s)
  BY <1>2 DEF HopsFrom
<1> QED
  BY <1>2, <1>3

LEMMA ResolveTwo ==
  ASSUME NEW d, NEW s, NEW t
  PROVE  Resolve(d, <<s, t>>) = Hop(Hop(d, s), t)
<1> DEFINE w == [n \in 0..2 |-> IF n = 0 THEN d ELSE IF n = 1 THEN Hop(d, s)
                                ELSE Hop(Hop(d, s), t)]
<1>1. HopsFrom(w, d, <<s, t>>)
  BY DEF HopsFrom
<1>2. PICK at : HopsFrom(at, d, <<s, t>>) /\ Resolve(d, <<s, t>>) = at[2]
  BY <1>1, ResolveWalk
<1>3. at[0] = d /\ at[1] = Hop(at[0], s) /\ at[2] = Hop(at[1], t)
  BY <1>2 DEF HopsFrom
<1> QED
  BY <1>2, <1>3

LEMMA LeadsTwo ==
  ASSUME NEW d, NEW r, NEW s
  PROVE  Leads(d, <<r, s>>) = Follow(Follow(d, r), s)
<1> DEFINE w == [n \in 0..2 |-> IF n = 0 THEN d ELSE IF n = 1 THEN Follow(d, r)
                                ELSE Follow(Follow(d, r), s)]
<1>1. FollowsFrom(w, d, <<r, s>>)
  BY DEF FollowsFrom
<1>2. PICK at : FollowsFrom(at, d, <<r, s>>) /\ Leads(d, <<r, s>>) = at[2]
  BY <1>1, LeadsWalk
<1>3. at[0] = d /\ at[1] = Follow(at[0], r) /\ at[2] = Follow(at[1], s)
  BY <1>2 DEF FollowsFrom
<1> QED
  BY <1>2, <1>3

LEMMA LeadsThree ==
  ASSUME NEW d, NEW r, NEW s, NEW t
  PROVE  Leads(d, <<r, s, t>>) = Follow(Follow(Follow(d, r), s), t)
<1> DEFINE w == [n \in 0..3 |-> IF n = 0 THEN d ELSE IF n = 1 THEN Follow(d, r)
                                ELSE IF n = 2 THEN Follow(Follow(d, r), s)
                                ELSE Follow(Follow(Follow(d, r), s), t)]
<1>1. FollowsFrom(w, d, <<r, s, t>>)
  BY DEF FollowsFrom
<1> DEFINE hops == <<r, s, t>>
<1>l. Len(hops) = 3
  OBVIOUS
<1> HIDE DEF w, hops
<1>w. \E at : FollowsFrom(at, d, hops) /\ Leads(d, hops) = at[Len(hops)]
  BY <1>1, LeadsWalk DEF hops
<1>2. PICK at : FollowsFrom(at, d, <<r, s, t>>) /\ Leads(d, <<r, s, t>>) = at[3]
  BY <1>l, <1>w DEF hops
<1>3. /\ at[0] = d /\ at[1] = Follow(at[0], r) /\ at[2] = Follow(at[1], s)
      /\ at[3] = Follow(at[2], t)
  BY <1>2 DEF FollowsFrom
<1> QED
  BY <1>2, <1>3

\* Without drift, an indexed scalar has at most one row, of its one item.
LEMMA ScalarRow ==
  ASSUME Inv, Clean, NEW d \in OnDisk, NEW f \in Names,
         Schema[TypeOf[d]][f].kind \notin {"list", "refs"}
  PROVE  /\ d \in Docs /\ Live(d) /\ db.documents[d].type = TypeOf[d]
         /\ Indexed(d, f) /\ files[d][f] # <<>> =>
              files[d][f][1] \in Texts /\ db.fields[d][f] = <<Cell(d, f, files[d][f][1])>>
         /\ ~(Indexed(d, f) /\ files[d][f] # <<>>) => db.fields[d][f] = <<>>
<1>1. d \in Docs /\ files[d] # NoFile
  BY DEF OnDisk
<1>2. /\ Live(d) /\ files[d] \in Contents[d]
      /\ db.documents[d] = Row(d, files[d]) /\ db.fields[d] = FieldIndex(d, files[d])
  BY <1>1, CleanRows DEF AllOf
<1>3. db.documents[d].type = TypeOf[d]
  BY <1>2 DEF Row
<1> DEFINE items == files[d][f]
<1>4. items \in Seq(Texts)
  BY <1>1, <1>2, Frontmatter
<1>5. ~Indexed(d, f) => db.fields[d][f] = <<>>
  BY <1>2 DEF FieldIndex
<1>6. ASSUME Indexed(d, f)
      PROVE  db.fields[d][f] = [i \in DOMAIN items |-> Cell(d, f, items[i])] /\ Len(items) <= 1
  <2>1. Schema[TypeOf[d]][f].kind \in Kinds
    BY <1>1, NamesAssumption, SchemaAssumption
  <2>2. Schema[TypeOf[d]][f].kind \in {"string", "number", "ref"}
    BY <1>6, <2>1 DEF Indexed, Kinds
  <2>3. Len(items) <= 1
    BY <1>1, <1>2, <2>2, ScalarsAssumption
  <2> QED
    BY <1>2, <1>6, <2>3 DEF FieldIndex
<1> HIDE DEF items
<1>7. ASSUME Indexed(d, f), items # <<>>
      PROVE  items[1] \in Texts /\ db.fields[d][f] = <<Cell(d, f, items[1])>>
  <2>1. Len(items) = 1 /\ items[1] \in Texts
    <3>1. Len(items) \in Nat /\ DOMAIN items = 1..Len(items)
      BY <1>4
    <3>2. Len(items) # 0
      BY <1>4, <1>7
    <3>3. Len(items) = 1
      BY <1>6, <1>7, <3>1, <3>2
    <3> QED
      BY <1>4, <3>1, <3>3
  <2>2. db.fields[d][f] = [i \in 1..1 |-> Cell(d, f, items[i])]
    BY <1>4, <1>6, <1>7, <2>1
  <2>3. \A i \in 1..1 : i = 1
    OBVIOUS
  <2>4. [i \in 1..1 |-> Cell(d, f, items[i])] = <<Cell(d, f, items[1])>>
    BY <2>3
  <2> QED
    BY <2>1, <2>2, <2>4
<1>8. ASSUME Indexed(d, f), items = <<>>
      PROVE  db.fields[d][f] = <<>>
  <2>1. DOMAIN items = {}
    BY <1>8
  <2> QED
    BY <1>6, <1>8, <2>1
<1> QED
  BY <1>1, <1>2, <1>3, <1>5, <1>7, <1>8 DEF items

\* Without drift, a hop through the index goes where the files lead.
LEMMA HopFollows ==
  ASSUME Inv, Clean, NEW f \in Names, Scalar(f), NEW at
  PROVE  Hop(at, f) = Follow(at, f)
<1>1. CASE at \in OnDisk
  <2>1. at \in Docs
    BY <1>1 DEF OnDisk
  <2>2. Schema[TypeOf[at]][f].kind \notin {"list", "refs"}
    BY <2>1, NamesAssumption DEF Scalar
  <2>3. CASE Indexed(at, f) /\ files[at][f] # <<>>
    <3>1. db.fields[at][f] = <<Cell(at, f, files[at][f][1])>>
      BY <1>1, <2>2, <2>3, ScalarRow
    <3>2. Value(at, f) = files[at][f][1] /\ HasValue(at, f)
      BY <2>1, <3>1 DEF Value, HasValue, Cell
    <3> QED
      BY <1>1, <2>3, <3>2 DEF Hop, Follow
  <2>4. CASE ~(Indexed(at, f) /\ files[at][f] # <<>>)
    <3>1. db.fields[at][f] = <<>>
      BY <1>1, <2>2, <2>4, ScalarRow
    <3> QED
      BY <2>4, <3>1 DEF Hop, Follow, HasValue
  <2> QED
    BY <2>3, <2>4
<1>2. CASE at \notin OnDisk
  <2>1. at \in Docs => db.fields[at] = NoFields
    BY <1>2, CleanRows DEF OnDisk, NothingOf
  <2>2. ~HasValue(at, f)
    BY <2>1 DEF HasValue, NoFields
  <2> QED
    BY <1>2, <2>2 DEF Hop, Follow
<1> QED
  BY <1>1, <1>2

(* Grouping by f and adding up g: what every document contributes. *)

With(type, f, g, v) == {d \in Members(type, f, g) : files[d][f][1] = v}
Numbered(S, g) == {d \in S : NumOf[files[d][g][1]] # NoNum}
Amounts(S, g) == [d \in Numbered(S, g) |-> NumOf[files[d][g][1]]]

\* Without drift, the rows a group is made of are those of its documents.
LEMMA JoinedRows ==
  ASSUME Inv, Clean, NEW type \in Types, NEW f \in Names, NEW g \in Names,
         Schema[type][f].kind \notin {"list", "refs"}, Schema[type][g].kind = "number", NEW v
  PROVE  LET pairs == Joined(Matching(type, <<>>), f, v, g) IN
         /\ pairs = {<<d, 1, 1>> : d \in With(type, f, g, v)}
         /\ \A d \in With(type, f, g, v) :
              db.fields[d][g][1].num = NumOf[files[d][g][1]] /\ files[d][g][1] \in Texts
<1> DEFINE scope == Matching(type, <<>>)
<1>1. scope = {d \in OnDisk : TypeOf[d] = type}
  <2>1. DOMAIN <<>> = {}
    OBVIOUS
  <2>2. scope = {d \in OnDisk : type \in {AnyType, db.documents[d].type}}
    BY <2>1, CleanRows DEF Matching
  <2>3. \A d \in OnDisk : db.documents[d].type = TypeOf[d]
    <3> SUFFICES ASSUME NEW d \in OnDisk PROVE db.documents[d].type = TypeOf[d]
      OBVIOUS
    <3>1. d \in Docs /\ files[d] # NoFile
      BY DEF OnDisk
    <3>2. db.documents[d] = Row(d, files[d])
      BY <3>1, CleanRows DEF AllOf
    <3> QED
      BY <3>2 DEF Row
  <2>4. type # AnyType
    BY NullsAssumption
  <2> QED
    BY <2>2, <2>3, <2>4
<1>2. ASSUME NEW d \in scope
      PROVE  /\ d \in Members(type, f, g) =>
                  /\ db.fields[d][f] = <<Cell(d, f, files[d][f][1])>>
                  /\ db.fields[d][g] = <<Cell(d, g, files[d][g][1])>>
                  /\ files[d][g][1] \in Texts
             /\ d \notin Members(type, f, g) => db.fields[d][f] = <<>> \/ db.fields[d][g] = <<>>
  <2>1. d \in OnDisk /\ TypeOf[d] = type
    BY <1>1
  <2>2. Schema[TypeOf[d]][f].kind \notin {"list", "refs"}
    BY <2>1
  <2>3. Schema[TypeOf[d]][g].kind \notin {"list", "refs"}
    BY <2>1
  <2>4. d \in Members(type, f, g) <=> /\ Indexed(d, f) /\ files[d][f] # <<>>
                                      /\ Indexed(d, g) /\ files[d][g] # <<>>
    BY <2>1 DEF Members
  <2> QED
    BY <2>1, <2>2, <2>3, <2>4, ScalarRow
<1>3. Members(type, f, g) \subseteq scope
  BY <1>1 DEF Members
<1>c. \A d, h, t : Cell(d, h, t).text = t
  BY DEF Cell
<1> HIDE DEF scope
<1>4. ASSUME NEW d \in With(type, f, g, v)
      PROVE  <<d, 1, 1>> \in Joined(scope, f, v, g)
  <2>1. d \in scope /\ d \in Members(type, f, g) /\ files[d][f][1] = v
    BY <1>3 DEF With
  <2>2. /\ 1 \in DOMAIN db.fields[d][f] /\ 1 \in DOMAIN db.fields[d][g]
        /\ db.fields[d][f][1].text = v
    <3>1. db.fields[d][f] = <<Cell(d, f, v)>> /\ db.fields[d][g] = <<Cell(d, g, files[d][g][1])>>
      BY <1>2, <2>1
    <3>2. db.fields[d][f][1] = Cell(d, f, v)
      BY <3>1
    <3>3. 1 \in DOMAIN db.fields[d][f] /\ 1 \in DOMAIN db.fields[d][g]
      BY <3>1
    <3> QED
      BY <1>c, <3>2, <3>3
  <2>3. <<d, 1, 1>> \in {d} \X (DOMAIN db.fields[d][f]) \X (DOMAIN db.fields[d][g])
    BY <2>2
  <2> QED
    BY <2>1, <2>2, <2>3 DEF Joined
<1>5. ASSUME NEW p \in Joined(scope, f, v, g)
      PROVE  \E d \in With(type, f, g, v) : p = <<d, 1, 1>>
  <2>1. PICK d \in scope : p \in {d} \X (DOMAIN db.fields[d][f]) \X (DOMAIN db.fields[d][g])
    BY DEF Joined
  <2>2. /\ p = <<d, p[2], p[3]>>
        /\ p[2] \in DOMAIN db.fields[d][f] /\ p[3] \in DOMAIN db.fields[d][g]
    BY <2>1
  <2>3. db.fields[d][f] # <<>> /\ db.fields[d][g] # <<>>
    BY <2>2
  <2>4. d \in Members(type, f, g)
    BY <1>2, <2>3
  <2>5. p[2] = 1 /\ p[3] = 1
    BY <1>2, <2>2, <2>4
  <2>6. db.fields[p[1]][f][p[2]].text = v
    BY DEF Joined
  <2>7. files[d][f][1] = v
    <3>1. db.fields[d][f][1] = Cell(d, f, files[d][f][1])
      BY <1>2, <2>4
    <3>2. p[1] = d
      BY <2>2
    <3>3. db.fields[d][f][1].text = v
      BY <2>5, <2>6, <3>2
    <3> QED
      BY <1>c, <3>1, <3>3
  <2> QED
    BY <2>2, <2>4, <2>5, <2>7 DEF With
<1>6. Joined(scope, f, v, g) = {<<d, 1, 1>> : d \in With(type, f, g, v)}
  BY <1>4, <1>5
<1>7. ASSUME NEW d \in With(type, f, g, v)
      PROVE  db.fields[d][g][1].num = NumOf[files[d][g][1]] /\ files[d][g][1] \in Texts
  <2>1. d \in scope /\ d \in Members(type, f, g) /\ TypeOf[d] = type
    BY <1>1, <1>3 DEF With
  <2> QED
    <3>1. db.fields[d][g][1] = Cell(d, g, files[d][g][1]) /\ files[d][g][1] \in Texts
      BY <1>2, <2>1
    <3>2. Cell(d, g, files[d][g][1]).num = NumOf[files[d][g][1]]
      BY <2>1 DEF Cell
    <3> QED
      BY <3>1, <3>2
<1> QED
  BY <1>6, <1>7 DEF scope

\* Without drift, a group counts its documents and adds up their numbers.
LEMMA GroupsAdd ==
  ASSUME Inv, Clean, NEW type \in Types, NEW f \in Names, NEW g \in Names,
         Schema[type][f].kind \notin {"list", "refs"}, Schema[type][g].kind = "number"
  PROVE  LET first == Aggregate(type, f, g) IN
         /\ \A v : v \in DOMAIN first <=> With(type, f, g, v) # {}
         /\ \A v \in DOMAIN first :
              /\ first[v].count = Cardinality(With(type, f, g, v))
              /\ first[v].sum = SumFunction(Amounts(With(type, f, g, v), g))
<1> DEFINE scope == Matching(type, <<>>)
           values == {c.text : c \in UNION {Range(db.fields[d][f]) : d \in scope}}
           grouped == {v \in values : Joined(scope, f, v, g) # {}}
           first == Aggregate(type, f, g)
<1>1. first = [v \in grouped |-> Group(Joined(scope, f, v, g), g)]
  BY DEF Aggregate
<1>2. ASSUME NEW v
      PROVE  /\ Joined(scope, f, v, g) = {<<d, 1, 1>> : d \in With(type, f, g, v)}
             /\ \A d \in With(type, f, g, v) :
                  db.fields[d][g][1].num = NumOf[files[d][g][1]] /\ files[d][g][1] \in Texts
  BY JoinedRows
<1>3. ASSUME NEW v, Joined(scope, f, v, g) # {}
      PROVE  v \in values
  <2>1. PICK p \in Joined(scope, f, v, g) : TRUE
    BY <1>3
  <2>2. PICK d \in scope : p \in {d} \X (DOMAIN db.fields[d][f]) \X (DOMAIN db.fields[d][g])
    BY <2>1 DEF Joined
  <2>3. p[1] = d /\ p[2] \in DOMAIN db.fields[d][f] /\ db.fields[p[1]][f][p[2]].text = v
    BY <2>1, <2>2 DEF Joined
  <2>4. db.fields[d][f][p[2]] \in Range(db.fields[d][f])
    BY <2>3 DEF Range
  <2>5. db.fields[d][f][p[2]] \in UNION {Range(db.fields[e][f]) : e \in scope}
    BY <2>4
  <2> QED
    BY <2>3, <2>5
<1> HIDE DEF scope, values
<1>4. ASSUME NEW v
      PROVE  v \in grouped <=> With(type, f, g, v) # {}
  <2>1. Joined(scope, f, v, g) # {} <=> With(type, f, g, v) # {}
    <3> DEFINE W == With(type, f, g, v)
               pairs == Joined(scope, f, v, g)
    <3>1. pairs = {<<d, 1, 1>> : d \in W}
      BY <1>2
    <3> HIDE DEF W, pairs
    <3>2. pairs # {} <=> W # {}
      BY <3>1
    <3> QED
      BY <3>2 DEF W, pairs
  <2>2. v \in grouped <=> Joined(scope, f, v, g) # {}
    BY <1>3
  <2> HIDE DEF grouped
  <2> QED
    BY <2>1, <2>2
<1> HIDE DEF grouped, first
<1>5. DOMAIN first = grouped
  BY <1>1
<1>6. ASSUME NEW v \in grouped
      PROVE  /\ first[v].count = Cardinality(With(type, f, g, v))
             /\ first[v].sum = SumFunction(Amounts(With(type, f, g, v), g))
  <2> DEFINE W == With(type, f, g, v)
             pairs == Joined(scope, f, v, g)
             n == Numbers(pairs, g)
             S == Numbered(W, g)
             name == [d \in S |-> <<d, 1, 1>>]
             num == [p \in n |-> db.fields[p[1]][g][p[3]].num]
             own == Amounts(W, g)
  <2>1. first[v] = Group(pairs, g)
    BY <1>1
  <2>2. pairs = {<<d, 1, 1>> : d \in W}
    BY <1>2
  <2>3. \A d \in W : db.fields[d][g][1].num = NumOf[files[d][g][1]] /\ files[d][g][1] \in Texts
    BY <1>2
  <2>4. W \in SUBSET Docs /\ S \in SUBSET W
    BY DEF With, Members, OnDisk, Numbered
  <2>5. IsFiniteSet(S)
    BY <2>4, FS_Subset, FiniteAssumption
  <2> HIDE DEF W, pairs
  <2>6. {p[1] : p \in pairs} = W
    <3>1. \A d \in W : <<d, 1, 1>> \in pairs /\ <<d, 1, 1>>[1] = d
      BY <2>2
    <3>2. \A p \in pairs : p[1] \in W
      BY <2>2
    <3> QED
      BY <3>1, <3>2
  <2>7. first[v].count = Cardinality(W) /\ first[v].sum = Sum(n, g)
    <3>1. Group(pairs, g).count = Cardinality({p[1] : p \in pairs})
      BY DEF Group
    <3>2. Group(pairs, g).sum = Sum(n, g)
      BY DEF Group
    <3> HIDE DEF n
    <3> QED
      BY <2>1, <2>6, <3>1, <3>2
  <2>8. n = {name[d] : d \in S}
    <3>1. \A d \in W : <<d, 1, 1>> \in n <=> d \in S
      BY <2>2, <2>3 DEF Numbers, Numbered
    <3>2. \A p \in n : \E d \in W : p = <<d, 1, 1>>
      BY <2>2 DEF Numbers
    <3>3. \A d \in S : d \in W /\ name[d] = <<d, 1, 1>>
      BY DEF Numbered
    <3> HIDE DEF n, S, name
    <3> QED
      BY <3>1, <3>2, <3>3
  <2>9. \A d \in S : own[d] \in Int /\ num[name[d]] = own[d]
    <3> SUFFICES ASSUME NEW d \in S PROVE own[d] \in Int /\ num[name[d]] = own[d]
      OBVIOUS
    <3>1. d \in W /\ NumOf[files[d][g][1]] # NoNum /\ name[d] = <<d, 1, 1>> /\ name[d] \in n
      BY <2>8 DEF Numbered
    <3>2. own[d] = NumOf[files[d][g][1]]
      BY DEF Amounts
    <3>3. NumOf[files[d][g][1]] \in Int
      BY <2>3, <3>1, NumOfAssumption
    <3>4. num[name[d]] = db.fields[d][g][1].num
      BY <3>1
    <3> QED
      BY <2>3, <3>1, <3>2, <3>3, <3>4
  <2>10. \A d, e \in S : name[d] = name[e] => d = e
    OBVIOUS
  <2>11. DOMAIN num = n /\ DOMAIN own = S /\ Sum(n, g) = SumFunction(num)
    BY DEF Sum, Amounts
  <2> HIDE DEF n, S, name, num, own
  <2>12. SumFunctionOnSet(num, {name[d] : d \in S}) = SumFunctionOnSet(own, S)
    BY <2>5, <2>9, <2>10, SumRenamed
  <2>13. first[v].sum = SumFunction(own)
    BY <2>7, <2>8, <2>11, <2>12 DEF SumFunction
  <2> QED
    BY <2>7, <2>13 DEF W, own
<1> QED
  BY <1>4, <1>5, <1>6 DEF first

\* From a member, a chain of files leads where the index leads from its first hop.
LEMMA ChainLeads ==
  ASSUME Inv, Clean, NEW hops \in Chains, Scalars(hops)
  PROVE  /\ hops[1] \in Names /\ Scalar(hops[1])
         /\ \A d \in OnDisk : Indexed(d, hops[1]) /\ files[d][hops[1]] # <<>> =>
              Leads(d, hops) = Resolve(files[d][hops[1]][1], Tail(hops))
<1>1. CASE \E r, s \in Names : hops = <<r, s>>
  <2>1. PICK r \in Names, s \in Names : hops = <<r, s>>
    BY <1>1
  <2>2. hops[1] = r /\ Scalar(r) /\ Scalar(s) /\ Tail(hops) = <<s>>
    <3>1. DOMAIN hops = 1..2 /\ hops[1] = r /\ hops[2] = s
      BY <2>1
    <3>2. Tail(hops) = <<s>>
      BY <2>1
    <3> QED
      BY <3>1, <3>2 DEF Scalars
  <2>3. ASSUME NEW d \in OnDisk, Indexed(d, r), files[d][r] # <<>>
        PROVE  Leads(d, hops) = Resolve(files[d][r][1], Tail(hops))
    <3>1. Follow(d, r) = files[d][r][1]
      BY <2>3 DEF Follow
    <3>2. Leads(d, hops) = Follow(files[d][r][1], s)
      BY <2>1, <3>1, LeadsTwo
    <3>3. Resolve(files[d][r][1], Tail(hops)) = Hop(files[d][r][1], s)
      BY <2>2, ResolveOne
    <3>4. Hop(files[d][r][1], s) = Follow(files[d][r][1], s)
      BY <2>2, HopFollows
    <3> QED
      BY <3>2, <3>3, <3>4
  <2> QED
    BY <2>2, <2>3
<1>2. CASE \E r, s, t \in Names : hops = <<r, s, t>>
  <2>1. PICK r \in Names, s \in Names, t \in Names : hops = <<r, s, t>>
    BY <1>2
  <2>2. hops[1] = r /\ Scalar(r) /\ Scalar(s) /\ Scalar(t) /\ Tail(hops) = <<s, t>>
    <3>1. DOMAIN hops = 1..3 /\ hops[1] = r /\ hops[2] = s /\ hops[3] = t
      BY <2>1
    <3>2. Tail(hops) = <<s, t>>
      BY <2>1
    <3> QED
      BY <3>1, <3>2 DEF Scalars
  <2>3. ASSUME NEW d \in OnDisk, Indexed(d, r), files[d][r] # <<>>
        PROVE  Leads(d, hops) = Resolve(files[d][r][1], Tail(hops))
    <3> DEFINE v == files[d][r][1]
    <3>1. Follow(d, r) = v
      BY <2>3 DEF Follow
    <3> HIDE DEF v
    <3>2. Leads(d, hops) = Follow(Follow(v, s), t)
      BY <2>1, <3>1, LeadsThree
    <3>3. Resolve(v, Tail(hops)) = Hop(Hop(v, s), t)
      <4>1. Resolve(v, <<s, t>>) = Hop(Hop(v, s), t)
        BY ResolveTwo
      <4> QED
        BY <2>2, <4>1
    <3>4. Hop(v, s) = Follow(v, s)
      BY <2>2, HopFollows
    <3>5. Hop(Follow(v, s), t) = Follow(Follow(v, s), t)
      BY <2>2, HopFollows
    <3> QED
      BY <3>2, <3>3, <3>4, <3>5 DEF v
  <2> QED
    BY <2>2, <2>3
<1> QED
  BY <1>1, <1>2 DEF Chains

\* Without drift, the groups of a chain count and add up the documents under them.
LEMMA ChainAdds ==
  ASSUME Inv, Clean, NEW type \in Types, NEW hops \in Chains, NEW g \in Names,
         ValidChain(type, hops), Schema[type][g].kind = "number",
         Scalars(hops)
  PROVE  LET answer == ChainAggregate(type, hops, g)
             members == Members(type, hops[1], g)
             under(k) == {d \in members : Leads(d, hops) = k} IN
         /\ DOMAIN answer.groups = {Leads(d, hops) : d \in members}
         /\ \A k \in DOMAIN answer.groups :
              /\ answer.groups[k].count = Cardinality(under(k))
              /\ answer.groups[k].sum = SumFunction(Amounts(under(k), g))
<1> DEFINE f == hops[1]
           M == Members(type, f, g)
           first == Aggregate(type, f, g)
           key(v) == Resolve(v, Tail(hops))
           of(k) == {v \in DOMAIN first : key(v) = k}
           under(k) == {d \in M : Leads(d, hops) = k}
           groups == ChainAggregate(type, hops, g).groups
<1>1. f \in Names /\ Schema[type][f].kind \notin {"list", "refs"}
  BY ChainLeads DEF Scalar
<1>2. /\ \A v : v \in DOMAIN first <=> With(type, f, g, v) # {}
      /\ \A v \in DOMAIN first :
           /\ first[v].count = Cardinality(With(type, f, g, v))
           /\ first[v].sum = SumFunction(Amounts(With(type, f, g, v), g))
  BY <1>1, GroupsAdd
<1>3. \A d \in M : Leads(d, hops) = key(files[d][f][1])
  BY ChainLeads DEF Members
<1>4. /\ DOMAIN groups = {key(v) : v \in DOMAIN first}
      /\ \A k \in DOMAIN groups :
           /\ groups[k].count = SumFunction([v \in of(k) |-> first[v].count])
           /\ groups[k].sum = SumFunction([v \in of(k) |-> first[v].sum])
  <2> DEFINE group(k) == [count |-> SumFunction([v \in of(k) |-> first[v].count]),
                          sum |-> SumFunction([v \in of(k) |-> first[v].sum]),
                          min |-> Min({IF first[v].min = NoNum THEN 0 ELSE first[v].min : v \in of(k)})]
  <2>1. groups = [k \in {key(v) : v \in DOMAIN first} |-> group(k)]
    BY DEF ChainAggregate
  <2>2. ASSUME NEW k
        PROVE  /\ group(k).count = SumFunction([v \in of(k) |-> first[v].count])
               /\ group(k).sum = SumFunction([v \in of(k) |-> first[v].sum])
    OBVIOUS
  <2> HIDE DEF groups, group, first, key, of
  <2> QED
    BY <2>1, <2>2
<1>5. \A v, d : d \in With(type, f, g, v) <=> d \in M /\ files[d][f][1] = v
  BY DEF With
<1>6. M \in SUBSET Docs /\ IsFiniteSet(M)
  <2>1. M \in SUBSET Docs
    BY DEF Members, OnDisk
  <2> QED
    BY <2>1, FS_Subset, FiniteAssumption
<1>n. \A d \in M : NumOf[files[d][g][1]] # NoNum => NumOf[files[d][g][1]] \in Int
  <2> SUFFICES ASSUME NEW d \in M, NumOf[files[d][g][1]] # NoNum
               PROVE  NumOf[files[d][g][1]] \in Int
    OBVIOUS
  <2>1. d \in With(type, f, g, files[d][f][1])
    BY <1>5
  <2>2. files[d][g][1] \in Texts
    BY <1>1, <2>1, JoinedRows
  <2> QED
    BY <2>2, NumOfAssumption
<1> HIDE DEF groups, first, key, M, f
<1>7. DOMAIN groups = {Leads(d, hops) : d \in M}
  <2>1. \A d \in M : files[d][f][1] \in DOMAIN first
    BY <1>2, <1>5
  <2>2. \A v \in DOMAIN first : \E d \in M : files[d][f][1] = v
    BY <1>2, <1>5
  <2> QED
    BY <1>3, <1>4, <2>1, <2>2
<1>8. ASSUME NEW k \in DOMAIN groups
      PROVE  /\ groups[k].count = Cardinality(under(k))
             /\ groups[k].sum = SumFunction(Amounts(under(k), g))
  <2> DEFINE S == under(k)
             V == of(k)
             N == Numbered(S, g)
             value == [d \in S |-> files[d][f][1]]
             one == [d \in S |-> 1]
             counts == [v \in V |-> first[v].count]
             sums == [v \in V |-> first[v].sum]
             own == Amounts(S, g)
  <2>1. S \in SUBSET M /\ IsFiniteSet(S) /\ N \in SUBSET S /\ IsFiniteSet(N)
    <3>1. S \in SUBSET M /\ N \in SUBSET S
      BY DEF Numbered
    <3> HIDE DEF S, N
    <3>2. IsFiniteSet(S)
      BY <1>6, <3>1, FS_Subset
    <3> QED
      BY <3>1, <3>2, FS_Subset
  <2>2. \A d \in S : value[d] \in V
    BY <1>2, <1>3, <1>5
  <2>3. \A v \in V : With(type, f, g, v) = {d \in S : value[d] = v} /\ v \in DOMAIN first
    BY <1>3, <1>5
  <2>4. \A v \in V : \E d \in S : v = value[d]
    BY <1>2, <2>3
  <2>5. /\ DOMAIN counts = V /\ \A v \in V : counts[v] = first[v].count
        /\ DOMAIN sums = V /\ \A v \in V : sums[v] = first[v].sum
        /\ DOMAIN one = S /\ \A d \in S : one[d] = 1
        /\ DOMAIN own = N /\ \A d \in N : own[d] = NumOf[files[d][g][1]]
    BY DEF Amounts
  <2>6. groups[k].count = SumFunction(counts) /\ groups[k].sum = SumFunction(sums)
    BY <1>4
  <2>7. \A d \in N : own[d] \in Int
    BY <1>n, <2>1, <2>5 DEF Numbered
  <2>8. \A v \in V : Amounts({d \in S : value[d] = v}, g)
                       = [d \in {e \in N : value[e] = v} |-> own[d]]
    <3> SUFFICES ASSUME NEW v \in V
                 PROVE  Amounts({d \in S : value[d] = v}, g)
                          = [d \in {e \in N : value[e] = v} |-> own[d]]
      OBVIOUS
    <3>1. Numbered({d \in S : value[d] = v}, g) = {e \in N : value[e] = v}
      BY DEF Numbered
    <3> HIDE DEF S, N, value, own
    <3> QED
      BY <2>5, <3>1 DEF Amounts
  <2> HIDE DEF S, V, N, value, one, counts, sums, own
  <2>9. IsFiniteSet(V)
    BY <2>1, <2>2, <2>4, ImageFinite
  <2>10. Cardinality(S) = SumFunctionOnSet(counts, V)
    <3>1. \A v \in V : counts[v] = SumFunctionOnSet(one, {d \in S : value[d] = v})
      <4> SUFFICES ASSUME NEW v \in V
                   PROVE  counts[v] = SumFunctionOnSet(one, {d \in S : value[d] = v})
        OBVIOUS
      <4> DEFINE D == {d \in S : value[d] = v}
      <4>1. counts[v] = Cardinality(D)
        BY <1>2, <2>3, <2>5
      <4>2. D \in SUBSET S /\ \A d \in D : one[d] = 1
        BY <2>5
      <4> HIDE DEF D
      <4>3. Cardinality(D) = SumFunctionOnSet(one, D)
        BY <2>1, <4>2, FS_Subset, CardIsSum
      <4> QED
        BY <4>1, <4>3 DEF D
    <3>2. \A d \in S : value[d] \in V /\ one[d] \in Int
      BY <2>2, <2>5
    <3>g. Grouped(S, V, value, one, counts)
      BY <3>1, <3>2 DEF Grouped
    <3>3. SumFunctionOnSet(counts, V) = SumFunctionOnSet(one, S)
      BY <2>1, <2>9, <3>g, SumFibers
    <3> QED
      BY <2>1, <2>5, <3>3, CardIsSum
  <2>11. SumFunctionOnSet(own, N) = SumFunctionOnSet(sums, V)
    <3>1. \A v \in V : sums[v] = SumFunctionOnSet(own, {d \in N : value[d] = v})
      <4> SUFFICES ASSUME NEW v \in V
                   PROVE  sums[v] = SumFunctionOnSet(own, {d \in N : value[d] = v})
        OBVIOUS
      <4> DEFINE D == {d \in N : value[d] = v}
                 part == [d \in D |-> own[d]]
      <4>1. sums[v] = SumFunction(part)
        BY <1>2, <2>3, <2>5, <2>8
      <4>2. /\ DOMAIN part = D /\ D \in SUBSET N
            /\ \A d \in D : part[d] \in Int /\ own[d] = part[d]
        BY <2>7
      <4> HIDE DEF D, part
      <4>3. SumFunctionOnSet(part, D) = SumFunctionOnSet(own, D)
        BY <2>1, <4>2, FS_Subset, SumSame
      <4> QED
        BY <4>1, <4>2, <4>3 DEF SumFunction, D
    <3>2. \A d \in N : value[d] \in V /\ own[d] \in Int
      BY <2>1, <2>2, <2>7
    <3>g. Grouped(N, V, value, own, sums)
      BY <3>1, <3>2 DEF Grouped
    <3>3. SumFunctionOnSet(sums, V) = SumFunctionOnSet(own, N)
      BY <2>1, <2>9, <3>g, SumFibers
    <3> QED
      BY <3>3
  <2>12. groups[k].count = Cardinality(S)
    BY <2>5, <2>6, <2>10 DEF SumFunction
  <2>13. groups[k].sum = SumFunction(own)
    BY <2>5, <2>6, <2>11 DEF SumFunction
  <2> QED
    BY <2>12, <2>13 DEF S, own
<1> QED
  BY <1>7, <1>8 DEF groups, M, f

\* A document's ref and field as join shows them are where its files lead.
LEMMA JoinLeads ==
  ASSUME Inv, Clean, NEW type \in Types, NEW hops \in Chains, NEW g \in Names,
         Scalars(hops), Len(hops) = 2,
         NEW d \in Members(type, hops[1], g)
  PROVE  Join(type, hops[1], hops[2])[d].field = Leads(d, hops)
<1>1. PICK r \in Names, s \in Names : hops = <<r, s>>
  <2>1. \A r, s, t \in Names : Len(<<r, s, t>>) = 3
    OBVIOUS
  <2> QED
    BY <2>1 DEF Chains
<1>2. hops[1] = r /\ hops[2] = s /\ Scalar(r) /\ Scalar(s)
  <2>1. DOMAIN hops = 1..2 /\ hops[1] = r /\ hops[2] = s
    BY <1>1
  <2> QED
    BY <2>1 DEF Scalars
<1>3. d \in OnDisk /\ Indexed(d, r) /\ files[d][r] # <<>> /\ TypeOf[d] = type
  BY <1>2 DEF Members
<1> DEFINE v == files[d][r][1]
<1>4. /\ d \in Docs /\ Live(d) /\ db.documents[d].type = type
      /\ db.fields[d][r] = <<Cell(d, r, v)>>
  <2>1. Schema[TypeOf[d]][r].kind \notin {"list", "refs"}
    BY <1>2, <1>3 DEF Scalar
  <2> QED
    BY <1>3, <2>1, ScalarRow
<1>5. HasValue(d, r) /\ Value(d, r) = v
  BY <1>4 DEF HasValue, Value, Cell
<1>6. d \in Matching(type, <<>>)
  <2>1. DOMAIN <<>> = {}
    OBVIOUS
  <2> QED
    BY <1>4, <2>1 DEF Matching, LiveDocs
<1> HIDE DEF v
<1>7. Join(type, r, s)[d].field = Hop(v, s)
  <2> DEFINE shown(e) == IF ~HasValue(e, r) THEN [ref |-> Unresolved, field |-> Unresolved]
                         ELSE [ref |-> Value(e, r),
                               field |-> IF HasValue(Value(e, r), s) THEN Value(Value(e, r), s)
                                         ELSE Unresolved]
  <2>1. Join(type, r, s) = [e \in Matching(type, <<>>) |-> shown(e)]
    BY DEF Join
  <2>2. shown(d).field = Hop(v, s)
    BY <1>5 DEF Hop
  <2> HIDE DEF shown
  <2> QED
    BY <1>6, <2>1, <2>2
<1>8. Hop(v, s) = Follow(v, s)
  BY <1>2, HopFollows
<1>9. Leads(d, hops) = Follow(v, s)
  <2>1. Follow(d, r) = v
    BY <1>3 DEF Follow, v
  <2> QED
    BY <1>1, <2>1, LeadsTwo
<1> QED
  BY <1>2, <1>7, <1>8, <1>9

\* When the sweep finds no drift, maad_aggregate along a chain of refs counts each
\* document once, under the value its chain of files leads to, with the sum of the
\* numbers there, and maad_join shows that value: aggregateWithRefChain,
\* resolveRefChain and join of src/src/engine/reads.ts.
THEOREM ChainMatchesHolds == Spec => []ChainMatchesFrontmatter
<1>1. ASSUME Inv, Clean, NEW type \in Types, NEW hops \in Chains, NEW g \in Names,
             ValidChain(type, hops), Scalars(hops), Schema[type][g].kind = "number"
      PROVE  GroupsByChain(type, hops, g)
  <2> DEFINE members == Members(type, hops[1], g)
             under(k) == {d \in members : Leads(d, hops) = k}
             groups == ChainAggregate(type, hops, g).groups
  <2>1. /\ DOMAIN groups = {Leads(d, hops) : d \in members}
        /\ \A k \in DOMAIN groups :
             /\ groups[k].count = Cardinality(under(k))
             /\ groups[k].sum = SumFunction(Amounts(under(k), g))
    BY <1>1, ChainAdds
  <2>2. \A k : Amounts(under(k), g)
                 = [d \in {e \in under(k) : NumOf[files[e][g][1]] # NoNum}
                      |-> NumOf[files[d][g][1]]]
    BY DEF Amounts, Numbered
  <2>3. ASSUME NEW k, Len(hops) = 2, NEW d \in under(k)
        PROVE  Join(type, hops[1], hops[2])[d].field = k
    BY <1>1, <2>3, JoinLeads
  <2> HIDE DEF groups, members
  <2>4. \A k \in DOMAIN groups :
          /\ groups[k].count = Cardinality(under(k))
          /\ groups[k].sum
               = SumFunction([d \in {e \in under(k) : NumOf[files[e][g][1]] # NoNum}
                                |-> NumOf[files[d][g][1]]])
          /\ Len(hops) = 2 =>
               \A d \in under(k) : Join(type, hops[1], hops[2])[d].field = k
    BY <2>1, <2>2, <2>3
  <2> QED
    BY <2>1, <2>4, Zenon DEF groups, members, GroupsByChain
<1>2. Inv => ChainMatchesFrontmatter
  BY <1>1 DEF ChainMatchesFrontmatter
<1> QED
  BY <1>2, InvHolds, PTL
=============================================================================
