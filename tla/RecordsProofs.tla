---------------------------- MODULE RecordsProofs ----------------------------
(***************************************************************************)
(* Proofs about Records, for any schema, any fields sent or left in files  *)
(* by hand, and bulk calls of any length.                                  *)
(***************************************************************************)
EXTENDS Records, FiniteSetTheorems, WellFoundedInduction, TLAPS

Rows == [path : Paths, fm : Frontmatter]
Entries == [type : Types, id : Ids, path : Paths, given : Inputs]

\* A table has each row under the id it states, and no two rows of one file.
TableOK(table) ==
  /\ table \in [Ids -> Rows \union {NoRow}]
  /\ \A i \in Ids : table[i] # NoRow => table[i].fm.doc_id = i /\ table[i].fm.doc_type \in Types
  /\ \A i, j \in Ids :
       table[i] # NoRow /\ table[j] # NoRow /\ table[i].path = table[j].path => i = j

\* A row says what its file says, but for the files that drift.
StoreOK(store) ==
  /\ store.files \in [Paths -> Frontmatter \union {NoFile}]
  /\ TableOK(store.rows)
  /\ store.drift \subseteq Paths
  /\ store.done \in Seq(Entries)
  /\ \A i \in Ids : store.rows[i] # NoRow /\ store.rows[i].path \notin store.drift
                      => store.files[store.rows[i].path] = store.rows[i].fm

Inv ==
  /\ StoreOK(Store)
  /\ last \in [done : Seq(Entries), clean : BOOLEAN]
  /\ steps \in 0..MaxSteps
  /\ AcceptedStaysValid
  /\ VerifiedMeansWritten

(* ---- What is read where a value was written --------------------------------- *)

LEMMA TextsRead ==
  ASSUME NEW t \in Texts
  PROVE  PlainLoads(t) \in Scalars /\ QuotedLoads(t) \in Scalars
<1>1. "spaced" \in Texts
  BY DEF Texts
<1>2. \A u \in Texts : Str(u) \in Scalars /\ Number(u) \in Scalars /\ Pair(u) \in Scalars
  BY DEF Scalars
<1>3. Null \in Scalars /\ Unparsable \in Scalars
  BY DEF Scalars
<1> QED
  BY <1>1, <1>2, <1>3 DEF PlainLoads, QuotedLoads

LEMMA ScalarKinds ==
  ASSUME NEW v \in Scalars
  PROVE  /\ v.kind \in {"null", "error", "string", "number", "object"}
         /\ v.kind = "string" => v.text \in Texts
BY DEF Scalars, Null, Unparsable, Str, Number, Pair

LEMMA ReadBackType ==
  ASSUME NEW v \in Values
  PROVE  ReadBack(v) \in Values
<1>1. CASE v \in Scalars
  <2>1. v.kind # "list"
    BY <1>1, ScalarKinds
  <2>2. CASE v.kind = "string"
    BY <1>1, <2>2, ScalarKinds, TextsRead DEF ReadBack, Values
  <2>3. CASE v.kind # "string"
    BY <2>1, <2>3 DEF ReadBack
  <2> QED
    BY <2>2, <2>3
<1>2. CASE v \in [kind : {"list"}, items : Seq(Scalars)]
  <2>1. \A w \in Scalars : ReadItem(w) \in Scalars
    BY ScalarKinds, TextsRead DEF ReadItem
  <2> DEFINE items == [i \in DOMAIN v.items |-> ReadItem(v.items[i])]
  <2>2. items \in Seq(Scalars)
    BY <1>2, <2>1
  <2>3. ReadBack(v) = List(items)
    BY <1>2 DEF ReadBack
  <2> QED
    BY <2>2, <2>3 DEF List, Values
<1> QED
  BY <1>1, <1>2 DEF Values

LEMMA WrittenType ==
  ASSUME NEW fm \in Frontmatter
  PROVE  /\ Written(fm) \in Frontmatter
         /\ Written(fm).doc_id = fm.doc_id /\ Written(fm).doc_type = fm.doc_type
         /\ \A f \in Fields : Written(fm).fields[f] = ReadBack(fm.fields[f])
BY ReadBackType DEF Written, Frontmatter

\* A value that a definition takes is one it takes as it is read back.
LEMMA ReadBackFits ==
  ASSUME NEW type \in Types, NEW f \in Fields, NEW v \in Values,
         v # Null, WellTyped(Schema[type][f], v)
  PROVE  ReadBack(v) # Null /\ WellTyped(Schema[type][f], ReadBack(v))
<1>1. CASE v.kind = "string"
  <2>1. v.text \in Schema[type][f].allowed /\ Schema[type][f].kind = "string"
    BY <1>1 DEF WellTyped
  <2>2. PICK t \in {v.text, "spaced"} :
          ReadBack(v) = Str(t) /\ (t = "spaced" => v.text \in {"lines", "spaced"})
    BY <1>1 DEF ReadBack, Quoted, QuotedLoads, Str
  <2>3. t \in Schema[type][f].allowed
    BY <2>1, <2>2, SchemaAssumption
  <2> QED
    BY <2>1, <2>2, <2>3 DEF WellTyped, Str, Null
<1>2. CASE v.kind = "list"
  BY <1>2 DEF ReadBack, WellTyped, List, Null
<1>3. CASE v.kind \notin {"string", "list"}
  BY <1>3 DEF ReadBack
<1> QED
  BY <1>1, <1>2, <1>3

LEMMA ValidReadsValid ==
  ASSUME NEW type \in Types, NEW fm \in Frontmatter, NEW enforced,
         Errors(type, fm.fields, enforced) = {}
  PROVE  Errors(type, Written(fm).fields, {}) = {}
<1> SUFFICES ASSUME NEW f \in Fields
             PROVE  LET v == Written(fm).fields[f] IN
                    IF v = Null THEN ~Schema[type][f].required
                                ELSE WellTyped(Schema[type][f], v)
  BY DEF Errors
<1> DEFINE old == fm.fields[f]
<1>1. old \in Values /\ Written(fm).fields[f] = ReadBack(old)
  BY WrittenType DEF Frontmatter
<1>2. IF old = Null THEN ~Schema[type][f].required ELSE WellTyped(Schema[type][f], old)
  BY DEF Errors
<1>3. ReadBack(Null) = Null
  BY DEF ReadBack, Null
<1> HIDE DEF old
<1> QED
  BY <1>1, <1>2, <1>3, ReadBackFits

LEMMA MergeType ==
  ASSUME NEW fm \in Frontmatter, NEW given \in Inputs
  PROVE  Merge(fm, given) \in Frontmatter
<1>1. /\ given.doc_id \in Ids \union {NotAnId, Keep}
      /\ given.doc_type \in Types \union {Unregistered, Keep}
      /\ \A f \in DOMAIN given.fields : given.fields[f] \in Values
  BY InputsAssumption
<1>2. fm.doc_id \in Ids \union {NotAnId} /\ fm.doc_type \in Types \union {Unregistered}
      /\ \A f \in Fields : fm.fields[f] \in Values
  BY DEF Frontmatter
<1> QED
  BY <1>1, <1>2 DEF Merge, Frontmatter

LEMMA NewType ==
  ASSUME NEW type \in Types, NEW id \in Ids
  PROVE  New(type, id) \in Frontmatter
BY DEF New, Frontmatter, Values, Scalars

(* ---- Tables and stores ------------------------------------------------------- *)

LEMMA PutOK ==
  ASSUME NEW table, TableOK(table), NEW path \in Paths,
         NEW fm \in Frontmatter, Indexable(fm)
  PROVE  /\ TableOK(Put(table, path, fm))
         /\ \A i \in Ids : Put(table, path, fm)[i] # NoRow =>
              IF Put(table, path, fm)[i].path = path
              THEN Put(table, path, fm)[i] = [path |-> path, fm |-> fm]
              ELSE Put(table, path, fm)[i] = table[i]
<1> DEFINE put == Put(table, path, fm)
           new == [path |-> path, fm |-> fm]
<1>1. new \in Rows /\ new.path = path /\ new.fm = fm
  BY DEF Rows
<1>2. /\ table \in [Ids -> Rows \union {NoRow}]
      /\ \A i \in Ids : table[i] # NoRow
           => table[i].fm.doc_id = i /\ table[i].fm.doc_type \in Types
      /\ \A i, j \in Ids :
           table[i] # NoRow /\ table[j] # NoRow /\ table[i].path = table[j].path => i = j
  BY DEF TableOK
<1>3. fm.doc_id \in Ids /\ fm.doc_type \in Types
  BY DEF Indexable
<1>4. put = [i \in Ids |-> IF i = fm.doc_id THEN new
                           ELSE IF table[i] # NoRow /\ table[i].path = path THEN NoRow
                           ELSE table[i]]
  BY DEF Put
<1> HIDE DEF new, put
<1>5. put \in [Ids -> Rows \union {NoRow}]
  BY <1>1, <1>2, <1>4
<1>6. \A i \in Ids : put[i] # NoRow =>
        \/ i = fm.doc_id /\ put[i] = new
        \/ i # fm.doc_id /\ put[i] = table[i] /\ table[i].path # path
  BY <1>4
<1>7. TableOK(put)
  BY <1>1, <1>2, <1>3, <1>5, <1>6 DEF TableOK
<1>8. \A i \in Ids : put[i] # NoRow =>
        IF put[i].path = path THEN put[i] = new ELSE put[i] = table[i]
  BY <1>1, <1>6
<1> QED
  BY <1>7, <1>8 DEF new, put

LEMMA WroteOK ==
  ASSUME NEW store, StoreOK(store), NEW path \in Paths, NEW fm \in Frontmatter,
         NEW entry \in Entries
  PROVE  StoreOK(Wrote(store, path, fm, entry))
<1> DEFINE new == Wrote(store, path, fm, entry)
<1>1. /\ store.files \in [Paths -> Frontmatter \union {NoFile}]
      /\ TableOK(store.rows)
      /\ store.drift \subseteq Paths
      /\ store.done \in Seq(Entries)
      /\ \A i \in Ids : store.rows[i] # NoRow /\ store.rows[i].path \notin store.drift
                          => store.files[store.rows[i].path] = store.rows[i].fm
  BY DEF StoreOK
<1>2. /\ new.files = [store.files EXCEPT ![path] = fm]
      /\ new.rows = IF Indexable(fm) THEN Put(store.rows, path, fm) ELSE store.rows
      /\ new.drift = IF Indexable(fm) THEN store.drift \ {path} ELSE store.drift \union {path}
      /\ new.done = IF Indexable(fm) THEN Append(store.done, entry) ELSE store.done
  BY DEF Wrote
<1>p. ASSUME Indexable(fm)
      PROVE  /\ TableOK(Put(store.rows, path, fm))
             /\ \A i \in Ids : Put(store.rows, path, fm)[i] # NoRow =>
                  IF Put(store.rows, path, fm)[i].path = path
                  THEN Put(store.rows, path, fm)[i] = [path |-> path, fm |-> fm]
                  ELSE Put(store.rows, path, fm)[i] = store.rows[i]
  BY <1>1, <1>p, PutOK
<1> HIDE DEF new
<1>3. new.files \in [Paths -> Frontmatter \union {NoFile}] /\ new.drift \subseteq Paths
  BY <1>1, <1>2
<1>4. new.done \in Seq(Entries)
  BY <1>1, <1>2
<1>5. TableOK(new.rows)
  BY <1>1, <1>2, <1>p
<1>6. ASSUME NEW i \in Ids, new.rows[i] # NoRow, new.rows[i].path \notin new.drift
      PROVE  new.files[new.rows[i].path] = new.rows[i].fm
  <2>0. new.rows[i].path \in Paths
    BY <1>5, <1>6 DEF TableOK, Rows
  <2>1. CASE Indexable(fm) /\ new.rows[i].path = path
    <3>1. new.rows[i] = [path |-> path, fm |-> fm]
      BY <1>2, <1>6, <1>p, <2>1
    <3> QED
      BY <1>1, <1>2, <3>1
  <2>2. CASE Indexable(fm) /\ new.rows[i].path # path
    <3>1. new.rows[i] = store.rows[i]
      BY <1>2, <1>6, <1>p, <2>2
    <3>2. store.rows[i].path \notin store.drift
      BY <1>2, <1>6, <2>2, <3>1
    <3>3. store.files[store.rows[i].path] = store.rows[i].fm
      BY <1>1, <1>6, <3>1, <3>2
    <3> QED
      BY <1>1, <1>2, <2>0, <2>2, <3>1, <3>3
  <2>3. CASE ~Indexable(fm)
    <3>1. new.rows[i] = store.rows[i] /\ store.rows[i].path \notin store.drift
          /\ store.rows[i].path # path
      BY <1>2, <1>6, <2>3
    <3>2. store.files[store.rows[i].path] = store.rows[i].fm
      BY <1>1, <1>6, <3>1
    <3> QED
      BY <1>1, <1>2, <2>0, <3>1, <3>2
  <2> QED
    BY <2>1, <2>2, <2>3
<1>7. StoreOK(new)
  BY <1>3, <1>4, <1>5, <1>6 DEF StoreOK
<1> QED
  BY <1>7 DEF new

(* ---- What a call accepted stays valid ---------------------------------------- *)

Overwritten(store, k) ==
  \/ store.done[k].path \in store.drift
  \/ \E j \in DOMAIN store.done : j > k /\ store.done[j].path = store.done[k].path

ValidFor(type, file) == file # NoFile /\ Errors(type, file.fields, {}) = {}

Valid(store) ==
  \A k \in DOMAIN store.done :
    /\ store.files[store.done[k].path] # NoFile
    /\ ~Overwritten(store, k) => ValidFor(store.done[k].type, store.files[store.done[k].path])

LEMMA WroteValid ==
  ASSUME NEW store, StoreOK(store), Valid(store), NEW fm \in Frontmatter,
         NEW entry \in Entries, ValidFor(entry.type, fm)
  PROVE  Valid(Wrote(store, entry.path, fm, entry))
<1> DEFINE path == entry.path
           new == Wrote(store, path, fm, entry)
<1>1. /\ store.files \in [Paths -> Frontmatter \union {NoFile}]
      /\ store.drift \subseteq Paths
      /\ store.done \in Seq(Entries)
  BY DEF StoreOK
<1>2. path \in Paths
  BY DEF Entries
<1>3. /\ new.files = [store.files EXCEPT ![path] = fm]
      /\ new.drift = IF Indexable(fm) THEN store.drift \ {path} ELSE store.drift \union {path}
      /\ new.done = IF Indexable(fm) THEN Append(store.done, entry) ELSE store.done
  BY DEF Wrote
<1>4. fm # NoFile
  BY DEF ValidFor
<1>5. \A k \in DOMAIN store.done : store.done[k] \in Entries /\ store.done[k].path \in Paths
  <2>1. \A e \in Entries : e.path \in Paths
    BY DEF Entries
  <2>2. \A k \in DOMAIN store.done : store.done[k] \in Entries
    BY <1>1
  <2> QED
    BY <2>1, <2>2
<1> HIDE DEF new, path
<1>6. \A p \in Paths : new.files[p] = IF p = path THEN fm ELSE store.files[p]
  BY <1>1, <1>3
<1>7. CASE Indexable(fm)
  <2>1. /\ DOMAIN new.done = DOMAIN store.done \union {Len(store.done) + 1}
        /\ \A k \in DOMAIN store.done : new.done[k] = store.done[k]
        /\ new.done[Len(store.done) + 1] = entry
    BY <1>1, <1>3, <1>7
  <2>2. \A k \in DOMAIN store.done : k \in Nat /\ Len(store.done) + 1 > k
    BY <1>1
  <2>3. new.drift = store.drift \ {path}
    BY <1>3, <1>7
  <2>4. ASSUME NEW k \in DOMAIN store.done
        PROVE  /\ new.files[new.done[k].path] # NoFile
               /\ ~Overwritten(new, k)
                    => ValidFor(new.done[k].type, new.files[new.done[k].path])
    <3>1. new.done[k] = store.done[k] /\ store.done[k].path \in Paths
      BY <1>5, <2>1
    <3>2. CASE store.done[k].path = path
      <4>1. Overwritten(new, k)
        BY <2>1, <2>2, <3>2, path = entry.path DEF Overwritten, path
      <4> QED
        BY <1>4, <1>6, <3>1, <3>2, <4>1
    <3>3. CASE store.done[k].path # path
      <4>1. new.files[new.done[k].path] = store.files[store.done[k].path]
        BY <1>6, <3>1, <3>3
      <4>2. Overwritten(store, k) => Overwritten(new, k)
        BY <2>1, <2>3, <3>1, <3>3 DEF Overwritten
      <4> QED
        BY <3>1, <4>1, <4>2 DEF Valid
    <3> QED
      BY <3>2, <3>3
  <2>5. ValidFor(entry.type, new.files[entry.path]) /\ new.files[entry.path] # NoFile
    BY <1>2, <1>4, <1>6 DEF path
  <2> QED
    BY <2>1, <2>4, <2>5 DEF Valid, new, path
<1>8. CASE ~Indexable(fm)
  <2>1. new.done = store.done /\ new.drift = store.drift \union {path}
    BY <1>3, <1>8
  <2>2. ASSUME NEW k \in DOMAIN store.done
        PROVE  /\ new.files[store.done[k].path] # NoFile
               /\ ~Overwritten(new, k)
                    => ValidFor(store.done[k].type, new.files[store.done[k].path])
    <3>1. store.done[k].path = path => Overwritten(new, k)
      BY <2>1 DEF Overwritten
    <3>2. store.done[k].path # path =>
            new.files[store.done[k].path] = store.files[store.done[k].path]
      BY <1>5, <1>6
    <3>3. Overwritten(store, k) => Overwritten(new, k)
      BY <2>1 DEF Overwritten
    <3>4. store.done[k].path = path => new.files[store.done[k].path] = fm
      BY <1>2, <1>6
    <3> QED
      BY <1>4, <3>1, <3>2, <3>3, <3>4 DEF Valid
  <2> QED
    BY <2>1, <2>2 DEF Valid, new, path
<1> QED
  BY <1>7, <1>8

(* ---- One record --------------------------------------------------------------- *)

\* What a create does: nothing, or it writes a valid file for an id without a row.
LEMMA CreateCases ==
  ASSUME NEW store, StoreOK(store), NEW r \in NewRecords, Created(store, r) # store
  PROVE  \E fm \in Frontmatter :
           LET path == <<r.type, r.id>>
               entry == [type |-> r.type, id |-> r.id, path |-> path, given |-> r.given] IN
           /\ Created(store, r) = Wrote(store, path, fm, entry)
           /\ path \in Paths /\ entry \in Entries
           /\ store.rows[r.id] = NoRow
           /\ ValidFor(r.type, fm)
           /\ fm.doc_id = IF r.given.doc_id = Keep THEN r.id ELSE r.given.doc_id
<1> DEFINE path == <<r.type, r.id>>
           entry == [type |-> r.type, id |-> r.id, path |-> path, given |-> r.given]
           fm == Merge(New(r.type, r.id), r.given)
<1>1. r.type \in Types /\ r.id \in Ids /\ r.given \in Inputs
  BY DEF NewRecords
<1>2. path \in Paths
  BY <1>1 DEF Paths
<1>3. entry \in Entries
  BY <1>1, <1>2 DEF Entries
<1>4. fm \in Frontmatter
  BY <1>1, NewType, MergeType
<1>5. fm.doc_id = IF r.given.doc_id = Keep THEN r.id ELSE r.given.doc_id
  BY DEF Merge, New
<1>6. /\ store.rows[r.id] = NoRow
      /\ Errors(r.type, fm.fields, Fields) = {}
      /\ Created(store, r) = Wrote(store, path, Written(fm), entry)
  BY Zenon DEF Created
<1> HIDE DEF fm
<1>7. Written(fm) \in Frontmatter /\ Written(fm).doc_id = fm.doc_id
  BY <1>4, WrittenType
<1>8. Errors(r.type, Written(fm).fields, {}) = {}
  BY <1>1, <1>4, <1>6, ValidReadsValid
<1>9. ValidFor(r.type, Written(fm))
  BY <1>7, <1>8, NullsAssumption DEF ValidFor
<1> QED
  BY <1>2, <1>3, <1>5, <1>6, <1>7, <1>9

\* What an update does: nothing, or it writes a valid file where the id's row is.
LEMMA UpdateCases ==
  ASSUME NEW store, StoreOK(store), NEW r \in Changes, Updated(store, r) # store
  PROVE  \E fm \in Frontmatter :
           LET row == store.rows[r.id]
               entry == [type |-> row.fm.doc_type, id |-> r.id, path |-> row.path,
                         given |-> r.given] IN
           /\ Updated(store, r) = Wrote(store, row.path, fm, entry)
           /\ row # NoRow /\ row.path \in Paths /\ entry \in Entries
           /\ ValidFor(row.fm.doc_type, fm)
<1> DEFINE row == store.rows[r.id]
           type == row.fm.doc_type
           entry == [type |-> type, id |-> r.id, path |-> row.path, given |-> r.given]
           old == store.files[row.path]
           fm == Merge(old, r.given)
<1>1. r.id \in Ids /\ r.given \in Inputs
  BY DEF Changes
<1>2. row # NoRow
  BY Zenon DEF Updated
<1>3. row \in Rows /\ type \in Types
  BY <1>1, <1>2 DEF StoreOK, TableOK
<1>4. row.path \in Paths
  BY <1>3 DEF Rows
<1>5. entry \in Entries
  BY <1>1, <1>3, <1>4 DEF Entries
<1>6. /\ old # NoFile
      /\ Errors(type, fm.fields, ChangedFields(old, r.given)) = {}
      /\ Updated(store, r) = Wrote(store, row.path, Written(fm), entry)
  BY Zenon DEF Updated
<1>7. old \in Frontmatter
  BY <1>4, <1>6 DEF StoreOK
<1> HIDE DEF old, row
<1>8. fm \in Frontmatter
  BY <1>1, <1>7, MergeType
<1> HIDE DEF fm
<1>9. Written(fm) \in Frontmatter
  BY <1>8, WrittenType
<1>10. Errors(type, Written(fm).fields, {}) = {}
  BY <1>3, <1>6, <1>8, ValidReadsValid
<1>11. ValidFor(type, Written(fm))
  BY <1>9, <1>10, NullsAssumption DEF ValidFor
<1>12. /\ Updated(store, r) = Wrote(store, row.path, Written(fm), entry)
       /\ row # NoRow /\ row.path \in Paths /\ entry \in Entries
       /\ ValidFor(row.fm.doc_type, Written(fm))
  BY <1>2, <1>4, <1>5, <1>6, <1>11
<1> QED
  BY <1>9, <1>12 DEF row

(* ---- What a clean verification means ------------------------------------------- *)

\* Each success is found where it was written.
Settled(store) ==
  \A k \in DOMAIN store.done :
    LET entry == store.done[k] IN
    store.rows[entry.id] # NoRow /\ store.rows[entry.id].path = entry.path

\* A create that gave itself another id, and whose own id has no row, or that of
\* a file in its name that states this id.
Astray(store, k) ==
  LET entry == store.done[k]
      row == store.rows[entry.id] IN
  /\ entry.given.doc_id \notin {Keep, entry.id}
  /\ row # NoRow => row.path[2] = entry.id /\ store.files[row.path].doc_id = entry.id

\* Creates keep each success where it was written until one gives itself another
\* id; the last that did is astray.
CreatesKept(store) ==
  /\ \A k \in DOMAIN store.done : store.done[k].path[2] = store.done[k].id
  /\ Settled(store) \/ \E k \in DOMAIN store.done : Astray(store, k)

\* So do updates; the last that gave itself another id has no row.
UpdatesKept(store) ==
  Settled(store) \/ \E k \in DOMAIN store.done : store.rows[store.done[k].id] = NoRow

\* What writing a file does to the files, the rows and the successes.
Effect(store, path, fm, entry, new) ==
  /\ \A p \in Paths : new.files[p] = IF p = path THEN fm ELSE store.files[p]
  /\ ~Indexable(fm) => new.rows = store.rows /\ new.done = store.done
  /\ Indexable(fm) =>
       /\ DOMAIN new.done = DOMAIN store.done \union {Len(store.done) + 1}
       /\ \A k \in DOMAIN store.done : new.done[k] = store.done[k]
       /\ new.done[Len(store.done) + 1] = entry
       /\ fm.doc_id \in Ids
       /\ \A i \in Ids :
            new.rows[i] = IF i = fm.doc_id THEN [path |-> path, fm |-> fm]
                          ELSE IF store.rows[i] # NoRow /\ store.rows[i].path = path
                               THEN NoRow
                          ELSE store.rows[i]

LEMMA WroteEffect ==
  ASSUME NEW store, StoreOK(store), NEW path, NEW fm, NEW entry
  PROVE  Effect(store, path, fm, entry, Wrote(store, path, fm, entry))
<1> DEFINE new == Wrote(store, path, fm, entry)
<1>1. /\ store.files \in [Paths -> Frontmatter \union {NoFile}]
      /\ store.done \in Seq(Entries)
  BY DEF StoreOK
<1>2. /\ new.files = [store.files EXCEPT ![path] = fm]
      /\ new.rows = IF Indexable(fm) THEN Put(store.rows, path, fm) ELSE store.rows
      /\ new.done = IF Indexable(fm) THEN Append(store.done, entry) ELSE store.done
  BY DEF Wrote
<1> HIDE DEF new
<1>3. ASSUME Indexable(fm)
      PROVE  \A i \in Ids :
               new.rows[i] = IF i = fm.doc_id THEN [path |-> path, fm |-> fm]
                             ELSE IF store.rows[i] # NoRow /\ store.rows[i].path = path
                                  THEN NoRow
                             ELSE store.rows[i]
  BY <1>2, <1>3 DEF Put
<1>4. ASSUME Indexable(fm)
      PROVE  /\ DOMAIN new.done = DOMAIN store.done \union {Len(store.done) + 1}
             /\ \A k \in DOMAIN store.done : new.done[k] = store.done[k]
             /\ new.done[Len(store.done) + 1] = entry
  BY <1>1, <1>2, <1>4
<1>5. \A p \in Paths : new.files[p] = IF p = path THEN fm ELSE store.files[p]
  BY <1>1, <1>2
<1>6. ~Indexable(fm) => new.rows = store.rows /\ new.done = store.done
  BY <1>2
<1>7. Indexable(fm) => fm.doc_id \in Ids
  BY DEF Indexable
<1> QED
  BY <1>3, <1>4, <1>5, <1>6, <1>7 DEF Effect, new

LEMMA EntriesTyped ==
  ASSUME NEW store, StoreOK(store), NEW k \in DOMAIN store.done
  PROVE  /\ store.done[k] \in Entries
         /\ store.done[k].id \in Ids /\ store.done[k].path \in Paths
         /\ store.done[k].type \in Types /\ store.done[k].given \in Inputs
<1>1. store.done[k] \in Entries
  BY DEF StoreOK
<1> QED
  BY <1>1 DEF Entries

LEMMA CreateKeeps ==
  ASSUME NEW store, StoreOK(store), Valid(store), CreatesKept(store), NEW r \in NewRecords
  PROVE  /\ StoreOK(Created(store, r)) /\ Valid(Created(store, r))
         /\ CreatesKept(Created(store, r))
<1> SUFFICES ASSUME Created(store, r) # store
             PROVE  /\ StoreOK(Created(store, r)) /\ Valid(Created(store, r))
                    /\ CreatesKept(Created(store, r))
  OBVIOUS
<1> DEFINE new == Created(store, r)
           path == <<r.type, r.id>>
           entry == [type |-> r.type, id |-> r.id, path |-> path, given |-> r.given]
<1>1. PICK fm \in Frontmatter :
        /\ new = Wrote(store, path, fm, entry)
        /\ path \in Paths /\ entry \in Entries
        /\ store.rows[r.id] = NoRow
        /\ ValidFor(r.type, fm)
        /\ fm.doc_id = IF r.given.doc_id = Keep THEN r.id ELSE r.given.doc_id
  BY CreateCases, Zenon
<1>2. /\ entry.path = path /\ entry.type = r.type /\ entry.id = r.id /\ entry.given = r.given
      /\ path[2] = r.id
  OBVIOUS
<1> HIDE DEF new, path, entry
<1>3. StoreOK(new)
  BY <1>1, WroteOK
<1>4. Valid(new)
  BY <1>1, <1>2, WroteValid
<1>5. r.id \in Ids
  BY DEF NewRecords
<1>e. Effect(store, path, fm, entry, new)
  BY <1>1, WroteEffect
<1>6. /\ \A p \in Paths : new.files[p] = IF p = path THEN fm ELSE store.files[p]
      /\ ~Indexable(fm) => new.rows = store.rows /\ new.done = store.done
      /\ Indexable(fm) =>
           /\ DOMAIN new.done = DOMAIN store.done \union {Len(store.done) + 1}
           /\ \A k \in DOMAIN store.done : new.done[k] = store.done[k]
           /\ new.done[Len(store.done) + 1] = entry
           /\ fm.doc_id \in Ids
           /\ \A i \in Ids :
                new.rows[i] = IF i = fm.doc_id THEN [path |-> path, fm |-> fm]
                              ELSE IF store.rows[i] # NoRow /\ store.rows[i].path = path
                                   THEN NoRow
                              ELSE store.rows[i]
  BY <1>e DEF Effect
<1>7. \A k \in DOMAIN new.done : new.done[k].path[2] = new.done[k].id
  BY <1>2, <1>6 DEF CreatesKept
<1>8. \A k \in DOMAIN store.done : store.done[k].id \in Ids /\ store.done[k].path \in Paths
  BY EntriesTyped
<1>9. \A i \in Ids : store.rows[i] # NoRow => store.rows[i].path \in Paths
  BY DEF StoreOK, TableOK, Rows
<1>10. [path |-> path, fm |-> fm] # NoRow
  BY <1>1, NullsAssumption
<1>11. ASSUME NEW k \in DOMAIN store.done, Astray(store, k),
              \/ ~Indexable(fm)
              \/ fm.doc_id = r.id
       PROVE  k \in DOMAIN new.done /\ Astray(new, k)
  <2> DEFINE e == store.done[k]
  <2>1. k \in DOMAIN new.done /\ new.done[k] = e
    BY <1>6, Zenon
  <2>2. e.id \in Ids
    BY <1>8
  <2>3. /\ e.given.doc_id \notin {Keep, e.id}
        /\ store.rows[e.id] # NoRow =>
             store.rows[e.id].path[2] = e.id /\ store.files[store.rows[e.id].path].doc_id = e.id
    BY <1>11, Zenon DEF Astray
  <2> HIDE DEF e
  <2>4. ASSUME new.rows[e.id] # NoRow
        PROVE  /\ new.rows[e.id].path[2] = e.id
               /\ new.files[new.rows[e.id].path].doc_id = e.id
    <3>1. CASE Indexable(fm) /\ e.id = r.id
      <4>1. new.rows[e.id] = [path |-> path, fm |-> fm] /\ fm.doc_id = r.id
        BY <1>6, <1>11, <2>2, <3>1
      <4> QED
        BY <1>1, <1>2, <1>6, <3>1, <4>1
    <3>2. CASE ~(Indexable(fm) /\ e.id = r.id)
      <4>1. new.rows[e.id] = store.rows[e.id]
        BY <1>6, <1>11, <2>2, <2>4, <3>2
      <4>2. store.rows[e.id].path \in Paths /\ store.rows[e.id] # NoRow
        BY <1>9, <2>2, <2>4, <4>1
      <4>3. store.rows[e.id].path[2] = e.id /\ e.id # r.id
        BY <1>1, <2>3, <4>2
      <4>4. store.rows[e.id].path # path
        BY <1>2, <4>3
      <4> QED
        BY <1>6, <2>3, <4>1, <4>2, <4>4
    <3> QED
      BY <3>1, <3>2
  <2>5. Astray(new, k)
    BY <2>1, <2>3, <2>4, Zenon DEF Astray
  <2> QED
    BY <2>1, <2>5
<1>12. CASE Indexable(fm) /\ fm.doc_id # r.id
  <2> DEFINE k == Len(store.done) + 1
  <2>1. k \in DOMAIN new.done /\ new.done[k] = entry
    BY <1>6, <1>12
  <2> HIDE DEF k
  <2>2. new.rows[r.id] = NoRow
    BY <1>1, <1>5, <1>6, <1>12
  <2>3. r.given.doc_id \notin {Keep, r.id}
    BY <1>1, <1>12
  <2>4. Astray(new, k)
    BY <1>2, <2>1, <2>2, <2>3 DEF Astray
  <2> QED
    BY <1>3, <1>4, <1>7, <2>1, <2>4 DEF CreatesKept, new
<1>13. CASE Settled(store) /\ ~Indexable(fm)
  <2>1. Settled(new)
    BY <1>6, <1>13 DEF Settled
  <2> QED
    BY <1>3, <1>4, <1>7, <2>1 DEF CreatesKept, new
<1>14. CASE Settled(store) /\ Indexable(fm) /\ fm.doc_id = r.id
  <2>1. ASSUME NEW k \in DOMAIN store.done
        PROVE  /\ new.rows[store.done[k].id] # NoRow
               /\ new.rows[store.done[k].id].path = store.done[k].path
    <3>1. /\ store.rows[store.done[k].id] # NoRow
          /\ store.rows[store.done[k].id].path = store.done[k].path
          /\ store.done[k].path[2] = store.done[k].id
      BY <1>14 DEF Settled, CreatesKept
    <3>2. store.done[k].id # r.id /\ store.done[k].path # path
      BY <1>1, <1>2, <3>1
    <3> QED
      BY <1>6, <1>8, <1>14, <3>1, <3>2
  <2>2. new.rows[r.id] # NoRow /\ new.rows[r.id].path = path
    BY <1>5, <1>6, <1>10, <1>14
  <2>3. Settled(new)
    BY <1>2, <1>6, <1>14, <2>1, <2>2 DEF Settled
  <2> QED
    BY <1>3, <1>4, <1>7, <2>3 DEF CreatesKept, new
<1>15. CASE /\ \E k \in DOMAIN store.done : Astray(store, k)
            /\ ~Indexable(fm) \/ fm.doc_id = r.id
  <2>1. \E k \in DOMAIN new.done : Astray(new, k)
    BY <1>11, <1>15
  <2> QED
    BY <1>3, <1>4, <1>7, <2>1 DEF CreatesKept, new
<1> QED
  BY <1>12, <1>13, <1>14, <1>15 DEF CreatesKept

LEMMA UpdateKeeps ==
  ASSUME NEW store, StoreOK(store), Valid(store), UpdatesKept(store), NEW r \in Changes
  PROVE  /\ StoreOK(Updated(store, r)) /\ Valid(Updated(store, r))
         /\ UpdatesKept(Updated(store, r))
<1> SUFFICES ASSUME Updated(store, r) # store
             PROVE  /\ StoreOK(Updated(store, r)) /\ Valid(Updated(store, r))
                    /\ UpdatesKept(Updated(store, r))
  OBVIOUS
<1> DEFINE new == Updated(store, r)
           row == store.rows[r.id]
           entry == [type |-> row.fm.doc_type, id |-> r.id, path |-> row.path,
                     given |-> r.given]
<1>1. PICK fm \in Frontmatter :
        /\ new = Wrote(store, row.path, fm, entry)
        /\ row # NoRow /\ row.path \in Paths /\ entry \in Entries
        /\ ValidFor(row.fm.doc_type, fm)
  BY UpdateCases, Zenon
<1>2. entry.path = row.path /\ entry.type = row.fm.doc_type /\ entry.id = r.id
  OBVIOUS
<1> HIDE DEF new, entry
<1>3. StoreOK(new)
  BY <1>1, WroteOK
<1>4. Valid(new)
  BY <1>1, <1>2, WroteValid
<1>5. r.id \in Ids
  BY DEF Changes
<1>e. Effect(store, row.path, fm, entry, new)
  BY <1>1, WroteEffect
<1>6. /\ ~Indexable(fm) => new.rows = store.rows /\ new.done = store.done
      /\ Indexable(fm) =>
           /\ DOMAIN new.done = DOMAIN store.done \union {Len(store.done) + 1}
           /\ \A k \in DOMAIN store.done : new.done[k] = store.done[k]
           /\ new.done[Len(store.done) + 1] = entry
           /\ fm.doc_id \in Ids
           /\ \A i \in Ids :
                new.rows[i] = IF i = fm.doc_id THEN [path |-> row.path, fm |-> fm]
                              ELSE IF store.rows[i] # NoRow /\ store.rows[i].path = row.path
                                   THEN NoRow
                              ELSE store.rows[i]
  BY <1>e DEF Effect
<1>7. \A k \in DOMAIN store.done : store.done[k].id \in Ids
  BY EntriesTyped
<1>8. \A i \in Ids : store.rows[i] # NoRow /\ store.rows[i].path = row.path => i = r.id
  BY <1>1, <1>5 DEF StoreOK, TableOK
<1>9. [path |-> row.path, fm |-> fm] # NoRow
  BY <1>1, NullsAssumption
<1>10. CASE ~Indexable(fm)
  <2>1. UpdatesKept(new)
    BY <1>6, <1>10 DEF UpdatesKept, Settled
  <2> QED
    BY <1>3, <1>4, <2>1 DEF new
<1>11. CASE Indexable(fm) /\ fm.doc_id # r.id
  <2>1. new.rows[r.id] = NoRow
    BY <1>1, <1>5, <1>6, <1>11
  <2>2. UpdatesKept(new)
    BY <1>2, <1>6, <1>11, <2>1 DEF UpdatesKept
  <2> QED
    BY <1>3, <1>4, <2>2 DEF new
<1>12. CASE Indexable(fm) /\ fm.doc_id = r.id
  <2>1. \A i \in Ids \ {r.id} : new.rows[i] = store.rows[i]
    BY <1>6, <1>8, <1>12
  <2>2. new.rows[r.id] # NoRow /\ new.rows[r.id].path = row.path
    BY <1>5, <1>6, <1>9, <1>12
  <2>3. CASE Settled(store)
    <3>1. ASSUME NEW k \in DOMAIN store.done
          PROVE  /\ new.rows[store.done[k].id] # NoRow
                 /\ new.rows[store.done[k].id].path = store.done[k].path
      <4>1. /\ store.rows[store.done[k].id] # NoRow
            /\ store.rows[store.done[k].id].path = store.done[k].path
        BY <2>3 DEF Settled
      <4> QED
        BY <1>7, <2>1, <2>2, <4>1
    <3>2. ASSUME NEW k \in DOMAIN new.done
          PROVE  /\ new.rows[new.done[k].id] # NoRow
                 /\ new.rows[new.done[k].id].path = new.done[k].path
      <4>1. CASE k \in DOMAIN store.done
        BY <1>6, <1>12, <3>1, <4>1
      <4>2. CASE new.done[k] = entry
        BY <1>2, <2>2, <4>2
      <4> QED
        BY <1>6, <1>12, <4>1, <4>2
    <3>3. Settled(new)
      BY <3>2 DEF Settled
    <3> QED
      BY <1>3, <1>4, <3>3 DEF UpdatesKept, new
  <2>4. CASE \E k \in DOMAIN store.done : store.rows[store.done[k].id] = NoRow
    <3>1. PICK k \in DOMAIN store.done : store.rows[store.done[k].id] = NoRow
      BY <2>4
    <3>2. store.done[k].id \in Ids \ {r.id}
      BY <1>1, <1>7, <3>1
    <3>3. k \in DOMAIN new.done /\ new.rows[new.done[k].id] = NoRow
      BY <1>6, <1>12, <2>1, <3>1, <3>2
    <3> QED
      BY <1>3, <1>4, <3>3 DEF UpdatesKept, new
  <2> QED
    BY <2>3, <2>4 DEF UpdatesKept
<1> QED
  BY <1>10, <1>11, <1>12

(* ---- Going through a sequence --------------------------------------------------- *)

\* A set of numbers has a least one.
LEMMA LeastNat ==
  ASSUME NEW T, T \subseteq Nat, T # {}
  PROVE  \E n \in T : \A m \in T : n <= m
<1> DEFINE R == OpToRel(<, Nat)
<1>1. IsWellFoundedOn(R, Nat)
  BY NatLessThanWellFounded, Zenon
<1> HIDE DEF R
<1>2. \E n \in T : \A m \in T : ~(<<m, n>> \in R)
  BY <1>1, WFMin, Zenon
<1>3. PICK n \in T : \A m \in T : ~(<<m, n>> \in R)
  BY <1>2
<1>4. ASSUME NEW m \in T
      PROVE  n <= m
  <2>1. m \in Nat /\ n \in Nat
    OBVIOUS
  <2>2. m < n => <<m, n>> \in R
    BY <2>1, Zenon DEF OpToRel, R
  <2>3. ~(m < n)
    BY <1>3, <2>2, Zenon
  <2> QED
    BY <2>1, <2>3
<1> QED
  BY <1>4

\* Induction up to a number, in a form without an operator.
LEMMA CountUp ==
  ASSUME NEW N \in Nat, NEW T, 0 \in T, \A n \in 1..N : n - 1 \in T => n \in T
  PROVE  \A n \in 0..N : n \in T
<1> SUFFICES ASSUME NEW m \in 0..N, m \notin T PROVE FALSE
  OBVIOUS
<1> DEFINE Bad == {n \in 0..N : n \notin T}
<1>1. Bad \subseteq Nat /\ Bad # {}
  OBVIOUS
<1>2. PICK n \in Bad : \A k \in Bad : n <= k
  BY <1>1, LeastNat
<1>3. n \in 1..N /\ n \notin T
  BY <1>2
<1>4. n - 1 \in T
  BY <1>2, <1>3
<1> QED
  BY <1>3, <1>4

Walks(w, m, start, F) ==
  w = [n \in 0..m |-> IF n = 0 THEN start ELSE F[n][w[n - 1]]]

\* A walk that takes each step from where the one before it led exists, and stays
\* in the set that the steps do not leave.
LEMMA WalkExists ==
  ASSUME NEW N \in Nat, NEW D, NEW start \in D, NEW F \in [1..N -> [D -> D]]
  PROVE  \E w \in [0..N -> D] : Walks(w, N, start, F)
<1> DEFINE T == {m \in 0..N : \E w \in [0..m -> D] : Walks(w, m, start, F)}
<1>1. 0 \in T
  <2> DEFINE w == [n \in 0..0 |-> start]
  <2>1. w \in [0..0 -> D]
    OBVIOUS
  <2>2. Walks(w, 0, start, F)
    BY DEF Walks
  <2> HIDE DEF w
  <2> QED
    BY <2>1, <2>2
<1>2. ASSUME NEW m \in 1..N, m - 1 \in T
      PROVE  m \in T
  <2>1. PICK v \in [0..(m - 1) -> D] : Walks(v, m - 1, start, F)
    BY <1>2
  <2> DEFINE w == [n \in 0..m |-> IF n = m THEN F[m][v[m - 1]] ELSE v[n]]
  <2>2. w \in [0..m -> D]
    OBVIOUS
  <2>3. \A n \in 0..m : w[n] = IF n = 0 THEN start ELSE F[n][w[n - 1]]
    <3>1. ASSUME NEW n \in 0..m
          PROVE  w[n] = IF n = 0 THEN start ELSE F[n][w[n - 1]]
      <4>1. CASE n = m
        BY <4>1
      <4>2. CASE n # m
        <5>1. n \in 0..(m - 1) /\ w[n] = v[n] /\ (n # 0 => w[n - 1] = v[n - 1])
          BY <4>2
        <5>2. v[n] = IF n = 0 THEN start ELSE F[n][v[n - 1]]
          BY <2>1, <5>1 DEF Walks
        <5> QED
          BY <5>1, <5>2
      <4> QED
        BY <4>1, <4>2
    <3> QED
      BY <3>1
  <2> HIDE DEF w
  <2>4. Walks(w, m, start, F)
    BY <2>2, <2>3 DEF Walks
  <2> QED
    BY <2>2, <2>4
<1>3. \A m \in 0..N : m \in T
  <2> HIDE DEF T
  <2> QED
    BY <1>1, <1>2, CountUp
<1> QED
  BY <1>3

(* ---- Bulk calls ------------------------------------------------------------------ *)

Stores ==
  [files : [Paths -> Frontmatter \union {NoFile}], rows : [Ids -> Rows \union {NoRow}],
   drift : SUBSET Paths, done : Seq(Entries)]

LEMMA WroteStores ==
  ASSUME NEW store, NEW path, NEW fm, NEW entry, StoreOK(Wrote(store, path, fm, entry))
  PROVE  Wrote(store, path, fm, entry) \in Stores
BY DEF StoreOK, TableOK, Wrote, Stores

\* The stores that the creates of a call go through, and its updates.
CreateStores == {store \in Stores : StoreOK(store) /\ Valid(store) /\ CreatesKept(store)}
UpdateStores == {store \in Stores : StoreOK(store) /\ Valid(store) /\ UpdatesKept(store)}

LEMMA CallStarts ==
  ASSUME StoreOK(Store)
  PROVE  Store \in CreateStores /\ Store \in UpdateStores
<1>1. Store.done = <<>> /\ DOMAIN Store.done = {}
  BY DEF Store
<1>2. Store \in Stores
  BY DEF Store, Stores, StoreOK, TableOK
<1> QED
  BY <1>1, <1>2 DEF CreateStores, UpdateStores, Valid, CreatesKept, UpdatesKept, Settled

LEMMA CreateStays ==
  ASSUME NEW store \in CreateStores, NEW r \in NewRecords
  PROVE  Created(store, r) \in CreateStores
<1>1. StoreOK(store) /\ Valid(store) /\ CreatesKept(store) /\ store \in Stores
  BY DEF CreateStores
<1>2. /\ StoreOK(Created(store, r)) /\ Valid(Created(store, r))
      /\ CreatesKept(Created(store, r))
  BY <1>1, CreateKeeps
<1>3. Created(store, r) \in Stores
  <2>1. CASE Created(store, r) = store
    BY <1>1, <2>1
  <2>2. CASE Created(store, r) # store
    <3> DEFINE path == <<r.type, r.id>>
               entry == [type |-> r.type, id |-> r.id, path |-> path, given |-> r.given]
    <3>1. PICK fm \in Frontmatter : Created(store, r) = Wrote(store, path, fm, entry)
      BY <1>1, <2>2, CreateCases
    <3> HIDE DEF path, entry
    <3> QED
      BY <1>2, <3>1, WroteStores
  <2> QED
    BY <2>1, <2>2
<1> QED
  BY <1>2, <1>3 DEF CreateStores

LEMMA UpdateStays ==
  ASSUME NEW store \in UpdateStores, NEW r \in Changes
  PROVE  Updated(store, r) \in UpdateStores
<1>1. StoreOK(store) /\ Valid(store) /\ UpdatesKept(store) /\ store \in Stores
  BY DEF UpdateStores
<1>2. /\ StoreOK(Updated(store, r)) /\ Valid(Updated(store, r))
      /\ UpdatesKept(Updated(store, r))
  BY <1>1, UpdateKeeps
<1>3. Updated(store, r) \in Stores
  <2>1. CASE Updated(store, r) = store
    BY <1>1, <2>1
  <2>2. CASE Updated(store, r) # store
    <3> DEFINE row == store.rows[r.id]
               entry == [type |-> row.fm.doc_type, id |-> r.id, path |-> row.path,
                         given |-> r.given]
    <3>1. PICK fm \in Frontmatter : Updated(store, r) = Wrote(store, row.path, fm, entry)
      BY <1>1, <2>2, UpdateCases
    <3> HIDE DEF row, entry
    <3> QED
      BY <1>2, <3>1, WroteStores
  <2> QED
    BY <2>1, <2>2
<1> QED
  BY <1>2, <1>3 DEF UpdateStores

\* The walk that AllCreated chooses.
CreatedFrom(after, records) ==
  after = [n \in 0..Len(records) |->
             IF n = 0 THEN Store ELSE Created(after[n - 1], records[n])]

LEMMA AllCreatedStays ==
  ASSUME StoreOK(Store), NEW records \in Seq(NewRecords)
  PROVE  AllCreated(records) \in CreateStores
<1> DEFINE N == Len(records)
           F == [n \in 1..N |-> [store \in CreateStores |-> Created(store, records[n])]]
<1>1. N \in Nat /\ \A n \in 1..N : records[n] \in NewRecords
  OBVIOUS
<1>2. Store \in CreateStores
  BY CallStarts
<1>3. F \in [1..N -> [CreateStores -> CreateStores]]
  BY <1>1, CreateStays
<1>4. \A n \in 1..N, store \in CreateStores : F[n][store] = Created(store, records[n])
  OBVIOUS
<1> HIDE DEF F, N
<1>5. PICK w \in [0..N -> CreateStores] : Walks(w, N, Store, F)
  BY <1>1, <1>2, <1>3, WalkExists
<1>6. \A n \in 0..N : n # 0 => n \in 1..N /\ n - 1 \in 0..N
  BY <1>1
<1>7. \A n \in 0..N : (IF n = 0 THEN Store ELSE F[n][w[n - 1]])
                        = IF n = 0 THEN Store ELSE Created(w[n - 1], records[n])
  BY <1>4, <1>5, <1>6
<1>8. CreatedFrom(w, records)
  BY <1>5, <1>7 DEF Walks, CreatedFrom, N
<1>9. PICK after : after = CHOOSE a : CreatedFrom(a, records)
  OBVIOUS
<1>10. CreatedFrom(after, records)
  BY <1>8, <1>9, Zenon
<1>11. AllCreated(records) = (CHOOSE a : CreatedFrom(a, records))[Len(records)]
  BY DEF AllCreated, CreatedFrom
<1>12. \A n \in 0..N : after[n] = IF n = 0 THEN Store ELSE Created(after[n - 1], records[n])
  BY <1>10 DEF CreatedFrom, N
<1> DEFINE T == {n \in 0..N : after[n] \in CreateStores}
<1>13. 0 \in T
  BY <1>1, <1>2, <1>12
<1>14. \A n \in 1..N : n - 1 \in T => n \in T
  BY <1>1, <1>12, CreateStays
<1>15. \A n \in 0..N : n \in T
  <2> HIDE DEF T
  <2> QED
    BY <1>1, <1>13, <1>14, CountUp
<1>16. after[N] \in CreateStores
  BY <1>1, <1>15
<1> QED
  BY <1>9, <1>11, <1>16 DEF N

UpdatedFrom(after, changes) ==
  after = [n \in 0..Len(changes) |->
             IF n = 0 THEN Store ELSE Updated(after[n - 1], changes[n])]

LEMMA AllUpdatedStays ==
  ASSUME StoreOK(Store), NEW changes \in Seq(Changes)
  PROVE  AllUpdated(changes) \in UpdateStores
<1> DEFINE N == Len(changes)
           F == [n \in 1..N |-> [store \in UpdateStores |-> Updated(store, changes[n])]]
<1>1. N \in Nat /\ \A n \in 1..N : changes[n] \in Changes
  OBVIOUS
<1>2. Store \in UpdateStores
  BY CallStarts
<1>3. F \in [1..N -> [UpdateStores -> UpdateStores]]
  BY <1>1, UpdateStays
<1>4. \A n \in 1..N, store \in UpdateStores : F[n][store] = Updated(store, changes[n])
  OBVIOUS
<1> HIDE DEF F, N
<1>5. PICK w \in [0..N -> UpdateStores] : Walks(w, N, Store, F)
  BY <1>1, <1>2, <1>3, WalkExists
<1>6. \A n \in 0..N : n # 0 => n \in 1..N /\ n - 1 \in 0..N
  BY <1>1
<1>7. \A n \in 0..N : (IF n = 0 THEN Store ELSE F[n][w[n - 1]])
                        = IF n = 0 THEN Store ELSE Updated(w[n - 1], changes[n])
  BY <1>4, <1>5, <1>6
<1>8. UpdatedFrom(w, changes)
  BY <1>5, <1>7 DEF Walks, UpdatedFrom, N
<1>9. PICK after : after = CHOOSE a : UpdatedFrom(a, changes)
  OBVIOUS
<1>10. UpdatedFrom(after, changes)
  BY <1>8, <1>9, Zenon
<1>11. AllUpdated(changes) = (CHOOSE a : UpdatedFrom(a, changes))[Len(changes)]
  BY DEF AllUpdated, UpdatedFrom
<1>12. \A n \in 0..N : after[n] = IF n = 0 THEN Store ELSE Updated(after[n - 1], changes[n])
  BY <1>10 DEF UpdatedFrom, N
<1> DEFINE T == {n \in 0..N : after[n] \in UpdateStores}
<1>13. 0 \in T
  BY <1>1, <1>2, <1>12
<1>14. \A n \in 1..N : n - 1 \in T => n \in T
  BY <1>1, <1>12, UpdateStays
<1>15. \A n \in 0..N : n \in T
  <2> HIDE DEF T
  <2> QED
    BY <1>1, <1>13, <1>14, CountUp
<1>16. after[N] \in UpdateStores
  BY <1>1, <1>15
<1> QED
  BY <1>9, <1>11, <1>16 DEF N

(* ---- What a call answers ---------------------------------------------------------- *)

WrittenAsAsked(store) ==
  \A k \in DOMAIN store.done :
    LET entry == store.done[k]
        fm == store.files[entry.path] IN
    /\ store.rows[entry.id] # NoRow /\ store.rows[entry.id].path = entry.path
    /\ \A f \in DOMAIN entry.given.fields :
         \/ fm.fields[f] = entry.given.fields[f]
         \/ fm.fields[f].kind # "list" /\ fm.fields[f].text = entry.given.fields[f].text

LEMMA MatchMeans ==
  ASSUME NEW expected, NEW actual, Match(expected, actual)
  PROVE  actual = expected \/ (actual.kind # "list" /\ actual.text = expected.text)
BY DEF Match

LEMMA SettledMeans ==
  ASSUME NEW store, Settled(store), \A k \in DOMAIN store.done : Verified(store, store.done[k])
  PROVE  WrittenAsAsked(store)
<1> SUFFICES ASSUME NEW k \in DOMAIN store.done
             PROVE  LET entry == store.done[k]
                        fm == store.files[entry.path] IN
                    /\ store.rows[entry.id] # NoRow /\ store.rows[entry.id].path = entry.path
                    /\ \A f \in DOMAIN entry.given.fields :
                         \/ fm.fields[f] = entry.given.fields[f]
                         \/ /\ fm.fields[f].kind # "list"
                            /\ fm.fields[f].text = entry.given.fields[f].text
  BY Zenon DEF WrittenAsAsked
<1> DEFINE entry == store.done[k]
           fm == store.files[entry.path]
<1>1. store.rows[entry.id] # NoRow /\ store.rows[entry.id].path = entry.path
  BY Zenon DEF Settled
<1>2. \A f \in DOMAIN entry.given.fields : Match(entry.given.fields[f], fm.fields[f])
  BY <1>1, Zenon DEF Verified
<1> QED
  BY <1>1, <1>2, MatchMeans

LEMMA AllSampled ==
  ASSUME NEW store, Clean(store), Len(store.done) <= 20
  PROVE  \A k \in DOMAIN store.done : Verified(store, store.done[k])
BY DEF Clean, Sampled

LEMMA CleanCreates ==
  ASSUME NEW store \in CreateStores, Clean(store), Len(store.done) <= 20
  PROVE  WrittenAsAsked(store)
<1>1. \A k \in DOMAIN store.done : Verified(store, store.done[k])
  BY AllSampled
<1>2. ASSUME NEW k \in DOMAIN store.done, Astray(store, k)
      PROVE  FALSE
  <2> DEFINE entry == store.done[k]
             row == store.rows[entry.id]
  <2>1. /\ row # NoRow
        /\ entry.given.doc_id \in {Keep, store.files[row.path].doc_id}
    BY <1>1, Zenon DEF Verified
  <2>2. /\ entry.given.doc_id \notin {Keep, entry.id}
        /\ store.files[row.path].doc_id = entry.id
    BY <1>2, <2>1, Zenon DEF Astray
  <2> HIDE DEF entry, row
  <2> QED
    BY <2>1, <2>2
<1>3. Settled(store)
  BY <1>2 DEF CreateStores, CreatesKept
<1> QED
  BY <1>1, <1>3, SettledMeans

LEMMA CleanUpdates ==
  ASSUME NEW store \in UpdateStores, Clean(store), Len(store.done) <= 20
  PROVE  WrittenAsAsked(store)
<1>1. \A k \in DOMAIN store.done : Verified(store, store.done[k])
  BY AllSampled
<1>2. \A k \in DOMAIN store.done : store.rows[store.done[k].id] # NoRow
  BY <1>1, Zenon DEF Verified
<1>3. Settled(store)
  BY <1>2 DEF UpdateStores, UpdatesKept
<1> QED
  BY <1>1, <1>3, SettledMeans

\* A call that ends with such a store keeps the invariant.
LEMMA CallKeeps ==
  ASSUME Inv, NEW store \in Stores, StoreOK(store), Valid(store),
         NEW clean \in BOOLEAN, Becomes(store, clean),
         clean /\ Len(store.done) <= 20 => WrittenAsAsked(store),
         steps' \in 0..MaxSteps
  PROVE  Inv'
<1>1. /\ files' = store.files /\ rows' = store.rows /\ drift' = store.drift
      /\ last' = [done |-> store.done, clean |-> clean]
  BY DEF Becomes
<1>2. StoreOK(Store)'
  BY <1>1 DEF StoreOK, TableOK, Store
<1>3. last' \in [done : Seq(Entries), clean : BOOLEAN]
  BY <1>1 DEF Stores
<1>4. last'.done = store.done /\ last'.clean = clean
  BY <1>1
<1>5. AcceptedStaysValid'
  BY <1>1, <1>4 DEF AcceptedStaysValid, Valid, Overwritten, ValidFor
<1>6. VerifiedMeansWritten'
  <2> SUFFICES ASSUME last'.clean, Len(last'.done) <= 20, NEW k \in DOMAIN last'.done
               PROVE  LET entry == last'.done[k]
                          fm == files'[entry.path] IN
                      /\ rows'[entry.id] # NoRow /\ rows'[entry.id].path = entry.path
                      /\ \A f \in DOMAIN entry.given.fields :
                           \/ fm.fields[f] = entry.given.fields[f]
                           \/ /\ fm.fields[f].kind # "list"
                              /\ fm.fields[f].text = entry.given.fields[f].text
    BY Zenon DEF VerifiedMeansWritten
  <2>1. WrittenAsAsked(store) /\ k \in DOMAIN store.done
    BY <1>4
  <2> QED
    BY <1>1, <1>4, <2>1, Zenon DEF WrittenAsAsked
<1> QED
  BY <1>2, <1>3, <1>5, <1>6 DEF Inv

\* A step without an answer keeps the invariant if it keeps the store's.
LEMMA SilentKeeps ==
  ASSUME StoreOK(Store)', last' = NoAnswer, steps' \in 0..MaxSteps
  PROVE  Inv'
<1>1. last'.done = <<>> /\ last'.clean = FALSE /\ DOMAIN last'.done = {}
  BY DEF NoAnswer
<1>2. last' \in [done : Seq(Entries), clean : BOOLEAN]
  BY DEF NoAnswer
<1> QED
  BY <1>1, <1>2 DEF Inv, AcceptedStaysValid, VerifiedMeansWritten

LEMMA StepCounts ==
  ASSUME steps \in 0..MaxSteps, NEW n \in Nat, Step(n)
  PROVE  steps' \in 0..MaxSteps
BY BoundsAssumption DEF Step

(* ---- Reindexing --------------------------------------------------------------------- *)

\* A row of the sweep is one there was or says what its file says.
Swept(table) ==
  \A i \in Ids : table[i] # NoRow =>
    table[i] = rows[i] \/ table[i].fm = files[table[i].path]

\* Rows of the file p say what it says.
Current(table, p) ==
  Indexable(files[p]) =>
    \A i \in Ids : table[i] # NoRow /\ table[i].path = p => table[i].fm = files[p]

LEMMA IndexedStep ==
  ASSUME StoreOK(Store), NEW force, NEW p \in Present, NEW table, TableOK(table)
  PROVE  LET new == Indexed(force, table, p) IN
         /\ TableOK(new)
         /\ Swept(table) => Swept(new) /\ Current(new, p)
         /\ \A q \in Paths : Current(table, q) => Current(new, q)
<1> DEFINE new == Indexed(force, table, p)
<1>1. p \in Paths /\ files[p] \in Frontmatter
  BY DEF StoreOK, Store, Present
<1>2. TableOK(rows)
  BY DEF StoreOK, Store
<1>3. CASE new = table /\ ~Indexable(files[p])
  BY <1>3 DEF Current
<1>4. CASE new = table /\ Hashed(p)
  <2>1. PICK j \in Ids : rows[j] # NoRow /\ rows[j].path = p /\ rows[j].fm = files[p]
    BY <1>4 DEF Hashed
  <2>2. ASSUME Swept(table), NEW i \in Ids, table[i] # NoRow, table[i].path = p
        PROVE  table[i].fm = files[p]
    <3>1. CASE table[i] = rows[i]
      <4>1. i = j
        BY <1>2, <2>1, <2>2, <3>1 DEF TableOK
      <4> QED
        BY <2>1, <3>1, <4>1
    <3>2. CASE table[i].fm = files[table[i].path]
      BY <2>2, <3>2
    <3> QED
      BY <2>2, <3>1, <3>2 DEF Swept
  <2> QED
    BY <1>4, <2>2 DEF Current
<1>5. CASE new = Put(table, p, files[p]) /\ Indexable(files[p])
  <2>1. /\ TableOK(new)
        /\ \A i \in Ids : new[i] # NoRow =>
             IF new[i].path = p THEN new[i] = [path |-> p, fm |-> files[p]]
                                ELSE new[i] = table[i]
    BY <1>1, <1>5, PutOK
  <2> HIDE DEF new
  <2>2. Current(new, p)
    BY <2>1 DEF Current
  <2>3. Swept(table) => Swept(new)
    BY <2>1 DEF Swept
  <2>4. \A q \in Paths : Current(table, q) => Current(new, q)
    BY <2>1 DEF Current
  <2> QED
    BY <2>1, <2>2, <2>3, <2>4 DEF new
<1> QED
  BY <1>3, <1>4, <1>5, Zenon DEF Indexed

\* The walk that AllIndexed chooses.
IndexedFrom(after, force, order) ==
  after = [n \in 0..Len(order) |->
             IF n = 0 THEN rows ELSE Indexed(force, after[n - 1], order[n])]

LEMMA AllIndexedSweeps ==
  ASSUME StoreOK(Store), NEW force, NEW order \in Seq(Present)
  PROVE  /\ TableOK(AllIndexed(force, order))
         /\ \A n \in 1..Len(order) : Current(AllIndexed(force, order), order[n])
<1> DEFINE N == Len(order)
           D == {table \in [Ids -> Rows \union {NoRow}] : TableOK(table)}
           F == [n \in 1..N |-> [table \in D |-> Indexed(force, table, order[n])]]
<1>1. N \in Nat /\ \A n \in 1..N : order[n] \in Present
  OBVIOUS
<1>2. rows \in D /\ Swept(rows)
  BY DEF StoreOK, Store, TableOK, Swept
<1>3. \A n \in 1..N, table \in D : Indexed(force, table, order[n]) \in D
  <2>1. ASSUME NEW n \in 1..N, NEW table \in D
        PROVE  TableOK(Indexed(force, table, order[n]))
    BY <1>1, <2>1, IndexedStep, Zenon
  <2> QED
    BY <2>1 DEF TableOK
<1>4. F \in [1..N -> [D -> D]]
  BY <1>1, <1>3
<1>5. \A n \in 1..N, table \in D : F[n][table] = Indexed(force, table, order[n])
  OBVIOUS
<1>d. \A table \in D : TableOK(table)
  OBVIOUS
<1> HIDE DEF F, N, D
<1>6. PICK w \in [0..N -> D] : Walks(w, N, rows, F)
  BY <1>1, <1>2, <1>4, WalkExists
<1>7. \A n \in 0..N : n # 0 => n \in 1..N /\ n - 1 \in 0..N
  BY <1>1
<1>8. \A n \in 0..N : (IF n = 0 THEN rows ELSE F[n][w[n - 1]])
                        = IF n = 0 THEN rows ELSE Indexed(force, w[n - 1], order[n])
  BY <1>5, <1>6, <1>7
<1>9. IndexedFrom(w, force, order)
  BY <1>6, <1>8 DEF Walks, IndexedFrom, N
<1>10. PICK after : after = CHOOSE a : IndexedFrom(a, force, order)
  OBVIOUS
<1>11. IndexedFrom(after, force, order)
  BY <1>9, <1>10, Zenon
<1>12. AllIndexed(force, order) = (CHOOSE a : IndexedFrom(a, force, order))[Len(order)]
  BY DEF AllIndexed, IndexedFrom
<1>13. \A n \in 0..N : after[n] = IF n = 0 THEN rows ELSE Indexed(force, after[n - 1], order[n])
  BY <1>11 DEF IndexedFrom, N
<1> DEFINE T == {n \in 0..N : /\ TableOK(after[n]) /\ Swept(after[n])
                              /\ \A k \in 1..n : Current(after[n], order[k])}
<1>14. 0 \in T
  BY <1>1, <1>2, <1>13, <1>d
<1>15. ASSUME NEW n \in 1..N, n - 1 \in T
       PROVE  n \in T
  <2>1. /\ n \in 0..N /\ n - 1 \in 0..N /\ order[n] \in Present
        /\ \A k \in 1..n : k = n \/ k \in 1..(n - 1)
        /\ \A k \in 1..n : k \in 1..N
    BY <1>1
  <2>2. /\ TableOK(after[n - 1]) /\ Swept(after[n - 1])
        /\ \A k \in 1..(n - 1) : Current(after[n - 1], order[k])
    BY <1>15
  <2>3. after[n] = Indexed(force, after[n - 1], order[n])
    BY <1>1, <1>13, <2>1
  <2>4. /\ TableOK(after[n]) /\ Swept(after[n]) /\ Current(after[n], order[n])
        /\ \A q \in Paths : Current(after[n - 1], q) => Current(after[n], q)
    BY <2>1, <2>2, <2>3, IndexedStep
  <2>5. \A k \in 1..n : order[k] \in Paths
    BY <1>1, <2>1 DEF Present
  <2>6. \A k \in 1..n : Current(after[n], order[k])
    BY <2>1, <2>2, <2>4, <2>5
  <2> QED
    BY <2>1, <2>4, <2>6
<1>16. \A n \in 0..N : n \in T
  <2> HIDE DEF T
  <2> QED
    BY <1>1, <1>14, <1>15, CountUp
<1>17. N \in T
  BY <1>1, <1>16
<1> QED
  BY <1>10, <1>12, <1>17 DEF N

\* Files in any order are all the files.
LEMMA OrderCovers ==
  ASSUME NEW order \in SetToSeqs(Present)
  PROVE  /\ order \in Seq(Present)
         /\ \A p \in Present : \E n \in 1..Len(order) : order[n] = p
<1> DEFINE N == Cardinality(Present)
<1>1. IsFiniteSet(Paths)
  BY FiniteAssumption, FS_Product DEF Paths
<1>2. IsFiniteSet(Present)
  BY <1>1, FS_Subset DEF Present
<1>3. N \in Nat
  BY <1>2, FS_CardinalityType
<1>4. order \in [1..N -> Present] /\ \A i, j \in 1..N : i # j => order[i] # order[j]
  BY DEF SetToSeqs
<1> HIDE DEF N
<1>5. order \in Injection(1..N, Present)
  BY <1>4 DEF Injection, IsInjective
<1>6. IsFiniteSet(1..N) /\ Cardinality(1..N) = N
  BY <1>3, FS_Interval
<1>7. order \in Surjection(1..N, Present)
  BY <1>2, <1>5, <1>6, FS_Injection DEF N
<1>8. \A p \in Present : \E n \in 1..N : order[n] = p
  BY <1>7 DEF Surjection
<1> QED
  BY <1>3, <1>4, <1>8

LEMMA ReindexKeeps ==
  ASSUME StoreOK(Store), NEW force, Reindex(force)
  PROVE  StoreOK(Store)'
<1>1. PICK order \in SetToSeqs(Present) :
        LET table == AllIndexed(force, order) IN
        rows' = [i \in Ids |-> IF table[i] # NoRow /\ table[i].path \notin Present
                               THEN NoRow ELSE table[i]]
  BY DEF Reindex
<1> DEFINE table == AllIndexed(force, order)
<1>2. TableOK(table) /\ \A p \in Present : Current(table, p)
  BY OrderCovers, AllIndexedSweeps
<1> HIDE DEF table
<1>3. /\ files' = files
      /\ rows' = [i \in Ids |-> IF table[i] # NoRow /\ table[i].path \notin Present
                                THEN NoRow ELSE table[i]]
      /\ drift' = {p \in Present : ~Indexable(files[p])}
  BY <1>1 DEF Reindex, table
<1>4. \A i \in Ids : rows'[i] # NoRow => rows'[i] = table[i] /\ table[i].path \in Present
  BY <1>3
<1>5. TableOK(rows')
  BY <1>2, <1>3, <1>4 DEF TableOK
<1>6. ASSUME NEW i \in Ids, rows'[i] # NoRow, rows'[i].path \notin drift'
      PROVE  files'[rows'[i].path] = rows'[i].fm
  <2>1. rows'[i] = table[i] /\ table[i].path \in Present
    BY <1>4, <1>6
  <2>2. Indexable(files[table[i].path])
    BY <1>3, <1>6, <2>1
  <2> QED
    BY <1>2, <1>3, <1>6, <2>1, <2>2 DEF Current
<1>7. files \in [Paths -> Frontmatter \union {NoFile}] /\ drift' \subseteq Paths
  BY <1>3 DEF StoreOK, Store, Present
<1> QED
  BY <1>3, <1>5, <1>6, <1>7 DEF StoreOK, Store

LEMMA DeleteKeeps ==
  ASSUME StoreOK(Store), NEW id \in Ids, DeleteDocument(id)
  PROVE  StoreOK(Store)'
<1> DEFINE path == rows[id].path
<1>1. /\ rows[id] # NoRow
      /\ files' = [files EXCEPT ![path] = NoFile]
      /\ rows' = [rows EXCEPT ![id] = NoRow]
      /\ drift' = drift \ {path}
  BY DEF DeleteDocument
<1>2. /\ files \in [Paths -> Frontmatter \union {NoFile}]
      /\ rows \in [Ids -> Rows \union {NoRow}] /\ TableOK(rows)
      /\ drift \subseteq Paths
      /\ \A i \in Ids : rows[i] # NoRow /\ rows[i].path \notin drift
                          => files[rows[i].path] = rows[i].fm
  BY DEF StoreOK, TableOK, Store
<1>3. \A i \in Ids : rows'[i] # NoRow => i # id /\ rows'[i] = rows[i]
  BY <1>1, <1>2
<1>4. \A i \in Ids : rows'[i] # NoRow => rows[i].path # path
  BY <1>1, <1>2, <1>3 DEF TableOK
<1>5. rows' \in [Ids -> Rows \union {NoRow}]
  BY <1>1, <1>2
<1>6. TableOK(rows')
  BY <1>2, <1>3, <1>5 DEF TableOK
<1>7. ASSUME NEW i \in Ids, rows'[i] # NoRow, rows'[i].path \notin drift'
      PROVE  files'[rows'[i].path] = rows'[i].fm
  <2>1. rows'[i] = rows[i] /\ rows[i].path # path /\ rows[i].path \notin drift
    BY <1>1, <1>3, <1>4, <1>7
  <2>2. files[rows[i].path] = rows[i].fm
    BY <1>2, <1>7, <2>1
  <2>3. rows[i].path \in Paths
    BY <1>2, <1>7, <2>1 DEF Rows
  <2> QED
    BY <1>1, <1>2, <2>1, <2>2, <2>3
<1>8. files' \in [Paths -> Frontmatter \union {NoFile}] /\ drift' \subseteq Paths
  BY <1>1, <1>2
<1> QED
  BY <1>6, <1>7, <1>8 DEF StoreOK, Store

LEMMA EditKeeps ==
  ASSUME StoreOK(Store), NEW path \in Paths, NEW fm \in HandWritten, EditFile(path, fm)
  PROVE  StoreOK(Store)'
<1>1. /\ files' = [files EXCEPT ![path] = fm] /\ rows' = rows
      /\ drift' = drift \union {path}
  BY DEF EditFile
<1>2. /\ files \in [Paths -> Frontmatter \union {NoFile}]
      /\ TableOK(rows)
      /\ drift \subseteq Paths
      /\ \A i \in Ids : rows[i] # NoRow /\ rows[i].path \notin drift
                          => files[rows[i].path] = rows[i].fm
  BY DEF StoreOK, Store
<1>3. fm \in Frontmatter \union {NoFile}
  BY InputsAssumption
<1>4. \A i \in Ids : rows[i] # NoRow => rows[i].path \in Paths
  BY <1>2 DEF TableOK, Rows
<1>5. \A i \in Ids : rows[i] # NoRow /\ rows[i].path \notin drift'
                       => files'[rows[i].path] = rows[i].fm
  BY <1>1, <1>2, <1>4
<1> QED
  BY <1>1, <1>2, <1>3, <1>5 DEF StoreOK, Store

(* ---- The theorems ------------------------------------------------------------------- *)

LEMMA InitInv == Init => Inv
<1> SUFFICES ASSUME Init PROVE Inv
  OBVIOUS
<1>1. /\ files = [p \in Paths |-> NoFile] /\ rows = [i \in Ids |-> NoRow]
      /\ drift = {} /\ last = NoAnswer /\ steps = 0
  BY DEF Init
<1>2. StoreOK(Store)
  BY <1>1 DEF StoreOK, TableOK, Store
<1>3. last.done = <<>> /\ last.clean = FALSE /\ DOMAIN last.done = {}
  BY <1>1 DEF NoAnswer
<1>4. last \in [done : Seq(Entries), clean : BOOLEAN]
  BY <1>1 DEF NoAnswer
<1> QED
  BY <1>1, <1>2, <1>3, <1>4, BoundsAssumption
     DEF Inv, AcceptedStaysValid, VerifiedMeansWritten

LEMMA BulkTypes ==
  ASSUME NEW S, NEW rs \in BoundedSeq(S, BulkSize)
  PROVE  rs \in Seq(S) /\ Len(rs) \in Nat
<1>1. PICK m \in 0..BulkSize : rs \in [1..m -> S]
  BY DEF BoundedSeq, SeqOf
<1>2. m \in Nat
  BY <1>1, BoundsAssumption
<1> QED
  BY <1>1, <1>2

LEMMA StepInv == Inv /\ [Next]_vars => Inv'
<1> SUFFICES ASSUME Inv, [Next]_vars PROVE Inv'
  OBVIOUS
<1>0. StoreOK(Store) /\ steps \in 0..MaxSteps /\ 1 \in Nat
  BY DEF Inv
<1>1. ASSUME NEW r \in NewRecords, CreateDocument(r)
      PROVE  Inv'
  <2>1. Created(Store, r) \in CreateStores
    BY <1>0, CallStarts, CreateStays
  <2>2. steps' \in 0..MaxSteps /\ Becomes(Created(Store, r), FALSE)
    BY <1>0, <1>1, StepCounts DEF CreateDocument
  <2> QED
    BY <2>1, <2>2, CallKeeps DEF CreateStores
<1>2. ASSUME NEW rs \in BoundedSeq(NewRecords, BulkSize), BulkCreate(rs)
      PROVE  Inv'
  <2> DEFINE store == AllCreated(rs)
  <2>1. rs \in Seq(NewRecords) /\ Len(rs) \in Nat
    BY BulkTypes
  <2>2. store \in CreateStores
    BY <1>0, <2>1, AllCreatedStays
  <2>3. steps' \in 0..MaxSteps /\ Becomes(store, Clean(store))
    BY <1>0, <1>2, <2>1, StepCounts DEF BulkCreate
  <2>4. Clean(store) \in BOOLEAN
    BY DEF Clean
  <2>5. Clean(store) /\ Len(store.done) <= 20 => WrittenAsAsked(store)
    BY <2>2, CleanCreates
  <2>6. store \in Stores /\ StoreOK(store) /\ Valid(store)
    BY <2>2 DEF CreateStores
  <2> HIDE DEF store
  <2> QED
    BY <2>3, <2>4, <2>5, <2>6, CallKeeps
<1>3. ASSUME NEW r \in Changes, UpdateDocument(r)
      PROVE  Inv'
  <2>1. Updated(Store, r) \in UpdateStores
    BY <1>0, CallStarts, UpdateStays
  <2>2. steps' \in 0..MaxSteps /\ Becomes(Updated(Store, r), FALSE)
    BY <1>0, <1>3, StepCounts DEF UpdateDocument
  <2> QED
    BY <2>1, <2>2, CallKeeps DEF UpdateStores
<1>4. ASSUME NEW rs \in BoundedSeq(Changes, BulkSize), BulkUpdate(rs)
      PROVE  Inv'
  <2> DEFINE store == AllUpdated(rs)
  <2>1. rs \in Seq(Changes) /\ Len(rs) \in Nat
    BY BulkTypes
  <2>2. store \in UpdateStores
    BY <1>0, <2>1, AllUpdatedStays
  <2>3. steps' \in 0..MaxSteps /\ Becomes(store, Clean(store))
    BY <1>0, <1>4, <2>1, StepCounts DEF BulkUpdate
  <2>4. Clean(store) \in BOOLEAN
    BY DEF Clean
  <2>5. Clean(store) /\ Len(store.done) <= 20 => WrittenAsAsked(store)
    BY <2>2, CleanUpdates
  <2>6. store \in Stores /\ StoreOK(store) /\ Valid(store)
    BY <2>2 DEF UpdateStores
  <2> HIDE DEF store
  <2> QED
    BY <2>3, <2>4, <2>5, <2>6, CallKeeps
<1>5. ASSUME NEW i \in Ids, DeleteDocument(i)
      PROVE  Inv'
  <2>1. steps' \in 0..MaxSteps /\ last' = NoAnswer
    BY <1>0, <1>5, StepCounts DEF DeleteDocument
  <2> QED
    BY <1>0, <1>5, <2>1, DeleteKeeps, SilentKeeps
<1>6. ASSUME NEW p \in Paths, NEW fm \in HandWritten, EditFile(p, fm)
      PROVE  Inv'
  <2>1. steps' \in 0..MaxSteps /\ last' = NoAnswer
    BY <1>0, <1>6, StepCounts DEF EditFile
  <2> QED
    BY <1>0, <1>6, <2>1, EditKeeps, SilentKeeps
<1>7. ASSUME NEW force \in BOOLEAN, Reindex(force)
      PROVE  Inv'
  <2>1. steps' \in 0..MaxSteps /\ last' = NoAnswer
    BY <1>0, <1>7, StepCounts DEF Reindex
  <2> QED
    BY <1>0, <1>7, <2>1, ReindexKeeps, SilentKeeps
<1>8. CASE UNCHANGED vars
  <2>1. files' = files /\ rows' = rows /\ drift' = drift /\ last' = last /\ steps' = steps
    BY <1>8 DEF vars
  <2>2. StoreOK(Store)'
    BY <1>0, <2>1 DEF StoreOK, Store, TableOK
  <2>3. AcceptedStaysValid'
    BY <2>1 DEF Inv, AcceptedStaysValid
  <2>4. VerifiedMeansWritten'
    BY <2>1 DEF Inv, VerifiedMeansWritten
  <2> QED
    BY <2>1, <2>2, <2>3, <2>4 DEF Inv
<1> QED
  BY <1>1, <1>2, <1>3, <1>4, <1>5, <1>6, <1>7, <1>8 DEF Next

LEMMA InvHolds == Spec => []Inv
BY InitInv, StepInv, PTL DEF Spec

\* Files and rows hold frontmatter of the documents' shape, and every row is of an
\* id and a type that exist: the tables of src/src/backend/sqlite/schema.ts.
THEOREM TypeCorrect == Spec => []TypeOK
<1>1. Inv => TypeOK
  <2> SUFFICES ASSUME Inv PROVE TypeOK
    OBVIOUS
  <2>1. /\ files \in [Paths -> Frontmatter \union {NoFile}]
        /\ TableOK(rows) /\ drift \subseteq Paths
    BY DEF Inv, StoreOK, Store
  <2>2. /\ rows \in [Ids -> [path : Paths, fm : Frontmatter] \union {NoRow}]
        /\ \A i \in Ids : rows[i] # NoRow => Indexable(rows[i].fm)
    BY <2>1 DEF TableOK, Rows, Indexable
  <2>3. /\ last \in [done : Seq([type : Types, id : Ids, path : Paths, given : Inputs]),
                     clean : BOOLEAN]
        /\ steps \in 0..MaxSteps
    BY DEF Inv, Entries
  <2> QED
    BY <2>1, <2>2, <2>3 DEF TypeOK
<1> QED
  BY <1>1, InvHolds, PTL

\* A row of the index says what its file says, under the id the file states, but
\* for the files edited by hand or that a call said it could not index, whatever
\* identities fields name, however files are copied, and in whatever order they are
\* indexed: putDocument of src/src/backend/sqlite/index.ts under the calls of
\* src/src/engine/writes.ts and indexAll of src/src/engine/indexing.ts.
THEOREM IndexMatchesHolds == Spec => []IndexMatchesFiles
<1>1. Inv => IndexMatchesFiles
  <2> SUFFICES ASSUME Inv, NEW i \in Ids, rows[i] # NoRow, rows[i].path \notin drift
               PROVE  files[rows[i].path] = rows[i].fm /\ rows[i].fm.doc_id = i
    BY DEF IndexMatchesFiles
  <2> QED
    BY DEF Inv, StoreOK, Store, TableOK
<1> QED
  BY <1>1, InvHolds, PTL

\* What createDocument, updateDocument and the bulk calls of
\* src/src/engine/writes.ts accepted under a type is valid for it when the parser
\* reads back what serializeField wrote.
THEOREM AcceptedStaysHolds == Spec => []AcceptedStaysValid
<1>1. Inv => AcceptedStaysValid
  BY DEF Inv
<1> QED
  BY <1>1, InvHolds, PTL

\* A bulk call that verifyBulkResults of src/src/engine/writes.ts found clean wrote
\* each record in the file of the id it names, with the values sent.
THEOREM VerifiedMeansHolds == Spec => []VerifiedMeansWritten
<1>1. Inv => VerifiedMeansWritten
  BY DEF Inv
<1> QED
  BY <1>1, InvHolds, PTL
=============================================================================
