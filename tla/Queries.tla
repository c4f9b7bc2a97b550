------------------------------ MODULE Queries ------------------------------
(***************************************************************************)
(* What the SQLite index answers: maad_query, maad_aggregate, maad_join,   *)
(* maad_related and maad_verify over the tables that the write pipeline    *)
(* keeps. Files are the truth and the tables are derived from them one     *)
(* document at a time, so the question is whether each answer is what the  *)
(* frontmatter says, after any history of writes, deletes, edits of files  *)
(* and reindexing.                                                         *)
(*                                                                         *)
(* Abstractions. A text is its rank in SQLite's text order, and document   *)
(* ids are texts; NumOf gives the number a text parses to. A frontmatter   *)
(* has a sequence of texts for each field: empty when the field is absent, *)
(* one text for a scalar. Pages (limit, offset, order) and sort ties are   *)
(* left out: a query returns everything that matches. A write is one step  *)
(* here (DocStore has its steps); a query is one step in the code too.     *)
(***************************************************************************)
EXTENDS Integers, Sequences, FiniteSets, FiniteSetsExt, SequencesExt, Functions

CONSTANTS
  Texts,     \* texts, as ranks
  NumOf,     \* the number each text parses to, or NoNum
  NoNum,
  Within,    \* pairs <<s, t>>: the text s occurs in the text t
  Docs,      \* document ids, texts
  Types,     \* document types
  TypeOf,    \* the type of each document, which names its directory
  AnyType,   \* no type given
  Names,     \* frontmatter fields
  Body,      \* stands for the field of an inline annotation
  Schema,    \* for each type and field: [kind, index, target]
  Contents,  \* the frontmatters a document can have
  NoFile, NoRow

ASSUME TextsAssumption == Texts \subseteq Nat /\ Docs \subseteq Texts
ASSUME NumOfAssumption == NumOf \in [Texts -> Int \union {NoNum}]
ASSUME NamesAssumption == Body \notin Names /\ TypeOf \in [Docs -> Types]
ASSUME ContentsAssumption ==
  \A d \in Docs : Contents[d] \subseteq [Names \union {Body} -> Seq(Texts)]

Kinds == {"none", "string", "number", "ref", "list", "refs"}
ASSUME SchemaAssumption ==
  Schema \in [Types -> [Names -> [kind : Kinds, index : BOOLEAN,
                                  target : Types \union {AnyType}]]]

\* indexDocument writes one row for a field that is no list, whatever its value.
ASSUME ScalarsAssumption ==
  \A d \in Docs, f \in Names :
    Schema[TypeOf[d]][f].kind \in {"string", "number", "ref"} =>
      \A fm \in Contents[d] : Len(fm[f]) <= 1

ASSUME FiniteAssumption == IsFiniteSet(Docs) /\ IsFiniteSet(Names)
ASSUME NullsAssumption ==
  /\ NoNum \notin Int /\ AnyType \notin Types
  /\ \A d \in Docs : NoFile \notin Contents[d]
  /\ NoRow \notin [type : Types, hash : UNION {Contents[d] : d \in Docs}, deleted : BOOLEAN]

VARIABLES
  files,  \* the frontmatter of each document's file
  db      \* the tables: documents, field_index, relationships, objects

vars == <<files, db>>

Indexed(d, f) == Schema[TypeOf[d]][f].kind # "none" /\ Schema[TypeOf[d]][f].index
IsRef(d, f) == Schema[TypeOf[d]][f].kind \in {"ref", "refs"}

(* ---- Materializing a document ------------------------------------------------ *)

\* computeNumericValue: only number fields; an item of a list counts as a string.
Cell(d, f, t) ==
  [text |-> t, num |-> IF Schema[TypeOf[d]][f].kind = "number" THEN NumOf[t] ELSE NoNum]

FieldIndex(d, fm) ==
  [f \in Names |->
     IF Indexed(d, f) THEN [i \in DOMAIN fm[f] |-> Cell(d, f, fm[f][i])] ELSE <<>>]

\* Ref fields, indexed or not, and annotations whose text is a document id.
Relations(d, fm) ==
  [f \in Names \union {Body} |->
     IF f = Body \/ IsRef(d, f) THEN fm[f] ELSE <<>>]

\* extractFields: one object per indexed field, a list written as one text.
Objects(d, fm) ==
  {[subtype |-> f, value |-> fm[f]] : f \in {g \in Names : Indexed(d, g) /\ fm[g] # <<>>}}
    \union {[subtype |-> Body, value |-> <<fm[Body][i]>>] : i \in DOMAIN fm[Body]}

NoFields == [f \in Names |-> <<>>]
NoRelations == [f \in Names \union {Body} |-> <<>>]

\* Mutant of Replace: the row is updated in place, so nothing cascades.
ReplaceInPlace(t, d, row) == [t EXCEPT !.documents[d] = row]

\* INSERT OR REPLACE deletes the old row first, and the rows of the other tables
\* go with it (ON DELETE CASCADE). Rows that point at d from elsewhere stay.
Replace(t, d, row) ==
  [documents |-> [t.documents EXCEPT ![d] = row],
   fields    |-> [t.fields EXCEPT ![d] = NoFields],
   relations |-> [t.relations EXCEPT ![d] = NoRelations],
   objects   |-> [t.objects EXCEPT ![d] = {}]]

Row(d, fm) == [type |-> TypeOf[d], hash |-> fm, deleted |-> FALSE]

Materialize(t, d, fm) ==
  [Replace(t, d, Row(d, fm)) EXCEPT !.fields[d] = FieldIndex(d, fm),
                                    !.relations[d] = Relations(d, fm),
                                    !.objects[d] = Objects(d, fm)]

RemoveDocument(t, d) == Replace(t, d, NoRow)

Live(d) == db.documents[d] # NoRow /\ ~db.documents[d].deleted
LiveDocs == {d \in Docs : Live(d)}

(* ---- Filters ------------------------------------------------------------------ *)
(* A raw filter of a field is a sequence of conditions: the forms that are a      *)
(* scalar or a lone condition are sequences of one. An operand is a text and      *)
(* whether the caller gave it as a number.                                        *)

Above(o, p) ==
  /\ o.number = p.number
  /\ IF o.number THEN NumOf[o.text] > NumOf[p.text] ELSE o.text > p.text

\* normalizeFilterField refuses an empty array and a between with lo > hi.
Rejected(raw) ==
  raw = <<>> \/ \E i \in DOMAIN raw : raw[i].op = "between" /\ Above(raw[i].lo, raw[i].hi)

Atomics(c) ==
  IF c.op = "between" THEN {[op |-> "gte", value |-> c.lo], [op |-> "lte", value |-> c.hi]}
  ELSE {c}

Expand(raw) == UNION {Atomics(raw[i]) : i \in DOMAIN raw}

Ordered(op, x, y) ==
  CASE op = "gt" -> x > y [] op = "gte" -> x >= y [] op = "lt" -> x < y [] op = "lte" -> x <= y

Ranges == {"gt", "gte", "lt", "lte"}

\* Mutant of Satisfies: a range compares texts whatever its operand is.
SatisfiesByText(cell, c) ==
  CASE c.op = "eq"       -> cell.text = c.value.text
    [] c.op = "neq"      -> cell.text # c.value.text
    [] c.op = "in"       -> cell.text \in c.values
    [] c.op = "contains" -> <<c.value.text, cell.text>> \in Within
    [] c.op \in Ranges   -> Ordered(c.op, cell.text, c.value.text)

\* buildFilterSQL: a range compares numbers when its operand is a number, and
\* texts otherwise; NULL compares with nothing.
Satisfies(cell, c) ==
  CASE c.op = "eq"       -> cell.text = c.value.text
    [] c.op = "neq"      -> cell.text # c.value.text
    [] c.op = "in"       -> cell.text \in c.values
    [] c.op = "contains" -> <<c.value.text, cell.text>> \in Within
    [] c.op \in Ranges   ->
         IF c.value.number THEN cell.num # NoNum /\ Ordered(c.op, cell.num, NumOf[c.value.text])
         ELSE Ordered(c.op, cell.text, c.value.text)

\* One `doc_id IN (SELECT ...)` per condition: each may be met by another item.
Passes(d, f, conditions) ==
  \A c \in conditions : \E i \in DOMAIN db.fields[d][f] : Satisfies(db.fields[d][f][i], c)

\* buildDocQuery; filters is a function from fields to sets of conditions.
Matching(type, filters) ==
  {d \in LiveDocs : /\ type \in {AnyType, db.documents[d].type}
                    /\ \A f \in DOMAIN filters : Passes(d, f, filters[f])}

Refused == [ok |-> FALSE]

\* findDocuments, countDocuments and the engine's expandFilters before them.
FindDocuments(type, raw) ==
  IF \E f \in DOMAIN raw : Rejected(raw[f]) THEN Refused
  ELSE LET found == Matching(type, [f \in DOMAIN raw |-> Expand(raw[f])]) IN
       [ok |-> TRUE, total |-> Cardinality(found), results |-> found]

\* join, verifyCount and verifyIntegrity hand their filters to the backend as
\* they come: it throws on a between, and takes an empty array for no filter.
RawMatching(type, raw) ==
  IF \E f \in DOMAIN raw : \E i \in DOMAIN raw[f] : raw[f][i].op = "between" THEN Refused
  ELSE [ok |-> TRUE,
        results |-> Matching(type, [f \in DOMAIN raw |-> Range(raw[f])])]

VerifyCount(type, raw, expected) ==
  LET m == RawMatching(type, raw) IN
  IF ~m.ok THEN Refused
  ELSE [ok |-> TRUE, actual |-> Cardinality(m.results),
        grounded |-> Cardinality(m.results) = expected]

\* The field's value in the file, compared as text. The read of a file that is
\* gone throws. (Scalars: a list never equals the text of one item.)
VerifyField(d, f, expected) ==
  /\ Live(d) /\ files[d] # NoFile
  /\ files[d][f] = <<expected>>

(* ---- Following refs ------------------------------------------------------------ *)

\* getFieldValues keeps the last row of a field; scalars have one.
HasValue(d, f) == d \in Docs /\ db.fields[d][f] # <<>>
Value(d, f) == db.fields[d][f][Len(db.fields[d][f])].text

\* getRelationships with both directions, and listRelated: an unknown type for a
\* document that is not there; a reference to itself is listed twice, both times
\* as outgoing.
Unknown == AnyType
TypeNow(t) == IF t \in Docs /\ Live(t) THEN db.documents[t].type ELSE Unknown

\* The relationships of a document that come from the fields F.
Refs(d, F) == UNION {{f} \X (DOMAIN db.relations[d][f]) : f \in F}

Edges(d) ==
  {[field |-> e[1], target |-> db.relations[d][e[1]][e[2]]] :
     e \in Refs(d, Names \union {Body})}

Outgoing(d) ==
  {[id |-> e.target, type |-> TypeNow(e.target), field |-> e.field] : e \in Edges(d)}
Incoming(d) ==
  UNION {{[id |-> s, type |-> TypeNow(s), field |-> e.field] :
            e \in {g \in Edges(s) : g.target = d}} : s \in Docs \ {d}}

\* getBrokenRefs joins the live documents, countBrokenRefs does not; both look at
\* refs only, and a target is there when its document is live.
Dangling(s) ==
  {e \in Refs(s, Names) : db.relations[s][e[1]][e[2]] \notin LiveDocs}
CountBrokenRefs == SumFunction([s \in Docs |-> Cardinality(Dangling(s))])
BrokenRefs == [s \in {d \in LiveDocs : Dangling(d) # {}} |-> Dangling(s)]

\* getStats: objects and relationships are counted without their documents.
Stats ==
  [totalDocuments |-> Cardinality(LiveDocs),
   totalObjects |-> SumFunction([d \in Docs |-> Cardinality(db.objects[d])]),
   totalRelationships |->
     SumFunction([d \in Docs |->
       SumFunction([f \in Names \union {Body} |-> Len(db.relations[d][f])])])]

\* searchObjects looks at the objects table alone.
SearchObjects(subtype, value) ==
  {h \in Docs \X UNION {db.objects[d] : d \in Docs} :
     h[2] \in db.objects[h[1]] /\ h[2].subtype = subtype /\ h[2].value = value}

(* ---- Aggregation --------------------------------------------------------------- *)

\* One group of the GROUP BY: the pairs <<d, i, j>> of a row of groupBy that has
\* the value and a row of the metric's field.
Joined(scope, f, v, g) ==
  {p \in UNION {{d} \X (DOMAIN db.fields[d][f]) \X (DOMAIN db.fields[d][g]) : d \in scope} :
     db.fields[p[1]][f][p[2]].text = v}

Numbers(pairs, g) == {p \in pairs : db.fields[p[1]][g][p[3]].num # NoNum}
Sum(pairs, g) == SumFunction([p \in pairs |-> db.fields[p[1]][g][p[3]].num])

Group(pairs, g) ==
  LET n == Numbers(pairs, g) IN
  [count |-> Cardinality({p[1] : p \in pairs}),
   sum |-> Sum(n, g),
   min |-> IF n = {} THEN NoNum ELSE Min({db.fields[p[1]][g][p[3]].num : p \in n})]

\* aggregate without a chain, with a metric on g: a document without g is in no
\* group (inner join).
Aggregate(type, f, g) ==
  LET scope == Matching(type, <<>>)
      values == {c.text : c \in UNION {Range(db.fields[d][f]) : d \in scope}}
      grouped == {v \in values : Joined(scope, f, v, g) # {}} IN
  [v \in grouped |-> Group(Joined(scope, f, v, g), g)]

Unresolved == -1

\* Mutant of Hop: a broken hop keeps the last value.
HopKeeps(at, f) == IF HasValue(at, f) THEN Value(at, f) ELSE at

\* A hop without a value, or from a document that has no rows, ends the chain.
Hop(at, f) == IF HasValue(at, f) THEN Value(at, f) ELSE Unresolved

\* resolveRefChain
Resolve(d, hops) ==
  LET at[n \in 0..Len(hops)] == IF n = 0 THEN d ELSE Hop(at[n - 1], hops[n]) IN at[Len(hops)]

\* validateRefChain: every hop but the last is a ref field with a target, on the
\* type that the hop before it targets; the last is any field of the type.
Target(type, f) ==
  IF type # AnyType /\ Schema[type][f].kind = "ref" THEN Schema[type][f].target ELSE AnyType

ValidChain(type, hops) ==
  LET last == FoldLeft(LAMBDA t, f : Target(t, f), type, Front(hops)) IN
  Len(hops) >= 2 /\ last # AnyType /\ Schema[last][Last(hops)].kind # "none"

\* aggregateWithRefChain: groups of the first hop, merged by the value their
\* chain ends at; a group without a number counts as 0.
ChainAggregate(type, hops, g) ==
  IF ~ValidChain(type, hops) THEN Refused
  ELSE LET first == Aggregate(type, hops[1], g)
           key(v) == Resolve(v, Tail(hops))
           of(k) == {v \in DOMAIN first : key(v) = k} IN
       [ok |-> TRUE,
        groups |-> [k \in {key(v) : v \in DOMAIN first} |->
          [count |-> SumFunction([v \in of(k) |-> first[v].count]),
           sum |-> SumFunction([v \in of(k) |-> first[v].sum]),
           min |-> Min({IF first[v].min = NoNum THEN 0 ELSE first[v].min : v \in of(k)})]]]

\* join with one ref field r and one of the target's fields: null when the ref
\* has no value, no field when the target has none.
Join(type, r, g) ==
  [d \in Matching(type, <<>>) |->
     IF ~HasValue(d, r) THEN [ref |-> Unresolved, field |-> Unresolved]
     ELSE [ref |-> Value(d, r),
           field |-> IF HasValue(Value(d, r), g) THEN Value(Value(d, r), g) ELSE Unresolved]]

(* ---- verifyIntegrity ------------------------------------------------------------ *)

OnDisk == {d \in Docs : files[d] # NoFile}

\* The unfiltered sweep: files against rows, then the refs table, then rows
\* against files. A document is unhealthy for a file that no row has, for
\* another hash, or for a broken ref.
Integrity ==
  LET missingInIndex == OnDisk \ LiveDocs
      hashDrift == {d \in OnDisk \intersect LiveDocs : db.documents[d].hash # files[d]}
      broken == DOMAIN BrokenRefs IN
  [missingInIndex |-> missingInIndex, hashDrift |-> hashDrift,
   missingOnDisk |-> LiveDocs \ OnDisk, brokenRefs |-> broken,
   healthy |-> Cardinality(OnDisk) - Cardinality(missingInIndex \union hashDrift \union broken)]

(* ---- The life of the documents ---------------------------------------------------- *)

Init ==
  /\ files = [d \in Docs |-> NoFile]
  /\ db = [documents |-> [d \in Docs |-> NoRow], fields |-> [d \in Docs |-> NoFields],
           relations |-> [d \in Docs |-> NoRelations], objects |-> [d \in Docs |-> {}]]

\* createDocument and updateDocument: the file, then its rows.
Write(d, fm) ==
  /\ Live(d) => files[d] # NoFile
  /\ files' = [files EXCEPT ![d] = fm]
  /\ db' = Materialize(db, d, fm)

\* deleteDocument, hard: the file and the row go.
HardDelete(d) ==
  /\ Live(d) /\ files[d] # NoFile
  /\ files' = [files EXCEPT ![d] = NoFile]
  /\ db' = RemoveDocument(db, d)

\* deleteDocument, soft: the file gets a name no scan looks at, the row a mark.
SoftDelete(d) ==
  /\ Live(d) /\ files[d] # NoFile
  /\ files' = [files EXCEPT ![d] = NoFile]
  /\ db' = Replace(db, d, [db.documents[d] EXCEPT !.deleted = TRUE])

\* Somebody edits, adds or removes a file; at most one differs from its row.
Edit(d, fm) ==
  /\ \A e \in Docs : files[e] = IF Live(e) THEN db.documents[e].hash ELSE NoFile
  /\ files' = [files EXCEPT ![d] = fm]
  /\ UNCHANGED db

\* indexAll over the files D: each file's rows are rebuilt (a file skipped for its
\* hash has them already), and live rows whose file is gone are removed; rows
\* marked deleted stay.
Reindexed(t, D) ==
  LET gone == {d \in Docs \ D : t.documents[d] # NoRow /\ ~t.documents[d].deleted} IN
  [documents |-> [d \in Docs |-> IF d \in D THEN Row(d, files[d])
                                 ELSE IF d \in gone THEN NoRow ELSE t.documents[d]],
   fields    |-> [d \in Docs |-> IF d \in D THEN FieldIndex(d, files[d])
                                 ELSE IF d \in gone THEN NoFields ELSE t.fields[d]],
   relations |-> [d \in Docs |-> IF d \in D THEN Relations(d, files[d])
                                 ELSE IF d \in gone THEN NoRelations ELSE t.relations[d]],
   objects   |-> [d \in Docs |-> IF d \in D THEN Objects(d, files[d])
                                 ELSE IF d \in gone THEN {} ELSE t.objects[d]]]

Reindex ==
  /\ db' = Reindexed(db, OnDisk)
  /\ UNCHANGED files

Next ==
  \/ \E d \in Docs, fm \in UNION {Contents[e] : e \in Docs} : fm \in Contents[d] /\ Write(d, fm)
  \/ \E d \in Docs : HardDelete(d) \/ SoftDelete(d)
  \/ \E d \in Docs : \E fm \in Contents[d] \union {NoFile} : fm # files[d] /\ Edit(d, fm)
  \/ Reindex

Spec == Init /\ [][Next]_vars

(* ---- Properties --------------------------------------------------------------------- *)

TypeOK ==
  /\ \A d \in Docs : files[d] = NoFile \/ files[d] \in Contents[d]
  /\ \A d \in Docs : db.documents[d] = NoRow \/ db.documents[d].type \in Types
  /\ db.fields \in [Docs -> [Names -> Seq([text : Texts, num : Int \union {NoNum}])]]
  /\ db.relations \in [Docs -> [Names \union {Body} -> Seq(Texts)]]

\* What a caller may rely on is what the sweep calls clean.
Clean ==
  LET i == Integrity IN
  i.missingInIndex = {} /\ i.hashDrift = {} /\ i.missingOnDisk = {}

Operands == [text : Texts, number : {FALSE}]
              \union [text : {t \in Texts : NumOf[t] # NoNum}, number : {TRUE}]
Conditions ==
  [op : {"eq", "neq", "contains"} \union Ranges, value : Operands]
    \union [op : {"in"}, values : SUBSET Texts]
    \union [op : {"between"}, lo : Operands, hi : Operands]

\* What the filter format promises of one value t of the field f.
Meets(d, f, t, c) ==
  LET n == Schema[TypeOf[d]][f].kind = "number" /\ NumOf[t] # NoNum
      leq(o) == IF o.number THEN n /\ NumOf[t] <= NumOf[o.text] ELSE t <= o.text
      geq(o) == IF o.number THEN n /\ NumOf[t] >= NumOf[o.text] ELSE t >= o.text IN
  CASE c.op = "eq" -> t = c.value.text
    [] c.op = "neq" -> t # c.value.text
    [] c.op = "contains" -> <<c.value.text, t>> \in Within
    [] c.op = "in" -> t \in c.values
    [] c.op = "gte" -> geq(c.value)
    [] c.op = "lte" -> leq(c.value)
    [] c.op = "gt" -> geq(c.value) /\ (c.value.number => n) /\ ~leq(c.value)
    [] c.op = "lt" -> leq(c.value) /\ (c.value.number => n) /\ ~geq(c.value)
    [] c.op = "between" -> geq(c.lo) /\ leq(c.hi)

\* The raw filter of one condition on one field.
Only(f, c) == [g \in {f} |-> <<c>>]

Spans(d, f, c) == c.op = "between" /\ Schema[TypeOf[d]][f].kind \in {"list", "refs"}

\* When the sweep finds no drift, a query answers with the documents whose files
\* meet the condition, and a value maad_verify grounds is one an eq query finds. Not
\* promised: a between over a list, whose bounds two items may meet.
FindMatchesFrontmatter ==
  Clean =>
    \A f \in Names, c \in Conditions :
      LET answer == FindDocuments(AnyType, Only(f, c)) IN
      answer.ok =>
      /\ \A d \in Docs :
           ~Spans(d, f, c) =>
            (d \in answer.results <=>
               /\ files[d] # NoFile /\ Indexed(d, f)
               /\ \E i \in DOMAIN files[d][f] : Meets(d, f, files[d][f][i], c))
      /\ c.op = "eq" =>
           \A d \in Docs : VerifyField(d, f, c.value.text) /\ Indexed(d, f) => d \in answer.results

\* When the sweep finds no drift, every edge is seen from both ends, comes from a
\* file, and dangles when its target has no file; nothing of a document that was
\* deleted or rewritten is counted or found.
LinksMatchFrontmatter ==
  LET has(d, f, t) == files[d] # NoFile /\ \E i \in DOMAIN files[d][f] : files[d][f][i] = t
      linked(d, f) == f = Body \/ IsRef(d, f)
      dangles(d) == \E f \in Names : /\ IsRef(d, f) /\ files[d] # NoFile
                                     /\ \E i \in DOMAIN files[d][f] : files[d][f][i] \notin OnDisk IN
  Clean =>
    /\ \A a \in Docs, f \in Names \union {Body} : \A b \in Docs \ {a} :
         LET out == [id |-> b, type |-> TypeNow(b), field |-> f]
             in == [id |-> a, type |-> TypeNow(a), field |-> f] IN
         /\ out \in Outgoing(a) <=> in \in Incoming(b)
         /\ out \in Outgoing(a) <=> linked(a, f) /\ has(a, f, b)
    /\ \A d \in Docs : dangles(d) <=> d \in DOMAIN BrokenRefs
    /\ CountBrokenRefs =
         SumFunction([d \in DOMAIN BrokenRefs |-> Cardinality(BrokenRefs[d])])
    /\ Stats.totalDocuments = Cardinality(OnDisk)
    /\ Stats.totalRelationships =
         SumFunction([d \in OnDisk |->
           SumFunction([f \in {g \in Names \union {Body} : linked(d, g)} |-> Len(files[d][f])])])
    /\ \A d \in OnDisk, f \in Names : files[d][f] # <<>> =>
         {h[1] : h \in SearchObjects(f, files[d][f])}
           = {e \in OnDisk : Indexed(e, f) /\ files[e][f] = files[d][f]}

\* The value of a field in the file of a document, where the index has the field.
Follow(at, f) ==
  IF at \in OnDisk /\ Indexed(at, f) /\ files[at][f] # <<>> THEN files[at][f][1] ELSE Unresolved

\* The value a chain of fields leads to from a document, going through files.
Leads(d, hops) ==
  LET at[n \in 0..Len(hops)] == IF n = 0 THEN d ELSE Follow(at[n - 1], hops[n]) IN at[Len(hops)]

Chains == {<<r, s>> : r, s \in Names} \union {<<r, s, t>> : r, s, t \in Names}
Scalar(f) == \A t \in Types : Schema[t][f].kind \notin {"list", "refs"}
Scalars(hops) == \A n \in DOMAIN hops : Scalar(hops[n])

\* The documents of a type that have a group and a number to add to it.
Members(type, f, g) ==
  {d \in OnDisk : /\ TypeOf[d] = type /\ Indexed(d, f) /\ files[d][f] # <<>>
                  /\ Indexed(d, g) /\ files[d][g] # <<>>}

\* What grouping by a chain of fields says of the files.
GroupsByChain(type, hops, g) ==
  LET groups == ChainAggregate(type, hops, g).groups
      members == Members(type, hops[1], g)
      under(k) == {d \in members : Leads(d, hops) = k}
      numbers(k) == {d \in under(k) : NumOf[files[d][g][1]] # NoNum} IN
  /\ DOMAIN groups = {Leads(d, hops) : d \in members}
  /\ \A k \in DOMAIN groups :
       /\ groups[k].count = Cardinality(under(k))
       /\ groups[k].sum = SumFunction([d \in numbers(k) |-> NumOf[files[d][g][1]]])
       /\ Len(hops) = 2 => \A d \in under(k) : Join(type, hops[1], hops[2])[d].field = k

\* When the sweep finds no drift, grouping along a chain of refs counts each
\* document once, under the value its chain of files leads to, and adds up its
\* number there; join shows the same value for the same document.
ChainMatchesFrontmatter ==
  Clean =>
    \A type \in Types, hops \in Chains, g \in Names :
      ValidChain(type, hops) /\ Scalars(hops) /\ Schema[type][g].kind = "number" =>
        GroupsByChain(type, hops, g)

\* maad_verify counts with "the same format as maad_query" (src/src/mcp/tools/read.ts:186).
\* It does not: its filters reach the backend as they are.
CountAgreesWithQuery ==
  \A t \in Types, f \in Names, c \in Conditions :
    LET query == FindDocuments(t, Only(f, c)) IN
    query.ok => LET count == VerifyCount(t, Only(f, c), query.total) IN
                count.ok /\ count.grounded
=============================================================================
