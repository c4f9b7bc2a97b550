-------------------------------- MODULE Records --------------------------------
(***************************************************************************)
(* What becomes of the frontmatter a caller sends: merged under the        *)
(* document's identity, validated against the schema, written as YAML,     *)
(* read back by the parser and indexed under the identity the file now     *)
(* states, which need not be the one the call was made with: `fields` may  *)
(* name doc_id and doc_type too. Calls hold the write lock and none fails  *)
(* halfway here (DocStore has that), so each is one step. Between calls    *)
(* people edit the files.                                                  *)
(*                                                                         *)
(* A string is known by the class of its text: "word"; "digits", which     *)
(* YAML takes for a number; "lines", with a line break inside; "spaced",   *)
(* the same with a blank; "pair", with a colon; "mark", which begins with  *)
(* a double quote; "comma"; "empty"; and dates by their precision, "day"   *)
(* and "second". A generated id is one of Ids, like a given one. Bodies,   *)
(* versions, defaults of required fields and the `_deleted_` file of a     *)
(* soft delete, which no listing sees, are left out.                       *)
(***************************************************************************)
EXTENDS Naturals, Sequences, SequencesExt, FiniteSets, Functions

CONSTANTS
  Ids,           \* document ids, also the names of the files
  NotAnId,       \* a doc_id that is not a string
  Types,         \* registered types, each with a directory and a schema
  Unregistered,  \* a doc_type the registry does not have
  Keep,          \* a part of the identity that `fields` does not name
  Fields,        \* field names
  Schema,        \* the definition of each field, for each type
  Inputs,        \* what callers send as `fields`
  HandWritten,   \* what people leave in a file
  NoFile, NoRow,
  BulkSize,      \* bound on the records of a bulk call
  MaxSteps       \* bound on records called for, edits and reindexings

ASSUME BoundsAssumption == BulkSize \in Nat /\ MaxSteps \in Nat
ASSUME FiniteAssumption == IsFiniteSet(Ids) /\ IsFiniteSet(Types)

\* What may be a text with line breaks may be one with blanks: only an enum with such a value
\* would say otherwise.
ASSUME SchemaAssumption ==
  \A t \in Types, f \in Fields :
    "lines" \in Schema[t][f].allowed => "spaced" \in Schema[t][f].allowed

Texts == {"word", "digits", "lines", "spaced", "pair", "mark", "comma", "empty",
          "day", "second"}
Null == [kind |-> "null"]
Str(t) == [kind |-> "string", text |-> t]
Number(t) == [kind |-> "number", text |-> t]
Pair(t) == [kind |-> "object", text |-> t]
List(items) == [kind |-> "list", items |-> items]
Unparsable == [kind |-> "error"]

Paths == Types \X Ids
Scalars == {Null, Unparsable} \union UNION {{Str(t), Number(t), Pair(t)} : t \in Texts}
Values == Scalars \union [kind : {"list"}, items : Seq(Scalars)]
Frontmatter ==
  [doc_id : Ids \union {NotAnId}, doc_type : Types \union {Unregistered},
   fields : [Fields -> Values]]

ASSUME InputsAssumption ==
  /\ HandWritten \subseteq Frontmatter \union {NoFile}
  /\ \A given \in Inputs :
       /\ given.doc_id \in Ids \union {NotAnId, Keep}
       /\ given.doc_type \in Types \union {Unregistered, Keep}
       /\ DOMAIN given.fields \subseteq Fields
       /\ \A f \in DOMAIN given.fields : given.fields[f] \in Values
ASSUME NullsAssumption ==
  NoFile \notin Frontmatter /\ NoRow \notin [path : Paths, fm : Frontmatter]

VARIABLES
  files,   \* the frontmatter of each file, as the parser reads it
  rows,    \* the live rows: the file's path and the frontmatter indexed
  drift,   \* files edited by hand, or that a call said it wrote but could not index
  last,    \* the answer of the last call: its successes, and its verification
  steps

vars == <<files, rows, drift, last, steps>>

Present == {p \in Paths : files[p] # NoFile}
NoAnswer == [done |-> <<>>, clean |-> FALSE]

Init ==
  /\ files = [p \in Paths |-> NoFile]
  /\ rows = [i \in Ids |-> NoRow]
  /\ drift = {}
  /\ last = NoAnswer
  /\ steps = 0

-----------------------------------------------------------------------------
(* Validation.                                                             *)

\* A definition says which kind of value a field takes, which texts (the
\* format of a date, the values of an enum, the prefix of a ref), and the
\* precision declared for a date with what to do about a coarser one.
WellTyped(def, v) ==
  /\ v.kind = def.kind
  /\ v.kind = "string" => v.text \in def.allowed

Rank == [day |-> 2, second |-> 5]

TooCoarse(def, v) ==
  /\ def.onCoarser = "error"
  /\ v.kind = "string" /\ v.text \in DOMAIN Rank
  /\ Rank[v.text] < def.precision

\* The fields with errors. Precision is enforced on the fields of `enforced`:
\* all for a create, the changed ones for an update, none when indexing.
Errors(type, fields, enforced) ==
  {f \in Fields :
     LET def == Schema[type][f]
         v == fields[f] IN
     IF v = Null THEN def.required
                 ELSE ~WellTyped(def, v) \/ (f \in enforced /\ TooCoarse(def, v))}

-----------------------------------------------------------------------------
(* Writing and reading YAML.                                               *)

\* js-yaml, CORE_SCHEMA: an unquoted text becomes what it looks like.
PlainLoads(t) ==
  CASE t = "digits" -> Number(t)
    [] t = "lines" -> Str("spaced")
    [] t = "pair" -> Pair(t)
    [] t = "mark" -> Unparsable
    [] t = "empty" -> Null
    [] OTHER -> Str(t)

\* A line break inside double quotes is folded into a blank.
QuotedLoads(t) == IF t = "lines" THEN Str("spaced") ELSE Str(t)

\* Mutant of Quoted: without the coercion guard.
QuotedIfSpecial(t) == t \in {"pair", "mark", "empty", "second"}

\* Special characters, and whatever would not come back as the same string.
Quoted(t) ==
  \/ t \in {"pair", "mark", "empty", "second"}
  \/ PlainLoads(t) # Str(t)

ItemQuoted(t) == t = "comma"

ReadItem(v) ==
  CASE v.kind # "string" -> v
    [] v.kind = "string" /\ ItemQuoted(v.text) -> QuotedLoads(v.text)
    [] OTHER -> PlainLoads(v.text)

\* What the parser reads where the serializer wrote v.
ReadBack(v) ==
  CASE v.kind = "string" -> IF Quoted(v.text) THEN QuotedLoads(v.text) ELSE PlainLoads(v.text)
    [] v.kind = "list" -> List([i \in DOMAIN v.items |-> ReadItem(v.items[i])])
    [] OTHER -> v

Parses(fields) ==
  \A f \in Fields : fields[f].kind = "list" => Unparsable \notin Range(fields[f].items)

Written(fm) == [fm EXCEPT !.fields = [f \in Fields |-> ReadBack(fm.fields[f])]]

-----------------------------------------------------------------------------
(* The index. A state of the store is a record of files, rows and the      *)
(* successes so far, which a bulk call takes from record to record.        *)

Indexable(fm) == fm.doc_type \in Types /\ fm.doc_id \in Ids

\* Mutant of Put: a row with the same path stays.
PutBeside(table, path, fm) == [table EXCEPT ![fm.doc_id] = [path |-> path, fm |-> fm]]

\* INSERT OR REPLACE: the row with this id goes, and so does one with this path.
Put(table, path, fm) ==
  [i \in Ids |->
     IF i = fm.doc_id THEN [path |-> path, fm |-> fm]
     ELSE IF table[i] # NoRow /\ table[i].path = path THEN NoRow
     ELSE table[i]]

\* atomicWrite and indexFile. The entry is what there is to say of a success:
\* the id and the type it was accepted under, where it went, and the fields sent.
Wrote(store, path, fm, entry) ==
  [files |-> [store.files EXCEPT ![path] = fm],
   rows  |-> IF Indexable(fm) THEN Put(store.rows, path, fm) ELSE store.rows,
   drift |-> IF Indexable(fm) THEN store.drift \ {path} ELSE store.drift \union {path},
   done  |-> IF Indexable(fm) THEN Append(store.done, entry) ELSE store.done]

Store == [files |-> files, rows |-> rows, drift |-> drift, done |-> <<>>]

Merge(fm, given) ==
  [doc_id   |-> IF given.doc_id = Keep THEN fm.doc_id ELSE given.doc_id,
   doc_type |-> IF given.doc_type = Keep THEN fm.doc_type ELSE given.doc_type,
   fields   |-> [f \in Fields |-> IF f \in DOMAIN given.fields THEN given.fields[f]
                                                               ELSE fm.fields[f]]]

New(type, id) == [doc_id |-> id, doc_type |-> type, fields |-> [f \in Fields |-> Null]]

\* One record of a create: refused if the id has a row, if the frontmatter is
\* invalid or if what would be written does not parse. The file is not looked
\* at.
Created(store, r) ==
  LET fm == Merge(New(r.type, r.id), r.given)
      path == <<r.type, r.id>> IN
  IF \/ store.rows[r.id] # NoRow
     \/ Errors(r.type, fm.fields, Fields) # {}
     \/ ~Parses(Written(fm).fields)
  THEN store
  ELSE Wrote(store, path, Written(fm), [type |-> r.type, id |-> r.id, path |-> path, given |-> r.given])

\* `!==` on arrays compares identities: a list sent is a list changed.
ChangedFields(old, given) ==
  {f \in DOMAIN given.fields : old.fields[f] # given.fields[f] \/ given.fields[f].kind = "list"}

Stripped(type, old, new) ==
  \E f \in Fields :
    Schema[type][f].required /\ old.fields[f] # Null /\ new.fields[f] = Str("empty")

\* An update reads the file of the id's row and validates the result against
\* the schema of the row's type. Without a row, a file or a valid result it is
\* refused.
Updated(store, r) ==
  IF store.rows[r.id] = NoRow THEN store ELSE
  LET row == store.rows[r.id]
      old == store.files[row.path]
      new == Merge(old, r.given)
      type == row.fm.doc_type IN
  IF \/ old = NoFile
     \/ Stripped(type, old, new)
     \/ Errors(type, new.fields, ChangedFields(old, r.given)) # {}
     \/ ~Parses(Written(new).fields)
  THEN store
  ELSE Wrote(store, row.path, Written(new), [type |-> type, id |-> r.id, path |-> row.path, given |-> r.given])

-----------------------------------------------------------------------------
(* The read-back verification of bulk calls.                               *)

\* Mutant of Match: lists compare by their texts too.
MatchAsText(expected, actual) ==
  \/ expected = actual
  \/ /\ {expected.kind, actual.kind} = {"string", "number"}
     /\ expected.text = actual.text
  \/ /\ expected.kind = "list" /\ actual.kind = "list"
     /\ Len(expected.items) = Len(actual.items)
     /\ \A i \in DOMAIN expected.items : expected.items[i].text = actual.items[i].text

\* Numbers match their digits; lists match as JSON.
Match(expected, actual) ==
  \/ expected = actual
  \/ /\ {expected.kind, actual.kind} = {"string", "number"}
     /\ expected.text = actual.text

\* field_index has a row per item and the last one answers for the field,
\* which a list of two items never equals.
IndexMatches(expected) == expected.kind = "list" => Len(expected.items) <= 1

Verified(store, entry) ==
  LET row == store.rows[entry.id]
      given == entry.given IN
  /\ row # NoRow /\ store.files[row.path] # NoFile
  /\ LET fm == store.files[row.path] IN
     /\ given.doc_id \in {Keep, fm.doc_id}
     /\ given.doc_type \in {Keep, fm.doc_type}
     /\ \A f \in DOMAIN given.fields :
          /\ Match(given.fields[f], fm.fields[f])
          /\ Schema[row.fm.doc_type][f].index => IndexMatches(given.fields[f])

\* All successes of a call with up to 20, of a longer one ten at even distances.
Sampled(done) ==
  IF Len(done) <= 20 THEN DOMAIN done ELSE {1 + (n * Len(done)) \div 10 : n \in 0..9}

Clean(store) == \A k \in Sampled(store.done) : Verified(store, store.done[k])

-----------------------------------------------------------------------------
(* Calls, edits and reindexing.                                            *)

\* A bulk call counts for the records it has.
Step(n) == steps + n <= MaxSteps /\ steps' = steps + n

Becomes(store, clean) ==
  /\ files' = store.files
  /\ rows' = store.rows
  /\ drift' = store.drift
  /\ last' = [done |-> store.done, clean |-> clean]

CreateDocument(record) ==
  /\ Step(1)
  /\ Becomes(Created(Store, record), FALSE)

\* The store after the records of a bulk call, taken in order.
AllCreated(records) ==
  LET after[n \in 0..Len(records)] ==
        IF n = 0 THEN Store ELSE Created(after[n - 1], records[n])
  IN  after[Len(records)]

\* The successes are verified when all records are through.
BulkCreate(records) ==
  /\ Step(Len(records))
  /\ LET store == AllCreated(records) IN Becomes(store, Clean(store))

UpdateDocument(change) ==
  /\ Step(1)
  /\ Becomes(Updated(Store, change), FALSE)

AllUpdated(changes) ==
  LET after[n \in 0..Len(changes)] ==
        IF n = 0 THEN Store ELSE Updated(after[n - 1], changes[n])
  IN  after[Len(changes)]

BulkUpdate(changes) ==
  /\ Step(Len(changes))
  /\ LET store == AllUpdated(changes) IN Becomes(store, Clean(store))

\* Hard or soft: the file leaves the listings and the row is no longer live.
DeleteDocument(id) ==
  /\ Step(1)
  /\ rows[id] # NoRow /\ files[rows[id].path] # NoFile
  /\ files' = [files EXCEPT ![rows[id].path] = NoFile]
  /\ rows' = [rows EXCEPT ![id] = NoRow]
  /\ drift' = drift \ {rows[id].path}
  /\ last' = NoAnswer

\* Somebody writes, copies, renames or removes a file.
EditFile(path, fm) ==
  /\ Step(1)
  /\ files' = [files EXCEPT ![path] = fm]
  /\ drift' = drift \union {path}
  /\ last' = NoAnswer
  /\ UNCHANGED rows

\* A file whose hash the index had at the start is skipped unless forced.
Hashed(p) == \E i \in Ids : rows[i] # NoRow /\ rows[i].path = p /\ rows[i].fm = files[p]

Indexed(force, table, p) ==
  IF ~Indexable(files[p]) \/ (~force /\ Hashed(p)) THEN table ELSE Put(table, p, files[p])

AllIndexed(force, order) ==
  LET after[n \in 0..Len(order)] ==
        IF n = 0 THEN rows ELSE Indexed(force, after[n - 1], order[n])
  IN  after[Len(order)]

\* Files come in any order; rows of files that are gone are removed at the end.
Reindex(force) ==
  /\ Step(1)
  /\ \E order \in SetToSeqs(Present) :
       LET table == AllIndexed(force, order) IN
       rows' = [i \in Ids |-> IF table[i] # NoRow /\ table[i].path \notin Present
                              THEN NoRow ELSE table[i]]
  /\ drift' = {p \in Present : ~Indexable(files[p])}
  /\ last' = NoAnswer
  /\ UNCHANGED files

NewRecords == [type : Types, id : Ids, given : Inputs]
Changes    == [id : Ids, given : Inputs]

Next ==
  \/ \E r \in NewRecords : CreateDocument(r)
  \/ \E rs \in BoundedSeq(NewRecords, BulkSize) \ {<<>>} : BulkCreate(rs)
  \/ \E r \in Changes : UpdateDocument(r)
  \/ \E rs \in BoundedSeq(Changes, BulkSize) \ {<<>>} : BulkUpdate(rs)
  \/ \E i \in Ids : DeleteDocument(i)
  \/ \E p \in Paths, fm \in HandWritten : EditFile(p, fm)
  \/ \E force \in BOOLEAN : Reindex(force)

Spec == Init /\ [][Next]_vars

-----------------------------------------------------------------------------
TypeOK ==
  /\ files \in [Paths -> Frontmatter \union {NoFile}]
  /\ rows \in [Ids -> [path : Paths, fm : Frontmatter] \union {NoRow}]
  /\ \A i \in Ids : rows[i] # NoRow => Indexable(rows[i].fm)
  /\ drift \subseteq Paths
  /\ last \in [done : Seq([type : Types, id : Ids, path : Paths, given : Inputs]),
               clean : BOOLEAN]
  /\ steps \in 0..MaxSteps

\* What a row says is what its file says, its identity included, unless the
\* file was edited since or a call said that it could not index it. Identities
\* given in `fields`, copied files and reindexing in any order make rows move
\* between files; none is left pointing at another document's file.
IndexMatchesFiles ==
  \A i \in Ids :
    rows[i] # NoRow /\ rows[i].path \notin drift
      => /\ files[rows[i].path] = rows[i].fm
         /\ rows[i].fm.doc_id = i

\* What a call accepted under a type is valid for it as the parser reads it back
\* from disk, so that indexing and later updates of other fields accept it too,
\* unless a later record of the same call wrote to that file.
AcceptedStaysValid ==
  \A k \in DOMAIN last.done :
    LET entry == last.done[k]
        WrittenLater == \/ entry.path \in drift
                        \/ \E j \in DOMAIN last.done : j > k /\ last.done[j].path = entry.path IN
    /\ files[entry.path] # NoFile
    /\ ~WrittenLater => Errors(entry.type, files[entry.path].fields, {}) = {}

\* A bulk call of which every success was verified and none found amiss did what
\* it was asked: each record is found under the id the answer names, in the file
\* that id had, with the values given (numbers and their digits apart).
VerifiedMeansWritten ==
  last.clean /\ Len(last.done) <= 20 => \A k \in DOMAIN last.done :
    LET entry == last.done[k]
        fm == files[entry.path] IN
    /\ rows[entry.id] # NoRow /\ rows[entry.id].path = entry.path
    /\ \A f \in DOMAIN entry.given.fields :
         \/ fm.fields[f] = entry.given.fields[f]
         \/ fm.fields[f].kind # "list" /\ fm.fields[f].text = entry.given.fields[f].text
=============================================================================
