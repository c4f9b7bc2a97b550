--------------------------- MODULE DocStoreProofs ---------------------------
(***************************************************************************)
(* Theorems about DocStore, for any sets of documents and contents, bulks  *)
(* of any size, and any number of operations, edits and crashes: what the  *)
(* operation under the lock still owes to files, index and repository is   *)
(* what they may disagree on, and everything else was told to somebody.    *)
(***************************************************************************)
EXTENDS DocStore, SequenceTheorems, TLAPS

USE NoTextAssumption, NoIdAssumption, BoundsAssumption

(* ---- The inductive invariant --------------------------------------------- *)

\* What the record of the running operation holds at each of its awaits: a
\* document it works on, the state of its journal entry, the paths to commit.
OpShape ==
  /\ op.pc = "idle" => op = Idle
  /\ op.pc \in {"read", "write", "advance", "index", "unlink", "drop"} \/ op.entry # "none" => op.id \in Ids
  /\ op.pc = "next" => op.kind \in Bulks
  /\ op.pc = "read" => op.kind \in {"update", "bulkUpdate"} /\ op.text \in Texts
  /\ op.pc = "write" => op.kind \in Writes /\ op.text \in Texts
  /\ op.pc = "advance" => op.kind \in Writes
  /\ op.pc = "index" => op.kind \in Writes \union {"reindexOne"}
  /\ op.pc \in {"unlink", "drop"} => op.kind \in Deletes /\ InIndex(op.id)
  /\ op.pc \in {"add", "commit"} => op.kind \in Writes \union Deletes
  /\ op.pc = "commit" => hasGit
  /\ op.pc = "scan" => op.kind = "indexAll"
  /\ op.files # {} => op.kind \in Bulks \/ op.pc \in {"add", "commit"}
  /\ op.guarded => op.kind = "update"
  /\ scan.left \subseteq scan.found

\* The paths the running operation has touched and not yet answered for.
InHand ==
  op.files \union
    (IF op.kind \in Writes /\ op.pc \in {"advance", "index"} THEN {Live(op.id)}
     ELSE IF op.pc # "drop" THEN {}
     ELSE IF op.kind = "hard" THEN {Live(op.id)} ELSE {Live(op.id), Tomb(op.id)})

\* The repository differs from HEAD at excused paths only, and where the
\* running operation is at work; what it has staged is what it will commit.
GitInv ==
  hasGit =>
    /\ \A p \in Paths : disk[p] # head[p] \/ staged[p] # head[p] => p \in excused \union InHand
    /\ op.pc = "commit" => \A p \in op.files : disk[p] # staged[p] => p \in excused

\* The running operation has taken the file of d away, or put one there, and
\* the row follows.
Moving(d) == op.id = d /\ (BeingWritten(d) \/ op.pc = "drop")

\* Until a crash, an index row differs from its file where somebody knows it
\* or the running operation is about to write it.
DriftInv ==
  /\ crashes = 0 => \A d \in Ids : Drift(d) => d \in told \/ Moving(d)
  /\ op.pc = "drop" /\ disk[Live(op.id)] # NoText => op.id \in told

\* A scan that met neither an error nor an edit has brought the documents it
\* is through with up to date, and files it did not find are told of.
ScanInv ==
  op.pc = "scan" =>
    /\ \A d \in Ids \ scan.found : disk[Live(d)] # NoText => d \in told
    /\ scan.clean => /\ \A d \in scan.found \ scan.left : ~Drift(d)
                     /\ \A d \in Ids \ scan.found : disk[Live(d)] = NoText

\* The version a client remembers names the content it remembers.
ClientInv ==
  client.sound =>
    LET d == client.id IN
    /\ d \in Ids
    /\ InIndex(d)
    /\ client.version <= rows[d].version
    /\ \/ ~Drift(d)
       \/ BeingWritten(d)
       \/ op.pc = "drop" /\ op.id = d /\ disk[Live(d)] = NoText
    /\ client.have /\ client.version = rows[d].version =>
         client.text = rows[d].hash \/ (BeingWritten(d) /\ client.text = disk[Live(d)])
    /\ op.guarded /\ op.pc \in {"read", "write"} =>
         client.have /\ op.id = d /\ client.version = rows[d].version

Shape == TypeOK /\ OpShape

Inv == Shape /\ GitInv /\ DriftInv /\ ScanInv /\ ClientInv

(* ---- Paths and records ------------------------------------------------------ *)

\* A document has two paths of its own.
LEMMA PathsDistinct ==
  ASSUME NEW d \in Ids, NEW e
  PROVE  /\ Live(d) \in Paths /\ Tomb(d) \in Paths /\ Live(d) # Tomb(e)
         /\ Live(d) = Live(e) => d = e
BY DEF Live, Tomb, Paths

OpRecords ==
  [kind : Kinds, pc : Steps, id : Ids \union {NoId}, text : Files, rest : Seq(Records),
   files : SUBSET Paths, entry : Statuses \union {"none"}, guarded : BOOLEAN]

\* What is left of a batch is a batch.
LEMMA BatchTail ==
  ASSUME NEW rest \in Seq(Records), rest # <<>>
  PROVE  Tail(rest) \in Seq(Records) /\ Head(rest).id \in Ids /\ Head(rest).text \in Texts
<1>1. Tail(rest) \in Seq(Records) /\ Head(rest) \in Records
  BY HeadTailProperties
<1> QED
  BY <1>1 DEF Records

(* ---- Types ------------------------------------------------------------------ *)

\* Which steps change a variable, and how.
LEMMA Changes ==
  ASSUME [Next]_vars
  PROVE  /\ disk' = disk \/ WriteFile \/ Unlink \/ \E d \in Ids, t \in Files : Edit(d, t)
         /\ rows' = rows \/ IndexDocument \/ DropRow \/ FinishScan \/ \E d \in Ids : ScanFile(d)
         /\ staged' = staged \/ Add
         /\ head' \in {head, staged}
         /\ hasGit' = hasGit
         /\ journal' \in {journal, {}} \/ LeaveEntry
         /\ \/ scan' \in {scan, NoScan}
            \/ \E full \in BOOLEAN : StartIndexAll(full)
            \/ \E d \in Ids : \/ scan' = [scan EXCEPT !.left = @ \ {d}]
                             \/ scan' = [scan EXCEPT !.left = @ \ {d}, !.clean = FALSE]
            \/ scan' = [scan EXCEPT !.clean = FALSE]
         /\ \/ client' = client \/ client' = [client EXCEPT !.sound = FALSE]
            \/ GetFile \/ \E d \in Ids : GetRow(d)
         /\ \/ told' \subseteq told \/ Crash \/ \E d \in Ids : told' = told \union {d}
            \/ IndexFails
         /\ \/ excused' \in {excused, excused \union op.files, excused \ op.files}
            \/ IndexFails \/ Crash \/ \E d \in Ids : excused' = excused \union {Live(d)}
         /\ ops' = ops \/ (ops < MaxOps /\ ops' = ops + 1)
         /\ edits' = edits \/ (edits < MaxEdits /\ edits' = edits + 1)
         /\ crashes' = crashes \/ (crashes < MaxCrashes /\ crashes' = crashes + 1)
<1> USE DEF Start, Reply, counters, git, Taint
<1>1. CASE Begin
  BY <1>1 DEF Begin, StartCreate, StartUpdate, StartBulk, StartDelete, StartReindexOne, StartIndexAll
<1>2. CASE Step /\ op.pc # "scan"
  BY <1>2 DEF Step, TakeRecord, EndOfBatch, ReadCurrent, ReadFails, Throws, WriteFails, Advance,
     IndexFails, UnlinkFails, CommitWithoutGit, AddFails, SkipFile, ScanFails, ScanThrows,
     WriteFile, IndexDocument, Unlink, DropRow, Add, Commit, CommitFails, ScanFile, FinishScan
<1>4. CASE Step /\ op.pc = "scan"
  BY <1>4 DEF Step, TakeRecord, EndOfBatch, ReadCurrent, ReadFails, Throws, WriteFails, Advance,
     IndexFails, UnlinkFails, CommitWithoutGit, AddFails, SkipFile, ScanFails, ScanThrows,
     WriteFile, IndexDocument, Unlink, DropRow, Add, Commit, CommitFails, ScanFile, FinishScan
<1>3. CASE Environment
  BY <1>3 DEF Environment, Edit, Crash, GetRow, GetFile
<1>5. CASE UNCHANGED vars
  BY <1>5 DEF vars
<1> QED
  BY <1>1, <1>2, <1>3, <1>4, <1>5 DEF Next

\* Every step leaves a record of the running operation behind.
LEMMA OpTyped ==
  ASSUME Inv, [Next]_vars
  PROVE  op' \in OpRecords
<1> op \in OpRecords /\ OpShape
  BY DEF Inv, Shape, TypeOK, OpRecords
<1> <<>> \in Seq(Records)
  OBVIOUS
<1> USE DEF OpShape, OpRecords, Start, Reply, NextRecord, Idle, Writes, Bulks, Deletes, Statuses,
        Steps, Kinds, Files
<1>1. ASSUME NEW d \in Ids, NEW t \in Texts, StartCreate(d, t)
      PROVE  op' \in OpRecords
  BY <1>1 DEF StartCreate
<1>2. ASSUME NEW d \in Ids, NEW t \in Texts, NEW g \in BOOLEAN, StartUpdate(d, t, g)
      PROVE  op' \in OpRecords
  BY <1>2 DEF StartUpdate
<1>3. ASSUME NEW k \in Bulks, NEW records \in BulkInputs, StartBulk(k, records)
      PROVE  op' \in OpRecords
  <2>1. records \in Seq(Records)
    BY DEF BulkInputs
  <2> QED
    BY <1>3, <2>1 DEF StartBulk
<1>4. ASSUME NEW d \in Ids, NEW k \in Deletes, StartDelete(d, k)
      PROVE  op' \in OpRecords
  BY <1>4 DEF StartDelete
<1>5. ASSUME NEW d \in Ids, StartReindexOne(d)
      PROVE  op' \in OpRecords
  BY <1>5 DEF StartReindexOne
<1>6. ASSUME NEW full \in BOOLEAN, StartIndexAll(full)
      PROVE  op' \in OpRecords
  BY <1>6 DEF StartIndexAll
<1>7. CASE TakeRecord
  <2>1. /\ Tail(op.rest) \in Seq(Records)
        /\ Head(op.rest).id \in Ids /\ Head(op.rest).text \in Texts
    BY <1>7, BatchTail DEF TakeRecord
  <2>2. op' = [op EXCEPT !.rest = Tail(@)]
        \/ \E s \in {"read", "write"} :
             op' = [op EXCEPT !.id = Head(op.rest).id, !.text = Head(op.rest).text,
                              !.rest = Tail(@), !.pc = s]
    BY <1>7 DEF TakeRecord
  <2>3. CASE op' = [op EXCEPT !.rest = Tail(@)]
    BY <2>1, <2>3
  <2>4. ASSUME NEW s \in {"read", "write"},
               op' = [op EXCEPT !.id = Head(op.rest).id, !.text = Head(op.rest).text,
                                !.rest = Tail(@), !.pc = s]
        PROVE  op' \in OpRecords
    BY <2>1, <2>4
  <2> QED
    BY <2>2, <2>3, <2>4
<1>8. CASE EndOfBatch
  BY <1>8 DEF EndOfBatch
<1>9. CASE ReadCurrent
  BY <1>9 DEF ReadCurrent
<1>10. CASE ReadFails
  BY <1>10 DEF ReadFails
<1>11. CASE Throws
  BY <1>11 DEF Throws
<1>12. CASE WriteFile
  BY <1>12 DEF WriteFile
<1>13. CASE WriteFails
  BY <1>13 DEF WriteFails
<1>14. CASE Advance
  BY <1>14 DEF Advance
<1>15. CASE IndexDocument
  <2>1. Live(op.id) \in Paths
    BY <1>15, PathsDistinct DEF IndexDocument
  <2> QED
    BY <1>15, <2>1 DEF IndexDocument
<1>16. CASE IndexFails
  BY <1>16 DEF IndexFails
<1>17. CASE Unlink
  BY <1>17 DEF Unlink
<1>18. CASE UnlinkFails
  BY <1>18 DEF UnlinkFails
<1>19. CASE DropRow
  <2>1. Live(op.id) \in Paths /\ Tomb(op.id) \in Paths
    BY <1>19, PathsDistinct DEF DropRow
  <2> QED
    BY <1>19, <2>1 DEF DropRow
<1>20. CASE CommitWithoutGit
  BY <1>20 DEF CommitWithoutGit
<1>21. CASE Add
  BY <1>21 DEF Add
<1>22. CASE AddFails
  BY <1>22 DEF AddFails
<1>23. CASE Commit
  BY <1>23 DEF Commit
<1>24. CASE CommitFails
  BY <1>24 DEF CommitFails
<1>25. ASSUME NEW d \in Ids, SkipFile(d)
       PROVE  op' \in OpRecords
  BY <1>25 DEF SkipFile
<1>26. ASSUME NEW d \in Ids, ScanFile(d)
       PROVE  op' \in OpRecords
  BY <1>26 DEF ScanFile
<1>27. ASSUME NEW d \in Ids, ScanFails(d)
       PROVE  op' \in OpRecords
  BY <1>27 DEF ScanFails
<1>28. ASSUME NEW d \in Ids, ScanThrows(d)
       PROVE  op' \in OpRecords
  BY <1>28 DEF ScanThrows
<1>29. CASE FinishScan
  BY <1>29 DEF FinishScan
<1>30. ASSUME NEW d \in Ids, NEW t \in Files, Edit(d, t)
       PROVE  op' \in OpRecords
  BY <1>30 DEF Edit
<1>31. ASSUME NEW d \in Ids, GetRow(d)
       PROVE  op' \in OpRecords
  BY <1>31 DEF GetRow
<1>32. CASE Crash
  BY <1>32 DEF Crash
<1>33. CASE GetFile
  BY <1>33 DEF GetFile
<1>34. CASE UNCHANGED vars
  BY <1>34 DEF vars
<1> QED
  BY <1>1, <1>2, <1>3, <1>4, <1>5, <1>6, <1>7, <1>8, <1>9, <1>10, <1>11, <1>12, <1>13, <1>14,
     <1>15, <1>16, <1>17, <1>18, <1>19, <1>20, <1>21, <1>22, <1>23, <1>24, <1>25, <1>26, <1>27,
     <1>28, <1>29, <1>30, <1>31, <1>32, <1>33, <1>34 DEF Next, Begin, Step, Environment

\* Rows and what a client remembers stay records.
LEMMA RowsTyped ==
  ASSUME Inv, [Next]_vars
  PROVE  rows' \in [Ids -> Rows]
<1> USE DEF InIndex, Rows, NoRow
<1>1. /\ rows \in [Ids -> Rows] /\ disk \in [Paths -> Files] /\ OpShape
      /\ \A d \in Ids : Live(d) \in Paths
  BY PathsDistinct DEF Inv, Shape, TypeOK
<1>2. ASSUME NEW d \in Ids, IndexRow(d), disk[Live(d)] # NoText
      PROVE  rows' \in [Ids -> Rows]
  <2>1. disk[Live(d)] \in Texts
    BY <1>1, <1>2 DEF Files
  <2>2. rows[d].state = "live" => rows[d].version \in Nat \ {0}
    BY <1>1
  <2> QED
    BY <1>1, <1>2, <2>1, <2>2 DEF IndexRow
<1>3. CASE IndexDocument
  BY <1>1, <1>2, <1>3 DEF IndexDocument, OpShape
<1>4. ASSUME NEW d \in Ids, ScanFile(d)
      PROVE  rows' \in [Ids -> Rows]
  BY <1>2, <1>4 DEF ScanFile
<1>5. CASE DropRow
  <2>1. op.id \in Ids /\ rows[op.id].state = "live"
    BY <1>1, <1>5 DEF DropRow, OpShape
  <2> QED
    BY <1>1, <1>5, <2>1 DEF DropRow
<1>6. CASE FinishScan
  BY <1>1, <1>6 DEF FinishScan
<1>7. rows' = rows \/ IndexDocument \/ DropRow \/ FinishScan \/ \E d \in Ids : ScanFile(d)
  BY Changes
<1> QED
  BY <1>1, <1>3, <1>4, <1>5, <1>6, <1>7

\* Every variable keeps its type.
LEMMA Typed ==
  ASSUME Inv, [Next]_vars
  PROVE  TypeOK'
<1>1. /\ TypeOK /\ OpShape /\ op \in OpRecords
      /\ \A d \in Ids : Live(d) \in Paths /\ Tomb(d) \in Paths
  BY PathsDistinct DEF Inv, Shape, TypeOK, OpRecords
<1>2. op' \in OpRecords /\ rows' \in [Ids -> Rows]
  BY OpTyped, RowsTyped
<1>3. disk' \in [Paths -> Files]
  <2>1. CASE WriteFile
    BY <1>1, <2>1 DEF WriteFile, TypeOK, OpShape, Files
  <2>2. CASE Unlink
    BY <1>1, <2>2 DEF Unlink, TypeOK, OpShape, Files
  <2>3. ASSUME NEW d \in Ids, NEW t \in Files, Edit(d, t)
        PROVE  disk' \in [Paths -> Files]
    BY <1>1, <2>3 DEF Edit, TypeOK
  <2> QED
    BY <1>1, <2>1, <2>2, <2>3, Changes DEF TypeOK
<1>4. staged' \in [Paths -> Files] /\ head' \in [Paths -> Files] /\ hasGit' \in BOOLEAN
  <2>1. CASE Add
    BY <1>1, <2>1, Changes DEF Add, TypeOK
  <2>2. CASE staged' = staged
    BY <1>1, <2>2, Changes DEF TypeOK
  <2> QED
    BY <2>1, <2>2, Changes
<1>5. journal' \in SUBSET [id : Ids, status : Statuses]
  <2>1. CASE LeaveEntry
    <3>1. op.entry # "none" => [id |-> op.id, status |-> op.entry] \in [id : Ids, status : Statuses]
      BY <1>1 DEF OpRecords, OpShape
    <3> QED
      BY <1>1, <2>1, <3>1 DEF LeaveEntry, TypeOK
  <2>2. CASE journal' \in {journal, {}}
    BY <1>1, <2>2 DEF TypeOK
  <2> QED
    BY <2>1, <2>2, Changes
<1>6. scan' \in [full : BOOLEAN, found : SUBSET Ids, left : SUBSET Ids, clean : BOOLEAN]
  <2>0. scan \in [full : BOOLEAN, found : SUBSET Ids, left : SUBSET Ids, clean : BOOLEAN]
    BY <1>1 DEF TypeOK
  <2>1. CASE \E full \in BOOLEAN : StartIndexAll(full)
    BY <2>1 DEF StartIndexAll
  <2>2. CASE scan' = NoScan
    BY <2>2 DEF NoScan
  <2>4. CASE scan' = scan \/ scan' = [scan EXCEPT !.clean = FALSE]
    BY <2>0, <2>4
  <2>3. ASSUME NEW d \in Ids,
               \/ scan' = [scan EXCEPT !.left = @ \ {d}]
               \/ scan' = [scan EXCEPT !.left = @ \ {d}, !.clean = FALSE]
        PROVE  scan' \in [full : BOOLEAN, found : SUBSET Ids, left : SUBSET Ids, clean : BOOLEAN]
    BY <2>0, <2>3
  <2> QED
    BY <2>1, <2>2, <2>3, <2>4, Changes
<1>7. client' \in [id : Ids \union {NoId}, version : Nat, text : Files,
                   have : BOOLEAN, sound : BOOLEAN]
  <2>1. ASSUME NEW d \in Ids, GetRow(d)
        PROVE  rows[d].version \in Nat /\ NoText \in Files
    BY <1>1 DEF TypeOK, Rows, NoRow, Files
  <2>2. CASE GetFile
    <3>1. disk[Live(client.id)] \in Files
      BY <1>1, <2>2 DEF GetFile, TypeOK
    <3> QED
      BY <1>1, <2>2, <3>1 DEF GetFile, TypeOK
  <2>3. ASSUME NEW d \in Ids, GetRow(d)
        PROVE  client' \in [id : Ids \union {NoId}, version : Nat, text : Files,
                            have : BOOLEAN, sound : BOOLEAN]
    BY <2>1, <2>3 DEF GetRow
  <2> QED
    BY <1>1, <2>2, <2>3, Changes DEF TypeOK
<1>8. told' \in SUBSET Ids
  <2>1. Reconciled \subseteq Ids
    BY <1>1 DEF Reconciled, TypeOK, OpShape
  <2> QED
    BY <1>1, <2>1, Changes DEF TypeOK, Crash, IndexFails, OpShape
<1>9. excused' \in SUBSET Paths
  <2>1. op.files \subseteq Paths /\ excused \subseteq Paths
    BY <1>1 DEF OpRecords, TypeOK
  <2>2. CASE Crash
    BY <2>1, <2>2 DEF Crash
  <2>3. CASE IndexFails
    BY <1>1, <2>1, <2>3 DEF IndexFails, OpShape
  <2>4. ASSUME NEW d \in Ids, excused' = excused \union {Live(d)}
        PROVE  excused' \in SUBSET Paths
    BY <1>1, <2>1, <2>4
  <2>5. CASE excused' \in {excused, excused \union op.files, excused \ op.files}
    BY <2>1, <2>5
  <2> QED
    BY <2>2, <2>3, <2>4, <2>5, Changes
<1>10. ops' \in 0..MaxOps /\ edits' \in 0..MaxEdits /\ crashes' \in 0..MaxCrashes
  <2>1. ASSUME NEW n \in 0..MaxOps, n < MaxOps
        PROVE  n + 1 \in 0..MaxOps
    BY <2>1
  <2>2. ASSUME NEW n \in 0..MaxEdits, n < MaxEdits
        PROVE  n + 1 \in 0..MaxEdits
    BY <2>2
  <2>3. ASSUME NEW n \in 0..MaxCrashes, n < MaxCrashes
        PROVE  n + 1 \in 0..MaxCrashes
    BY <2>3
  <2> QED
    BY <1>1, <2>1, <2>2, <2>3, Changes DEF TypeOK
<1> QED
  BY <1>2, <1>3, <1>4, <1>5, <1>6, <1>7, <1>8, <1>9, <1>10 DEF TypeOK, OpRecords

(* ---- The record of the running operation ----------------------------------- *)

\* Every step leaves the record in the shape its next await expects.
LEMMA OpShaped ==
  ASSUME Inv, [Next]_vars
  PROVE  OpShape'
<1> op \in OpRecords /\ OpShape
  BY DEF Inv, Shape, TypeOK, OpRecords
<1> scan \in [full : BOOLEAN, found : SUBSET Ids, left : SUBSET Ids, clean : BOOLEAN]
  BY DEF Inv, Shape, TypeOK
<1> USE DEF OpShape, Start, Reply, NextRecord, Idle, Writes, Bulks, Deletes, InIndex, counters, git,
        NoScan, IndexRow
<1>1. ASSUME NEW d \in Ids, NEW t \in Texts, StartCreate(d, t)
      PROVE  OpShape'
  BY <1>1 DEF StartCreate
<1>2. ASSUME NEW d \in Ids, NEW t \in Texts, NEW g \in BOOLEAN, StartUpdate(d, t, g)
      PROVE  OpShape'
  BY <1>2 DEF StartUpdate
<1>3. ASSUME NEW k \in Bulks, NEW records \in BulkInputs, StartBulk(k, records)
      PROVE  OpShape'
  BY <1>3 DEF StartBulk
<1>4. ASSUME NEW d \in Ids, NEW k \in Deletes, StartDelete(d, k)
      PROVE  OpShape'
  BY <1>4 DEF StartDelete
<1>5. ASSUME NEW d \in Ids, StartReindexOne(d)
      PROVE  OpShape'
  BY <1>5 DEF StartReindexOne
<1>6. ASSUME NEW full \in BOOLEAN, StartIndexAll(full)
      PROVE  OpShape'
  BY <1>6 DEF StartIndexAll
<1>7. CASE TakeRecord
  <2>1. Head(op.rest).id \in Ids /\ Head(op.rest).text \in Texts
    BY <1>7, BatchTail DEF TakeRecord, OpRecords
  <2>2. UNCHANGED <<scan, rows, hasGit>> /\ op.kind \in Bulks /\ op.pc = "next"
    BY <1>7 DEF TakeRecord
  <2>3. ASSUME NEW k \in Bulks, NEW s \in {"write", "read"}, op.kind = k,
               k = IF s = "write" THEN "bulkCreate" ELSE "bulkUpdate",
               op' = [op EXCEPT !.id = Head(op.rest).id, !.text = Head(op.rest).text,
                                !.rest = Tail(@), !.pc = s]
        PROVE  OpShape'
    BY <2>1, <2>2, <2>3 DEF OpRecords
  <2>4. CASE op' = [op EXCEPT !.rest = Tail(@)]
    BY <2>2, <2>4 DEF OpRecords
  <2> QED
    BY <1>7, <2>2, <2>3, <2>4 DEF TakeRecord
<1>8. CASE EndOfBatch
  BY <1>8 DEF EndOfBatch
<1>9. CASE ReadCurrent
  BY <1>9 DEF ReadCurrent
<1>10. CASE ReadFails
  BY <1>10 DEF ReadFails
<1>11. CASE Throws
  BY <1>11 DEF Throws
<1>12. CASE WriteFile
  BY <1>12 DEF WriteFile
<1>13. CASE WriteFails
  BY <1>13 DEF WriteFails
<1>14. CASE Advance
  BY <1>14 DEF Advance
<1>15. CASE IndexDocument
  BY <1>15 DEF IndexDocument
<1>16. CASE IndexFails
  BY <1>16 DEF IndexFails
<1>17. CASE Unlink
  BY <1>17 DEF Unlink
<1>18. CASE UnlinkFails
  BY <1>18 DEF UnlinkFails
<1>19. CASE DropRow
  BY <1>19 DEF DropRow
<1>20. CASE CommitWithoutGit
  BY <1>20 DEF CommitWithoutGit
<1>21. CASE Add
  BY <1>21 DEF Add
<1>22. CASE AddFails
  BY <1>22 DEF AddFails
<1>23. CASE Commit
  BY <1>23 DEF Commit
<1>24. CASE CommitFails
  BY <1>24 DEF CommitFails
<1>25. ASSUME NEW d \in Ids, SkipFile(d)
       PROVE  OpShape'
  BY <1>25 DEF SkipFile
<1>26. ASSUME NEW d \in Ids, ScanFile(d)
       PROVE  OpShape'
  BY <1>26 DEF ScanFile
<1>27. ASSUME NEW d \in Ids, ScanFails(d)
       PROVE  OpShape'
  BY <1>27 DEF ScanFails
<1>28. ASSUME NEW d \in Ids, ScanThrows(d)
       PROVE  OpShape'
  BY <1>28 DEF ScanThrows
<1>29. CASE FinishScan
  BY <1>29 DEF FinishScan
<1>30. ASSUME NEW d \in Ids, NEW t \in Files, Edit(d, t)
       PROVE  OpShape'
  BY <1>30 DEF Edit
<1>31. ASSUME NEW d \in Ids, GetRow(d)
       PROVE  OpShape'
  BY <1>31 DEF GetRow
<1>32. CASE Crash
  BY <1>32 DEF Crash
<1>33. CASE GetFile
  BY <1>33 DEF GetFile
<1>34. CASE UNCHANGED vars
  BY <1>34 DEF vars
<1> QED
  BY <1>1, <1>2, <1>3, <1>4, <1>5, <1>6, <1>7, <1>8, <1>9, <1>10, <1>11, <1>12, <1>13, <1>14,
     <1>15, <1>16, <1>17, <1>18, <1>19, <1>20, <1>21, <1>22, <1>23, <1>24, <1>25, <1>26, <1>27,
     <1>28, <1>29, <1>30, <1>31, <1>32, <1>33, <1>34 DEF Next, Begin, Step, Environment

(* ---- What the parts owe ---------------------------------------------------- *)

\* No step lets the repository differ silently.
LEMMA GitKept ==
  ASSUME Inv, TypeOK', [Next]_vars
  PROVE  GitInv'
<1> /\ op \in OpRecords /\ op' \in OpRecords /\ OpShape
    /\ disk \in [Paths -> Files] /\ rows \in [Ids -> Rows] /\ told \in SUBSET Ids
  BY DEF Inv, Shape, TypeOK, OpRecords
<1> \A d \in Ids : Live(d) \in Paths /\ Tomb(d) \in Paths
  BY PathsDistinct
<1> \A d \in Ids : \A e : Live(d) # Tomb(e) /\ (Live(d) = Live(e) => d = e)
  BY PathsDistinct
<1> GitInv /\ staged \in [Paths -> Files] /\ head \in [Paths -> Files]
  BY DEF Inv, Shape, TypeOK
<1> USE DEF GitInv, InHand, OpShape, OpRecords, Start, Reply, NextRecord, Idle, Writes, Bulks,
        Deletes, counters, git
<1>1. ASSUME NEW d \in Ids, NEW t \in Texts, StartCreate(d, t)
      PROVE  GitInv'
  BY <1>1 DEF StartCreate
<1>2. ASSUME NEW d \in Ids, NEW t \in Texts, NEW g \in BOOLEAN, StartUpdate(d, t, g)
      PROVE  GitInv'
  BY <1>2 DEF StartUpdate
<1>3. ASSUME NEW k \in Bulks, NEW records \in BulkInputs, StartBulk(k, records)
      PROVE  GitInv'
  BY <1>3 DEF StartBulk
<1>4. ASSUME NEW d \in Ids, NEW k \in Deletes, StartDelete(d, k)
      PROVE  GitInv'
  BY <1>4 DEF StartDelete
<1>5. ASSUME NEW d \in Ids, StartReindexOne(d)
      PROVE  GitInv'
  BY <1>5 DEF StartReindexOne
<1>6. ASSUME NEW full \in BOOLEAN, StartIndexAll(full)
      PROVE  GitInv'
  BY <1>6 DEF StartIndexAll
<1>7. CASE TakeRecord
  BY <1>7 DEF TakeRecord
<1>8. CASE EndOfBatch
  BY <1>8 DEF EndOfBatch
<1>9. CASE ReadCurrent
  BY <1>9 DEF ReadCurrent
<1>10. CASE ReadFails
  BY <1>10 DEF ReadFails
<1>11. CASE Throws
  BY <1>11 DEF Throws
<1>12. CASE WriteFile
  BY <1>12 DEF WriteFile
<1>13. CASE WriteFails
  BY <1>13 DEF WriteFails
<1>14. CASE Advance
  BY <1>14 DEF Advance
<1>15. CASE IndexDocument
  BY <1>15 DEF IndexDocument
<1>16. CASE IndexFails
  BY <1>16 DEF IndexFails
<1>17. CASE Unlink
  BY <1>17 DEF Unlink
<1>18. CASE UnlinkFails
  BY <1>18 DEF UnlinkFails
<1>19. CASE DropRow
  BY <1>19 DEF DropRow
<1>20. CASE CommitWithoutGit
  BY <1>20 DEF CommitWithoutGit
<1>21. CASE Add
  BY <1>21 DEF Add
<1>22. CASE AddFails
  BY <1>22 DEF AddFails
<1>23. CASE Commit
  BY <1>23 DEF Commit
<1>24. CASE CommitFails
  BY <1>24 DEF CommitFails
<1>25. ASSUME NEW d \in Ids, SkipFile(d)
       PROVE  GitInv'
  BY <1>25 DEF SkipFile
<1>26. ASSUME NEW d \in Ids, ScanFile(d)
       PROVE  GitInv'
  BY <1>26 DEF ScanFile
<1>27. ASSUME NEW d \in Ids, ScanFails(d)
       PROVE  GitInv'
  BY <1>27 DEF ScanFails
<1>28. ASSUME NEW d \in Ids, ScanThrows(d)
       PROVE  GitInv'
  BY <1>28 DEF ScanThrows
<1>29. CASE FinishScan
  BY <1>29 DEF FinishScan
<1>30. ASSUME NEW d \in Ids, NEW t \in Files, Edit(d, t)
       PROVE  GitInv'
  BY <1>30 DEF Edit
<1>31. ASSUME NEW d \in Ids, GetRow(d)
       PROVE  GitInv'
  BY <1>31 DEF GetRow
<1>32. CASE Crash
  BY <1>32 DEF Crash
<1>33. CASE GetFile
  BY <1>33 DEF GetFile
<1>34. CASE UNCHANGED vars
  BY <1>34 DEF vars
<1> QED
  BY <1>1, <1>2, <1>3, <1>4, <1>5, <1>6, <1>7, <1>8, <1>9, <1>10, <1>11, <1>12, <1>13, <1>14,
     <1>15, <1>16, <1>17, <1>18, <1>19, <1>20, <1>21, <1>22, <1>23, <1>24, <1>25, <1>26, <1>27,
     <1>28, <1>29, <1>30, <1>31, <1>32, <1>33, <1>34 DEF Next, Begin, Step, Environment

\* No step before a crash lets a row and its file part silently.
LEMMA DriftKept ==
  ASSUME Inv, TypeOK', [Next]_vars
  PROVE  DriftInv'
<1> /\ op \in OpRecords /\ op' \in OpRecords /\ OpShape
    /\ disk \in [Paths -> Files] /\ rows \in [Ids -> Rows] /\ told \in SUBSET Ids
  BY DEF Inv, Shape, TypeOK, OpRecords
<1> \A d \in Ids : Live(d) \in Paths /\ Tomb(d) \in Paths
  BY PathsDistinct
<1> \A d \in Ids : \A e : Live(d) # Tomb(e) /\ (Live(d) = Live(e) => d = e)
  BY PathsDistinct
<1> DriftInv /\ ScanInv /\ crashes \in Nat
  BY DEF Inv, Shape, TypeOK
<1> USE DEF DriftInv, ScanInv, Moving, BeingWritten, Drift, IndexedText, InIndex, IndexRow, Rows,
        NoRow, OpShape, Start, Reply, NextRecord, Idle, Writes, Bulks, Deletes, counters, git
<1>1. ASSUME NEW d \in Ids, NEW t \in Texts, StartCreate(d, t)
      PROVE  DriftInv'
  BY <1>1 DEF StartCreate
<1>2. ASSUME NEW d \in Ids, NEW t \in Texts, NEW g \in BOOLEAN, StartUpdate(d, t, g)
      PROVE  DriftInv'
  BY <1>2 DEF StartUpdate
<1>3. ASSUME NEW k \in Bulks, NEW records \in BulkInputs, StartBulk(k, records)
      PROVE  DriftInv'
  BY <1>3 DEF StartBulk
<1>4. ASSUME NEW d \in Ids, NEW k \in Deletes, StartDelete(d, k)
      PROVE  DriftInv'
  BY <1>4 DEF StartDelete
<1>5. ASSUME NEW d \in Ids, StartReindexOne(d)
      PROVE  DriftInv'
  BY <1>5 DEF StartReindexOne
<1>6. ASSUME NEW full \in BOOLEAN, StartIndexAll(full)
      PROVE  DriftInv'
  BY <1>6 DEF StartIndexAll
<1>7. CASE TakeRecord
  <2>1. UNCHANGED <<disk, rows, told, crashes>>
    BY <1>7 DEF TakeRecord, counters
  <2>2. op.pc = "next" /\ op'.pc \in {"next", "read", "write"}
    BY <1>7 DEF TakeRecord
  <2> QED
    BY <2>1, <2>2
<1>8. CASE EndOfBatch
  BY <1>8 DEF EndOfBatch
<1>9. CASE ReadCurrent
  BY <1>9 DEF ReadCurrent
<1>10. CASE ReadFails
  BY <1>10 DEF ReadFails
<1>11. CASE Throws
  BY <1>11 DEF Throws
<1>12. CASE WriteFile
  BY <1>12 DEF WriteFile
<1>13. CASE WriteFails
  BY <1>13 DEF WriteFails
<1>14. CASE Advance
  BY <1>14 DEF Advance
<1>15. CASE IndexDocument
  BY <1>15 DEF IndexDocument
<1>16. CASE IndexFails
  BY <1>16 DEF IndexFails
<1>17. CASE Unlink
  BY <1>17 DEF Unlink
<1>18. CASE UnlinkFails
  BY <1>18 DEF UnlinkFails
<1>19. CASE DropRow
  BY <1>19 DEF DropRow
<1>20. CASE CommitWithoutGit
  BY <1>20 DEF CommitWithoutGit
<1>21. CASE Add
  BY <1>21 DEF Add
<1>22. CASE AddFails
  BY <1>22 DEF AddFails
<1>23. CASE Commit
  BY <1>23 DEF Commit
<1>24. CASE CommitFails
  BY <1>24 DEF CommitFails
<1>25. ASSUME NEW d \in Ids, SkipFile(d)
       PROVE  DriftInv'
  BY <1>25 DEF SkipFile
<1>26. ASSUME NEW d \in Ids, ScanFile(d)
       PROVE  DriftInv'
  BY <1>26 DEF ScanFile
<1>27. ASSUME NEW d \in Ids, ScanFails(d)
       PROVE  DriftInv'
  BY <1>27 DEF ScanFails
<1>28. ASSUME NEW d \in Ids, ScanThrows(d)
       PROVE  DriftInv'
  BY <1>28 DEF ScanThrows
<1>29. CASE FinishScan
  BY <1>29 DEF FinishScan
<1>30. ASSUME NEW d \in Ids, NEW t \in Files, Edit(d, t)
       PROVE  DriftInv'
  BY <1>30 DEF Edit
<1>31. ASSUME NEW d \in Ids, GetRow(d)
       PROVE  DriftInv'
  BY <1>31 DEF GetRow
<1>32. CASE Crash
  BY <1>32 DEF Crash
<1>33. CASE GetFile
  BY <1>33 DEF GetFile
<1>34. CASE UNCHANGED vars
  BY <1>34 DEF vars
<1> QED
  BY <1>1, <1>2, <1>3, <1>4, <1>5, <1>6, <1>7, <1>8, <1>9, <1>10, <1>11, <1>12, <1>13, <1>14,
     <1>15, <1>16, <1>17, <1>18, <1>19, <1>20, <1>21, <1>22, <1>23, <1>24, <1>25, <1>26, <1>27,
     <1>28, <1>29, <1>30, <1>31, <1>32, <1>33, <1>34 DEF Next, Begin, Step, Environment

\* No step spoils what a scan has done.
LEMMA ScanKept ==
  ASSUME Inv, TypeOK', [Next]_vars
  PROVE  ScanInv'
<1> /\ op \in OpRecords /\ op' \in OpRecords /\ OpShape
    /\ disk \in [Paths -> Files] /\ rows \in [Ids -> Rows] /\ told \in SUBSET Ids
  BY DEF Inv, Shape, TypeOK, OpRecords
<1> \A d \in Ids : Live(d) \in Paths /\ Tomb(d) \in Paths
  BY PathsDistinct
<1> \A d \in Ids : \A e : Live(d) # Tomb(e) /\ (Live(d) = Live(e) => d = e)
  BY PathsDistinct
<1> /\ ScanInv
    /\ scan \in [full : BOOLEAN, found : SUBSET Ids, left : SUBSET Ids, clean : BOOLEAN]
  BY DEF Inv, Shape, TypeOK
<1> USE DEF ScanInv, Drift, IndexedText, InIndex, IndexRow, Rows, NoRow, OpShape, Start, Reply,
        NextRecord, Idle, Writes, Bulks, Deletes, counters, git, NoScan, Unchanged
<1>1. ASSUME NEW d \in Ids, NEW t \in Texts, StartCreate(d, t)
      PROVE  ScanInv'
  BY <1>1 DEF StartCreate
<1>2. ASSUME NEW d \in Ids, NEW t \in Texts, NEW g \in BOOLEAN, StartUpdate(d, t, g)
      PROVE  ScanInv'
  BY <1>2 DEF StartUpdate
<1>3. ASSUME NEW k \in Bulks, NEW records \in BulkInputs, StartBulk(k, records)
      PROVE  ScanInv'
  BY <1>3 DEF StartBulk
<1>4. ASSUME NEW d \in Ids, NEW k \in Deletes, StartDelete(d, k)
      PROVE  ScanInv'
  BY <1>4 DEF StartDelete
<1>5. ASSUME NEW d \in Ids, StartReindexOne(d)
      PROVE  ScanInv'
  BY <1>5 DEF StartReindexOne
<1>6. ASSUME NEW full \in BOOLEAN, StartIndexAll(full)
      PROVE  ScanInv'
  BY <1>6 DEF StartIndexAll
<1>7. CASE TakeRecord
  BY <1>7 DEF TakeRecord
<1>8. CASE EndOfBatch
  BY <1>8 DEF EndOfBatch
<1>9. CASE ReadCurrent
  BY <1>9 DEF ReadCurrent
<1>10. CASE ReadFails
  BY <1>10 DEF ReadFails
<1>11. CASE Throws
  BY <1>11 DEF Throws
<1>12. CASE WriteFile
  BY <1>12 DEF WriteFile
<1>13. CASE WriteFails
  BY <1>13 DEF WriteFails
<1>14. CASE Advance
  BY <1>14 DEF Advance
<1>15. CASE IndexDocument
  BY <1>15 DEF IndexDocument
<1>16. CASE IndexFails
  BY <1>16 DEF IndexFails
<1>17. CASE Unlink
  BY <1>17 DEF Unlink
<1>18. CASE UnlinkFails
  BY <1>18 DEF UnlinkFails
<1>19. CASE DropRow
  BY <1>19 DEF DropRow
<1>20. CASE CommitWithoutGit
  BY <1>20 DEF CommitWithoutGit
<1>21. CASE Add
  BY <1>21 DEF Add
<1>22. CASE AddFails
  BY <1>22 DEF AddFails
<1>23. CASE Commit
  BY <1>23 DEF Commit
<1>24. CASE CommitFails
  BY <1>24 DEF CommitFails
<1>25. ASSUME NEW d \in Ids, SkipFile(d)
       PROVE  ScanInv'
  BY <1>25 DEF SkipFile
<1>26. ASSUME NEW d \in Ids, ScanFile(d)
       PROVE  ScanInv'
  BY <1>26 DEF ScanFile
<1>27. ASSUME NEW d \in Ids, ScanFails(d)
       PROVE  ScanInv'
  BY <1>27 DEF ScanFails
<1>28. ASSUME NEW d \in Ids, ScanThrows(d)
       PROVE  ScanInv'
  BY <1>28 DEF ScanThrows
<1>29. CASE FinishScan
  BY <1>29 DEF FinishScan
<1>30. ASSUME NEW d \in Ids, NEW t \in Files, Edit(d, t)
       PROVE  ScanInv'
  BY <1>30 DEF Edit
<1>31. ASSUME NEW d \in Ids, GetRow(d)
       PROVE  ScanInv'
  BY <1>31 DEF GetRow
<1>32. CASE Crash
  BY <1>32 DEF Crash
<1>33. CASE GetFile
  BY <1>33 DEF GetFile
<1>34. CASE UNCHANGED vars
  BY <1>34 DEF vars
<1> QED
  BY <1>1, <1>2, <1>3, <1>4, <1>5, <1>6, <1>7, <1>8, <1>9, <1>10, <1>11, <1>12, <1>13, <1>14,
     <1>15, <1>16, <1>17, <1>18, <1>19, <1>20, <1>21, <1>22, <1>23, <1>24, <1>25, <1>26, <1>27,
     <1>28, <1>29, <1>30, <1>31, <1>32, <1>33, <1>34 DEF Next, Begin, Step, Environment

\* No step makes a client's version name another content.
LEMMA ClientKept ==
  ASSUME Inv, TypeOK', [Next]_vars
  PROVE  ClientInv'
<1> /\ op \in OpRecords /\ op' \in OpRecords /\ OpShape
    /\ disk \in [Paths -> Files] /\ rows \in [Ids -> Rows] /\ told \in SUBSET Ids
  BY DEF Inv, Shape, TypeOK, OpRecords
<1> \A d \in Ids : Live(d) \in Paths /\ Tomb(d) \in Paths
  BY PathsDistinct
<1> \A d \in Ids : \A e : Live(d) # Tomb(e) /\ (Live(d) = Live(e) => d = e)
  BY PathsDistinct
<1> /\ ClientInv
    /\ client \in [id : Ids \union {NoId}, version : Nat, text : Files,
                   have : BOOLEAN, sound : BOOLEAN]
  BY DEF Inv, Shape, TypeOK
<1> USE DEF ClientInv, Drift, BeingWritten, IndexedText, InIndex, IndexRow, Rows, NoRow, OpShape,
        Start, Reply, NextRecord, Idle, Writes, Bulks, Deletes, counters, git, Taint, Files
<1>1. ASSUME NEW d \in Ids, NEW t \in Texts, StartCreate(d, t)
      PROVE  ClientInv'
  BY <1>1 DEF StartCreate
<1>2. ASSUME NEW d \in Ids, NEW t \in Texts, NEW g \in BOOLEAN, StartUpdate(d, t, g)
      PROVE  ClientInv'
  BY <1>2 DEF StartUpdate
<1>3. ASSUME NEW k \in Bulks, NEW records \in BulkInputs, StartBulk(k, records)
      PROVE  ClientInv'
  BY <1>3 DEF StartBulk
<1>4. ASSUME NEW d \in Ids, NEW k \in Deletes, StartDelete(d, k)
      PROVE  ClientInv'
  BY <1>4 DEF StartDelete
<1>5. ASSUME NEW d \in Ids, StartReindexOne(d)
      PROVE  ClientInv'
  BY <1>5 DEF StartReindexOne
<1>6. ASSUME NEW full \in BOOLEAN, StartIndexAll(full)
      PROVE  ClientInv'
  BY <1>6 DEF StartIndexAll
<1>7. CASE TakeRecord
  BY <1>7 DEF TakeRecord
<1>8. CASE EndOfBatch
  BY <1>8 DEF EndOfBatch
<1>9. CASE ReadCurrent
  BY <1>9 DEF ReadCurrent
<1>10. CASE ReadFails
  BY <1>10 DEF ReadFails
<1>11. CASE Throws
  BY <1>11 DEF Throws
<1>12. CASE WriteFile
  BY <1>12 DEF WriteFile
<1>13. CASE WriteFails
  BY <1>13 DEF WriteFails
<1>14. CASE Advance
  BY <1>14 DEF Advance
<1>15. CASE IndexDocument
  BY <1>15 DEF IndexDocument
<1>16. CASE IndexFails
  BY <1>16 DEF IndexFails
<1>17. CASE Unlink
  BY <1>17 DEF Unlink
<1>18. CASE UnlinkFails
  BY <1>18 DEF UnlinkFails
<1>19. CASE DropRow
  BY <1>19 DEF DropRow
<1>20. CASE CommitWithoutGit
  BY <1>20 DEF CommitWithoutGit
<1>21. CASE Add
  BY <1>21 DEF Add
<1>22. CASE AddFails
  BY <1>22 DEF AddFails
<1>23. CASE Commit
  BY <1>23 DEF Commit
<1>24. CASE CommitFails
  BY <1>24 DEF CommitFails
<1>25. ASSUME NEW d \in Ids, SkipFile(d)
       PROVE  ClientInv'
  BY <1>25 DEF SkipFile
<1>26. ASSUME NEW d \in Ids, ScanFile(d)
       PROVE  ClientInv'
  BY <1>26 DEF ScanFile
<1>27. ASSUME NEW d \in Ids, ScanFails(d)
       PROVE  ClientInv'
  BY <1>27 DEF ScanFails
<1>28. ASSUME NEW d \in Ids, ScanThrows(d)
       PROVE  ClientInv'
  BY <1>28 DEF ScanThrows
<1>29. CASE FinishScan
  BY <1>29 DEF FinishScan
<1>30. ASSUME NEW d \in Ids, NEW t \in Files, Edit(d, t)
       PROVE  ClientInv'
  BY <1>30 DEF Edit
<1>31. ASSUME NEW d \in Ids, GetRow(d)
       PROVE  ClientInv'
  <2>1. client' = [id |-> d, version |-> rows[d].version, text |-> NoText, have |-> FALSE,
                   sound |-> ~Drift(d) \/ BeingWritten(d)]
    BY <1>31 DEF GetRow
  <2>2. InIndex(d) /\ ~op.guarded /\ UNCHANGED <<op, rows, disk>>
    BY <1>31 DEF GetRow
  <2>3. rows[d].version \in Nat
    OBVIOUS
  <2>4. /\ client'.id = d /\ client'.version = rows[d].version /\ ~client'.have
        /\ client'.sound => ~Drift(d) \/ BeingWritten(d)
    BY <2>1
  <2>5. CASE client'.sound
    BY <2>2, <2>3, <2>4, <2>5
  <2>6. CASE ~client'.sound
    BY <2>6
  <2> QED
    BY <2>5, <2>6
<1>32. CASE Crash
  BY <1>32 DEF Crash
<1>33. CASE GetFile
  BY <1>33 DEF GetFile
<1>34. CASE UNCHANGED vars
  BY <1>34 DEF vars
<1> HIDE DEF ClientInv
<1> QED
  BY <1>1, <1>2, <1>3, <1>4, <1>5, <1>6, <1>7, <1>8, <1>9, <1>10, <1>11, <1>12, <1>13, <1>14,
     <1>15, <1>16, <1>17, <1>18, <1>19, <1>20, <1>21, <1>22, <1>23, <1>24, <1>25, <1>26, <1>27,
     <1>28, <1>29, <1>30, <1>31, <1>32, <1>33, <1>34 DEF Next, Begin, Step, Environment

(* ---- Theorems ----------------------------------------------------------------- *)

LEMMA InitInv == Init => Inv
<1> SUFFICES ASSUME Init PROVE Inv
  OBVIOUS
<1>1. TypeOK /\ OpShape
  <2>1. <<>> \in Seq(Records)
    OBVIOUS
  <2>2. op \in OpRecords
    BY <2>1 DEF Init, Idle, OpRecords, Kinds, Steps, Files
  <2> QED
    BY <2>2 DEF Init, TypeOK, OpRecords, OpShape, Idle, Files, Rows, NoRow, NoScan, NoClient
<1>2. GitInv /\ DriftInv /\ ScanInv /\ ClientInv
  BY PathsDistinct DEF Init, GitInv, DriftInv, ScanInv, ClientInv, Idle, NoClient, NoRow, Drift,
     IndexedText, InIndex
<1> QED
  BY <1>1, <1>2 DEF Inv, Shape

LEMMA NextInv == Inv /\ [Next]_vars => Inv'
<1> SUFFICES ASSUME Inv, [Next]_vars PROVE Inv'
  OBVIOUS
<1>1. TypeOK'
  BY Typed
<1> QED
  BY <1>1, OpShaped, GitKept, DriftKept, ScanKept, ClientKept DEF Inv, Shape

LEMMA InvHolds == Spec => []Inv
BY InitInv, NextInv, PTL DEF Spec

\* Types of files, index, repository, journal and of the running operation.
THEOREM TypeCorrect == Spec => []TypeOK
BY InvHolds, PTL DEF Inv, Shape

\* Until the process dies, no operation, single or bulk, successful or failed
\* at any of its steps, leaves a row that silently disagrees with its file.
THEOREM DriftIsAnnouncedHolds == Spec => []DriftIsAnnouncedUntilCrash
<1>1. Inv => DriftIsAnnouncedUntilCrash
  BY DEF Inv, Shape, DriftInv, Moving, BeingWritten, DriftIsAnnouncedUntilCrash, DriftIsAnnounced
<1> QED
  BY <1>1, InvHolds, PTL

\* writeDurable: true is kept whatever later operations, crashes and direct
\* edits do: no path differs from HEAD that nobody was told of.
THEOREM DurableMeansCommittedHolds == Spec => []DurableMeansCommitted
<1>1. Inv => DurableMeansCommitted
  <2> SUFFICES ASSUME Inv, op.pc = "idle", hasGit
               PROVE  \A p \in Paths : disk[p] # head[p] \/ staged[p] # head[p] => p \in excused
    BY DEF DurableMeansCommitted
  <2>1. InHand = {}
    BY DEF Inv, Shape, OpShape, InHand, Idle
  <2> QED
    BY <2>1 DEF Inv, GitInv
<1> QED
  BY <1>1, InvHolds, PTL

\* An update accepted with the version of the caller's last get replaces the
\* content the caller has seen.
THEOREM AcceptedVersionWasSeenHolds == Spec => []AcceptedVersionWasSeen
<1>1. Inv => AcceptedVersionWasSeen
  BY DEF Inv, Shape, OpShape, ClientInv, AcceptedVersionWasSeen, Drift, IndexedText, BeingWritten,
     Writes
<1> QED
  BY <1>1, InvHolds, PTL

\* An undisturbed indexAll without errors leaves no drift, whatever crashes and
\* failures came before.
THEOREM ReindexHealsHolds == Spec => ReindexHeals
<1>1. Inv /\ [Next]_vars => (FinishScan /\ scan.clean => \A d \in Ids : ~Drift(d)')
  <2> SUFFICES ASSUME Inv, FinishScan, scan.clean, NEW d \in Ids
               PROVE  ~Drift(d)'
    OBVIOUS
  <2> USE DEF FinishScan, Drift, IndexedText, InIndex
  <2>1. op.pc = "scan" /\ scan.left = {} /\ disk' = disk
    OBVIOUS
  <2>2. CASE d \in scan.found
    BY <2>1, <2>2 DEF Inv, ScanInv
  <2>3. CASE d \notin scan.found
    <3>1. disk[Live(d)] = NoText
      BY <2>1, <2>3 DEF Inv, ScanInv
    <3>2. rows'[d].state # "live"
      BY <2>1, <2>3 DEF NoRow
    <3> QED
      BY <2>1, <3>1, <3>2
  <2> QED
    BY <2>2, <2>3
<1> QED
  BY <1>1, InvHolds, PTL DEF Spec, ReindexHeals

(* ---- Refinement ------------------------------------------------------------------ *)

\* A document enters the catalogue with an index run or leaves it with its row.
LEMMA EntryIs ==
  ASSUME Inv, NEW d \in Ids
  PROVE  /\ InIndex(d) => rows[d].hash \in Texts /\ rows[d].version \in Nat \ {0}
         /\ InIndex(d) <=> IndexedText(d) # NoText
BY DEF Inv, Shape, TypeOK, Rows, NoRow, InIndex, IndexedText

\* Indexing a file is the entry of a new document, a revision, or nothing.
LEMMA IndexRowRefines ==
  ASSUME Inv, NEW d \in Ids, IndexRow(d), disk[Live(d)] # NoText
  PROVE  Entries!Next \/ UNCHANGED Entries!vars
<1>1. disk[Live(d)] \in Texts /\ rows \in [Ids -> Rows]
  BY PathsDistinct DEF Inv, Shape, TypeOK, Files
<1>2. /\ rows'[d].state = "live" /\ rows'[d].hash = disk[Live(d)]
      /\ \A e \in Ids \ {d} : rows'[e] = rows[e]
  BY <1>1 DEF IndexRow
<1>3. rows'[d].version = CASE ~InIndex(d) -> 1
                           [] InIndex(d) /\ rows[d].hash = disk[Live(d)] -> rows[d].version
                           [] OTHER -> rows[d].version + 1
  BY <1>1 DEF IndexRow
<1>t. PICK t \in Texts : t = disk[Live(d)]
  BY <1>1
<1>4. CASE ~InIndex(d)
  <2>1. rows'[d].version = 1
    BY <1>3, <1>4
  <2>2. Entries!Enter(d, t)
    BY <1>1, <1>2, <1>t, <1>4, <2>1 DEF Entries!Enter, Entries!Absent, InIndex, IndexedText
  <2> QED
    BY <1>t, <2>2 DEF Entries!Next
<1>5. CASE InIndex(d) /\ rows[d].hash = t
  <2>1. rows'[d].version = rows[d].version
    BY <1>t, <1>3, <1>5
  <2> QED
    BY <1>1, <1>2, <1>t, <1>5, <2>1 DEF Entries!vars, InIndex, IndexedText
<1>6. CASE InIndex(d) /\ rows[d].hash # t
  <2>1. rows[d].hash # NoText
    BY <1>6, EntryIs
  <2>2. rows'[d].version = rows[d].version + 1
    BY <1>t, <1>3, <1>6
  <2>3. Entries!Revise(d, t)
    BY <1>1, <1>2, <1>t, <1>6, <2>1, <2>2 DEF Entries!Revise, Entries!Absent, InIndex, IndexedText
  <2> QED
    BY <1>t, <2>3 DEF Entries!Next
<1> QED
  BY <1>4, <1>5, <1>6

\* Taking rows away lets their documents leave together.
LEMMA RemovalRefines ==
  ASSUME Inv, NEW D \in SUBSET Ids, \A d \in D : InIndex(d) /\ rows'[d].state # "live",
         \A d \in Ids \ D : rows'[d] = rows[d]
  PROVE  Entries!Next \/ UNCHANGED Entries!vars
<1>1. CASE D = {}
  BY <1>1 DEF Entries!vars, InIndex, IndexedText
<1>2. CASE D # {}
  <2>1. \A d \in D : IndexedText(d) # NoText
    BY EntryIs
  <2>2. Entries!Leave(D)
    BY <1>2, <2>1 DEF Entries!Leave, Entries!Absent, InIndex, IndexedText
  <2> QED
    BY <2>2 DEF Entries!Next
<1> QED
  BY <1>1, <1>2

LEMMA StepRefines == Inv /\ [Next]_vars => [Entries!Next]_(Entries!vars)
<1> SUFFICES ASSUME Inv, [Next]_vars PROVE [Entries!Next]_(Entries!vars)
  OBVIOUS
<1>1. CASE IndexDocument
  BY <1>1, IndexRowRefines DEF IndexDocument, Inv, Shape, OpShape
<1>2. ASSUME NEW d \in Ids, ScanFile(d)
      PROVE  [Entries!Next]_(Entries!vars)
  BY <1>2, IndexRowRefines DEF ScanFile
<1>3. CASE DropRow
  <2>1. op.id \in Ids /\ InIndex(op.id) /\ rows \in [Ids -> Rows]
    BY <1>3 DEF DropRow, Inv, Shape, OpShape, TypeOK
  <2>2. rows'[op.id].state # "live" /\ \A d \in Ids \ {op.id} : rows'[d] = rows[d]
    BY <1>3, <2>1 DEF DropRow, InIndex, NoRow
  <2>3. {op.id} \in SUBSET Ids
    BY <2>1
  <2> QED
    BY <2>1, <2>2, <2>3, RemovalRefines
<1>4. CASE FinishScan
  <2> DEFINE stale == {d \in Ids \ scan.found : InIndex(d)}
  <2>1. rows' = [d \in Ids |-> IF d \in stale THEN NoRow ELSE rows[d]]
    BY <1>4 DEF FinishScan
  <2>2. /\ \A d \in stale : InIndex(d) /\ rows'[d].state # "live"
        /\ \A d \in Ids \ stale : rows'[d] = rows[d]
    BY <2>1 DEF InIndex, NoRow
  <2>3. stale \in SUBSET Ids
    OBVIOUS
  <2> HIDE DEF stale
  <2> QED
    BY <2>2, <2>3, RemovalRefines
<1>5. CASE rows' = rows
  BY <1>5 DEF Entries!vars, InIndex, IndexedText
<1> QED
  BY <1>1, <1>2, <1>3, <1>4, <1>5, Changes

\* The index is a catalogue: through bulks, failures, crashes and reindexing,
\* a document enters at version 1, gains one version with each new content,
\* and keeps its version as long as it keeps its content.
THEOREM RefinesCatalog == Spec => ImplementsCatalog
<1>1. Init => Entries!Init
  BY DEF Init, Entries!Init, Entries!Absent, InIndex, IndexedText, NoRow
<1> QED
  BY <1>1, StepRefines, InvHolds, PTL DEF Spec, ImplementsCatalog, Entries!Spec
=============================================================================
