------------------------------ MODULE DocStore ------------------------------
(***************************************************************************)
(* The durable write pipeline of one MaadEngine: markdown files, the       *)
(* SQLite index over them, the operation journal and the git repository    *)
(* the files are committed to. Files are the truth; the index is derived.  *)
(*                                                                         *)
(* WriteMutex shows that one mutating operation runs at a time, so one     *)
(* operation record is enough. It is interleaved at its awaits with a      *)
(* client that reads, with somebody who edits the files directly, and with *)
(* a crash, after which a new engine opens the same project.               *)
(*                                                                         *)
(* Abstractions. Each document type keeps its documents in one directory   *)
(* and a file's name is its doc_id, as createDocument makes it; the fields *)
(* of an update do not rename doc_id. Content is one value; its hash is    *)
(* the value itself. Requests that are rejected without changing anything  *)
(* (validation, duplicate id, version conflict) are not steps.             *)
(***************************************************************************)
EXTENDS Naturals, Sequences, FiniteSets

CONSTANTS
  Ids,        \* document ids
  Texts,      \* contents a document can have
  NoText,     \* no file, no row, not in git
  NoId,       \* no document
  MaxBulk,    \* bound on the records of one bulk call
  MaxOps,     \* bound on the operations started
  MaxEdits,   \* bound on the direct edits of files
  MaxCrashes  \* bound on the crashes

ASSUME NoTextAssumption == NoText \notin Texts
ASSUME NoIdAssumption == NoId \notin Ids
ASSUME BoundsAssumption ==
  MaxBulk \in Nat /\ MaxOps \in Nat /\ MaxEdits \in Nat /\ MaxCrashes \in Nat

VARIABLES
  disk,      \* the content of each path of the working tree
  rows,      \* the documents table, by doc_id
  staged,    \* the git index, by path
  head,      \* the tree of the HEAD commit, by path
  hasGit,    \* gitLayer is present
  journal,   \* entries of journal.json left behind by operations that ended
  op,        \* the operation that holds the write lock, with its own entry
  scan,      \* the locals of indexAll while it runs
  client,    \* what a client remembers of its last get
  told,      \* documents whose index may be stale and somebody knows it
  excused,   \* paths that may differ from HEAD and somebody knows it
  ops, edits, crashes  \* counters, only to bound the runs

vars == <<disk, rows, staged, head, hasGit, journal, op, scan, client,
          told, excused, ops, edits, crashes>>

Live(d) == <<d, "live">>   \* <type path>/<id>.md
Tomb(d) == <<d, "tomb">>   \* <type path>/_deleted_<id>.md
Paths == Ids \X {"live", "tomb"}
Files == Texts \union {NoText}

NoRow == [state |-> "none", hash |-> NoText, version |-> 0]
Rows == {NoRow} \union [state : {"live", "deleted"}, hash : Texts, version : Nat \ {0}]

Records == [id : Ids, text : Texts]
Statuses == {"pending", "file_written", "indexed"}

Writes == {"create", "update", "bulkCreate", "bulkUpdate"}
Bulks  == {"bulkCreate", "bulkUpdate"}
Deletes == {"hard", "soft"}
Kinds == Writes \union Deletes \union {"reindexOne", "indexAll", "none"}

Steps == {"idle", "next", "read", "write", "advance", "index", "unlink", "drop",
          "add", "commit", "scan"}

Idle == [kind |-> "none", pc |-> "idle", id |-> NoId, text |-> NoText, rest |-> <<>>,
         files |-> {}, entry |-> "none", guarded |-> FALSE]
NoScan == [full |-> FALSE, found |-> {}, left |-> {}, clean |-> FALSE]
NoClient == [id |-> NoId, version |-> 0, text |-> NoText, have |-> FALSE, sound |-> FALSE]

TypeOK ==
  /\ disk \in [Paths -> Files]
  /\ rows \in [Ids -> Rows]
  /\ staged \in [Paths -> Files]
  /\ head \in [Paths -> Files]
  /\ hasGit \in BOOLEAN
  /\ journal \in SUBSET [id : Ids, status : Statuses]
  /\ op \in [kind : Kinds, pc : Steps, id : Ids \union {NoId}, text : Files,
             rest : Seq(Records), files : SUBSET Paths,
             entry : Statuses \union {"none"}, guarded : BOOLEAN]
  /\ scan \in [full : BOOLEAN, found : SUBSET Ids, left : SUBSET Ids, clean : BOOLEAN]
  /\ client \in [id : Ids \union {NoId}, version : Nat, text : Files,
                 have : BOOLEAN, sound : BOOLEAN]
  /\ told \in SUBSET Ids
  /\ excused \in SUBSET Paths
  /\ ops \in 0..MaxOps /\ edits \in 0..MaxEdits /\ crashes \in 0..MaxCrashes

\* An empty project, with or without a git repository.
Init ==
  /\ disk = [p \in Paths |-> NoText]
  /\ rows = [d \in Ids |-> NoRow]
  /\ staged = [p \in Paths |-> NoText]
  /\ head = [p \in Paths |-> NoText]
  /\ hasGit \in BOOLEAN
  /\ journal = {}
  /\ op = Idle
  /\ scan = NoScan
  /\ client = NoClient
  /\ told = {}
  /\ excused = {}
  /\ ops = 0 /\ edits = 0 /\ crashes = 0

git == <<staged, head>>
counters == <<edits, crashes>>

InIndex(d) == rows[d].state = "live"

\* What the client remembers of the documents D no longer binds anybody: the
\* document left the index, or its file and its index row parted.
Taint(D) == client' = IF client.id \in D THEN [client EXCEPT !.sound = FALSE] ELSE client

(* ---- Starting an operation ---------------------------------------------- *)

Start(o) ==
  /\ op.pc = "idle"
  /\ ops < MaxOps
  /\ ops' = ops + 1
  /\ op' = o

StartCreate(d, t) ==
  /\ ~InIndex(d)
  /\ Start([Idle EXCEPT !.kind = "create", !.pc = "write", !.id = d, !.text = t,
                        !.entry = "pending"])
  /\ UNCHANGED <<disk, rows, git, hasGit, journal, scan, client, told, excused, counters>>

\* Mutant of StartUpdate: expectedVersion is not compared.
StartUpdateUnchecked(d, t, guarded) ==
  /\ InIndex(d)
  /\ guarded => client.have /\ client.id = d
  /\ Start([Idle EXCEPT !.kind = "update", !.pc = "read", !.id = d, !.text = t,
                        !.guarded = guarded])
  /\ UNCHANGED <<disk, rows, git, hasGit, journal, scan, client, told, excused, counters>>

\* guarded: the caller passes the version of its last get as expectedVersion.
StartUpdate(d, t, guarded) ==
  /\ InIndex(d)
  /\ guarded => client.have /\ client.id = d /\ client.version = rows[d].version
  /\ Start([Idle EXCEPT !.kind = "update", !.pc = "read", !.id = d, !.text = t,
                        !.guarded = guarded])
  /\ UNCHANGED <<disk, rows, git, hasGit, journal, scan, client, told, excused, counters>>

StartBulk(k, records) ==
  /\ Start([Idle EXCEPT !.kind = k, !.pc = "next", !.rest = records])
  /\ UNCHANGED <<disk, rows, git, hasGit, journal, scan, client, told, excused, counters>>

StartDelete(d, k) ==
  /\ InIndex(d)
  /\ Start([Idle EXCEPT !.kind = k, !.pc = "unlink", !.id = d, !.entry = "pending"])
  /\ UNCHANGED <<disk, rows, git, hasGit, journal, scan, client, told, excused, counters>>

StartReindexOne(d) ==
  /\ InIndex(d)
  /\ Start([Idle EXCEPT !.kind = "reindexOne", !.pc = "index", !.id = d])
  /\ UNCHANGED <<disk, rows, git, hasGit, journal, scan, client, told, excused, counters>>

\* full: --force, or the fingerprint of the type's indexed fields has changed.
StartIndexAll(full) ==
  /\ Start([Idle EXCEPT !.kind = "indexAll", !.pc = "scan"])
  /\ LET found == {d \in Ids : disk[Live(d)] # NoText} IN
     scan' = [full |-> full, found |-> found, left |-> found, clean |-> TRUE]
  /\ UNCHANGED <<disk, rows, git, hasGit, journal, client, told, excused, counters>>

(* ---- The records of a write ---------------------------------------------- *)

\* A record of a bulk that failed leaves its entry and the bulk goes on; a
\* single operation is over.
NextRecord == IF op.kind \in Bulks THEN [op EXCEPT !.pc = "next", !.entry = "none"] ELSE Idle

\* The journal entry of the running operation is left behind in journal.json.
LeaveEntry ==
  journal' = IF op.entry = "none" THEN journal
             ELSE journal \union {[id |-> op.id, status |-> op.entry]}

\* The loop of bulkCreate and bulkUpdate: a record whose id is taken, or is
\* not found, is reported as failed and skipped.
TakeRecord ==
  /\ op.pc = "next"
  /\ op.rest # <<>>
  /\ LET r == Head(op.rest)
         taken == [op EXCEPT !.id = r.id, !.text = r.text, !.rest = Tail(@)]
     IN op' = CASE op.kind = "bulkCreate" /\ ~InIndex(r.id) -> [taken EXCEPT !.pc = "write"]
                [] op.kind = "bulkUpdate" /\ InIndex(r.id)  -> [taken EXCEPT !.pc = "read"]
                [] OTHER -> [op EXCEPT !.rest = Tail(@)]
  /\ UNCHANGED <<disk, rows, git, hasGit, journal, scan, client, told, excused, ops, counters>>

\* Mutant of EndOfBatch: the batch ends without its commit.
EndOfBatchWithoutCommit ==
  /\ op.pc = "next"
  /\ op.rest = <<>>
  /\ op' = Idle
  /\ UNCHANGED <<disk, rows, git, hasGit, journal, scan, client, told, excused, ops, counters>>

\* One commit for all the records that succeeded, if any did.
EndOfBatch ==
  /\ op.pc = "next"
  /\ op.rest = <<>>
  /\ op' = IF op.files = {} THEN Idle ELSE [op EXCEPT !.pc = "add"]
  /\ UNCHANGED <<disk, rows, git, hasGit, journal, scan, client, told, excused, ops, counters>>

\* updateDocument reads the file it is about to replace, then journals.
ReadCurrent ==
  /\ op.pc = "read"
  /\ disk[Live(op.id)] # NoText
  /\ op' = [op EXCEPT !.pc = "write", !.entry = "pending"]
  /\ UNCHANGED <<disk, rows, git, hasGit, journal, scan, client, told, excused, ops, counters>>

\* The first of its two reads finds no file: the record fails.
ReadFails ==
  /\ op.pc = "read"
  /\ disk[Live(op.id)] = NoText
  /\ op' = NextRecord
  /\ UNCHANGED <<disk, rows, git, hasGit, journal, scan, client, told, excused, ops, counters>>

\* The rename of atomicWrite. bulkCreate keeps no journal.
WriteFile ==
  /\ op.pc = "write"
  /\ disk' = [disk EXCEPT ![Live(op.id)] = op.text]
  /\ op' = [op EXCEPT !.pc = IF op.kind = "bulkCreate" THEN "index" ELSE "advance"]
  /\ UNCHANGED <<rows, git, hasGit, journal, scan, client, told, excused, ops, counters>>

\* An exception leaves the operation at once: of the second read of an update,
\* or of atomicWrite. The files a bulkUpdate has already replaced are not
\* committed; its caller gets the exception.
Throws ==
  /\ \/ op.pc = "read" /\ disk[Live(op.id)] = NoText
     \/ op.pc = "write" /\ op.kind # "bulkCreate"
  /\ op' = Idle
  /\ LeaveEntry
  /\ excused' = excused \union op.files
  /\ UNCHANGED <<disk, rows, git, hasGit, scan, client, told, ops, counters>>

\* bulkCreate catches the exception of atomicWrite: the record fails.
WriteFails ==
  /\ op.pc = "write"
  /\ op.kind = "bulkCreate"
  /\ op' = NextRecord
  /\ UNCHANGED <<disk, rows, git, hasGit, journal, scan, client, told, excused, ops, counters>>

\* Back in the operation after the await: journal.advance('file_written').
Advance ==
  /\ op.pc = "advance"
  /\ op' = [op EXCEPT !.pc = "index", !.entry = "file_written"]
  /\ UNCHANGED <<disk, rows, git, hasGit, journal, scan, client, told, excused, ops, counters>>

(* ---- indexFile ------------------------------------------------------------ *)

\* Mutant of IndexRow: every index run counts as a new content.
IndexRowAlwaysBumps(d) ==
  rows' = [rows EXCEPT ![d] = [state |-> "live", hash |-> disk[Live(d)],
                               version |-> IF InIndex(d) THEN @.version + 1 ELSE 1]]

\* processDocument: the row takes the file's hash, and one version more if the
\* content is new; a document that is not in the index starts at version 1.
IndexRow(d) ==
  rows' = [rows EXCEPT ![d] =
             [state |-> "live", hash |-> disk[Live(d)],
              version |-> CASE ~InIndex(d) -> 1
                            [] InIndex(d) /\ @.hash = disk[Live(d)] -> @.version
                            [] OTHER -> @.version + 1]]

\* indexFile reads the file back, so it indexes what is there by now.
IndexDocument ==
  /\ op.pc = "index"
  /\ disk[Live(op.id)] # NoText
  /\ IndexRow(op.id)
  /\ told' = told \ {op.id}
  /\ op' = CASE op.kind = "reindexOne" -> Idle
              [] op.kind \in Bulks -> [NextRecord EXCEPT !.files = @ \union {Live(op.id)}]
              [] OTHER -> [op EXCEPT !.pc = "add", !.entry = "indexed",
                                     !.files = {Live(op.id)}]
  /\ UNCHANGED <<disk, git, hasGit, journal, scan, client, excused, ops, counters>>

\* The file cannot be read or parsed back. The caller is told (fileWritten,
\* indexed: false, "Run maad reindex to recover"; a failed record of a bulk).
IndexFails ==
  /\ op.pc = "index"
  /\ op' = NextRecord
  /\ LeaveEntry
  /\ told' = told \union {op.id}
  /\ excused' = excused \union {Live(op.id)}
  /\ Taint({op.id})
  /\ UNCHANGED <<disk, rows, git, hasGit, scan, ops, counters>>

(* ---- deleteDocument ------------------------------------------------------- *)

\* unlink, or the rename to _deleted_<id>.md that replaces an older tombstone.
Unlink ==
  /\ op.pc = "unlink"
  /\ disk[Live(op.id)] # NoText
  /\ disk' = IF op.kind = "hard"
               THEN [disk EXCEPT ![Live(op.id)] = NoText]
               ELSE [disk EXCEPT ![Live(op.id)] = NoText,
                                 ![Tomb(op.id)] = disk[Live(op.id)]]
  /\ op' = [op EXCEPT !.pc = "drop"]
  /\ UNCHANGED <<rows, git, hasGit, journal, scan, client, told, excused, ops, counters>>

\* DELETE_ERROR, for a file that is gone or cannot be touched.
UnlinkFails ==
  /\ op.pc = "unlink"
  /\ op' = Idle
  /\ LeaveEntry
  /\ UNCHANGED <<disk, rows, git, hasGit, scan, client, told, excused, ops, counters>>

\* Mutant of DropRow: the file goes, the row stays.
DropRowNever ==
  /\ op.pc = "drop"
  /\ op' = [op EXCEPT !.pc = "add", !.files = {Live(op.id)}]
  /\ UNCHANGED <<disk, rows, git, hasGit, journal, scan, client, told, excused, ops, counters>>

\* The row is removed, or marked deleted with the hash and version it had.
DropRow ==
  /\ op.pc = "drop"
  /\ rows' = [rows EXCEPT ![op.id] = IF op.kind = "hard" THEN NoRow
                                     ELSE [@ EXCEPT !.state = "deleted"]]
  /\ told' = IF disk[Live(op.id)] = NoText THEN told \ {op.id} ELSE told
  /\ Taint({op.id})
  /\ op' = [op EXCEPT !.pc = "add",
                      !.files = IF op.kind = "hard" THEN {Live(op.id)}
                                ELSE {Live(op.id), Tomb(op.id)}]
  /\ UNCHANGED <<disk, git, hasGit, journal, scan, excused, ops, counters>>

(* ---- autoCommit ------------------------------------------------------------ *)

\* The operation answers its caller: its journal entry is completed, and a
\* commit that failed is reported as writeDurable: false.
Reply(durable) ==
  /\ op' = Idle
  /\ excused' = IF durable THEN excused ELSE excused \union op.files

\* Without git a commit is a no-op, and the write counts as durable.
CommitWithoutGit ==
  /\ op.pc = "add"
  /\ ~hasGit
  /\ Reply(TRUE)
  /\ UNCHANGED <<disk, rows, git, hasGit, journal, scan, client, told, ops, counters>>

\* git add takes each file as it is now, a removal if the file is gone; it
\* refuses a path that is neither in the working tree nor in the git index.
Add ==
  /\ op.pc = "add"
  /\ hasGit
  /\ \A p \in op.files : disk[p] # NoText \/ staged[p] # NoText
  /\ staged' = [p \in Paths |-> IF p \in op.files THEN disk[p] ELSE staged[p]]
  /\ excused' = excused \ op.files
  /\ op' = [op EXCEPT !.pc = "commit"]
  /\ UNCHANGED <<disk, rows, head, hasGit, journal, scan, client, told, ops, counters>>

\* Mutant of AddFails: the outcome is taken for a no-op.
AddFailsSilently ==
  /\ op.pc = "add"
  /\ hasGit
  /\ Reply(TRUE)
  /\ UNCHANGED <<disk, rows, git, hasGit, journal, scan, client, told, ops, counters>>

\* GIT_ADD_FAILED: also an index.lock, a full disk.
AddFails ==
  /\ op.pc = "add"
  /\ hasGit
  /\ Reply(FALSE)
  /\ UNCHANGED <<disk, rows, git, hasGit, journal, scan, client, told, ops, counters>>

\* git commit takes everything staged, what earlier operations left included;
\* with nothing staged there is nothing to do.
Commit ==
  /\ op.pc = "commit"
  /\ head' = staged
  /\ Reply(TRUE)
  /\ UNCHANGED <<disk, rows, staged, hasGit, journal, scan, client, told, ops, counters>>

\* git status or git commit fails, or commits without naming a commit.
CommitFails ==
  /\ op.pc = "commit"
  /\ head' \in {head, staged}
  /\ Reply(FALSE)
  /\ UNCHANGED <<disk, rows, staged, hasGit, journal, scan, client, told, ops, counters>>

(* ---- indexAll --------------------------------------------------------------- *)

\* The hash is compared with the one indexAll read when it started; rows are
\* written under the lock, so it is still the row's.
Unchanged(d) == ~scan.full /\ InIndex(d) /\ rows[d].hash = disk[Live(d)]

SkipFile(d) ==
  /\ op.pc = "scan" /\ d \in scan.left
  /\ disk[Live(d)] # NoText
  /\ Unchanged(d)
  /\ scan' = [scan EXCEPT !.left = @ \ {d}]
  /\ UNCHANGED <<disk, rows, git, hasGit, journal, op, client, told, excused, ops, counters>>

ScanFile(d) ==
  /\ op.pc = "scan" /\ d \in scan.left
  /\ disk[Live(d)] # NoText
  /\ ~Unchanged(d)
  /\ IndexRow(d)
  /\ told' = told \ {d}
  /\ scan' = [scan EXCEPT !.left = @ \ {d}]
  /\ UNCHANGED <<disk, git, hasGit, journal, op, client, excused, ops, counters>>

\* A file that does not index is listed in the errors; the scan goes on.
ScanFails(d) ==
  /\ op.pc = "scan" /\ d \in scan.left
  /\ scan.full \/ (disk[Live(d)] # NoText /\ ~Unchanged(d))
  /\ told' = told \union {d}
  /\ Taint({d})
  /\ scan' = [scan EXCEPT !.left = @ \ {d}, !.clean = FALSE]
  /\ UNCHANGED <<disk, rows, git, hasGit, journal, op, excused, ops, counters>>

\* A file that is gone when its hash is taken ends indexAll with an exception.
ScanThrows(d) ==
  /\ op.pc = "scan" /\ d \in scan.left
  /\ ~scan.full
  /\ disk[Live(d)] = NoText
  /\ op' = Idle
  /\ scan' = NoScan
  /\ UNCHANGED <<disk, rows, git, hasGit, journal, client, told, excused, ops, counters>>

\* Mutant of FinishScan: rows without a file are kept.
FinishScanKeepsRows ==
  /\ op.pc = "scan" /\ scan.left = {}
  /\ op' = Idle
  /\ scan' = NoScan
  /\ UNCHANGED <<disk, rows, git, hasGit, journal, client, told, excused, ops, counters>>

\* The rows of files that were not found are removed.
FinishScan ==
  /\ op.pc = "scan" /\ scan.left = {}
  /\ LET stale == {d \in Ids \ scan.found : InIndex(d)} IN
     /\ rows' = [d \in Ids |-> IF d \in stale THEN NoRow ELSE rows[d]]
     /\ Taint(stale)
  /\ op' = Idle
  /\ scan' = NoScan
  /\ UNCHANGED <<disk, git, hasGit, journal, told, excused, ops, counters>>

(* ---- Around the engine ------------------------------------------------------- *)

\* Somebody edits, adds or removes the file of a document.
Edit(d, t) ==
  /\ edits < MaxEdits
  /\ t # disk[Live(d)]
  /\ edits' = edits + 1
  /\ disk' = [disk EXCEPT ![Live(d)] = t]
  /\ told' = told \union {d}
  /\ excused' = excused \union {Live(d)}
  /\ scan' = [scan EXCEPT !.clean = FALSE]
  /\ Taint({d})
  /\ UNCHANGED <<rows, git, hasGit, journal, op, ops, crashes>>

\* What reconcile() tells the operator of: entries past the file write. It
\* has no word for an entry that is still pending, since no caller of begin()
\* passes a temp path.
Reconciled ==
  {e.id : e \in {f \in journal \union {[id |-> op.id, status |-> op.entry]} :
                   f.status \in {"file_written", "indexed"}}}

\* The process dies and a new engine opens the project: init() reconciles the
\* journal and clears it. Nobody answers the caller of the operation.
Crash ==
  /\ crashes < MaxCrashes
  /\ crashes' = crashes + 1
  /\ told' = told \union Reconciled
  /\ excused' = excused \union op.files \union ({Live(op.id), Tomb(op.id)} \cap Paths)
  /\ journal' = {}
  /\ op' = Idle
  /\ scan' = NoScan
  /\ Taint({op.id})
  /\ UNCHANGED <<disk, rows, git, hasGit, ops, edits>>

IndexedText(d) == IF InIndex(d) THEN rows[d].hash ELSE NoText
Drift(d) == IndexedText(d) # disk[Live(d)]

\* The running operation has replaced the file and will index it.
BeingWritten(d) == op.id = d /\ op.kind \in Writes /\ op.pc \in {"advance", "index"}

\* getDocument, without the lock: first the row and its version...
GetRow(d) ==
  /\ InIndex(d)
  /\ ~op.guarded
  /\ client' = [id |-> d, version |-> rows[d].version, text |-> NoText,
                have |-> FALSE, sound |-> ~Drift(d) \/ BeingWritten(d)]
  /\ UNCHANGED <<disk, rows, git, hasGit, journal, op, scan, told, excused, ops, counters>>

\* ...then, after an await, the file.
GetFile ==
  /\ client.id # NoId
  /\ ~client.have
  /\ disk[Live(client.id)] # NoText
  /\ client' = [client EXCEPT !.text = disk[Live(client.id)], !.have = TRUE]
  /\ UNCHANGED <<disk, rows, git, hasGit, journal, op, scan, told, excused, ops, counters>>

BulkInputs == UNION {[1..n -> Records] : n \in 1..MaxBulk}

Begin ==
  \/ \E d \in Ids, t \in Texts : StartCreate(d, t)
  \/ \E d \in Ids, t \in Texts, g \in BOOLEAN : StartUpdate(d, t, g)
  \/ \E k \in Bulks, records \in BulkInputs : StartBulk(k, records)
  \/ \E d \in Ids, k \in Deletes : StartDelete(d, k)
  \/ \E d \in Ids : StartReindexOne(d)
  \/ \E full \in BOOLEAN : StartIndexAll(full)

Step ==
  \/ TakeRecord \/ EndOfBatch \/ ReadCurrent \/ ReadFails \/ Throws
  \/ WriteFile \/ WriteFails \/ Advance
  \/ IndexDocument \/ IndexFails
  \/ Unlink \/ UnlinkFails \/ DropRow
  \/ CommitWithoutGit \/ Add \/ AddFails \/ Commit \/ CommitFails
  \/ \E d \in Ids : SkipFile(d) \/ ScanFile(d) \/ ScanFails(d) \/ ScanThrows(d)
  \/ FinishScan

Environment ==
  \/ \E d \in Ids, t \in Files : Edit(d, t)
  \/ Crash
  \/ \E d \in Ids : GetRow(d)
  \/ GetFile

Next == Begin \/ Step \/ Environment

Spec == Init /\ [][Next]_vars

(* ---- Properties ---------------------------------------------------------------- *)

\* When no operation runs, every document whose index row disagrees with its
\* file is one somebody was told of: by the error of the operation, by the
\* recovery actions of a restart, or because he edited the file himself.
DriftIsAnnounced == op.pc = "idle" => \A d \in Ids : Drift(d) => d \in told

\* As long as the process does not die, no operation, successful or failed,
\* leaves an index row that silently disagrees with its file.
DriftIsAnnouncedUntilCrash == crashes = 0 => DriftIsAnnounced

\* writeDurable: true is kept: between operations, a path whose file or staged
\* content is not what HEAD holds was edited directly, or its operation
\* reported a failure or died. One operation's failed commit is never hidden
\* by the next one.
DurableMeansCommitted ==
  op.pc = "idle" /\ hasGit =>
    \A p \in Paths : disk[p] # head[p] \/ staged[p] # head[p] => p \in excused

\* An indexAll that reports no error, and during which nobody edits files,
\* leaves no drift, whatever crashes and failures came before.
ReindexHeals == [][FinishScan /\ scan.clean => \A d \in Ids : ~Drift(d)']_vars

\* An update accepted with the version of the caller's last get never replaces
\* a content the caller has not seen, while the document stays in the index
\* and nothing but the engine writes its file.
AcceptedVersionWasSeen ==
  op.pc = "write" /\ op.guarded /\ client.sound => disk[Live(op.id)] = client.text

\* The index is a catalogue with one version per content.
Entries == INSTANCE Catalog WITH
  entry <- [d \in Ids |-> [text    |-> IndexedText(d),
                           version |-> IF InIndex(d) THEN rows[d].version ELSE 0]]
ImplementsCatalog == Entries!Spec
=============================================================================
