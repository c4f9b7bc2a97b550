----------------------------- MODULE TokenStore -----------------------------
(***************************************************************************)
(* The token registry: the records a server holds in memory, the file      *)
(* _auth/tokens.yaml they are persisted to through one temporary file, and *)
(* the operations that change both: the admin tools of the server, the     *)
(* command line (a process with its own copy of the file), the reload on   *)
(* SIGHUP, crashes and restarts.                                           *)
(*                                                                         *)
(* A record is its id: role, projects and names never change after issue,  *)
(* and what they grant is the subject of Sessions. Expiry is left out. An  *)
(* operation is: the change in memory and the snapshot of the text (one    *)
(* step), then mkdir and open, write, rename. The continuation of the      *)
(* rename, or of a failure, is taken in the step it belongs to.            *)
(***************************************************************************)
EXTENDS Naturals, Sequences, SequencesExt, FiniteSets

CONSTANTS
  Calls,      \* concurrent calls: of the server's admin tools, or runs of the
              \* command line, each a process of its own
  Server,     \* the server process
  Absent,     \* a file that is not there
  Broken,     \* a file that does not parse
  MaxTokens,  \* bound on the tokens generated
  MaxRaces,   \* bound on the calls that begin beside another or on a stale copy
  MaxEdits    \* bound on the times an operator breaks or removes the file

ASSUME CallsAssumption == Server \notin Calls
ASSUME BoundsAssumption == MaxTokens \in Nat \ {0} /\ MaxRaces \in Nat /\ MaxEdits \in Nat

Homes  == {Server} \union Calls
Tokens == 1..MaxTokens
NoToken == 0

\* What tokens.yaml says: the records in order, and which are revoked.
Texts == [list : SeqOf(Tokens, MaxTokens), dead : SUBSET Tokens]
Empty == [list |-> <<>>, dead |-> {}]
Files == Texts \union {Absent, Broken}

ASSUME FilesAssumption == Absent # Broken /\ Absent \notin Texts /\ Broken \notin Texts

\* What a TokenStore holds: records, the keys of byHash and byId, and the
\* records whose revokedAt is set.
Memories == [list : SeqOf(Tokens, MaxTokens), known : SUBSET Tokens, dead : SUBSET Tokens]

VARIABLES
  up,       \* the server runs
  mem,      \* the TokenStore of each process
  file,     \* _auth/tokens.yaml
  tmp,      \* _auth/tokens.yaml.tmp
  op,       \* the operations in flight
  reload,   \* the server's reload()
  next,     \* the next token to generate
  races,    \* how many calls began beside another or on a stale copy
  edits,    \* how often an operator broke or removed the file
  vouched,  \* tokens the server granted since it last read the file and that
            \* no revocation or rotation was tried on
  ledger,   \* what was answered, while operations are orderly
  synced    \* since the server last read the file, no operation overlapped
            \* another and nobody else wrote the file

\* Operations are orderly as long as none ever overlapped another or began on
\* a stale copy. The ledger has the origin of each token (the one it was first
\* rotated from), the tokens whose issue or rotation was answered with success
\* (granted), the origins a revocation was tried on (dropped), and the tokens
\* whose revocation or rotation was answered with success (retired).
NoLedger == [origin |-> [t \in Tokens |-> t], granted |-> {}, dropped |-> {}, retired |-> {},
             orderly |-> FALSE]

history == <<vouched, ledger, synced>>
vars == <<up, mem, file, tmp, op, reload, next, races, edits, history>>

\* mkdir: the snapshot is taken, the directory and the temporary file are not
\* yet there; write; rename. "where" is what became of the opened file; "live", that the
\* captured record is still the store's; "tried", that another operation has
\* begun to revoke or rotate the new token.
OpRecords ==
  [pc : {"idle", "mkdir", "write", "rename"}, home : Homes, kind : {"none", "issue", "rotate", "retire", "revoke"},
   new : Tokens \union {NoToken}, old : Tokens \union {NoToken}, text : Texts,
   where : {"none", "tmp", "file", "gone"}, live : BOOLEAN, tried : BOOLEAN]

NoOp == [pc |-> "idle", home |-> Server, kind |-> "none", new |-> NoToken, old |-> NoToken, text |-> Empty,
         where |-> "none", live |-> TRUE, tried |-> FALSE]
NoReload == [pc |-> "idle", text |-> Absent, clean |-> FALSE]
NoMemory == [list |-> <<>>, known |-> {}, dead |-> {}]

TypeOK ==
  /\ up \in BOOLEAN /\ synced \in BOOLEAN
  /\ mem \in [Homes -> Memories]
  /\ file \in Files /\ tmp \in Files
  /\ op \in [Calls -> OpRecords]
  /\ reload \in [pc : {"idle", "read"}, text : Files, clean : BOOLEAN]
  /\ next \in 1..MaxTokens + 1 /\ races \in 0..MaxRaces /\ edits \in 0..MaxEdits
  /\ vouched \in SUBSET Tokens
  /\ ledger \in [origin : [Tokens -> Tokens], granted : SUBSET Tokens, dropped : SUBSET Tokens,
                 retired : SUBSET Tokens, orderly : BOOLEAN]

AllIdle  == \A a \in Calls : op[a].pc = "idle"
Quiet(a) == reload.pc = "idle" /\ \A b \in Calls \ {a} : op[b].pc = "idle"

(* ---- Texts and memories ------------------------------------------------------ *)

\* Mutant of Text: revoked_at is not serialized.
TextWithoutRevocations(m) == [list |-> m.list, dead |-> {}]

\* persist(): the text is built from the records, not from the indexes.
Text(m) == [list |-> m.list, dead |-> m.dead \intersect ToSet(m.list)]

\* load() and the swap of reload().
Loaded(text) == [list |-> text.list, known |-> ToSet(text.list), dead |-> text.dead]

Active(text) == ToSet(text.list) \ text.dead

Added(m, t) == [m EXCEPT !.list = Append(@, t), !.known = @ \union {t}]

\* Mutant of RolledBack: it deletes the keys of the record it popped.
RolledBackLast(m, t) ==
  [m EXCEPT !.list = IF @ = <<>> THEN @ ELSE Front(@),
            !.known = IF m.list = <<>> THEN @ ELSE @ \ {Last(m.list)}]

\* issue()'s rollback: the LAST record is popped, the keys of its own deleted.
RolledBack(m, t) ==
  [m EXCEPT !.list = IF @ = <<>> THEN @ ELSE Front(@), !.known = @ \ {t}]

\* Writing a text over one of another writer that opened the same file: a
\* longer one keeps its tail. What that parses to is known only if the new
\* text is a beginning of the old one.
Overwritten(old, new) ==
  IF old = Empty THEN {new}
  ELSE IF old \in Texts /\ new.dead = old.dead /\ IsPrefix(new.list, old.list)
    THEN {old}
  ELSE {new, Broken}

\* The file a writer opened is renamed with it, and unlinked by the next rename.
Moved(where) ==
  CASE where = "tmp" -> "file" [] where = "file" -> "gone" [] OTHER -> where

(* ---- Operations: the change in memory and the snapshot ------------------------ *)

\* The tools run while the server does; the command line loads the file, and
\* gives up when it does not parse.
CanStart(a, h) ==
  /\ op[a].pc = "idle"
  /\ h = Server => up
  /\ h = a => file # Broken

StoreOf(h) ==
  IF h = Server THEN mem[Server] ELSE IF file = Absent THEN NoMemory ELSE Loaded(file)

Persisting(h, m, kind, new, old, live) ==
  [NoOp EXCEPT !.pc = "mkdir", !.home = h, !.kind = kind, !.new = new, !.old = old,
               !.text = Text(m), !.live = live]

\* History: call a of process h begins, with entries for the ledger.
Begins(a, h, entries) ==
  LET calm == Quiet(a) /\ (h = Server => synced)
  IN  /\ calm \/ races < MaxRaces
      /\ races' = IF calm THEN races ELSE races + 1
      /\ ledger' = IF ledger.orderly /\ calm THEN entries ELSE NoLedger
      /\ synced' = (synced /\ Quiet(a))
      /\ reload' = [reload EXCEPT !.clean = FALSE]

Issue(a, h) ==
  /\ CanStart(a, h)
  /\ next \in Tokens
  /\ LET m == Added(StoreOf(h), next)
     IN  /\ mem' = [mem EXCEPT ![h] = m]
         /\ op' = [op EXCEPT ![a] = Persisting(h, m, "issue", next, NoToken, TRUE)]
  /\ next' = next + 1
  /\ Begins(a, h, ledger)
  /\ UNCHANGED <<up, file, tmp, edits, vouched>>

\* Rotation or revocation of t begins: who is still issuing t is not to vouch for it.
Tried(t) == [b \in Calls |-> IF op[b].new = t THEN [op[b] EXCEPT !.tried = TRUE] ELSE op[b]]

\* rotate() issues a token of the same capabilities first.
Rotate(a, h, t) ==
  /\ CanStart(a, h)
  /\ t \in StoreOf(h).known \ StoreOf(h).dead
  /\ next \in Tokens
  /\ LET m == Added(StoreOf(h), next)
     IN  /\ mem' = [mem EXCEPT ![h] = m]
         /\ op' = [Tried(t) EXCEPT ![a] = Persisting(h, m, "rotate", next, t, TRUE)]
  /\ next' = next + 1
  /\ vouched' = vouched \ {t}
  /\ Begins(a, h, [ledger EXCEPT !.origin[next] = ledger.origin[t]])
  /\ UNCHANGED <<up, file, tmp, edits>>

Killed(m, t) == [m EXCEPT !.dead = @ \union {t}]

Revoke(a, h, t) ==
  /\ CanStart(a, h)
  /\ t \in StoreOf(h).known \ StoreOf(h).dead
  /\ LET m == Killed(StoreOf(h), t)
     IN  /\ mem' = [mem EXCEPT ![h] = m]
         /\ op' = [Tried(t) EXCEPT ![a] = Persisting(h, m, "revoke", NoToken, t, TRUE)]
  /\ vouched' = vouched \ {t}
  /\ Begins(a, h, [ledger EXCEPT !.dropped = @ \union {ledger.origin[t]}])
  /\ UNCHANGED <<up, file, tmp, next, edits>>

\* An already revoked record: the answer is immediate, nothing is written.
RevokeAgain(a, h, t) ==
  /\ CanStart(a, h)
  /\ t \in StoreOf(h).known \intersect StoreOf(h).dead
  /\ Begins(a, h, [ledger EXCEPT !.retired = @ \union {t}, !.dropped = @ \union {ledger.origin[t]}])
  /\ UNCHANGED <<up, mem, file, tmp, op, next, edits, vouched>>

(* ---- persist(): mkdir and open, write, rename ------------------------------------ *)

\* Mutant of OpenTmp: it opens tokens.yaml itself.
OpenInPlace(a) ==
  /\ op[a].pc = "mkdir"
  /\ file' = Empty
  /\ tmp' = Empty
  /\ op' = [op EXCEPT ![a].pc = "write", ![a].where = "file"]
  /\ UNCHANGED <<up, mem, reload, next, races, edits, history>>

\* Opening truncates the temporary file, whoever else has it open.
OpenTmp(a) ==
  /\ op[a].pc = "mkdir"
  /\ tmp' = Empty
  /\ op' = [op EXCEPT ![a].pc = "write", ![a].where = "tmp"]
  /\ UNCHANGED <<up, mem, file, reload, next, races, edits, history>>

WriteTmp(a) ==
  /\ op[a].pc = "write"
  /\ op[a].where = "tmp" => tmp' \in Overwritten(tmp, op[a].text) /\ file' = file
  /\ op[a].where = "file" => file' \in Overwritten(file, op[a].text) /\ tmp' = tmp
  /\ op[a].where = "gone" => UNCHANGED <<file, tmp>>
  /\ op' = [op EXCEPT ![a].pc = "rename"]
  /\ UNCHANGED <<up, mem, reload, next, races, edits, history>>

\* Whoever has the renamed file open, or the one it replaces.
Relinked == [b \in Calls |-> [op[b] EXCEPT !.where = Moved(@)]]

\* A process of the command line ends with its operation.
Ended(a, m) == [mem EXCEPT ![op[a].home] = IF op[a].home = a THEN NoMemory ELSE m]

\* The rename of whatever is at the temporary path.
Replaces(a) ==
  /\ op[a].pc = "rename"
  /\ tmp # Absent
  /\ file' = tmp
  /\ tmp' = Absent
  /\ synced' = (synced /\ op[a].home = Server)

\* rotate() goes on: the record it captured is revoked, which is seen only if
\* no reload has replaced it, and the file is written again.
Retire(a) ==
  /\ Replaces(a)
  /\ op[a].kind = "rotate"
  /\ LET m == IF op[a].live THEN Killed(mem[op[a].home], op[a].old) ELSE mem[op[a].home]
     IN  /\ mem' = [mem EXCEPT ![op[a].home] = m]
         /\ op' = [Relinked EXCEPT ![a] =
                     [Persisting(op[a].home, m, "retire", op[a].new, op[a].old, op[a].live)
                        EXCEPT !.tried = op[a].tried]]
  /\ UNCHANGED <<up, reload, next, races, edits, vouched, ledger>>

Acknowledge(a) ==
  /\ Replaces(a)
  /\ op[a].kind # "rotate"
  /\ op' = [Relinked EXCEPT ![a] = NoOp]
  /\ mem' = Ended(a, mem[op[a].home])
  /\ vouched' = IF op[a].home = Server /\ op[a].kind # "revoke" /\ op[a].live /\ ~op[a].tried
                  THEN vouched \union {op[a].new} ELSE vouched
  /\ ledger' = IF ~ledger.orderly THEN ledger
               ELSE [ledger EXCEPT !.granted = @ \union ({op[a].new} \ {NoToken}),
                                   !.retired = @ \union ({op[a].old} \ {NoToken})]
  /\ UNCHANGED <<up, reload, next, races, edits>>

RollBack(a) ==
  LET m == mem[op[a].home]
  IN  CASE op[a].kind \in {"issue", "rotate"} -> RolledBack(m, op[a].new)
        [] op[a].kind \in {"revoke", "retire"} /\ op[a].live -> [m EXCEPT !.dead = @ \ {op[a].old}]
        [] OTHER -> m

\* mkdir, open, write or rename fails (the rename also because another writer
\* renamed the file away). A failed write can leave a part of the text.
PersistFails(a) ==
  /\ op[a].pc \in {"mkdir", "write", "rename"}
  /\ op' = [op EXCEPT ![a] = NoOp]
  /\ mem' = Ended(a, RollBack(a))
  /\ \/ UNCHANGED <<file, tmp>>
     \/ op[a].pc = "write" /\ op[a].where = "tmp" /\ tmp' = Broken /\ file' = file
     \/ op[a].pc = "write" /\ op[a].where = "file" /\ file' = Broken /\ tmp' = tmp
  /\ UNCHANGED <<up, reload, next, races, edits, history>>

(* ---- reload(), restarts, the operator ------------------------------------------- *)

\* The objects in memory are replaced: what a running tool captured is detached.
Detached == [a \in Calls |-> IF op[a].home = Server /\ op[a].pc # "idle"
                             THEN [op[a] EXCEPT !.live = FALSE] ELSE op[a]]

\* A reload while operations are running is no orderly use.
Interrupted == IF AllIdle THEN ledger ELSE NoLedger

\* There is no file: the store is emptied in the same turn.
ReloadAbsent ==
  /\ up /\ reload.pc = "idle"
  /\ file = Absent
  /\ mem' = [mem EXCEPT ![Server] = NoMemory]
  /\ op' = Detached
  /\ vouched' = {}
  /\ ledger' = Interrupted
  /\ synced' = FALSE
  /\ UNCHANGED <<up, file, tmp, reload, next, races, edits>>

ReloadRead ==
  /\ up /\ reload.pc = "idle"
  /\ file # Absent
  /\ reload' = [pc |-> "read", text |-> file, clean |-> AllIdle]
  /\ ledger' = Interrupted
  /\ UNCHANGED <<up, mem, file, tmp, op, next, races, edits, vouched, synced>>

\* Mutant of ReloadSwap: byHash and byId are not cleared.
ReloadSwapKeepsKeys ==
  /\ reload.pc = "read"
  /\ reload.text # Broken
  /\ mem' = [mem EXCEPT ![Server] = [Loaded(reload.text) EXCEPT !.known = @ \union mem[Server].known]]
  /\ op' = Detached
  /\ vouched' = {}
  /\ synced' = reload.clean
  /\ reload' = NoReload
  /\ UNCHANGED <<up, file, tmp, next, races, edits, ledger>>

ReloadSwap ==
  /\ reload.pc = "read"
  /\ reload.text # Broken
  /\ mem' = [mem EXCEPT ![Server] = Loaded(reload.text)]
  /\ op' = Detached
  /\ vouched' = {}
  /\ synced' = reload.clean
  /\ reload' = NoReload
  /\ UNCHANGED <<up, file, tmp, next, races, edits, ledger>>

\* The file cannot be read or does not parse: memory stays as it was.
ReloadFails ==
  /\ reload.pc = "read"
  /\ reload' = NoReload
  /\ UNCHANGED <<up, mem, file, tmp, op, next, races, edits, history>>

\* A process is killed. What it opened stays as it is.
Crash ==
  /\ up
  /\ up' = FALSE
  /\ mem' = [mem EXCEPT ![Server] = NoMemory]
  /\ op' = [a \in Calls |-> IF op[a].home = Server THEN NoOp ELSE op[a]]
  /\ reload' = NoReload
  /\ vouched' = {}
  /\ synced' = FALSE
  /\ UNCHANGED <<file, tmp, next, races, edits, ledger>>

CliKilled(a) ==
  /\ op[a].home = a
  /\ op' = [op EXCEPT ![a] = NoOp]
  /\ mem' = [mem EXCEPT ![a] = NoMemory]
  /\ UNCHANGED <<up, file, tmp, reload, next, races, edits, history>>

\* The HTTP server starts only on a file with an active token.
Boot ==
  /\ ~up
  /\ file \in Texts
  /\ Active(file) # {}
  /\ up' = TRUE
  /\ mem' = [mem EXCEPT ![Server] = Loaded(file)]
  /\ synced' = AllIdle
  /\ UNCHANGED <<file, tmp, op, reload, next, races, edits, vouched, ledger>>

\* An operator edits the file so that it does not parse, or removes it.
EditFile(f) ==
  /\ f \in {Absent, Broken}
  /\ f # file
  /\ edits < MaxEdits
  /\ file' = f
  /\ op' = IF f = Absent
             THEN [b \in Calls |-> IF op[b].where = "file" THEN [op[b] EXCEPT !.where = "gone"] ELSE op[b]]
             ELSE op
  /\ edits' = edits + 1
  /\ ledger' = NoLedger /\ synced' = FALSE
  /\ reload' = [reload EXCEPT !.clean = FALSE]
  /\ UNCHANGED <<up, mem, tmp, next, races, vouched>>

\* Nothing was ever issued, or one token was, by the command line.
Init ==
  /\ up = FALSE
  /\ mem = [h \in Homes |-> NoMemory]
  /\ \E granted \in {{}, {1}} :
       /\ file = IF granted = {} THEN Absent ELSE [list |-> <<1>>, dead |-> {}]
       /\ next = Cardinality(granted) + 1
       /\ ledger = [NoLedger EXCEPT !.orderly = TRUE, !.granted = granted]
  /\ tmp = Absent
  /\ op = [a \in Calls |-> NoOp]
  /\ reload = NoReload
  /\ races = 0 /\ edits = 0
  /\ vouched = {} /\ synced = FALSE

Next ==
  \/ \E a \in Calls :
       \/ OpenTmp(a) \/ WriteTmp(a) \/ Retire(a) \/ Acknowledge(a) \/ PersistFails(a)
       \/ \E h \in {Server, a} :
            \/ Issue(a, h)
            \/ \E t \in Tokens : Rotate(a, h, t) \/ Revoke(a, h, t) \/ RevokeAgain(a, h, t)
       \/ CliKilled(a)
  \/ ReloadAbsent \/ ReloadRead \/ ReloadSwap \/ ReloadFails
  \/ Crash \/ Boot
  \/ EditFile(Absent) \/ EditFile(Broken)

Spec == Init /\ [][Next]_vars

(* ---- Properties -------------------------------------------------------------------- *)

\* resolveToken(): a bearer is let in by the key of its hash and revokedAt.
Authenticates(t) == up /\ t \in mem[Server].known \ mem[Server].dead

NoToolRuns == \A a \in Calls : op[a].home = Server => op[a].pc = "idle"

\* When no tool call runs and, since the server last read tokens.yaml, no
\* operation overlapped another and nobody else wrote the file, memory and
\* file say the same and the indexes have the keys of the records: whatever
\* failed was rolled back, and a reload repairs what disorder left.
MemoryIsFile ==
  up /\ synced /\ NoToolRuns =>
    /\ file = Text(mem[Server])
    /\ mem[Server].known = ToSet(mem[Server].list)

\* A token whose issue or rotation the server answered with success lets its
\* bearer in until it is revoked, rotated or the file is read again, whatever
\* other calls run at the same time and however they fail.
GrantedAuthenticates == \A t \in vouched : Authenticates(t)

\* Operations that do not overlap lose no credential: of a token that was
\* granted, and that nobody tried to revoke, the file always has it or a
\* successor of it active, at every step of a rotation, after every failure
\* and after a crash at any point, with the file never missing or half written.
RotationLeavesNoGap ==
  \A t \in ledger.granted : ledger.origin[t] \notin ledger.dropped =>
    file \in Texts /\ \E s \in Active(file) : ledger.origin[s] = ledger.origin[t]

\* Operations that do not overlap never bring back a token whose revocation or
\* rotation was answered with success: the file has it revoked for good, and
\* so has the server that did it or that has read the file since.
RevocationSticks ==
  \A t \in ledger.retired :
    /\ file \in Texts /\ t \notin Active(file)
    /\ synced => ~Authenticates(t)
=============================================================================
