-------------------------- MODULE TokenStoreProofs --------------------------
(***************************************************************************)
(* Theorems about TokenStore, for any calls and any bounds. The inductive  *)
(* invariant says what an operation that runs alone has left in memory, in *)
(* the temporary file and in the file, so that undoing it brings memory    *)
(* back to what the file says; what the operations that race may at worst  *)
(* do to a token the server vouched for; and what the ledger of answers    *)
(* says of the file.                                                       *)
(***************************************************************************)
EXTENDS TokenStore, SequenceTheorems, FiniteSetTheorems, TLAPS

USE CallsAssumption, FilesAssumption, BoundsAssumption

(* ---- Texts and memories ----------------------------------------------------- *)

\* Those that know only tokens generated before n.
Before(n) == 1..n - 1

TextBefore(x, n) ==
  /\ x \in [list : Seq(Before(n)), dead : SUBSET Before(n)]
  /\ Len(x.list) < n
  /\ x.dead \subseteq ToSet(x.list)

FileBefore(f, n) == f = Absent \/ f = Broken \/ TextBefore(f, n)

MemoryBefore(m, n) ==
  /\ m \in [list : Seq(Before(n)), known : SUBSET Before(n), dead : SUBSET Before(n)]
  /\ Len(m.list) < n

\* What persist() would write of m is what the file says, and byId has the
\* keys of the records.
InSync(m, f) ==
  /\ m.known = ToSet(m.list)
  /\ Text(m) = IF f = Absent THEN Empty ELSE f

LEMMA SeqOfIs ==
  ASSUME NEW S, NEW n \in Nat, NEW s \in Seq(S), Len(s) <= n
  PROVE  s \in SeqOf(S, n)
<1>1. s \in [1..Len(s) -> S] /\ Len(s) \in 0..n
  BY LenProperties
<1> QED
  BY <1>1 DEF SeqOf

LEMMA SeqSub ==
  ASSUME NEW S, NEW R, S \subseteq R, NEW s \in Seq(S)
  PROVE  s \in Seq(R)
BY LenProperties

\* A text or a memory stays one as tokens are generated.
LEMMA Later ==
  ASSUME NEW n \in Nat
  PROVE  /\ \A x : TextBefore(x, n) => TextBefore(x, n + 1)
         /\ \A f : FileBefore(f, n) => FileBefore(f, n + 1)
         /\ \A m : MemoryBefore(m, n) => MemoryBefore(m, n + 1)
         /\ \A t \in Before(n) : t \in Before(n + 1)
<1>1. Before(n) \subseteq Before(n + 1)
  BY DEF Before
<1>2. ASSUME NEW s \in Seq(Before(n)), Len(s) < n
      PROVE  s \in Seq(Before(n + 1)) /\ Len(s) < n + 1
  BY <1>1, <1>2, SeqSub, LenProperties
<1>3. ASSUME NEW x, TextBefore(x, n)
      PROVE  TextBefore(x, n + 1)
  BY <1>1, <1>2, <1>3 DEF TextBefore
<1>4. ASSUME NEW m, MemoryBefore(m, n)
      PROVE  MemoryBefore(m, n + 1)
  BY <1>1, <1>2, <1>4 DEF MemoryBefore
<1> QED
  BY <1>1, <1>3, <1>4 DEF FileBefore

\* Such texts and memories are of their types.
LEMMA OfTypes ==
  ASSUME NEW n \in 1..MaxTokens + 1
  PROVE  /\ \A x : TextBefore(x, n) => x \in Texts
         /\ \A f : FileBefore(f, n) => f \in Files
         /\ \A m : MemoryBefore(m, n) => m \in Memories
<1>1. Before(n) \subseteq Tokens
  BY DEF Before, Tokens
<1>2. ASSUME NEW s \in Seq(Before(n)), Len(s) < n
      PROVE  s \in SeqOf(Tokens, MaxTokens)
  <2>1. s \in Seq(Tokens) /\ Len(s) \in Nat /\ Len(s) <= MaxTokens
    BY <1>1, <1>2, SeqSub, LenProperties
  <2> QED
    BY <2>1, SeqOfIs
<1>3. ASSUME NEW x, TextBefore(x, n)
      PROVE  x \in Texts
  BY <1>1, <1>2, <1>3 DEF TextBefore, Texts
<1>4. ASSUME NEW m, MemoryBefore(m, n)
      PROVE  m \in Memories
  BY <1>1, <1>2, <1>4 DEF MemoryBefore, Memories
<1> QED
  BY <1>3, <1>4 DEF FileBefore, Files

LEMMA EmptyOnes ==
  ASSUME NEW n \in Nat \ {0}
  PROVE  /\ TextBefore(Empty, n) /\ MemoryBefore(NoMemory, n)
         /\ NoMemory.known = {} /\ NoMemory.dead = {}
         /\ ToSet(NoMemory.list) = {} /\ Text(NoMemory) = Empty
<1>1. ToSet(<<>>) = {}
  BY DEF ToSet
<1> QED
  BY <1>1 DEF TextBefore, MemoryBefore, Empty, NoMemory, Text

LEMMA Singleton ==
  ASSUME NEW n \in Nat, n > 1
  PROVE  TextBefore([list |-> <<1>>, dead |-> {}], n) /\ ToSet(<<1>>) = {1}
<1>1. ToSet(<<1>>) = {1}
  BY DEF ToSet
<1>2. <<1>> \in Seq(Before(n)) /\ Len(<<1>>) = 1
  BY DEF Before
<1> QED
  BY <1>1, <1>2 DEF TextBefore

\* The records of a list are tokens.
LEMMA ToSetIn ==
  ASSUME NEW S, NEW s \in Seq(S)
  PROVE  ToSet(s) \subseteq S
BY LenProperties DEF ToSet

\* Serialization keeps what there is of the revocations.
LEMMA TextIs ==
  ASSUME NEW n \in Nat, NEW m, MemoryBefore(m, n)
  PROVE  /\ TextBefore(Text(m), n) /\ Text(m).list = m.list
         /\ Text(m).dead = m.dead \intersect ToSet(m.list)
         /\ Active(Text(m)) = ToSet(m.list) \ m.dead
BY DEF TextBefore, MemoryBefore, Text, Active

\* A text that is loaded serializes to itself.
LEMMA LoadedIs ==
  ASSUME NEW n \in Nat, NEW x, TextBefore(x, n)
  PROVE  /\ MemoryBefore(Loaded(x), n) /\ Loaded(x).list = x.list
         /\ Loaded(x).known = ToSet(x.list) /\ Loaded(x).dead = x.dead
         /\ Text(Loaded(x)) = x
<1>1. ToSet(x.list) \subseteq Before(n)
  BY ToSetIn DEF TextBefore
<1> QED
  BY <1>1 DEF TextBefore, MemoryBefore, Loaded, Text

\* A record is added at the end.
LEMMA AddedIs ==
  ASSUME NEW n \in Nat \ {0}, NEW m, MemoryBefore(m, n)
  PROVE  /\ MemoryBefore(Added(m, n), n + 1)
         /\ Added(m, n).list = Append(m.list, n)
         /\ Added(m, n).known = m.known \union {n} /\ Added(m, n).dead = m.dead
         /\ ToSet(Added(m, n).list) = ToSet(m.list) \union {n}
         /\ n \notin m.known /\ n \notin m.dead
<1>1. /\ m.list \in Seq(Before(n)) /\ Before(n) \subseteq Before(n + 1) /\ n \in Before(n + 1)
      /\ n \notin Before(n) /\ Len(m.list) \in Nat
  BY LenProperties DEF MemoryBefore, Before
<1>2. m.list \in Seq(Before(n + 1))
  BY <1>1, SeqSub
<1>3. PICK l : l = Append(m.list, n)
  OBVIOUS
<1>4. /\ l \in Seq(Before(n + 1)) /\ Len(l) = Len(m.list) + 1 /\ l[Len(l)] = n
      /\ \A i \in 1..Len(m.list) : l[i] = m.list[i]
      /\ DOMAIN l = 1..Len(l) /\ DOMAIN m.list = 1..Len(m.list)
  BY <1>1, <1>2, <1>3, AppendProperties, LenProperties
<1>5. ToSet(l) = ToSet(m.list) \union {n}
  BY <1>1, <1>4 DEF ToSet
<1>6. /\ Added(m, n).list = l /\ Added(m, n).known = m.known \union {n}
      /\ Added(m, n).dead = m.dead
      /\ MemoryBefore(Added(m, n), n + 1)
  <2>1. /\ m.known \union {n} \in SUBSET Before(n + 1) /\ m.dead \in SUBSET Before(n + 1)
        /\ Len(l) < n + 1
    BY <1>1, <1>4 DEF MemoryBefore
  <2>2. Added(m, n) = [m EXCEPT !.list = l, !.known = @ \union {n}]
    BY <1>3 DEF Added
  <2> QED
    BY <1>4, <2>1, <2>2 DEF MemoryBefore
<1> QED
  BY <1>1, <1>3, <1>5, <1>6 DEF MemoryBefore

\* And undone there.
LEMMA UndoneIs ==
  ASSUME NEW n \in Nat \ {0}, NEW m, MemoryBefore(m, n), NEW k, k = Added(m, n)
  PROVE  /\ RolledBack(k, n).list = m.list
         /\ RolledBack(k, n).known = m.known
         /\ RolledBack(k, n).dead = m.dead
<1>1. /\ m.list \in Seq(Before(n)) /\ n \notin Before(n) /\ Len(m.list) \in Nat
  BY LenProperties DEF MemoryBefore, Before
<1>2. /\ k.list = Append(m.list, n) /\ k.known = m.known \union {n} /\ k.dead = m.dead
      /\ k \in [list : Seq(Before(n + 1)), known : SUBSET Before(n + 1),
                dead : SUBSET Before(n + 1)]
      /\ n \notin m.known
  BY AddedIs DEF MemoryBefore
<1>3. k.list # <<>> /\ Front(k.list) = m.list
  <2>1. PICK l : l = Append(m.list, n)
    OBVIOUS
  <2>2. m.list \in Seq(Before(n + 1)) /\ n \in Before(n + 1)
    BY <1>1, SeqSub DEF Before
  <2>3. /\ l \in Seq(Before(n + 1)) /\ Len(l) = Len(m.list) + 1
        /\ \A i \in 1..Len(m.list) : l[i] = m.list[i]
    BY <1>1, <2>1, <2>2, AppendProperties, LenProperties
  <2>4. l # <<>> /\ Front(l) = m.list
    BY <1>1, <2>1, <2>3, SubSeqProperties DEF Front
  <2> QED
    BY <1>2, <2>1, <2>4
<1>4. /\ RolledBack(k, n).list = IF k.list = <<>> THEN k.list ELSE Front(k.list)
      /\ RolledBack(k, n).known = k.known \ {n} /\ RolledBack(k, n).dead = k.dead
  BY <1>2 DEF RolledBack
<1> QED
  BY <1>1, <1>2, <1>3, <1>4

\* Whatever is last is popped.
LEMMA RolledBackIs ==
  ASSUME NEW n \in Nat, NEW m, MemoryBefore(m, n), NEW t
  PROVE  /\ MemoryBefore(RolledBack(m, t), n)
         /\ RolledBack(m, t).known = m.known \ {t} /\ RolledBack(m, t).dead = m.dead
<1>1. m.list \in Seq(Before(n)) /\ Len(m.list) \in Nat
  BY LenProperties DEF MemoryBefore
<1>2. CASE m.list = <<>>
  BY <1>2 DEF MemoryBefore, RolledBack
<1>3. CASE m.list # <<>>
  <2>1. PICK l : l = Front(m.list)
    OBVIOUS
  <2>2. l \in Seq(Before(n)) /\ Len(l) = Len(m.list) - 1
    BY <1>1, <1>3, <2>1, SubSeqProperties DEF Front
  <2>3. RolledBack(m, t) = [m EXCEPT !.list = l, !.known = @ \ {t}]
    BY <1>3, <2>1 DEF RolledBack
  <2>4. m.known \ {t} \in SUBSET Before(n) /\ m.dead \in SUBSET Before(n) /\ Len(l) < n
    BY <1>1, <2>2 DEF MemoryBefore
  <2> QED
    BY <1>1, <2>2, <2>3, <2>4 DEF MemoryBefore
<1> QED
  BY <1>2, <1>3

\* A revocation marks one record, and is undone by unmarking it.
Unkilled(m, t) == [m EXCEPT !.dead = @ \ {t}]

LEMMA KilledIs ==
  ASSUME NEW n \in Nat, NEW m, MemoryBefore(m, n), NEW t \in Before(n)
  PROVE  /\ MemoryBefore(Killed(m, t), n)
         /\ Killed(m, t).list = m.list /\ Killed(m, t).known = m.known
         /\ Killed(m, t).dead = m.dead \union {t}
BY DEF MemoryBefore, Killed

LEMMA UnkilledIs ==
  ASSUME NEW n \in Nat, NEW m, MemoryBefore(m, n), NEW t
  PROVE  /\ MemoryBefore(Unkilled(m, t), n)
         /\ Unkilled(m, t).list = m.list /\ Unkilled(m, t).known = m.known
         /\ Unkilled(m, t).dead = m.dead \ {t}
BY DEF MemoryBefore, Unkilled

(* ---- The inductive invariant ------------------------------------------------ *)

\* Everything there is was generated before the next token.
Aged ==
  /\ next \in 1..MaxTokens + 1
  /\ \A h \in Homes : MemoryBefore(mem[h], next)
  /\ FileBefore(file, next) /\ FileBefore(tmp, next) /\ FileBefore(reload.text, next)
  /\ \A a \in Calls : /\ TextBefore(op[a].text, next)
                      /\ op[a].new < next /\ op[a].old < next
  /\ vouched \subseteq Before(next)
  /\ ledger.granted \subseteq Before(next) /\ ledger.retired \subseteq Before(next)

Busy(a) == op[a].pc # "idle"

\* What an operation's kind says of it; a token is issued by one operation.
OpShape ==
  \A a \in Calls :
    /\ op[a].home \in {Server, a}
    /\ Busy(a) <=> op[a].kind # "none"
    /\ Busy(a) /\ op[a].home = Server => up
    /\ op[a].pc \in {"idle", "mkdir"} <=> op[a].where = "none"
    /\ op[a].new # NoToken <=> op[a].kind \in {"issue", "rotate", "retire"}
    /\ op[a].old # NoToken <=> op[a].kind \in {"rotate", "retire", "revoke"}
    /\ op[a].kind \in {"rotate", "retire"} => op[a].new # op[a].old
    /\ op[a].pc = "idle" => op[a].home = Server
    /\ op[a].new # NoToken => \A b \in Calls \ {a} : op[b].new # op[a].new

\* Operation a of the server's tools will revoke the server's record of t.
Kills(a, t) ==
  /\ op[a].home = Server /\ op[a].live
  /\ op[a].kind \in {"rotate", "retire"} /\ op[a].old = t

\* Nobody is left that could take a token back that the server vouches for, or
\* is about to.
VouchShape ==
  /\ \A t \in vouched, a \in Calls : op[a].new # t /\ ~Kills(a, t)
  /\ \A a \in Calls :
       op[a].home = Server /\ op[a].live /\ op[a].new # NoToken /\ ~op[a].tried =>
         /\ op[a].new \in mem[Server].known \ mem[Server].dead
         /\ \A b \in Calls : ~Kills(b, op[a].new)

\* A reload that read the file while nothing ran has what the file says.
ReloadShape ==
  /\ reload.pc = "read" => up /\ reload.text # Absent
  /\ reload.clean => reload.pc = "read" /\ AllIdle /\ reload.text = file
  /\ ledger.orderly /\ reload.pc = "read" => AllIdle

\* As long as the server's memory is in step with the file, or operations are
\* orderly, an operation is the only one: its text is that of the memory, the
\* temporary file is its own, and undone it leaves what the file says.
AloneAt(a) ==
  LET o == op[a]
      m == mem[op[a].home]
  IN  /\ \A b \in Calls \ {a} : ~Busy(b)
      /\ o.home = Server => synced
      /\ o.live
      /\ o.pc # "mkdir" => o.where = "tmp"
      /\ o.pc = "write" => tmp = Empty
      /\ o.pc = "rename" => tmp = o.text
      /\ o.text = Text(m) /\ m.known = ToSet(m.list)
      /\ InSync(RollBack(a), file)
      /\ o.new # NoToken => o.new \in m.known \ m.dead
      /\ o.kind = "rotate" => o.old \in m.known \ m.dead
      /\ o.kind \in {"revoke", "retire"} => o.old \in m.dead

AloneShape == \A a \in Calls : Busy(a) /\ (synced \/ ledger.orderly) => AloneAt(a)

SyncedShape ==
  synced => up /\ file # Absent /\ (NoToolRuns => InSync(mem[Server], file))

\* What the ledger says of the file, and of the operation that runs.
LedgerShape ==
  /\ ~ledger.orderly => ledger.granted = {} /\ ledger.retired = {}
  /\ ledger.orderly => file # Broken
  /\ ledger.granted \union ledger.retired # {} => file # Absent
  /\ \A a \in Calls : Busy(a) /\ ledger.orderly =>
       /\ op[a].new \notin ledger.granted \union ledger.retired
       /\ op[a].kind \in {"rotate", "retire"} =>
            ledger.origin[op[a].new] = ledger.origin[op[a].old]
       /\ op[a].kind = "revoke" => ledger.origin[op[a].old] \in ledger.dropped

Inv ==
  /\ TypeOK /\ Aged /\ OpShape /\ VouchShape /\ ReloadShape
  /\ AloneShape /\ SyncedShape /\ LedgerShape
  /\ GrantedAuthenticates /\ RotationLeavesNoGap /\ RevocationSticks

(* ---- Operations and their texts ----------------------------------------------- *)

LEMMA NoOpIs ==
  /\ NoOp.pc = "idle" /\ NoOp.home = Server /\ NoOp.kind = "none" /\ NoOp.new = NoToken
  /\ NoOp.old = NoToken /\ NoOp.text = Empty /\ NoOp.where = "none" /\ NoOp.live = TRUE
  /\ NoOp.tried = FALSE /\ NoOp \in OpRecords
<1>1. Empty \in Texts
  BY EmptyOnes, OfTypes
<1> QED
  BY <1>1 DEF NoOp, OpRecords, Homes

LEMMA PersistingTyped ==
  ASSUME NEW h \in Homes, NEW m, Text(m) \in Texts,
         NEW kind \in {"issue", "rotate", "retire", "revoke"},
         NEW new \in Tokens \union {NoToken}, NEW old \in Tokens \union {NoToken},
         NEW live \in BOOLEAN, NEW tried \in BOOLEAN
  PROVE  /\ Persisting(h, m, kind, new, old, live) \in OpRecords
         /\ [Persisting(h, m, kind, new, old, live) EXCEPT !.tried = tried] \in OpRecords
<1>1. PICK o : o = Persisting(h, m, kind, new, old, live)
  OBVIOUS
<1>2. o \in OpRecords
  BY <1>1 DEF Persisting, NoOp, OpRecords
<1>3. [o EXCEPT !.tried = tried] \in OpRecords
  BY <1>2 DEF OpRecords
<1> QED
  BY <1>1, <1>2, <1>3

\* What other steps make of an operation's record.
LEMMA OpChanged ==
  ASSUME NEW o \in OpRecords
  PROVE  /\ [o EXCEPT !.tried = TRUE] \in OpRecords
         /\ [o EXCEPT !.live = FALSE] \in OpRecords
         /\ [o EXCEPT !.where = Moved(@)] \in OpRecords
         /\ [o EXCEPT !.where = "gone"] \in OpRecords
         /\ [o EXCEPT !.pc = "write", !.where = "tmp"] \in OpRecords
         /\ [o EXCEPT !.pc = "rename"] \in OpRecords
BY DEF OpRecords, Moved

\* What an operation works on.
LEMMA StoreIs ==
  ASSUME Aged, NEW a \in Calls, NEW h \in {Server, a}, CanStart(a, h)
  PROVE  MemoryBefore(StoreOf(h), next)
<1>1. next \in Nat \ {0}
  BY DEF Aged
<1>2. CASE h = Server
  BY <1>2 DEF Aged, StoreOf, Homes
<1>3. CASE h = a /\ file = Absent
  BY <1>1, <1>3, EmptyOnes DEF StoreOf
<1>4. CASE h = a /\ file # Absent
  <2>1. TextBefore(file, next)
    BY <1>4 DEF Aged, CanStart, FileBefore
  <2> QED
    BY <1>1, <1>4, <2>1, LoadedIs DEF StoreOf
<1> QED
  BY <1>2, <1>3, <1>4

\* What undoing an operation leaves.
LEMMA RollBackIs ==
  ASSUME Aged, TypeOK, NEW a \in Calls
  PROVE  MemoryBefore(RollBack(a), next)
<1>1. /\ next \in Nat /\ op[a].home \in Homes /\ MemoryBefore(mem[op[a].home], next)
      /\ op[a] \in OpRecords /\ op[a].old < next
  BY DEF Aged, TypeOK, OpRecords
<1>2. CASE op[a].kind \in {"issue", "rotate"}
  BY <1>1, <1>2, RolledBackIs DEF RollBack
<1>3. CASE op[a].kind \in {"revoke", "retire"} /\ op[a].live
  <2>1. RollBack(a) = [mem[op[a].home] EXCEPT !.dead = @ \ {op[a].old}]
    BY <1>3 DEF RollBack
  <2> QED
    BY <1>1, <2>1 DEF MemoryBefore
<1>4. CASE /\ ~(op[a].kind \in {"issue", "rotate"})
           /\ ~(op[a].kind \in {"revoke", "retire"} /\ op[a].live)
  BY <1>1, <1>4 DEF RollBack
<1> QED
  BY <1>2, <1>3, <1>4

(* ---- Ages ------------------------------------------------------------------- *)

AgedMemories == next \in 1..MaxTokens + 1 /\ \A h \in Homes : MemoryBefore(mem[h], next)

AgedFiles ==
  FileBefore(file, next) /\ FileBefore(tmp, next) /\ FileBefore(reload.text, next)

AgedOps ==
  \A a \in Calls : TextBefore(op[a].text, next) /\ op[a].new < next /\ op[a].old < next

AgedTokens ==
  /\ vouched \subseteq Before(next)
  /\ ledger.granted \subseteq Before(next) /\ ledger.retired \subseteq Before(next)

\* Memories know the tokens generated so far.
LEMMA MemoriesAge ==
  ASSUME Inv, [Next]_vars
  PROVE  AgedMemories'
<1>a. /\ Aged /\ TypeOK /\ next \in 1..MaxTokens + 1 /\ next \in Nat \ {0}
      /\ op \in [Calls -> OpRecords] /\ mem \in [Homes -> Memories]
      /\ \A a \in Calls : op[a].home \in Homes
  BY DEF Inv, Aged, TypeOK, OpRecords
<1>b. /\ \A x : TextBefore(x, next) => TextBefore(x, next + 1)
      /\ \A f : FileBefore(f, next) => FileBefore(f, next + 1)
      /\ \A m : MemoryBefore(m, next) => MemoryBefore(m, next + 1)
      /\ \A t \in Before(next) : t \in Before(next + 1)
  BY <1>a, Later
<1>c. TextBefore(Empty, next) /\ MemoryBefore(NoMemory, next)
  BY <1>a, EmptyOnes
<1> USE <1>a, <1>b, <1>c
<1> USE DEF AgedMemories, history
<1>1. ASSUME NEW a \in Calls, OpenTmp(a)
      PROVE  AgedMemories'
  BY <1>1 DEF OpenTmp, Aged, Begins, Homes
<1>2. ASSUME NEW a \in Calls, WriteTmp(a)
      PROVE  AgedMemories'
  BY <1>2 DEF WriteTmp, Aged, Begins, Homes
<1>3. ASSUME NEW a \in Calls, Retire(a)
      PROVE  AgedMemories'
  <2>1. PICK m : m = IF op[a].live THEN Killed(mem[op[a].home], op[a].old) ELSE mem[op[a].home]
    OBVIOUS
  <2>2. mem' = [mem EXCEPT ![op[a].home] = m] /\ next' = next /\ op[a].kind = "rotate"
    BY <1>3, <2>1 DEF Retire
  <2>3. op[a].old \in Before(next) /\ MemoryBefore(mem[op[a].home], next)
    BY <2>2 DEF Inv, Aged, OpShape, Before, OpRecords, Tokens, NoToken
  <2>4. MemoryBefore(m, next)
    BY <2>1, <2>3, KilledIs
  <2> QED
    BY <2>2, <2>4 DEF Aged
<1>4. ASSUME NEW a \in Calls, Acknowledge(a)
      PROVE  AgedMemories'
  <2>1. mem' = Ended(a, mem[op[a].home]) /\ next' = next
    BY <1>4 DEF Acknowledge
  <2> QED
    BY <2>1 DEF Aged, Ended
<1>5. ASSUME NEW a \in Calls, PersistFails(a)
      PROVE  AgedMemories'
  <2>1. mem' = Ended(a, RollBack(a)) /\ next' = next /\ MemoryBefore(RollBack(a), next)
    BY <1>5, RollBackIs DEF PersistFails
  <2> QED
    BY <2>1 DEF Aged, Ended
<1>6. ASSUME NEW a \in Calls, NEW h \in {Server, a}, Issue(a, h)
      PROVE  AgedMemories'
  <2>1. /\ next \in Tokens /\ next' = next + 1
        /\ mem' = [mem EXCEPT ![h] = Added(StoreOf(h), next)]
    BY <1>6 DEF Issue
  <2>2. MemoryBefore(Added(StoreOf(h), next), next + 1)
    BY <1>6, StoreIs, AddedIs DEF Issue
  <2> QED
    BY <2>1, <2>2 DEF Aged, Tokens
<1>7. ASSUME NEW a \in Calls, NEW h \in {Server, a}, NEW t \in Tokens,
             Rotate(a, h, t)
      PROVE  AgedMemories'
  <2>1. /\ next \in Tokens /\ next' = next + 1
        /\ mem' = [mem EXCEPT ![h] = Added(StoreOf(h), next)]
    BY <1>7 DEF Rotate
  <2>2. MemoryBefore(Added(StoreOf(h), next), next + 1)
    BY <1>7, StoreIs, AddedIs DEF Rotate
  <2> QED
    BY <2>1, <2>2 DEF Aged, Tokens
<1>8. ASSUME NEW a \in Calls, NEW h \in {Server, a}, NEW t \in Tokens,
             Revoke(a, h, t)
      PROVE  AgedMemories'
  <2>1. /\ t \in StoreOf(h).known /\ next' = next
        /\ mem' = [mem EXCEPT ![h] = Killed(StoreOf(h), t)]
    BY <1>8 DEF Revoke
  <2>2. MemoryBefore(StoreOf(h), next)
    BY <1>8, StoreIs DEF Revoke
  <2>3. MemoryBefore(Killed(StoreOf(h), t), next)
    BY <2>1, <2>2, KilledIs DEF MemoryBefore
  <2> QED
    BY <2>1, <2>3 DEF Aged
<1>9. ASSUME NEW a \in Calls, NEW h \in {Server, a}, NEW t \in Tokens,
             RevokeAgain(a, h, t)
      PROVE  AgedMemories'
  BY <1>9 DEF RevokeAgain, Aged, Begins, Homes
<1>10. ASSUME NEW a \in Calls, CliKilled(a)
       PROVE  AgedMemories'
  BY <1>10 DEF CliKilled, Aged, Begins, Homes
<1>11. CASE ReloadAbsent
  BY <1>11 DEF ReloadAbsent, Aged, Begins, Homes
<1>12. CASE ReloadRead
  BY <1>12 DEF ReloadRead, Aged, Begins, Homes
<1>13. CASE ReloadSwap
  <2>1. /\ next' = next /\ reload.text # Broken /\ reload.text # Absent
        /\ mem' = [mem EXCEPT ![Server] = Loaded(reload.text)]
    BY <1>13 DEF ReloadSwap, Inv, ReloadShape
  <2>2. MemoryBefore(Loaded(reload.text), next)
    BY <2>1, LoadedIs DEF Aged, FileBefore
  <2> QED
    BY <2>1, <2>2 DEF Aged
<1>14. CASE ReloadFails
  BY <1>14 DEF ReloadFails, Aged, Begins, Homes
<1>15. CASE Crash
  BY <1>15 DEF Crash, Aged, Begins, Homes
<1>16. CASE Boot
  <2>1. next' = next /\ file \in Texts /\ mem' = [mem EXCEPT ![Server] = Loaded(file)]
    BY <1>16 DEF Boot
  <2>2. MemoryBefore(Loaded(file), next)
    BY <2>1, LoadedIs DEF Aged, FileBefore
  <2> QED
    BY <2>1, <2>2 DEF Aged
<1>17. ASSUME NEW f \in {Absent, Broken}, EditFile(f)
       PROVE  AgedMemories'
  BY <1>17 DEF EditFile, Aged, Begins, Homes
<1>18. CASE UNCHANGED vars
  BY <1>18 DEF vars, history, Aged
<1> QED
  BY <1>1, <1>2, <1>3, <1>4, <1>5, <1>6, <1>7, <1>8, <1>9, <1>10, <1>11, <1>12, <1>13,
     <1>14, <1>15, <1>16, <1>17, <1>18 DEF Next

\* So do the files.
LEMMA FilesAge ==
  ASSUME Inv, [Next]_vars
  PROVE  AgedFiles'
<1>a. /\ Aged /\ TypeOK /\ next \in 1..MaxTokens + 1 /\ next \in Nat \ {0}
      /\ op \in [Calls -> OpRecords] /\ mem \in [Homes -> Memories]
      /\ \A a \in Calls : op[a].home \in Homes
  BY DEF Inv, Aged, TypeOK, OpRecords
<1>b. /\ \A x : TextBefore(x, next) => TextBefore(x, next + 1)
      /\ \A f : FileBefore(f, next) => FileBefore(f, next + 1)
      /\ \A m : MemoryBefore(m, next) => MemoryBefore(m, next + 1)
      /\ \A t \in Before(next) : t \in Before(next + 1)
  BY <1>a, Later
<1>c. TextBefore(Empty, next) /\ MemoryBefore(NoMemory, next)
  BY <1>a, EmptyOnes
<1> USE <1>a, <1>b, <1>c
<1> USE DEF AgedFiles, history
<1>1. ASSUME NEW a \in Calls, OpenTmp(a)
      PROVE  AgedFiles'
  <2>1. /\ next' \in {next, next + 1} /\ file' \in {file, Absent, Broken}
        /\ tmp' \in {tmp, Empty} /\ reload'.text \in {reload.text, file, Absent}
    BY <1>1 DEF OpenTmp, Begins, NoReload, TypeOK
  <2> QED
    BY <2>1 DEF Aged, FileBefore
<1>2. ASSUME NEW a \in Calls, WriteTmp(a)
      PROVE  AgedFiles'
  <2>1. /\ next' = next /\ reload' = reload
        /\ file' = file \/ file' \in Overwritten(file, op[a].text)
        /\ tmp' = tmp \/ tmp' \in Overwritten(tmp, op[a].text)
    <3>1. op[a].where \in {"tmp", "file", "gone"}
      BY <1>2 DEF WriteTmp, Inv, OpShape, OpRecords, Busy
    <3> QED
      BY <1>2, <3>1 DEF WriteTmp
  <2>2. \A old : FileBefore(old, next) =>
          \A new \in Overwritten(old, op[a].text) : FileBefore(new, next)
    BY DEF Aged, Overwritten, FileBefore
  <2> QED
    BY <2>1, <2>2 DEF Aged
<1>3. ASSUME NEW a \in Calls, Retire(a)
      PROVE  AgedFiles'
  <2>1. next' = next /\ reload' = reload /\ file' = tmp /\ tmp' = Absent
    BY <1>3 DEF Retire, Replaces
  <2> QED
    BY <2>1 DEF Aged, FileBefore
<1>4. ASSUME NEW a \in Calls, Acknowledge(a)
      PROVE  AgedFiles'
  <2>1. next' = next /\ reload' = reload /\ file' = tmp /\ tmp' = Absent
    BY <1>4 DEF Acknowledge, Replaces
  <2> QED
    BY <2>1 DEF Aged, FileBefore
<1>5. ASSUME NEW a \in Calls, PersistFails(a)
      PROVE  AgedFiles'
  <2>1. /\ next' = next /\ reload' = reload
        /\ file' \in {file, Broken} /\ tmp' \in {tmp, Broken}
    BY <1>5 DEF PersistFails
  <2> QED
    BY <2>1 DEF Aged, FileBefore
<1>6. ASSUME NEW a \in Calls, NEW h \in {Server, a}, Issue(a, h)
      PROVE  AgedFiles'
  <2>1. /\ next' \in {next, next + 1} /\ file' \in {file, Absent, Broken}
        /\ tmp' \in {tmp, Empty} /\ reload'.text \in {reload.text, file, Absent}
    BY <1>6 DEF Issue, Begins, NoReload, TypeOK
  <2> QED
    BY <2>1 DEF Aged, FileBefore
<1>7. ASSUME NEW a \in Calls, NEW h \in {Server, a}, NEW t \in Tokens,
             Rotate(a, h, t)
      PROVE  AgedFiles'
  <2>1. /\ next' \in {next, next + 1} /\ file' \in {file, Absent, Broken}
        /\ tmp' \in {tmp, Empty} /\ reload'.text \in {reload.text, file, Absent}
    BY <1>7 DEF Rotate, Begins, NoReload, TypeOK
  <2> QED
    BY <2>1 DEF Aged, FileBefore
<1>8. ASSUME NEW a \in Calls, NEW h \in {Server, a}, NEW t \in Tokens,
             Revoke(a, h, t)
      PROVE  AgedFiles'
  <2>1. /\ next' \in {next, next + 1} /\ file' \in {file, Absent, Broken}
        /\ tmp' \in {tmp, Empty} /\ reload'.text \in {reload.text, file, Absent}
    BY <1>8 DEF Revoke, Begins, NoReload, TypeOK
  <2> QED
    BY <2>1 DEF Aged, FileBefore
<1>9. ASSUME NEW a \in Calls, NEW h \in {Server, a}, NEW t \in Tokens,
             RevokeAgain(a, h, t)
      PROVE  AgedFiles'
  <2>1. /\ next' \in {next, next + 1} /\ file' \in {file, Absent, Broken}
        /\ tmp' \in {tmp, Empty} /\ reload'.text \in {reload.text, file, Absent}
    BY <1>9 DEF RevokeAgain, Begins, NoReload, TypeOK
  <2> QED
    BY <2>1 DEF Aged, FileBefore
<1>10. ASSUME NEW a \in Calls, CliKilled(a)
       PROVE  AgedFiles'
  <2>1. /\ next' \in {next, next + 1} /\ file' \in {file, Absent, Broken}
        /\ tmp' \in {tmp, Empty} /\ reload'.text \in {reload.text, file, Absent}
    BY <1>10 DEF CliKilled, Begins, NoReload, TypeOK
  <2> QED
    BY <2>1 DEF Aged, FileBefore
<1>11. CASE ReloadAbsent
  <2>1. /\ next' \in {next, next + 1} /\ file' \in {file, Absent, Broken}
        /\ tmp' \in {tmp, Empty} /\ reload'.text \in {reload.text, file, Absent}
    BY <1>11 DEF ReloadAbsent, Begins, NoReload, TypeOK
  <2> QED
    BY <2>1 DEF Aged, FileBefore
<1>12. CASE ReloadRead
  <2>1. /\ next' \in {next, next + 1} /\ file' \in {file, Absent, Broken}
        /\ tmp' \in {tmp, Empty} /\ reload'.text \in {reload.text, file, Absent}
    BY <1>12 DEF ReloadRead, Begins, NoReload, TypeOK
  <2> QED
    BY <2>1 DEF Aged, FileBefore
<1>13. CASE ReloadSwap
  <2>1. /\ next' \in {next, next + 1} /\ file' \in {file, Absent, Broken}
        /\ tmp' \in {tmp, Empty} /\ reload'.text \in {reload.text, file, Absent}
    BY <1>13 DEF ReloadSwap, Begins, NoReload, TypeOK
  <2> QED
    BY <2>1 DEF Aged, FileBefore
<1>14. CASE ReloadFails
  <2>1. /\ next' \in {next, next + 1} /\ file' \in {file, Absent, Broken}
        /\ tmp' \in {tmp, Empty} /\ reload'.text \in {reload.text, file, Absent}
    BY <1>14 DEF ReloadFails, Begins, NoReload, TypeOK
  <2> QED
    BY <2>1 DEF Aged, FileBefore
<1>15. CASE Crash
  <2>1. /\ next' \in {next, next + 1} /\ file' \in {file, Absent, Broken}
        /\ tmp' \in {tmp, Empty} /\ reload'.text \in {reload.text, file, Absent}
    BY <1>15 DEF Crash, Begins, NoReload, TypeOK
  <2> QED
    BY <2>1 DEF Aged, FileBefore
<1>16. CASE Boot
  <2>1. /\ next' \in {next, next + 1} /\ file' \in {file, Absent, Broken}
        /\ tmp' \in {tmp, Empty} /\ reload'.text \in {reload.text, file, Absent}
    BY <1>16 DEF Boot, Begins, NoReload, TypeOK
  <2> QED
    BY <2>1 DEF Aged, FileBefore
<1>17. ASSUME NEW f \in {Absent, Broken}, EditFile(f)
       PROVE  AgedFiles'
  <2>1. /\ next' \in {next, next + 1} /\ file' \in {file, Absent, Broken}
        /\ tmp' \in {tmp, Empty} /\ reload'.text \in {reload.text, file, Absent}
    BY <1>17 DEF EditFile, Begins, NoReload, TypeOK
  <2> QED
    BY <2>1 DEF Aged, FileBefore
<1>18. CASE UNCHANGED vars
  BY <1>18 DEF vars, history, Aged
<1> QED
  BY <1>1, <1>2, <1>3, <1>4, <1>5, <1>6, <1>7, <1>8, <1>9, <1>10, <1>11, <1>12, <1>13,
     <1>14, <1>15, <1>16, <1>17, <1>18 DEF Next

\* The operations that are not touched.
LEMMA SameOps ==
  ASSUME Aged, op \in [Calls -> OpRecords], next' \in {next, next + 1},
         \A b \in Calls : /\ op'[b].text \in {op[b].text, Empty}
                          /\ op'[b].new \in {op[b].new, NoToken}
                          /\ op'[b].old \in {op[b].old, NoToken}
  PROVE  AgedOps'
<1>1. ASSUME NEW b \in Calls
      PROVE  TextBefore(op'[b].text, next') /\ op'[b].new < next' /\ op'[b].old < next'
  <2>1. /\ TextBefore(op[b].text, next) /\ op[b].new < next /\ op[b].old < next
        /\ next \in Nat \ {0} /\ op[b].new \in Nat /\ op[b].old \in Nat
    BY DEF Aged, OpRecords, Tokens, NoToken
  <2>2. TextBefore(Empty, next)
    BY <2>1, EmptyOnes
  <2>3. TextBefore(op'[b].text, next')
    BY <2>1, <2>2, Later
  <2>4. op'[b].new < next' /\ op'[b].old < next'
    <3>1. /\ op'[b].new < next /\ op'[b].new \in Nat
          /\ op'[b].old < next /\ op'[b].old \in Nat
      BY <2>1 DEF NoToken
    <3> QED
      BY <2>1, <3>1 DEF AgedOps
  <2> QED
    BY <2>3, <2>4
<1> QED
  BY <1>1 DEF AgedOps

(* ---- The records of operations -------------------------------------------------- *)

\* An operation goes on being what it is.
Stays(b) ==
  /\ op'[b].pc = op[b].pc /\ op'[b].home = op[b].home /\ op'[b].kind = op[b].kind
  /\ op'[b].new = op[b].new /\ op'[b].old = op[b].old /\ op'[b].text = op[b].text

StaysWith(b) ==
  /\ Stays(b) /\ op'[b].where = op[b].where
  /\ op'[b].live = op[b].live /\ op'[b].tried = op[b].tried

\* Issue, rotation and revocation.
BeginsOp(a, h, m, kind, new, old) ==
  /\ op'[a].pc = "mkdir" /\ op'[a].home = h /\ op'[a].kind = kind /\ op'[a].new = new
  /\ op'[a].old = old /\ op'[a].text = Text(m) /\ op'[a].where = "none"
  /\ op'[a].live = TRUE /\ op'[a].tried = FALSE

Tries(b, t) ==
  /\ Stays(b) /\ op'[b].where = op[b].where /\ op'[b].live = op[b].live
  /\ op'[b].tried = op[b].tried \/ op'[b].tried
  /\ op[b].new = t => op'[b].tried

LEMMA IssueOps ==
  ASSUME op \in [Calls -> OpRecords], NEW a \in Calls, NEW h \in {Server, a}, Issue(a, h)
  PROVE  /\ BeginsOp(a, h, Added(StoreOf(h), next), "issue", next, NoToken)
         /\ \A b \in Calls \ {a} : op'[b] = op[b]
<1>1. op' = [op EXCEPT ![a] =
               Persisting(h, Added(StoreOf(h), next), "issue", next, NoToken, TRUE)]
  BY DEF Issue
<1> QED
  BY <1>1 DEF BeginsOp, Persisting, NoOp

LEMMA TriedIs ==
  ASSUME op \in [Calls -> OpRecords], NEW t, NEW b \in Calls, op'[b] = Tried(t)[b]
  PROVE  Tries(b, t)
BY DEF Tried, Tries, Stays, OpRecords

LEMMA RotateOps ==
  ASSUME op \in [Calls -> OpRecords], NEW a \in Calls, NEW h \in {Server, a}, NEW t \in Tokens,
         Rotate(a, h, t)
  PROVE  /\ BeginsOp(a, h, Added(StoreOf(h), next), "rotate", next, t)
         /\ \A b \in Calls \ {a} : Tries(b, t)
<1>1. op' = [Tried(t) EXCEPT ![a] =
               Persisting(h, Added(StoreOf(h), next), "rotate", next, t, TRUE)]
  BY DEF Rotate
<1>2. op'[a] = Persisting(h, Added(StoreOf(h), next), "rotate", next, t, TRUE)
  BY <1>1 DEF Tried
<1>3. \A b \in Calls \ {a} : op'[b] = Tried(t)[b]
  BY <1>1 DEF Tried
<1> QED
  BY <1>2, <1>3, TriedIs DEF BeginsOp, Persisting, NoOp

LEMMA RevokeOps ==
  ASSUME op \in [Calls -> OpRecords], NEW a \in Calls, NEW h \in {Server, a}, NEW t \in Tokens,
         Revoke(a, h, t)
  PROVE  /\ BeginsOp(a, h, Killed(StoreOf(h), t), "revoke", NoToken, t)
         /\ \A b \in Calls \ {a} : Tries(b, t)
<1>1. op' = [Tried(t) EXCEPT ![a] =
               Persisting(h, Killed(StoreOf(h), t), "revoke", NoToken, t, TRUE)]
  BY DEF Revoke
<1>2. op'[a] = Persisting(h, Killed(StoreOf(h), t), "revoke", NoToken, t, TRUE)
  BY <1>1 DEF Tried
<1>3. \A b \in Calls \ {a} : op'[b] = Tried(t)[b]
  BY <1>1 DEF Tried
<1> QED
  BY <1>2, <1>3, TriedIs DEF BeginsOp, Persisting, NoOp

\* Who has the renamed file open.
Relinks(b) ==
  /\ Stays(b) /\ op'[b].where = Moved(op[b].where)
  /\ op'[b].live = op[b].live /\ op'[b].tried = op[b].tried

LEMMA RelinkedIs ==
  ASSUME op \in [Calls -> OpRecords], NEW b \in Calls, op'[b] = Relinked[b]
  PROVE  Relinks(b)
BY DEF Relinked, Relinks, Stays, OpRecords

\* The record of a rotated token is revoked next.
Retired(a) ==
  IF op[a].live THEN Killed(mem[op[a].home], op[a].old) ELSE mem[op[a].home]

LEMMA RetireOps ==
  ASSUME op \in [Calls -> OpRecords], NEW a \in Calls, Retire(a)
  PROVE  /\ op'[a].pc = "mkdir" /\ op'[a].home = op[a].home /\ op'[a].kind = "retire"
         /\ op'[a].new = op[a].new /\ op'[a].old = op[a].old
         /\ op'[a].text = Text(Retired(a)) /\ op'[a].where = "none"
         /\ op'[a].live = op[a].live /\ op'[a].tried = op[a].tried
         /\ \A b \in Calls \ {a} : Relinks(b)
<1>1. PICK o : o = Persisting(op[a].home, Retired(a), "retire", op[a].new, op[a].old,
                              op[a].live)
  OBVIOUS
<1>2. op' = [Relinked EXCEPT ![a] = [o EXCEPT !.tried = op[a].tried]]
  BY <1>1 DEF Retire, Retired
<1>3. /\ o.pc = "mkdir" /\ o.home = op[a].home /\ o.kind = "retire" /\ o.new = op[a].new
      /\ o.old = op[a].old /\ o.text = Text(Retired(a)) /\ o.where = "none"
      /\ o.live = op[a].live /\ DOMAIN o = DOMAIN NoOp
  BY <1>1 DEF Persisting, NoOp
<1>4. op'[a] = [o EXCEPT !.tried = op[a].tried]
  BY <1>2 DEF Relinked
<1>5. \A b \in Calls \ {a} : Relinks(b)
  <2>1. \A b \in Calls \ {a} : op'[b] = Relinked[b]
    BY <1>2 DEF Relinked
  <2> QED
    BY <2>1, RelinkedIs
<1> QED
  BY <1>3, <1>4, <1>5 DEF NoOp

LEMMA AcknowledgeOps ==
  ASSUME op \in [Calls -> OpRecords], NEW a \in Calls, Acknowledge(a)
  PROVE  op'[a] = NoOp /\ \A b \in Calls \ {a} : Relinks(b)
<1>1. op' = [Relinked EXCEPT ![a] = NoOp]
  BY DEF Acknowledge
<1>2. \A b \in Calls \ {a} : op'[b] = Relinked[b]
  BY <1>1 DEF Relinked
<1> QED
  BY <1>1, <1>2, RelinkedIs DEF Relinked

LEMMA OpenOps ==
  ASSUME op \in [Calls -> OpRecords], NEW a \in Calls, OpenTmp(a)
  PROVE  /\ op'[a].pc = "write" /\ op'[a].where = "tmp" /\ op'[a].home = op[a].home
         /\ op'[a].kind = op[a].kind /\ op'[a].new = op[a].new /\ op'[a].old = op[a].old
         /\ op'[a].text = op[a].text /\ op'[a].live = op[a].live /\ op'[a].tried = op[a].tried
         /\ \A b \in Calls \ {a} : op'[b] = op[b]
BY DEF OpenTmp, OpRecords

LEMMA WriteOps ==
  ASSUME op \in [Calls -> OpRecords], NEW a \in Calls, WriteTmp(a)
  PROVE  /\ op'[a].pc = "rename" /\ op'[a].where = op[a].where /\ op'[a].home = op[a].home
         /\ op'[a].kind = op[a].kind /\ op'[a].new = op[a].new /\ op'[a].old = op[a].old
         /\ op'[a].text = op[a].text /\ op'[a].live = op[a].live /\ op'[a].tried = op[a].tried
         /\ \A b \in Calls \ {a} : op'[b] = op[b]
BY DEF WriteTmp, OpRecords

\* The server's operations lose the records they captured.
Detaches(b) ==
  /\ Stays(b) /\ op'[b].where = op[b].where /\ op'[b].tried = op[b].tried
  /\ op'[b].live = IF op[b].home = Server /\ Busy(b) THEN FALSE ELSE op[b].live

LEMMA DetachedIs ==
  ASSUME op \in [Calls -> OpRecords], op' = Detached
  PROVE  \A b \in Calls : Detaches(b)
BY DEF Detached, Detaches, Stays, OpRecords, Busy

LEMMA EditOps ==
  ASSUME op \in [Calls -> OpRecords], NEW f \in {Absent, Broken}, EditFile(f)
  PROVE  \A b \in Calls : /\ Stays(b) /\ op'[b].live = op[b].live /\ op'[b].tried = op[b].tried
                          /\ op'[b].where \in {op[b].where, "gone"}
                          /\ op'[b].where # op[b].where => op[b].where = "file"
BY DEF EditFile, Stays, OpRecords

LEMMA KnownBefore ==
  ASSUME NEW n \in Nat, NEW m, MemoryBefore(m, n), NEW t \in m.known
  PROVE  t < n /\ t \in Before(n)
BY DEF MemoryBefore, Before

\* So do the operations.
LEMMA OpsAge ==
  ASSUME Inv, [Next]_vars
  PROVE  AgedOps'
<1>a. /\ Aged /\ TypeOK /\ next \in 1..MaxTokens + 1 /\ next \in Nat \ {0}
      /\ op \in [Calls -> OpRecords] /\ mem \in [Homes -> Memories]
      /\ \A a \in Calls : op[a].home \in Homes
  BY DEF Inv, Aged, TypeOK, OpRecords
<1>b. /\ \A x : TextBefore(x, next) => TextBefore(x, next + 1)
      /\ \A f : FileBefore(f, next) => FileBefore(f, next + 1)
      /\ \A m : MemoryBefore(m, next) => MemoryBefore(m, next + 1)
      /\ \A t \in Before(next) : t \in Before(next + 1)
  BY <1>a, Later
<1>c. TextBefore(Empty, next) /\ MemoryBefore(NoMemory, next)
  BY <1>a, EmptyOnes
<1> USE <1>a, <1>b, <1>c
<1> USE DEF history
<1>1. ASSUME NEW a \in Calls, OpenTmp(a)
      PROVE  AgedOps'
  <2>1. \A b \in Calls : /\ op'[b].text \in {op[b].text, Empty}
                         /\ op'[b].new \in {op[b].new, NoToken}
                         /\ op'[b].old \in {op[b].old, NoToken}
    BY <1>1, OpenOps
  <2>2. next' = next
    BY <1>1 DEF OpenTmp, Replaces, Begins
  <2> QED
    BY <2>1, <2>2, SameOps
<1>2. ASSUME NEW a \in Calls, WriteTmp(a)
      PROVE  AgedOps'
  <2>1. \A b \in Calls : /\ op'[b].text \in {op[b].text, Empty}
                         /\ op'[b].new \in {op[b].new, NoToken}
                         /\ op'[b].old \in {op[b].old, NoToken}
    BY <1>2, WriteOps
  <2>2. next' = next
    BY <1>2 DEF WriteTmp, Replaces, Begins
  <2> QED
    BY <2>1, <2>2, SameOps
<1>3. ASSUME NEW a \in Calls, Retire(a)
      PROVE  AgedOps'
  <2>1. /\ next' = next /\ op[a].kind = "rotate" /\ op'[a].text = Text(Retired(a))
        /\ op'[a].new = op[a].new /\ op'[a].old = op[a].old
        /\ \A b \in Calls \ {a} : Stays(b)
    BY <1>3, RetireOps DEF Retire, Relinks
  <2>2. op[a].old \in Before(next) /\ MemoryBefore(mem[op[a].home], next)
    BY <2>1 DEF Inv, Aged, OpShape, Before, OpRecords, Tokens, NoToken
  <2>3. TextBefore(op'[a].text, next)
    <3>1. MemoryBefore(Retired(a), next)
      BY <2>2, KilledIs DEF Retired
    <3> QED
      BY <2>1, <3>1, TextIs
  <2> QED
    BY <2>1, <2>3 DEF AgedOps, Stays, Aged
<1>4. ASSUME NEW a \in Calls, Acknowledge(a)
      PROVE  AgedOps'
  <2>1. op'[a] = NoOp /\ next' = next
    BY <1>4, AcknowledgeOps DEF Acknowledge
  <2>2. \A b \in Calls \ {a} : Stays(b)
    BY <1>4, AcknowledgeOps DEF Relinks
  <2> QED
    BY <2>1, <2>2, NoOpIs, SameOps DEF Stays
<1>5. ASSUME NEW a \in Calls, PersistFails(a)
      PROVE  AgedOps'
  <2>1. \A b \in Calls : /\ op'[b].text \in {op[b].text, Empty}
                         /\ op'[b].new \in {op[b].new, NoToken}
                         /\ op'[b].old \in {op[b].old, NoToken}
    BY <1>5, NoOpIs DEF PersistFails, Stays, Relinks, Detaches
  <2>2. next' = next
    BY <1>5 DEF PersistFails, Replaces, Begins
  <2> QED
    BY <2>1, <2>2, SameOps
<1>6. ASSUME NEW a \in Calls, NEW h \in {Server, a}, Issue(a, h)
      PROVE  AgedOps'
  <2>1. /\ CanStart(a, h) /\ next' = next + 1 /\ next' \in Nat
    BY <1>6 DEF Issue, Begins
  <2>2. MemoryBefore(StoreOf(h), next)
    BY <2>1, StoreIs
  <2>3. PICK m : m = Added(StoreOf(h), next)
    OBVIOUS
  <2>4. MemoryBefore(m, next')
    BY <2>1, <2>2, <2>3, AddedIs
  <2>5. op'[a].text = Text(m) /\ op'[a].new = next /\ op'[a].old = NoToken
    <3>1. BeginsOp(a, h, Added(StoreOf(h), next), "issue", next, NoToken)
      BY <1>6, IssueOps
    <3> QED
      BY <2>3, <3>1 DEF BeginsOp
  <2>6. TextBefore(op'[a].text, next')
    BY <2>1, <2>4, <2>5, TextIs
  <2>7. op'[a].new < next' /\ op'[a].old < next'
    BY <2>1, <2>5 DEF NoToken
  <2>8. ASSUME NEW b \in Calls \ {a}
        PROVE  TextBefore(op'[b].text, next') /\ op'[b].new < next' /\ op'[b].old < next'
    <3>1. op'[b].text = op[b].text /\ op'[b].new = op[b].new /\ op'[b].old = op[b].old
      BY <1>6, IssueOps DEF Tries, Stays
    <3>2. /\ TextBefore(op[b].text, next) /\ op[b].new < next /\ op[b].old < next
          /\ op[b].new \in Nat /\ op[b].old \in Nat
      BY DEF Aged, OpRecords, Tokens, NoToken
    <3> QED
      BY <2>1, <3>1, <3>2
  <2> QED
    BY <2>6, <2>7, <2>8 DEF AgedOps
<1>7. ASSUME NEW a \in Calls, NEW h \in {Server, a}, NEW t \in Tokens,
             Rotate(a, h, t)
      PROVE  AgedOps'
  <2>1. /\ CanStart(a, h) /\ next' = next + 1 /\ next' \in Nat /\ t \in StoreOf(h).known
    BY <1>7 DEF Rotate, Begins
  <2>2. MemoryBefore(StoreOf(h), next)
    BY <2>1, StoreIs
  <2>3. PICK m : m = Added(StoreOf(h), next)
    OBVIOUS
  <2>4. MemoryBefore(m, next')
    BY <2>1, <2>2, <2>3, AddedIs
  <2>5. op'[a].text = Text(m) /\ op'[a].new = next /\ op'[a].old = t
    <3>1. BeginsOp(a, h, Added(StoreOf(h), next), "rotate", next, t)
      BY <1>7, RotateOps
    <3> QED
      BY <2>3, <3>1 DEF BeginsOp
  <2>6. TextBefore(op'[a].text, next')
    BY <2>1, <2>4, <2>5, TextIs
  <2>7. op'[a].new < next' /\ op'[a].old < next'
    BY <2>1, <2>5, <2>2, KnownBefore DEF NoToken
  <2>8. ASSUME NEW b \in Calls \ {a}
        PROVE  TextBefore(op'[b].text, next') /\ op'[b].new < next' /\ op'[b].old < next'
    <3>1. op'[b].text = op[b].text /\ op'[b].new = op[b].new /\ op'[b].old = op[b].old
      BY <1>7, RotateOps DEF Tries, Stays
    <3>2. /\ TextBefore(op[b].text, next) /\ op[b].new < next /\ op[b].old < next
          /\ op[b].new \in Nat /\ op[b].old \in Nat
      BY DEF Aged, OpRecords, Tokens, NoToken
    <3> QED
      BY <2>1, <3>1, <3>2
  <2> QED
    BY <2>6, <2>7, <2>8 DEF AgedOps
<1>8. ASSUME NEW a \in Calls, NEW h \in {Server, a}, NEW t \in Tokens,
             Revoke(a, h, t)
      PROVE  AgedOps'
  <2>1. /\ CanStart(a, h) /\ next' = next /\ next' \in Nat /\ t \in StoreOf(h).known
    BY <1>8 DEF Revoke, Begins
  <2>2. MemoryBefore(StoreOf(h), next)
    BY <2>1, StoreIs
  <2>3. PICK m : m = Killed(StoreOf(h), t)
    OBVIOUS
  <2>4. MemoryBefore(m, next')
    BY <2>1, <2>2, <2>3, KilledIs DEF MemoryBefore
  <2>5. op'[a].text = Text(m) /\ op'[a].new = NoToken /\ op'[a].old = t
    <3>1. BeginsOp(a, h, Killed(StoreOf(h), t), "revoke", NoToken, t)
      BY <1>8, RevokeOps
    <3> QED
      BY <2>3, <3>1 DEF BeginsOp
  <2>6. TextBefore(op'[a].text, next')
    BY <2>1, <2>4, <2>5, TextIs
  <2>7. op'[a].new < next' /\ op'[a].old < next'
    BY <2>1, <2>5, <2>2, KnownBefore DEF NoToken
  <2>8. ASSUME NEW b \in Calls \ {a}
        PROVE  TextBefore(op'[b].text, next') /\ op'[b].new < next' /\ op'[b].old < next'
    <3>1. op'[b].text = op[b].text /\ op'[b].new = op[b].new /\ op'[b].old = op[b].old
      BY <1>8, RevokeOps DEF Tries, Stays
    <3>2. /\ TextBefore(op[b].text, next) /\ op[b].new < next /\ op[b].old < next
          /\ op[b].new \in Nat /\ op[b].old \in Nat
      BY DEF Aged, OpRecords, Tokens, NoToken
    <3> QED
      BY <2>1, <3>1, <3>2
  <2> QED
    BY <2>6, <2>7, <2>8 DEF AgedOps
<1>9. ASSUME NEW a \in Calls, NEW h \in {Server, a}, NEW t \in Tokens,
             RevokeAgain(a, h, t)
      PROVE  AgedOps'
  <2>1. \A b \in Calls : /\ op'[b].text \in {op[b].text, Empty}
                         /\ op'[b].new \in {op[b].new, NoToken}
                         /\ op'[b].old \in {op[b].old, NoToken}
    BY <1>9, NoOpIs DEF RevokeAgain, Stays, Relinks, Detaches
  <2>2. next' = next
    BY <1>9 DEF RevokeAgain, Replaces, Begins
  <2> QED
    BY <2>1, <2>2, SameOps
<1>10. ASSUME NEW a \in Calls, CliKilled(a)
       PROVE  AgedOps'
  <2>1. \A b \in Calls : /\ op'[b].text \in {op[b].text, Empty}
                         /\ op'[b].new \in {op[b].new, NoToken}
                         /\ op'[b].old \in {op[b].old, NoToken}
    BY <1>10, NoOpIs DEF CliKilled, Stays, Relinks, Detaches
  <2>2. next' = next
    BY <1>10 DEF CliKilled, Replaces, Begins
  <2> QED
    BY <2>1, <2>2, SameOps
<1>11. CASE ReloadAbsent
  <2>1. \A b \in Calls : /\ op'[b].text \in {op[b].text, Empty}
                         /\ op'[b].new \in {op[b].new, NoToken}
                         /\ op'[b].old \in {op[b].old, NoToken}
    BY <1>11, DetachedIs DEF ReloadAbsent, Stays, Relinks, Detaches
  <2>2. next' = next
    BY <1>11 DEF ReloadAbsent, Replaces, Begins
  <2> QED
    BY <2>1, <2>2, SameOps
<1>12. CASE ReloadRead
  BY <1>12, SameOps DEF ReloadRead
<1>13. CASE ReloadSwap
  <2>1. \A b \in Calls : /\ op'[b].text \in {op[b].text, Empty}
                         /\ op'[b].new \in {op[b].new, NoToken}
                         /\ op'[b].old \in {op[b].old, NoToken}
    BY <1>13, DetachedIs DEF ReloadSwap, Stays, Relinks, Detaches
  <2>2. next' = next
    BY <1>13 DEF ReloadSwap, Replaces, Begins
  <2> QED
    BY <2>1, <2>2, SameOps
<1>14. CASE ReloadFails
  BY <1>14, SameOps DEF ReloadFails
<1>15. CASE Crash
  <2>1. \A b \in Calls : /\ op'[b].text \in {op[b].text, Empty}
                         /\ op'[b].new \in {op[b].new, NoToken}
                         /\ op'[b].old \in {op[b].old, NoToken}
    BY <1>15, NoOpIs DEF Crash, Stays, Relinks, Detaches
  <2>2. next' = next
    BY <1>15 DEF Crash, Replaces, Begins
  <2> QED
    BY <2>1, <2>2, SameOps
<1>16. CASE Boot
  BY <1>16, SameOps DEF Boot
<1>17. ASSUME NEW f \in {Absent, Broken}, EditFile(f)
       PROVE  AgedOps'
  <2>1. \A b \in Calls : /\ op'[b].text \in {op[b].text, Empty}
                         /\ op'[b].new \in {op[b].new, NoToken}
                         /\ op'[b].old \in {op[b].old, NoToken}
    BY <1>17, EditOps DEF EditFile, Stays, Relinks, Detaches
  <2>2. next' = next
    BY <1>17 DEF EditFile, Replaces, Begins
  <2> QED
    BY <2>1, <2>2, SameOps
<1>18. CASE UNCHANGED vars
  BY <1>18 DEF vars, history, Aged, AgedOps, OpShape, Busy
<1> QED
  BY <1>1, <1>2, <1>3, <1>4, <1>5, <1>6, <1>7, <1>8, <1>9, <1>10, <1>11, <1>12, <1>13,
     <1>14, <1>15, <1>16, <1>17, <1>18 DEF Next

\* And what is remembered of tokens.
LEMMA TokensAge ==
  ASSUME Inv, [Next]_vars
  PROVE  AgedTokens'
<1>a. /\ Aged /\ TypeOK /\ next \in 1..MaxTokens + 1 /\ next \in Nat \ {0}
      /\ op \in [Calls -> OpRecords] /\ mem \in [Homes -> Memories]
      /\ \A a \in Calls : op[a].home \in Homes
  BY DEF Inv, Aged, TypeOK, OpRecords
<1>b. /\ \A x : TextBefore(x, next) => TextBefore(x, next + 1)
      /\ \A f : FileBefore(f, next) => FileBefore(f, next + 1)
      /\ \A m : MemoryBefore(m, next) => MemoryBefore(m, next + 1)
      /\ \A t \in Before(next) : t \in Before(next + 1)
  BY <1>a, Later
<1>c. TextBefore(Empty, next) /\ MemoryBefore(NoMemory, next)
  BY <1>a, EmptyOnes
<1> USE <1>a, <1>b, <1>c
<1> USE DEF AgedTokens, NoLedger, history
<1>1. ASSUME NEW a \in Calls, OpenTmp(a)
      PROVE  AgedTokens'
  BY <1>1 DEF OpenTmp, Aged, Begins, Interrupted, Replaces, MemoryBefore, Before,
     OpRecords, Tokens, NoToken
<1>2. ASSUME NEW a \in Calls, WriteTmp(a)
      PROVE  AgedTokens'
  BY <1>2 DEF WriteTmp, Aged, Begins, Interrupted, Replaces, MemoryBefore, Before,
     OpRecords, Tokens, NoToken
<1>3. ASSUME NEW a \in Calls, Retire(a)
      PROVE  AgedTokens'
  BY <1>3 DEF Retire, Aged, Begins, Interrupted, Replaces, MemoryBefore, Before,
     OpRecords, Tokens, NoToken
<1>4. ASSUME NEW a \in Calls, Acknowledge(a)
      PROVE  AgedTokens'
  <2>1. /\ op[a].new \in Before(next) \union {NoToken}
        /\ op[a].old \in Before(next) \union {NoToken}
    BY DEF Aged, Before, OpRecords, Tokens, NoToken
  <2>2. /\ next' = next /\ vouched' \subseteq vouched \union ({op[a].new} \ {NoToken})
        /\ ledger'.granted \subseteq ledger.granted \union ({op[a].new} \ {NoToken})
        /\ ledger'.retired \subseteq ledger.retired \union ({op[a].old} \ {NoToken})
    <3>1. \/ ledger' = ledger
          \/ ledger' = [ledger EXCEPT !.granted = @ \union ({op[a].new} \ {NoToken}),
                                      !.retired = @ \union ({op[a].old} \ {NoToken})]
      BY <1>4 DEF Acknowledge
    <3>2. \/ vouched' = vouched \union {op[a].new} /\ op[a].kind # "revoke"
          \/ vouched' = vouched
      BY <1>4 DEF Acknowledge
    <3>3. op[a].pc # "idle"
      BY <1>4 DEF Acknowledge, Replaces
    <3>4. op[a].kind # "revoke" => op[a].new # NoToken
      BY <1>4, <3>3 DEF Acknowledge, Inv, OpShape, OpRecords, Busy
    <3>5. next' = next
      BY <1>4 DEF Acknowledge
    <3> QED
      BY <3>1, <3>2, <3>4, <3>5 DEF TypeOK
  <2> QED
    BY <2>1, <2>2 DEF Aged
<1>5. ASSUME NEW a \in Calls, PersistFails(a)
      PROVE  AgedTokens'
  BY <1>5 DEF PersistFails, Aged, Begins, Interrupted, Replaces, MemoryBefore, Before,
     OpRecords, Tokens, NoToken
<1>6. ASSUME NEW a \in Calls, NEW h \in {Server, a}, Issue(a, h)
      PROVE  AgedTokens'
  BY <1>6 DEF Issue, Aged, Begins, Interrupted, Replaces, MemoryBefore, Before,
     OpRecords, Tokens, NoToken
<1>7. ASSUME NEW a \in Calls, NEW h \in {Server, a}, NEW t \in Tokens,
             Rotate(a, h, t)
      PROVE  AgedTokens'
  BY <1>7 DEF Rotate, Aged, Begins, Interrupted, Replaces, MemoryBefore, Before,
     OpRecords, Tokens, NoToken
<1>8. ASSUME NEW a \in Calls, NEW h \in {Server, a}, NEW t \in Tokens,
             Revoke(a, h, t)
      PROVE  AgedTokens'
  BY <1>8 DEF Revoke, Aged, Begins, Interrupted, Replaces, MemoryBefore, Before,
     OpRecords, Tokens, NoToken
<1>9. ASSUME NEW a \in Calls, NEW h \in {Server, a}, NEW t \in Tokens,
             RevokeAgain(a, h, t)
      PROVE  AgedTokens'
  <2>1. MemoryBefore(StoreOf(h), next) /\ t \in StoreOf(h).known
    BY <1>9, StoreIs DEF RevokeAgain
  <2>2. t \in Before(next)
    BY <2>1, KnownBefore
  <2>3. \/ ledger' = [ledger EXCEPT !.retired = @ \union {t},
                                    !.dropped = @ \union {ledger.origin[t]}]
        \/ ledger' = NoLedger
    BY <1>9 DEF RevokeAgain, Begins
  <2>4. /\ ledger'.granted \subseteq ledger.granted
        /\ ledger'.retired \subseteq ledger.retired \union {t}
    <3>1. CASE ledger' = NoLedger
      BY <3>1 DEF NoLedger
    <3>2. CASE ledger' = [ledger EXCEPT !.retired = @ \union {t},
                                        !.dropped = @ \union {ledger.origin[t]}]
      BY <3>2 DEF TypeOK
    <3> QED
      BY <2>3, <3>1, <3>2
  <2>5. next' = next /\ vouched' = vouched
    BY <1>9 DEF RevokeAgain
  <2> QED
    BY <2>2, <2>4, <2>5 DEF Aged
<1>10. ASSUME NEW a \in Calls, CliKilled(a)
       PROVE  AgedTokens'
  BY <1>10 DEF CliKilled, Aged, Begins, Interrupted, Replaces, MemoryBefore, Before,
     OpRecords, Tokens, NoToken
<1>11. CASE ReloadAbsent
  BY <1>11 DEF ReloadAbsent, Aged, Begins, Interrupted, Replaces, MemoryBefore, Before,
     OpRecords, Tokens, NoToken
<1>12. CASE ReloadRead
  BY <1>12 DEF ReloadRead, Aged, Begins, Interrupted, Replaces, MemoryBefore, Before,
     OpRecords, Tokens, NoToken
<1>13. CASE ReloadSwap
  BY <1>13 DEF ReloadSwap, Aged, Begins, Interrupted, Replaces, MemoryBefore, Before,
     OpRecords, Tokens, NoToken
<1>14. CASE ReloadFails
  BY <1>14 DEF ReloadFails, Aged, Begins, Interrupted, Replaces, MemoryBefore, Before,
     OpRecords, Tokens, NoToken
<1>15. CASE Crash
  BY <1>15 DEF Crash, Aged, Begins, Interrupted, Replaces, MemoryBefore, Before,
     OpRecords, Tokens, NoToken
<1>16. CASE Boot
  BY <1>16 DEF Boot, Aged, Begins, Interrupted, Replaces, MemoryBefore, Before,
     OpRecords, Tokens, NoToken
<1>17. ASSUME NEW f \in {Absent, Broken}, EditFile(f)
       PROVE  AgedTokens'
  BY <1>17 DEF EditFile, Aged, Begins, Interrupted, Replaces, MemoryBefore, Before,
     OpRecords, Tokens, NoToken
<1>18. CASE UNCHANGED vars
  BY <1>18 DEF vars, history, Aged, AgedOps, OpShape, Busy
<1> QED
  BY <1>1, <1>2, <1>3, <1>4, <1>5, <1>6, <1>7, <1>8, <1>9, <1>10, <1>11, <1>12, <1>13,
     <1>14, <1>15, <1>16, <1>17, <1>18 DEF Next

(* ---- Types ------------------------------------------------------------------------ *)

OfLedger ==
  [origin : [Tokens -> Tokens], granted : SUBSET Tokens, dropped : SUBSET Tokens,
   retired : SUBSET Tokens, orderly : BOOLEAN]

LEMMA NoLedgerTyped ==
  NoLedger \in OfLedger /\ [NoLedger EXCEPT !.orderly = TRUE, !.granted = {}] \in OfLedger
BY DEF NoLedger, OfLedger

LEMMA LedgerChanged ==
  ASSUME NEW l \in OfLedger, NEW t \in Tokens, NEW u \in Tokens,
         NEW S \in SUBSET Tokens, NEW R \in SUBSET Tokens
  PROVE  /\ [l EXCEPT !.origin[u] = l.origin[t]] \in OfLedger
         /\ [l EXCEPT !.dropped = @ \union {l.origin[t]}] \in OfLedger
         /\ [l EXCEPT !.retired = @ \union {t}, !.dropped = @ \union {l.origin[t]}] \in OfLedger
         /\ [l EXCEPT !.granted = @ \union S, !.retired = @ \union R] \in OfLedger
BY DEF OfLedger

LEMMA BegunText ==
  ASSUME Aged, NEW a \in Calls, NEW h \in {Server, a}, CanStart(a, h), next \in Tokens
  PROVE  Text(Added(StoreOf(h), next)) \in Texts
<1>1. MemoryBefore(StoreOf(h), next) /\ next \in Nat \ {0} /\ next + 1 \in 1..MaxTokens + 1
  BY StoreIs DEF Aged, Tokens
<1>2. MemoryBefore(Added(StoreOf(h), next), next + 1)
  BY <1>1, AddedIs
<1> QED
  BY <1>1, <1>2, TextIs, OfTypes

\* The records of operations are of their type.
LEMMA OpTyped ==
  ASSUME Inv, AgedMemories', [Next]_vars
  PROVE  op' \in [Calls -> OpRecords]
<1>a. /\ Aged /\ TypeOK /\ next \in 1..MaxTokens + 1 /\ next \in Nat \ {0}
      /\ op \in [Calls -> OpRecords] /\ mem \in [Homes -> Memories]
      /\ \A a \in Calls : op[a].home \in Homes
  BY DEF Inv, Aged, TypeOK, OpRecords
<1>b. /\ \A x : TextBefore(x, next) => TextBefore(x, next + 1)
      /\ \A f : FileBefore(f, next) => FileBefore(f, next + 1)
      /\ \A m : MemoryBefore(m, next) => MemoryBefore(m, next + 1)
      /\ \A t \in Before(next) : t \in Before(next + 1)
  BY <1>a, Later
<1>c. TextBefore(Empty, next) /\ MemoryBefore(NoMemory, next)
  BY <1>a, EmptyOnes
<1> USE <1>a, <1>b, <1>c
<1> USE DEF history
<1>1. ASSUME NEW a \in Calls, OpenTmp(a)
      PROVE  op' \in [Calls -> OpRecords]
  BY <1>1, OpChanged DEF OpenTmp
<1>2. ASSUME NEW a \in Calls, WriteTmp(a)
      PROVE  op' \in [Calls -> OpRecords]
  BY <1>2, OpChanged DEF WriteTmp
<1>3. ASSUME NEW a \in Calls, Retire(a)
      PROVE  op' \in [Calls -> OpRecords]
  <2>1. op' = [Relinked EXCEPT ![a] =
               [Persisting(op[a].home, Retired(a), "retire", op[a].new, op[a].old, op[a].live)
                  EXCEPT !.tried = op[a].tried]]
    BY <1>3 DEF Retire, Retired
  <2>2. /\ op[a].kind = "rotate" /\ MemoryBefore(mem[op[a].home], next)
        /\ op[a].old \in Before(next) /\ op[a].home \in Homes
        /\ op[a].new \in Tokens \union {NoToken} /\ op[a].old \in Tokens \union {NoToken}
        /\ op[a].live \in BOOLEAN /\ op[a].tried \in BOOLEAN
    BY <1>3 DEF Retire, Inv, Aged, OpShape, Before, OpRecords, Tokens, NoToken
  <2>3. Text(Retired(a)) \in Texts
    <3>1. MemoryBefore(Retired(a), next)
      BY <2>2, KilledIs DEF Retired
    <3> QED
      BY <3>1, TextIs, OfTypes
  <2>4. [Persisting(op[a].home, Retired(a), "retire", op[a].new, op[a].old, op[a].live)
           EXCEPT !.tried = op[a].tried] \in OpRecords
    BY <2>2, <2>3, PersistingTyped
  <2>5. Relinked \in [Calls -> OpRecords]
    BY OpChanged DEF Relinked
  <2> QED
    BY <2>1, <2>4, <2>5
<1>4. ASSUME NEW a \in Calls, Acknowledge(a)
      PROVE  op' \in [Calls -> OpRecords]
  <2>1. Relinked \in [Calls -> OpRecords]
    BY OpChanged DEF Relinked
  <2> QED
    BY <1>4, <2>1, NoOpIs DEF Acknowledge
<1>5. ASSUME NEW a \in Calls, PersistFails(a)
      PROVE  op' \in [Calls -> OpRecords]
  BY <1>5, NoOpIs DEF PersistFails
<1>6. ASSUME NEW a \in Calls, NEW h \in {Server, a}, Issue(a, h)
      PROVE  op' \in [Calls -> OpRecords]
  <2>1. op' = [op EXCEPT ![a] =
               Persisting(h, Added(StoreOf(h), next), "issue", next, NoToken, TRUE)]
    BY <1>6 DEF Issue
  <2>2. Text(Added(StoreOf(h), next)) \in Texts
    BY <1>6, BegunText DEF Issue
  <2>3. Persisting(h, Added(StoreOf(h), next), "issue", next, NoToken, TRUE) \in OpRecords
    BY <1>6, <2>2, PersistingTyped DEF Issue, Homes
  <2> QED
    BY <2>1, <2>3
<1>7. ASSUME NEW a \in Calls, NEW h \in {Server, a}, NEW t \in Tokens,
             Rotate(a, h, t)
      PROVE  op' \in [Calls -> OpRecords]
  <2>1. op' = [Tried(t) EXCEPT ![a] =
               Persisting(h, Added(StoreOf(h), next), "rotate", next, t, TRUE)]
    BY <1>7 DEF Rotate
  <2>2. Text(Added(StoreOf(h), next)) \in Texts
    BY <1>7, BegunText DEF Rotate
  <2>3. Persisting(h, Added(StoreOf(h), next), "rotate", next, t, TRUE) \in OpRecords
    BY <1>7, <2>2, PersistingTyped DEF Rotate, Homes
  <2>4. Tried(t) \in [Calls -> OpRecords]
    BY OpChanged DEF Tried
  <2> QED
    BY <2>1, <2>3, <2>4
<1>8. ASSUME NEW a \in Calls, NEW h \in {Server, a}, NEW t \in Tokens,
             Revoke(a, h, t)
      PROVE  op' \in [Calls -> OpRecords]
  <2>1. op' = [Tried(t) EXCEPT ![a] =
               Persisting(h, Killed(StoreOf(h), t), "revoke", NoToken, t, TRUE)]
    BY <1>8 DEF Revoke
  <2>2. Text(Killed(StoreOf(h), t)) \in Texts
    <3>1. MemoryBefore(StoreOf(h), next) /\ t \in StoreOf(h).known
      BY <1>8, StoreIs DEF Revoke
    <3>2. t \in Before(next)
      BY <3>1, KnownBefore
    <3>3. MemoryBefore(Killed(StoreOf(h), t), next)
      BY <3>1, <3>2, KilledIs
    <3> QED
      BY <3>3, TextIs, OfTypes
  <2>3. Persisting(h, Killed(StoreOf(h), t), "revoke", NoToken, t, TRUE) \in OpRecords
    BY <1>8, <2>2, PersistingTyped DEF Revoke, Homes
  <2>4. Tried(t) \in [Calls -> OpRecords]
    BY OpChanged DEF Tried
  <2> QED
    BY <2>1, <2>3, <2>4
<1>9. ASSUME NEW a \in Calls, NEW h \in {Server, a}, NEW t \in Tokens,
             RevokeAgain(a, h, t)
      PROVE  op' \in [Calls -> OpRecords]
  BY <1>9 DEF RevokeAgain
<1>10. ASSUME NEW a \in Calls, CliKilled(a)
       PROVE  op' \in [Calls -> OpRecords]
  BY <1>10, NoOpIs DEF CliKilled
<1>11. CASE ReloadAbsent
  BY <1>11, OpChanged DEF ReloadAbsent, Detached
<1>12. CASE ReloadRead
  BY <1>12 DEF ReloadRead
<1>13. CASE ReloadSwap
  BY <1>13, OpChanged DEF ReloadSwap, Detached
<1>14. CASE ReloadFails
  BY <1>14 DEF ReloadFails
<1>15. CASE Crash
  BY <1>15, NoOpIs DEF Crash
<1>16. CASE Boot
  BY <1>16 DEF Boot
<1>17. ASSUME NEW f \in {Absent, Broken}, EditFile(f)
       PROVE  op' \in [Calls -> OpRecords]
  BY <1>17, OpChanged DEF EditFile
<1>18. CASE UNCHANGED vars
  BY <1>18 DEF vars, history, Aged, AgedOps, OpShape, Busy
<1> QED
  BY <1>1, <1>2, <1>3, <1>4, <1>5, <1>6, <1>7, <1>8, <1>9, <1>10, <1>11, <1>12, <1>13,
     <1>14, <1>15, <1>16, <1>17, <1>18 DEF Next

\* So are the memories.
LEMMA MemTyped ==
  ASSUME Inv, AgedMemories', [Next]_vars
  PROVE  mem' \in [Homes -> Memories]
<1>a. /\ Aged /\ TypeOK /\ next \in 1..MaxTokens + 1 /\ next \in Nat \ {0}
      /\ op \in [Calls -> OpRecords] /\ mem \in [Homes -> Memories]
      /\ \A a \in Calls : op[a].home \in Homes
  BY DEF Inv, Aged, TypeOK, OpRecords
<1>b. /\ \A x : TextBefore(x, next) => TextBefore(x, next + 1)
      /\ \A f : FileBefore(f, next) => FileBefore(f, next + 1)
      /\ \A m : MemoryBefore(m, next) => MemoryBefore(m, next + 1)
      /\ \A t \in Before(next) : t \in Before(next + 1)
  BY <1>a, Later
<1>c. TextBefore(Empty, next) /\ MemoryBefore(NoMemory, next)
  BY <1>a, EmptyOnes
<1>d. NoMemory \in Memories
  BY EmptyOnes, OfTypes
<1> USE <1>d, <1>a, <1>b, <1>c
<1> USE DEF history
<1>1. ASSUME NEW a \in Calls, OpenTmp(a)
      PROVE  mem' \in [Homes -> Memories]
  BY <1>1 DEF OpenTmp
<1>2. ASSUME NEW a \in Calls, WriteTmp(a)
      PROVE  mem' \in [Homes -> Memories]
  BY <1>2 DEF WriteTmp
<1>3. ASSUME NEW a \in Calls, Retire(a)
      PROVE  mem' \in [Homes -> Memories]
  <2>1. mem' \in [Homes -> Memories]
    <3>1. DOMAIN mem' = Homes /\ mem' = [h2 \in Homes |-> mem'[h2]]
      BY <1>3 DEF Retire
    <3> QED
      BY <3>1, OfTypes DEF AgedMemories
  <2> QED
    BY <2>1
<1>4. ASSUME NEW a \in Calls, Acknowledge(a)
      PROVE  mem' \in [Homes -> Memories]
  <2>1. mem' \in [Homes -> Memories]
    <3>1. DOMAIN mem' = Homes /\ mem' = [h2 \in Homes |-> mem'[h2]]
      BY <1>4 DEF Acknowledge, Ended
    <3> QED
      BY <3>1, OfTypes DEF AgedMemories
  <2> QED
    BY <2>1
<1>5. ASSUME NEW a \in Calls, PersistFails(a)
      PROVE  mem' \in [Homes -> Memories]
  <2>1. mem' \in [Homes -> Memories]
    <3>1. DOMAIN mem' = Homes /\ mem' = [h2 \in Homes |-> mem'[h2]]
      BY <1>5 DEF PersistFails, Ended
    <3> QED
      BY <3>1, OfTypes DEF AgedMemories
  <2> QED
    BY <2>1
<1>6. ASSUME NEW a \in Calls, NEW h \in {Server, a}, Issue(a, h)
      PROVE  mem' \in [Homes -> Memories]
  <2>1. mem' \in [Homes -> Memories]
    <3>1. DOMAIN mem' = Homes /\ mem' = [h2 \in Homes |-> mem'[h2]]
      BY <1>6 DEF Issue
    <3> QED
      BY <3>1, OfTypes DEF AgedMemories
  <2> QED
    BY <2>1
<1>7. ASSUME NEW a \in Calls, NEW h \in {Server, a}, NEW t \in Tokens,
             Rotate(a, h, t)
      PROVE  mem' \in [Homes -> Memories]
  <2>1. mem' \in [Homes -> Memories]
    <3>1. DOMAIN mem' = Homes /\ mem' = [h2 \in Homes |-> mem'[h2]]
      BY <1>7 DEF Rotate
    <3> QED
      BY <3>1, OfTypes DEF AgedMemories
  <2> QED
    BY <2>1
<1>8. ASSUME NEW a \in Calls, NEW h \in {Server, a}, NEW t \in Tokens,
             Revoke(a, h, t)
      PROVE  mem' \in [Homes -> Memories]
  <2>1. mem' \in [Homes -> Memories]
    <3>1. DOMAIN mem' = Homes /\ mem' = [h2 \in Homes |-> mem'[h2]]
      BY <1>8 DEF Revoke
    <3> QED
      BY <3>1, OfTypes DEF AgedMemories
  <2> QED
    BY <2>1
<1>9. ASSUME NEW a \in Calls, NEW h \in {Server, a}, NEW t \in Tokens,
             RevokeAgain(a, h, t)
      PROVE  mem' \in [Homes -> Memories]
  BY <1>9 DEF RevokeAgain
<1>10. ASSUME NEW a \in Calls, CliKilled(a)
       PROVE  mem' \in [Homes -> Memories]
  BY <1>10 DEF CliKilled
<1>11. CASE ReloadAbsent
  BY <1>11 DEF ReloadAbsent
<1>12. CASE ReloadRead
  BY <1>12 DEF ReloadRead
<1>13. CASE ReloadSwap
  <2>1. mem' \in [Homes -> Memories]
    <3>1. DOMAIN mem' = Homes /\ mem' = [h2 \in Homes |-> mem'[h2]]
      BY <1>13 DEF ReloadSwap
    <3> QED
      BY <3>1, OfTypes DEF AgedMemories
  <2> QED
    BY <2>1
<1>14. CASE ReloadFails
  BY <1>14 DEF ReloadFails
<1>15. CASE Crash
  BY <1>15 DEF Crash
<1>16. CASE Boot
  <2>1. mem' \in [Homes -> Memories]
    <3>1. DOMAIN mem' = Homes /\ mem' = [h2 \in Homes |-> mem'[h2]]
      BY <1>16 DEF Boot
    <3> QED
      BY <3>1, OfTypes DEF AgedMemories
  <2> QED
    BY <2>1
<1>17. ASSUME NEW f \in {Absent, Broken}, EditFile(f)
       PROVE  mem' \in [Homes -> Memories]
  BY <1>17 DEF EditFile
<1>18. CASE UNCHANGED vars
  BY <1>18 DEF vars, history, Aged, AgedOps, OpShape, Busy
<1> QED
  BY <1>1, <1>2, <1>3, <1>4, <1>5, <1>6, <1>7, <1>8, <1>9, <1>10, <1>11, <1>12, <1>13,
     <1>14, <1>15, <1>16, <1>17, <1>18 DEF Next

\* So is the ledger.
LEMMA LedgerTyped ==
  ASSUME Inv, [Next]_vars
  PROVE  ledger' \in OfLedger
<1>a. ledger \in OfLedger /\ op \in [Calls -> OpRecords] /\ NoLedger \in OfLedger
  BY NoLedgerTyped DEF Inv, TypeOK, OfLedger
<1> USE <1>a
<1> USE DEF history
<1>1. ASSUME NEW a \in Calls, OpenTmp(a)
      PROVE  ledger' \in OfLedger
  BY <1>1 DEF OpenTmp, Interrupted
<1>2. ASSUME NEW a \in Calls, WriteTmp(a)
      PROVE  ledger' \in OfLedger
  BY <1>2 DEF WriteTmp, Interrupted
<1>3. ASSUME NEW a \in Calls, Retire(a)
      PROVE  ledger' \in OfLedger
  BY <1>3 DEF Retire, Interrupted
<1>4. ASSUME NEW a \in Calls, Acknowledge(a)
      PROVE  ledger' \in OfLedger
  <2>1. {op[a].new} \ {NoToken} \in SUBSET Tokens /\ {op[a].old} \ {NoToken} \in SUBSET Tokens
    BY DEF OpRecords
  <2>2. [ledger EXCEPT !.granted = @ \union ({op[a].new} \ {NoToken}),
                       !.retired = @ \union ({op[a].old} \ {NoToken})] \in OfLedger
    <3>1. PICK t \in Tokens : TRUE
      BY DEF Tokens
    <3> QED
      BY <2>1, <3>1, LedgerChanged
  <2> QED
    BY <1>4, <2>2 DEF Acknowledge
<1>5. ASSUME NEW a \in Calls, PersistFails(a)
      PROVE  ledger' \in OfLedger
  BY <1>5 DEF PersistFails, Interrupted
<1>6. ASSUME NEW a \in Calls, NEW h \in {Server, a}, Issue(a, h)
      PROVE  ledger' \in OfLedger
  BY <1>6 DEF Issue, Begins
<1>7. ASSUME NEW a \in Calls, NEW h \in {Server, a}, NEW t \in Tokens,
             Rotate(a, h, t)
      PROVE  ledger' \in OfLedger
  BY <1>7, LedgerChanged DEF Rotate, Begins
<1>8. ASSUME NEW a \in Calls, NEW h \in {Server, a}, NEW t \in Tokens,
             Revoke(a, h, t)
      PROVE  ledger' \in OfLedger
  BY <1>8, LedgerChanged DEF Revoke, Begins
<1>9. ASSUME NEW a \in Calls, NEW h \in {Server, a}, NEW t \in Tokens,
             RevokeAgain(a, h, t)
      PROVE  ledger' \in OfLedger
  BY <1>9, LedgerChanged DEF RevokeAgain, Begins
<1>10. ASSUME NEW a \in Calls, CliKilled(a)
       PROVE  ledger' \in OfLedger
  BY <1>10 DEF CliKilled, Interrupted
<1>11. CASE ReloadAbsent
  BY <1>11 DEF ReloadAbsent, Interrupted
<1>12. CASE ReloadRead
  BY <1>12 DEF ReloadRead, Interrupted
<1>13. CASE ReloadSwap
  BY <1>13 DEF ReloadSwap, Interrupted
<1>14. CASE ReloadFails
  BY <1>14 DEF ReloadFails, Interrupted
<1>15. CASE Crash
  BY <1>15 DEF Crash, Interrupted
<1>16. CASE Boot
  BY <1>16 DEF Boot, Interrupted
<1>17. ASSUME NEW f \in {Absent, Broken}, EditFile(f)
       PROVE  ledger' \in OfLedger
  BY <1>17 DEF EditFile, Interrupted
<1>18. CASE UNCHANGED vars
  BY <1>18 DEF vars, history, Aged, AgedOps, OpShape, Busy
<1> QED
  BY <1>1, <1>2, <1>3, <1>4, <1>5, <1>6, <1>7, <1>8, <1>9, <1>10, <1>11, <1>12, <1>13,
     <1>14, <1>15, <1>16, <1>17, <1>18 DEF Next

LEMMA AgedIs == AgedMemories' /\ AgedFiles' /\ AgedOps' /\ AgedTokens' => Aged'
BY DEF Aged, AgedMemories, AgedFiles, AgedOps, AgedTokens

\* Everything ages with the next token.
LEMMA Ages ==
  ASSUME Inv, [Next]_vars
  PROVE  Aged' /\ AgedMemories'
BY AgedIs, MemoriesAge, FilesAge, OpsAge, TokensAge

LEMMA BeginsTyped ==
  ASSUME reload \in [pc : {"idle", "read"}, text : Files, clean : BOOLEAN],
         races \in 0..MaxRaces, NEW a, NEW h, NEW entries, Begins(a, h, entries)
  PROVE  /\ synced' \in BOOLEAN /\ races' \in 0..MaxRaces
         /\ reload' \in [pc : {"idle", "read"}, text : Files, clean : BOOLEAN]
<1>1. synced' = (synced /\ Quiet(a))
  BY DEF Begins
<1>2. synced' \in BOOLEAN
  BY <1>1
<1>3. races' = races \/ (races < MaxRaces /\ races' = races + 1)
  BY DEF Begins
<1>4. reload' = [reload EXCEPT !.clean = FALSE]
  BY DEF Begins
<1>5. reload' \in [pc : {"idle", "read"}, text : Files, clean : BOOLEAN]
  BY <1>4
<1>6. races' \in 0..MaxRaces
  BY <1>3
<1> QED
  BY <1>2, <1>5, <1>6

\* So is everything else.
LEMMA RestTyped ==
  ASSUME Inv, Aged', [Next]_vars
  PROVE  /\ up' \in BOOLEAN /\ synced' \in BOOLEAN
          /\ reload'.pc \in {"idle", "read"} /\ reload'.clean \in BOOLEAN
          /\ reload' \in [pc : {"idle", "read"}, text : Files, clean : BOOLEAN]
          /\ races' \in 0..MaxRaces /\ edits' \in 0..MaxEdits
<1>a. /\ TypeOK /\ up \in BOOLEAN /\ synced \in BOOLEAN
      /\ reload \in [pc : {"idle", "read"}, text : Files, clean : BOOLEAN]
      /\ races \in 0..MaxRaces /\ edits \in 0..MaxEdits
      /\ file \in Files
  BY DEF Inv, TypeOK
<1> USE <1>a
<1> USE DEF history
<1>1. ASSUME NEW a \in Calls, OpenTmp(a)
      PROVE  /\ up' \in BOOLEAN /\ synced' \in BOOLEAN
            /\ reload'.pc \in {"idle", "read"} /\ reload'.clean \in BOOLEAN
            /\ reload' \in [pc : {"idle", "read"}, text : Files, clean : BOOLEAN]
            /\ races' \in 0..MaxRaces /\ edits' \in 0..MaxEdits
  BY <1>1 DEF OpenTmp, Begins, Replaces, NoReload, Files, AllIdle, Quiet
<1>2. ASSUME NEW a \in Calls, WriteTmp(a)
      PROVE  /\ up' \in BOOLEAN /\ synced' \in BOOLEAN
            /\ reload'.pc \in {"idle", "read"} /\ reload'.clean \in BOOLEAN
            /\ reload' \in [pc : {"idle", "read"}, text : Files, clean : BOOLEAN]
            /\ races' \in 0..MaxRaces /\ edits' \in 0..MaxEdits
  BY <1>2 DEF WriteTmp, Begins, Replaces, NoReload, Files, AllIdle, Quiet
<1>3. ASSUME NEW a \in Calls, Retire(a)
      PROVE  /\ up' \in BOOLEAN /\ synced' \in BOOLEAN
            /\ reload'.pc \in {"idle", "read"} /\ reload'.clean \in BOOLEAN
            /\ reload' \in [pc : {"idle", "read"}, text : Files, clean : BOOLEAN]
            /\ races' \in 0..MaxRaces /\ edits' \in 0..MaxEdits
  BY <1>3 DEF Retire, Begins, Replaces, NoReload, Files, AllIdle, Quiet
<1>4. ASSUME NEW a \in Calls, Acknowledge(a)
      PROVE  /\ up' \in BOOLEAN /\ synced' \in BOOLEAN
            /\ reload'.pc \in {"idle", "read"} /\ reload'.clean \in BOOLEAN
            /\ reload' \in [pc : {"idle", "read"}, text : Files, clean : BOOLEAN]
            /\ races' \in 0..MaxRaces /\ edits' \in 0..MaxEdits
  BY <1>4 DEF Acknowledge, Begins, Replaces, NoReload, Files, AllIdle, Quiet
<1>5. ASSUME NEW a \in Calls, PersistFails(a)
      PROVE  /\ up' \in BOOLEAN /\ synced' \in BOOLEAN
            /\ reload'.pc \in {"idle", "read"} /\ reload'.clean \in BOOLEAN
            /\ reload' \in [pc : {"idle", "read"}, text : Files, clean : BOOLEAN]
            /\ races' \in 0..MaxRaces /\ edits' \in 0..MaxEdits
  BY <1>5 DEF PersistFails, Begins, Replaces, NoReload, Files, AllIdle, Quiet
<1>6. ASSUME NEW a \in Calls, NEW h \in {Server, a}, Issue(a, h)
      PROVE  /\ up' \in BOOLEAN /\ synced' \in BOOLEAN
            /\ reload'.pc \in {"idle", "read"} /\ reload'.clean \in BOOLEAN
            /\ reload' \in [pc : {"idle", "read"}, text : Files, clean : BOOLEAN]
            /\ races' \in 0..MaxRaces /\ edits' \in 0..MaxEdits
  <2>1. PICK entries : Begins(a, h, entries)
    BY <1>6 DEF Issue
  <2>2. edits' = edits /\ up' = up
    BY <1>6 DEF Issue
  <2> QED
    BY <2>1, <2>2, BeginsTyped
<1>7. ASSUME NEW a \in Calls, NEW h \in {Server, a}, NEW t \in Tokens,
             Rotate(a, h, t)
      PROVE  /\ up' \in BOOLEAN /\ synced' \in BOOLEAN
            /\ reload'.pc \in {"idle", "read"} /\ reload'.clean \in BOOLEAN
            /\ reload' \in [pc : {"idle", "read"}, text : Files, clean : BOOLEAN]
            /\ races' \in 0..MaxRaces /\ edits' \in 0..MaxEdits
  <2>1. PICK entries : Begins(a, h, entries)
    BY <1>7 DEF Rotate
  <2>2. edits' = edits /\ up' = up
    BY <1>7 DEF Rotate
  <2> QED
    BY <2>1, <2>2, BeginsTyped
<1>8. ASSUME NEW a \in Calls, NEW h \in {Server, a}, NEW t \in Tokens,
             Revoke(a, h, t)
      PROVE  /\ up' \in BOOLEAN /\ synced' \in BOOLEAN
            /\ reload'.pc \in {"idle", "read"} /\ reload'.clean \in BOOLEAN
            /\ reload' \in [pc : {"idle", "read"}, text : Files, clean : BOOLEAN]
            /\ races' \in 0..MaxRaces /\ edits' \in 0..MaxEdits
  <2>1. PICK entries : Begins(a, h, entries)
    BY <1>8 DEF Revoke
  <2>2. edits' = edits /\ up' = up
    BY <1>8 DEF Revoke
  <2> QED
    BY <2>1, <2>2, BeginsTyped
<1>9. ASSUME NEW a \in Calls, NEW h \in {Server, a}, NEW t \in Tokens,
             RevokeAgain(a, h, t)
      PROVE  /\ up' \in BOOLEAN /\ synced' \in BOOLEAN
            /\ reload'.pc \in {"idle", "read"} /\ reload'.clean \in BOOLEAN
            /\ reload' \in [pc : {"idle", "read"}, text : Files, clean : BOOLEAN]
            /\ races' \in 0..MaxRaces /\ edits' \in 0..MaxEdits
  <2>1. PICK entries : Begins(a, h, entries)
    BY <1>9 DEF RevokeAgain
  <2>2. edits' = edits /\ up' = up
    BY <1>9 DEF RevokeAgain
  <2> QED
    BY <2>1, <2>2, BeginsTyped
<1>10. ASSUME NEW a \in Calls, CliKilled(a)
       PROVE  /\ up' \in BOOLEAN /\ synced' \in BOOLEAN
             /\ reload'.pc \in {"idle", "read"} /\ reload'.clean \in BOOLEAN
             /\ reload' \in [pc : {"idle", "read"}, text : Files, clean : BOOLEAN]
             /\ races' \in 0..MaxRaces /\ edits' \in 0..MaxEdits
  BY <1>10 DEF CliKilled, Begins, Replaces, NoReload, Files, AllIdle, Quiet
<1>11. CASE ReloadAbsent
  BY <1>11 DEF ReloadAbsent, Begins, Replaces, NoReload, Files, AllIdle, Quiet
<1>12. CASE ReloadRead
  BY <1>12 DEF ReloadRead, Begins, Replaces, NoReload, Files, AllIdle, Quiet
<1>13. CASE ReloadSwap
  BY <1>13 DEF ReloadSwap, Begins, Replaces, NoReload, Files, AllIdle, Quiet
<1>14. CASE ReloadFails
  BY <1>14 DEF ReloadFails, Begins, Replaces, NoReload, Files, AllIdle, Quiet
<1>15. CASE Crash
  BY <1>15 DEF Crash, Begins, Replaces, NoReload, Files, AllIdle, Quiet
<1>16. CASE Boot
  BY <1>16 DEF Boot, Begins, Replaces, NoReload, Files, AllIdle, Quiet
<1>17. ASSUME NEW f \in {Absent, Broken}, EditFile(f)
       PROVE  /\ up' \in BOOLEAN /\ synced' \in BOOLEAN
             /\ reload'.pc \in {"idle", "read"} /\ reload'.clean \in BOOLEAN
             /\ reload' \in [pc : {"idle", "read"}, text : Files, clean : BOOLEAN]
             /\ races' \in 0..MaxRaces /\ edits' \in 0..MaxEdits
  <2>1. reload' = [reload EXCEPT !.clean = FALSE] /\ edits < MaxEdits /\ edits' = edits + 1
    BY <1>17 DEF EditFile
  <2>2. synced' = FALSE /\ up' = up /\ races' = races
    BY <1>17 DEF EditFile
  <2>3. reload' \in [pc : {"idle", "read"}, text : Files, clean : BOOLEAN]
    BY <2>1
  <2>4. edits' \in 0..MaxEdits
    BY <2>1
  <2> QED
    BY <2>2, <2>3, <2>4
<1>18. CASE UNCHANGED vars
  BY <1>18 DEF vars, history, Aged, AgedOps, OpShape, Busy
<1> QED
  BY <1>1, <1>2, <1>3, <1>4, <1>5, <1>6, <1>7, <1>8, <1>9, <1>10, <1>11, <1>12, <1>13,
     <1>14, <1>15, <1>16, <1>17, <1>18 DEF Next

LEMMA Typed ==
  ASSUME Inv, [Next]_vars
  PROVE  TypeOK'
<1>1. Aged' /\ AgedMemories'
  BY Ages
<1>2. next' \in 1..MaxTokens + 1
  BY <1>1 DEF Aged
<1>3. file' \in Files /\ tmp' \in Files
  BY <1>1, <1>2, OfTypes DEF Aged
<1>4. vouched' \in SUBSET Tokens
  <2>1. vouched' \subseteq Before(next')
    BY <1>1 DEF Aged, Before
  <2>2. ASSUME NEW n \in 1..MaxTokens + 1
        PROVE  Before(n) \subseteq Tokens
    BY DEF Before, Tokens
  <2> QED
    BY <1>2, <2>1, <2>2
<1> QED
  BY <1>1, <1>2, <1>3, <1>4, OpTyped, MemTyped, LedgerTyped, RestTyped DEF TypeOK,
     OfLedger

(* ---- What operations are --------------------------------------------------------- *)

\* What OpShape says of one operation alone.
Shaped(o, a) ==
  /\ o.home \in {Server, a}
  /\ o.pc # "idle" <=> o.kind # "none"
  /\ o.pc \in {"idle", "mkdir"} <=> o.where = "none"
  /\ o.new # NoToken <=> o.kind \in {"issue", "rotate", "retire"}
  /\ o.old # NoToken <=> o.kind \in {"rotate", "retire", "revoke"}
  /\ o.kind \in {"rotate", "retire"} => o.new # o.old
  /\ o.pc = "idle" => o.home = Server

LEMMA OpShapeIs ==
  OpShape <=> \A a \in Calls : /\ Shaped(op[a], a)
                               /\ Busy(a) /\ op[a].home = Server => up
                               /\ op[a].new # NoToken =>
                                    \A b \in Calls \ {a} : op[b].new # op[a].new
BY DEF OpShape, Shaped, Busy

LEMMA OpShapeNext ==
  ASSUME \A a \in Calls : /\ Shaped(op'[a], a)
                          /\ Busy(a)' /\ op'[a].home = Server => up'
                          /\ op'[a].new # NoToken =>
                               \A b \in Calls \ {a} : op'[b].new # op'[a].new
  PROVE  OpShape'
BY DEF OpShape, Shaped, Busy

\* Nobody else changes an operation but for this.
Aside(b) ==
  /\ Stays(b)
  /\ op'[b].where = "none" <=> op[b].where = "none"

LEMMA AsideIs ==
  ASSUME op \in [Calls -> OpRecords], NEW b \in Calls,
         \/ op'[b] = op[b]
         \/ Relinks(b)
         \/ \E t : Tries(b, t)
         \/ Detaches(b)
         \/ /\ Stays(b)
            /\ \/ op'[b].where = op[b].where
               \/ op'[b].where = "gone" /\ op[b].where = "file"
  PROVE  Aside(b)
<1>1. op[b].where \in {"none", "tmp", "file", "gone"}
  BY DEF OpRecords
<1>2. Moved(op[b].where) = "none" <=> op[b].where = "none"
  BY <1>1 DEF Moved
<1> QED
  BY <1>1, <1>2 DEF Aside, Stays, Relinks, Tries, Detaches

\* One operation is changed, and has the token it had, none, or the next.
LEMMA OneChanged ==
  ASSUME OpShape, Aged, op \in [Calls -> OpRecords], NEW a \in Calls,
         \A b \in Calls \ {a} : Aside(b),
         op'[a].new \in {op[a].new, next, NoToken},
         Shaped(op'[a], a),
         up' = up, Busy(a)' /\ op'[a].home = Server => up
  PROVE  OpShape'
<1>1. ASSUME NEW b \in Calls \ {a}
      PROVE  /\ Shaped(op'[b], b) /\ (Busy(b)' /\ op'[b].home = Server => up')
             /\ op'[b].new = op[b].new
  BY DEF OpShape, Shaped, Busy, Aside, Stays
<1>2. ASSUME NEW b \in Calls
      PROVE  op[b].new < next /\ op[b].new \in Nat /\ next \in Nat
  BY DEF Aged, OpRecords, Tokens, NoToken
<1>3. \A b, c \in Calls : b # c /\ op[b].new # NoToken => op[b].new # op[c].new
  BY DEF OpShape
<1>4. ASSUME NEW b \in Calls, NEW c \in Calls \ {b}, op'[b].new # NoToken
      PROVE  op'[c].new # op'[b].new
  BY <1>1, <1>2, <1>3, <1>4
<1>5. ASSUME NEW b \in Calls
      PROVE  Shaped(op'[b], b) /\ (Busy(b)' /\ op'[b].home = Server => up')
  BY <1>1
<1> QED
  BY <1>4, <1>5, OpShapeNext

\* None is.
LEMMA NoneChanged ==
  ASSUME OpShape, \A b \in Calls : Aside(b), up' = up
  PROVE  OpShape'
<1>1. ASSUME NEW b \in Calls
      PROVE  /\ Shaped(op'[b], b) /\ (Busy(b)' /\ op'[b].home = Server => up')
             /\ op'[b].new = op[b].new
  BY DEF OpShape, Shaped, Busy, Aside, Stays
<1>2. \A b, c \in Calls : b # c /\ op[b].new # NoToken => op[b].new # op[c].new
  BY DEF OpShape
<1> QED
  BY <1>1, <1>2, OpShapeNext

\* Operations keep their shape.
LEMMA OpShaped ==
  ASSUME Inv, [Next]_vars
  PROVE  OpShape'
<1>a. /\ OpShape /\ Aged /\ op \in [Calls -> OpRecords] /\ \A a \in Calls : Shaped(op[a], a)
      /\ \A a \in Calls : Busy(a) /\ op[a].home = Server => up
  BY DEF Inv, TypeOK, OpShape, Shaped, Busy
<1> USE <1>a
<1> USE DEF history
<1>1. ASSUME NEW a \in Calls, OpenTmp(a)
      PROVE  OpShape'
  <2>1. \A b \in Calls \ {a} : Aside(b)
    BY <1>1, OpenOps, AsideIs DEF OpenTmp
  <2>2. op[a].pc = "mkdir" /\ up' = up
    BY <1>1 DEF OpenTmp
  <2>3. /\ op'[a].pc = "write" /\ op'[a].where = "tmp" /\ op'[a].kind = op[a].kind
        /\ op'[a].home = op[a].home /\ op'[a].new = op[a].new /\ op'[a].old = op[a].old
    BY <1>1, OpenOps
  <2>4. Busy(a) /\ Busy(a)' /\ Shaped(op[a], a)
    BY <2>2, <2>3 DEF Busy
  <2>5. Shaped(op'[a], a)
    BY <2>2, <2>3, <2>4 DEF Shaped
  <2> QED
    BY <2>1, <2>2, <2>3, <2>4, <2>5, OneChanged
<1>2. ASSUME NEW a \in Calls, WriteTmp(a)
      PROVE  OpShape'
  <2>1. \A b \in Calls \ {a} : Aside(b)
    BY <1>2, WriteOps, AsideIs DEF WriteTmp
  <2>2. op[a].pc = "write" /\ up' = up
    BY <1>2 DEF WriteTmp
  <2>3. /\ op'[a].pc = "rename" /\ op'[a].where = op[a].where /\ op'[a].kind = op[a].kind
        /\ op'[a].home = op[a].home /\ op'[a].new = op[a].new /\ op'[a].old = op[a].old
    BY <1>2, WriteOps
  <2>4. Busy(a) /\ Busy(a)' /\ Shaped(op[a], a)
    BY <2>2, <2>3 DEF Busy
  <2>5. Shaped(op'[a], a)
    BY <2>2, <2>3, <2>4 DEF Shaped
  <2> QED
    BY <2>1, <2>2, <2>3, <2>4, <2>5, OneChanged
<1>3. ASSUME NEW a \in Calls, Retire(a)
      PROVE  OpShape'
  <2>1. \A b \in Calls \ {a} : Aside(b)
    BY <1>3, RetireOps, AsideIs DEF Retire
  <2>2. op[a].pc = "rename" /\ up' = up /\ op[a].kind = "rotate"
    BY <1>3 DEF Retire, Replaces
  <2>3. /\ op'[a].pc = "mkdir" /\ op'[a].where = "none" /\ op'[a].kind = "retire"
        /\ op'[a].home = op[a].home /\ op'[a].new = op[a].new /\ op'[a].old = op[a].old
    BY <1>3, RetireOps
  <2>4. Busy(a) /\ Busy(a)' /\ Shaped(op[a], a)
    BY <2>2, <2>3 DEF Busy
  <2>5. Shaped(op'[a], a)
    BY <2>2, <2>3, <2>4 DEF Shaped
  <2> QED
    BY <2>1, <2>2, <2>3, <2>4, <2>5, OneChanged
<1>4. ASSUME NEW a \in Calls, Acknowledge(a)
      PROVE  OpShape'
  <2>1. op'[a] = NoOp /\ up' = up
    BY <1>4, AcknowledgeOps DEF Acknowledge
  <2>2. \A b \in Calls \ {a} : Aside(b)
    BY <1>4, AcknowledgeOps, AsideIs DEF Acknowledge
  <2>3. Shaped(op'[a], a) /\ ~Busy(a)' /\ op'[a].new = NoToken
    BY <2>1, NoOpIs DEF Shaped, Busy
  <2> QED
    BY <2>1, <2>2, <2>3, OneChanged
<1>5. ASSUME NEW a \in Calls, PersistFails(a)
      PROVE  OpShape'
  <2>1. op'[a] = NoOp /\ up' = up
    BY <1>5 DEF PersistFails
  <2>2. \A b \in Calls \ {a} : Aside(b)
    BY <1>5, AsideIs DEF PersistFails
  <2>3. Shaped(op'[a], a) /\ ~Busy(a)' /\ op'[a].new = NoToken
    BY <2>1, NoOpIs DEF Shaped, Busy
  <2> QED
    BY <2>1, <2>2, <2>3, OneChanged
<1>6. ASSUME NEW a \in Calls, NEW h \in {Server, a}, Issue(a, h)
      PROVE  OpShape'
  <2>1. \A b \in Calls \ {a} : Aside(b)
    BY <1>6, IssueOps, AsideIs
  <2>2. up' = up /\ (h = Server => up) /\ next # NoToken
    BY <1>6 DEF Issue, CanStart, Tokens, NoToken
  <2>3. BeginsOp(a, h, Added(StoreOf(h), next), "issue", next, NoToken)
    BY <1>6, IssueOps
  <2>4. /\ op'[a].pc = "mkdir" /\ op'[a].where = "none" /\ op'[a].kind = "issue"
        /\ op'[a].home = h /\ op'[a].new = next /\ op'[a].old = NoToken
    BY <2>3 DEF BeginsOp
  <2>5. Shaped(op'[a], a)
    BY <2>2, <2>4 DEF Shaped
  <2> QED
    BY <2>1, <2>2, <2>4, <2>5, OneChanged
<1>7. ASSUME NEW a \in Calls, NEW h \in {Server, a}, NEW t \in Tokens,
             Rotate(a, h, t)
      PROVE  OpShape'
  <2>1. \A b \in Calls \ {a} : Aside(b)
    BY <1>7, RotateOps, AsideIs
  <2>2. up' = up /\ (h = Server => up) /\ next # NoToken /\ t # NoToken
    BY <1>7 DEF Rotate, CanStart, Tokens, NoToken
  <2>6. t # next
    BY <1>7, StoreIs, KnownBefore DEF Rotate, Tokens
  <2>3. BeginsOp(a, h, Added(StoreOf(h), next), "rotate", next, t)
    BY <1>7, RotateOps
  <2>4. /\ op'[a].pc = "mkdir" /\ op'[a].where = "none" /\ op'[a].kind = "rotate"
        /\ op'[a].home = h /\ op'[a].new = next /\ op'[a].old = t
    BY <2>3 DEF BeginsOp
  <2>5. Shaped(op'[a], a)
    BY <2>2, <2>4, <2>6 DEF Shaped
  <2> QED
    BY <2>1, <2>2, <2>4, <2>5, OneChanged
<1>8. ASSUME NEW a \in Calls, NEW h \in {Server, a}, NEW t \in Tokens,
             Revoke(a, h, t)
      PROVE  OpShape'
  <2>1. \A b \in Calls \ {a} : Aside(b)
    BY <1>8, RevokeOps, AsideIs
  <2>2. up' = up /\ (h = Server => up) /\ t # NoToken
    BY <1>8 DEF Revoke, CanStart, Tokens, NoToken
  <2>3. BeginsOp(a, h, Killed(StoreOf(h), t), "revoke", NoToken, t)
    BY <1>8, RevokeOps
  <2>4. /\ op'[a].pc = "mkdir" /\ op'[a].where = "none" /\ op'[a].kind = "revoke"
        /\ op'[a].home = h /\ op'[a].new = NoToken /\ op'[a].old = t
    BY <2>3 DEF BeginsOp
  <2>5. Shaped(op'[a], a)
    BY <2>2, <2>4 DEF Shaped
  <2> QED
    BY <2>1, <2>2, <2>4, <2>5, OneChanged
<1>9. ASSUME NEW a \in Calls, NEW h \in {Server, a}, NEW t \in Tokens,
             RevokeAgain(a, h, t)
      PROVE  OpShape'
  <2>1. up' = up /\ op' = op
    BY <1>9 DEF RevokeAgain
  <2> QED
    BY <2>1 DEF OpShape, Busy
<1>10. ASSUME NEW a \in Calls, CliKilled(a)
       PROVE  OpShape'
  <2>1. op'[a] = NoOp /\ up' = up
    BY <1>10 DEF CliKilled
  <2>2. \A b \in Calls \ {a} : Aside(b)
    BY <1>10, AsideIs DEF CliKilled
  <2>3. Shaped(op'[a], a) /\ ~Busy(a)' /\ op'[a].new = NoToken
    BY <2>1, NoOpIs DEF Shaped, Busy
  <2> QED
    BY <2>1, <2>2, <2>3, OneChanged
<1>11. CASE ReloadAbsent
  <2>1. \A b \in Calls : Aside(b)
    BY <1>11, DetachedIs, AsideIs DEF ReloadAbsent
  <2> QED
    BY <1>11, <2>1, NoneChanged DEF ReloadAbsent
<1>12. CASE ReloadRead
  <2>1. up' = up /\ op' = op
    BY <1>12 DEF ReloadRead
  <2> QED
    BY <2>1 DEF OpShape, Busy
<1>13. CASE ReloadSwap
  <2>1. \A b \in Calls : Aside(b)
    BY <1>13, DetachedIs, AsideIs DEF ReloadSwap
  <2> QED
    BY <1>13, <2>1, NoneChanged DEF ReloadSwap
<1>14. CASE ReloadFails
  <2>1. up' = up /\ op' = op
    BY <1>14 DEF ReloadFails
  <2> QED
    BY <2>1 DEF OpShape, Busy
<1>15. CASE Crash
  <2>1. ASSUME NEW b \in Calls
        PROVE  \/ op'[b] = NoOp
               \/ op'[b] = op[b] /\ op[b].home # Server
    BY <1>15 DEF Crash
  <2>2. \A b \in Calls : Shaped(op'[b], b) /\ ~(Busy(b)' /\ op'[b].home = Server)
    BY <2>1, NoOpIs, OpShapeIs DEF Shaped, Busy
  <2>3. \A b \in Calls : op'[b].new # NoToken =>
          op'[b].new = op[b].new /\ \A c \in Calls \ {b} : op'[c].new # op'[b].new
    BY <2>1, NoOpIs, OpShapeIs
  <2> QED
    BY <2>2, <2>3, OpShapeNext
<1>16. CASE Boot
  <2>1. op' = op /\ up' = TRUE
    BY <1>16 DEF Boot
  <2> QED
    BY <2>1 DEF OpShape, Busy
<1>17. ASSUME NEW f \in {Absent, Broken}, EditFile(f)
       PROVE  OpShape'
  <2>1. \A b \in Calls : Aside(b)
    BY <1>17, EditOps, AsideIs DEF EditFile
  <2> QED
    BY <1>17, <2>1, NoneChanged DEF EditFile
<1>18. CASE UNCHANGED vars
  BY <1>18 DEF vars, history, Aged, AgedOps, OpShape, Busy
<1> QED
  BY <1>1, <1>2, <1>3, <1>4, <1>5, <1>6, <1>7, <1>8, <1>9, <1>10, <1>11, <1>12, <1>13,
     <1>14, <1>15, <1>16, <1>17, <1>18 DEF Next

(* ---- What the server vouches for ---------------------------------------------------- *)

Valid == mem[Server].known \ mem[Server].dead

\* An operation stays the same to those that depend on its token or on the one
\* it revokes.
Like(b) ==
  /\ op'[b].home = op[b].home /\ op'[b].live = op[b].live /\ op'[b].new = op[b].new
  /\ op'[b].old = op[b].old /\ op'[b].tried = op[b].tried
  /\ op'[b].kind \in {"rotate", "retire"} <=> op[b].kind \in {"rotate", "retire"}

\* A step of operation a, by which the server's memory loses the token that a
\* issues or revokes at most, and vouches for a's at most.
LEMMA VouchKept ==
  ASSUME VouchShape, GrantedAuthenticates, OpShape, Aged, op \in [Calls -> OpRecords],
         NEW a \in Calls, \A b \in Calls \ {a} : Like(b), up' = up,
         \/ Like(a) /\ vouched' = vouched /\ \A t \in Valid : t \in Valid' \/ Kills(a, t)
         \/ /\ op'[a] = NoOp /\ vouched' = vouched
            /\ \A t \in Valid : t \in Valid' \/ t = op[a].new
         \/ /\ op'[a] = NoOp /\ Valid' = Valid
            /\ op[a].home = Server /\ op[a].live /\ ~op[a].tried
            /\ op[a].new # NoToken /\ vouched' \subseteq vouched \union {op[a].new}
  PROVE  VouchShape' /\ GrantedAuthenticates'
<1>1. /\ \A t \in vouched, b \in Calls : op[b].new # t /\ ~Kills(b, t) /\ t \in Valid /\ up
      /\ \A b \in Calls :
           op[b].home = Server /\ op[b].live /\ op[b].new # NoToken /\ ~op[b].tried =>
             op[b].new \in Valid /\ \A c \in Calls : ~Kills(c, op[b].new)
  BY DEF VouchShape, GrantedAuthenticates, Authenticates, Valid
<1>2. \A b \in Calls : op[b].new # NoToken => \A c \in Calls \ {b} : op[c].new # op[b].new
  BY DEF OpShape
<1>3. \A t \in vouched : t # NoToken /\ up
  BY <1>1 DEF Aged, Before, NoToken, GrantedAuthenticates, Authenticates
<1>4. op[a].home = Server /\ op[a].new # NoToken => up
  BY DEF OpShape, OpRecords, Busy
<1>5. \A b \in Calls \ {a} : \A t : Kills(b, t)' <=> Kills(b, t)
  BY DEF Kills, Like
<1>6. SUFFICES /\ \A t \in vouched', b \in Calls : op'[b].new # t /\ ~Kills(b, t)'
               /\ \A t \in vouched' : t \in Valid' /\ up
               /\ \A b \in Calls :
                    /\ op'[b].home = Server /\ op'[b].live
                    /\ op'[b].new # NoToken /\ ~op'[b].tried
                    => /\ op'[b].new \in Valid'
                       /\ \A c \in Calls : \A t : t = op'[b].new => ~Kills(c, t)'
  BY DEF VouchShape, GrantedAuthenticates, Authenticates, Valid, Kills
<1>7. CASE Like(a) /\ vouched' = vouched /\ \A t \in Valid : t \in Valid' \/ Kills(a, t)
  <2>1. \A t : Kills(a, t)' <=> Kills(a, t)
    BY <1>7 DEF Kills, Like
  <2>2. \A b \in Calls : \A t : Kills(b, t)' <=> Kills(b, t)
    BY <1>5, <2>1
  <2>3. \A b \in Calls : Like(b)
    BY <1>7
  <2> QED
    BY <1>1, <1>3, <1>7, <2>2, <2>3 DEF Like
<1>8. ASSUME op'[a] = NoOp
      PROVE  op'[a].new = NoToken /\ \A t : ~Kills(a, t)'
  BY <1>8, NoOpIs DEF Kills
<1>9. CASE /\ op'[a] = NoOp /\ vouched' = vouched
           /\ \A t \in Valid : t \in Valid' \/ t = op[a].new
  <2>1. \A b \in Calls \ {a} : \A t : ~Kills(b, t)' <=> ~Kills(b, t)
    BY <1>5
  <2>2. ASSUME NEW b \in Calls, op'[b].home = Server, op'[b].live,
               op'[b].new # NoToken, ~op'[b].tried
        PROVE  op'[b].new \in Valid' /\ \A c \in Calls : \A t : t = op'[b].new => ~Kills(c, t)'
    <3>1. b # a /\ op'[b].new = op[b].new
      BY <1>8, <1>9, <2>2 DEF Like
    <3>2. op[b].new \in Valid /\ \A c \in Calls : ~Kills(c, op[b].new)
      BY <1>1, <2>2, <3>1 DEF Like
    <3> QED
      BY <1>2, <1>8, <1>9, <2>1, <2>2, <3>1, <3>2
  <2>3. ASSUME NEW t \in vouched
        PROVE  t \in Valid' /\ up /\ \A b \in Calls : op'[b].new # t /\ ~Kills(b, t)'
    <3>1. t \in Valid /\ up /\ t # NoToken /\ \A b \in Calls : op[b].new # t /\ ~Kills(b, t)
      BY <1>1, <1>3
    <3> QED
      BY <1>8, <1>9, <2>1, <3>1 DEF Like
  <2> QED
    BY <1>9, <2>2, <2>3
<1>10. CASE /\ op'[a] = NoOp /\ Valid' = Valid
            /\ op[a].home = Server /\ op[a].live /\ ~op[a].tried
            /\ op[a].new # NoToken /\ vouched' \subseteq vouched \union {op[a].new}
  <2>1. \A b \in Calls \ {a} : \A t : ~Kills(b, t)' <=> ~Kills(b, t)
    BY <1>5
  <2>2. ASSUME NEW b \in Calls, op'[b].home = Server, op'[b].live,
               op'[b].new # NoToken, ~op'[b].tried
        PROVE  op'[b].new \in Valid' /\ \A c \in Calls : \A t : t = op'[b].new => ~Kills(c, t)'
    <3>1. b # a /\ op'[b].new = op[b].new
      BY <1>8, <1>10, <2>2 DEF Like
    <3>2. op[b].new \in Valid /\ \A c \in Calls : ~Kills(c, op[b].new)
      BY <1>1, <2>2, <3>1 DEF Like
    <3> QED
      BY <1>8, <1>10, <2>1, <2>2, <3>1, <3>2
  <2>3. ASSUME NEW t \in vouched \union {op[a].new}
        PROVE  t \in Valid' /\ up /\ \A b \in Calls : op'[b].new # t /\ ~Kills(b, t)'
    <3>1. t \in Valid /\ up /\ t # NoToken /\ \A b \in Calls : ~Kills(b, t)
      BY <1>1, <1>3, <1>4, <1>10
    <3>2. \A b \in Calls \ {a} : op[b].new # t
      BY <1>1, <1>2, <1>10
    <3> QED
      BY <1>8, <1>10, <2>1, <3>1, <3>2 DEF Like
  <2> QED
    BY <1>10, <2>2, <2>3
<1> QED
  BY <1>7, <1>9, <1>10

\* What begins is new to everyone, and what it is to revoke is no longer vouched for.
LEMMA VouchBegun ==
  ASSUME VouchShape, GrantedAuthenticates, OpShape, Aged, op \in [Calls -> OpRecords],
         NEW a \in Calls, NEW T \in Nat, \A b \in Calls \ {a} : Tries(b, T) \/ Like(b),
         \A b \in Calls \ {a} : op[b].new = T /\ T # NoToken => op'[b].tried,
         T < next, vouched' = vouched \ {T}, up' = up,
         op'[a].new \in {next, NoToken},
         \A t : Kills(a, t)' => t = T,
         op'[a].new = next /\ op'[a].home = Server => next \in Valid',
         \A t \in Valid : t \in Valid' \/ t = T
  PROVE  VouchShape' /\ GrantedAuthenticates'
<1>1. /\ \A t \in vouched, b \in Calls : op[b].new # t /\ ~Kills(b, t) /\ t \in Valid /\ up
      /\ \A b \in Calls :
           op[b].home = Server /\ op[b].live /\ op[b].new # NoToken /\ ~op[b].tried =>
             op[b].new \in Valid /\ \A c \in Calls : ~Kills(c, op[b].new)
  BY DEF VouchShape, GrantedAuthenticates, Authenticates, Valid
<1>2. /\ next \in Nat \ {0}
      /\ \A b \in Calls : /\ op[b].new \in Nat /\ op[b].old \in Nat
                          /\ op[b].new < next /\ op[b].old < next
      /\ \A t \in vouched : t \in Nat /\ t < next /\ t # NoToken
  BY DEF Aged, OpRecords, Tokens, NoToken, Before
<1>3. \A t \in vouched : t \in Valid /\ up
  BY <1>1 DEF GrantedAuthenticates, Authenticates, Valid
<1>4. \A b \in Calls \ {a} :
        /\ op'[b].home = op[b].home /\ op'[b].live = op[b].live /\ op'[b].new = op[b].new
        /\ op'[b].old = op[b].old /\ (op'[b].tried \/ op'[b].tried = op[b].tried)
        /\ \A t : Kills(b, t)' <=> Kills(b, t)
  BY DEF Tries, Stays, Like, Kills
<1>5. SUFFICES /\ \A t \in vouched', b \in Calls : op'[b].new # t /\ ~Kills(b, t)'
               /\ \A t \in vouched' : t \in Valid' /\ up
               /\ \A b \in Calls :
                    /\ op'[b].home = Server /\ op'[b].live
                    /\ op'[b].new # NoToken /\ ~op'[b].tried
                    => /\ op'[b].new \in Valid'
                       /\ \A c \in Calls : \A t : t = op'[b].new => ~Kills(c, t)'
  BY DEF VouchShape, GrantedAuthenticates, Authenticates, Valid, Kills
<1>6. ASSUME NEW t \in vouched'
      PROVE  t \in Valid' /\ up /\ \A b \in Calls : op'[b].new # t /\ ~Kills(b, t)'
  BY <1>1, <1>2, <1>3, <1>4
<1>7. ASSUME op'[a].home = Server, op'[a].new # NoToken
      PROVE  op'[a].new \in Valid' /\ \A c \in Calls : \A t : t = op'[a].new => ~Kills(c, t)'
  <2>1. op'[a].new = next /\ next \in Valid'
    BY <1>7
  <2>2. \A c \in Calls \ {a} : ~Kills(c, next)
    BY <1>2 DEF Kills
  <2> QED
    BY <1>2, <1>4, <2>1, <2>2
<1>8. ASSUME NEW b \in Calls \ {a}, op'[b].home = Server, op'[b].live, op'[b].new # NoToken,
             ~op'[b].tried
      PROVE  op'[b].new \in Valid' /\ \A c \in Calls : \A t : t = op'[b].new => ~Kills(c, t)'
  <2>1. op[b].new \in Valid /\ op[b].new # T /\ \A c \in Calls : ~Kills(c, op[b].new)
    BY <1>1, <1>4, <1>8
  <2>2. op'[b].new = op[b].new /\ op[b].new < next
    BY <1>2, <1>4
  <2> QED
    BY <1>4, <2>1, <2>2
<1> QED
  BY <1>6, <1>7, <1>8

\* Another token is issued.
LEMMA GrownValid ==
  ASSUME Aged, mem \in [Homes -> Memories], NEW a \in Calls, NEW h \in {Server, a},
         CanStart(a, h), mem' = [mem EXCEPT ![h] = Added(StoreOf(h), next)]
  PROVE  (h = Server => next \in Valid') /\ \A t \in Valid : t \in Valid'
<1>1. next \in Nat \ {0} /\ h \in Homes /\ Server \in Homes
  BY DEF Aged, Homes
<1>2. CASE h = Server
  <2>1. mem'[Server] = Added(mem[Server], next) /\ MemoryBefore(mem[Server], next)
    BY <1>1, <1>2 DEF StoreOf, Aged
  <2> QED
    BY <1>1, <2>1, AddedIs DEF Valid, MemoryBefore, Before
<1>3. CASE h # Server
  BY <1>1, <1>3 DEF Valid
<1> QED
  BY <1>2, <1>3

LEMMA SameVouch ==
  ASSUME VouchShape, GrantedAuthenticates, vouched' = vouched, mem' = mem, up' = up,
         \A b \in Calls : /\ op'[b].home = op[b].home /\ op'[b].live = op[b].live
                          /\ op'[b].new = op[b].new /\ op'[b].tried = op[b].tried,
         \A b \in Calls : \A t : Kills(b, t)' <=> Kills(b, t)
  PROVE  VouchShape' /\ GrantedAuthenticates'
<1>1. GrantedAuthenticates'
  BY DEF GrantedAuthenticates, Authenticates
<1>2. \A b, c \in Calls : \A t : t = op'[b].new => (Kills(c, t)' <=> Kills(c, op[b].new))
  OBVIOUS
<1>3. \A b, c \in Calls : Kills(c, op[b].new)' <=> Kills(c, op[b].new)
  BY <1>2 DEF Kills
<1>4. VouchShape'
  BY <1>3 DEF VouchShape
<1> QED
  BY <1>1, <1>4

\* What the server vouches for stays valid, and so does what it is about to.
LEMMA VouchShaped ==
  ASSUME Inv, [Next]_vars
  PROVE  VouchShape' /\ GrantedAuthenticates'
<1>a. /\ VouchShape /\ GrantedAuthenticates /\ OpShape /\ Aged /\ op \in [Calls -> OpRecords]
      /\ mem \in [Homes -> Memories] /\ Server \in Homes
      /\ \A a \in Calls : a \in Homes /\ a # Server
      /\ next \in Nat \ {0} /\ \A a \in Calls : op[a].home \in Homes
  BY DEF Inv, TypeOK, Homes, Aged, OpRecords
<1> USE <1>a
<1> USE DEF history
<1>1. ASSUME NEW a \in Calls, OpenTmp(a)
      PROVE  VouchShape' /\ GrantedAuthenticates'
  <2>1. Like(a) /\ \A b \in Calls \ {a} : Like(b)
    <3>1. TRUE
      BY <1>1 DEF OpenTmp
    <3> QED
      BY <1>1, <3>1, OpenOps DEF Like, Stays, Relinks
  <2>2. Valid' = Valid /\ vouched' = vouched /\ up' = up
    BY <1>1 DEF OpenTmp, Valid
  <2> QED
    BY <2>1, <2>2, VouchKept
<1>2. ASSUME NEW a \in Calls, WriteTmp(a)
      PROVE  VouchShape' /\ GrantedAuthenticates'
  <2>1. Like(a) /\ \A b \in Calls \ {a} : Like(b)
    <3>1. TRUE
      BY <1>2 DEF WriteTmp
    <3> QED
      BY <1>2, <3>1, WriteOps DEF Like, Stays, Relinks
  <2>2. Valid' = Valid /\ vouched' = vouched /\ up' = up
    BY <1>2 DEF WriteTmp, Valid
  <2> QED
    BY <2>1, <2>2, VouchKept
<1>3. ASSUME NEW a \in Calls, Retire(a)
      PROVE  VouchShape' /\ GrantedAuthenticates'
  <2>1. Like(a) /\ \A b \in Calls \ {a} : Like(b)
    <3>1. op[a].kind = "rotate"
      BY <1>3 DEF Retire
    <3> QED
      BY <1>3, <3>1, RetireOps DEF Like, Stays, Relinks
  <2>2. ASSUME NEW t \in Valid
        PROVE  t \in Valid' \/ Kills(a, t)
    <3>1. mem' = [mem EXCEPT ![op[a].home] = Retired(a)] /\ op[a].kind = "rotate"
      BY <1>3 DEF Retire, Retired
    <3>2. CASE op[a].home = Server
      <4>1. /\ mem'[Server] = Retired(a) /\ op[a].old \in Before(next)
            /\ MemoryBefore(mem[Server], next)
        BY <3>1, <3>2 DEF Inv, Aged, OpShape, Before, OpRecords, Tokens, NoToken
      <4>2. CASE op[a].live
        <5>1. mem'[Server] = Killed(mem[Server], op[a].old)
          BY <3>2, <4>1, <4>2 DEF Retired
        <5>2. /\ Killed(mem[Server], op[a].old).known = mem[Server].known
              /\ Killed(mem[Server], op[a].old).dead = mem[Server].dead \union {op[a].old}
          BY <4>1, KilledIs
        <5>3. t # op[a].old => t \in Valid'
          BY <5>1, <5>2 DEF Valid
        <5> QED
          BY <3>1, <3>2, <4>2, <5>3 DEF Kills
      <4>3. CASE ~op[a].live
        BY <3>2, <4>1, <4>3 DEF Retired, Valid
      <4> QED
        BY <4>2, <4>3
    <3>3. CASE op[a].home # Server
      BY <3>1, <3>3 DEF Valid
    <3> QED
      BY <3>2, <3>3
  <2>3. vouched' = vouched /\ up' = up
    BY <1>3 DEF Retire
  <2> QED
    BY <2>1, <2>2, <2>3, VouchKept
<1>4. ASSUME NEW a \in Calls, Acknowledge(a)
      PROVE  VouchShape' /\ GrantedAuthenticates'
  <2>1. op'[a] = NoOp /\ up' = up /\ op[a].pc # "idle"
    BY <1>4, AcknowledgeOps DEF Acknowledge, Replaces
  <2>2. \A b \in Calls \ {a} : Like(b)
    BY <1>4, AcknowledgeOps DEF Like, Relinks, Stays
  <2>3. Valid' = Valid
    BY <1>4 DEF Acknowledge, Valid, Ended
  <2>4. \/ vouched' = vouched
        \/ /\ op[a].home = Server /\ op[a].live /\ ~op[a].tried /\ op[a].new # NoToken
           /\ vouched' = vouched \union {op[a].new}
    BY <1>4, <2>1 DEF Acknowledge, Inv, OpShape, OpRecords, Busy
  <2> QED
    BY <2>1, <2>2, <2>3, <2>4, VouchKept
<1>5. ASSUME NEW a \in Calls, PersistFails(a)
      PROVE  VouchShape' /\ GrantedAuthenticates'
  <2>1. /\ op'[a] = NoOp /\ up' = up /\ vouched' = vouched
        /\ \A b \in Calls \ {a} : op'[b] = op[b]
    BY <1>5 DEF PersistFails
  <2>2. \A b \in Calls \ {a} : Like(b)
    BY <2>1 DEF Like
  <2>3. mem' = Ended(a, RollBack(a))
    BY <1>5 DEF PersistFails
  <2>4. ASSUME NEW t \in Valid
        PROVE  t \in Valid' \/ t = op[a].new
    <3>1. CASE op[a].home = Server
      <4>1. mem'[Server] = RollBack(a) /\ MemoryBefore(mem[Server], next)
        BY <2>3, <3>1 DEF Ended, Aged
      <4>2. CASE op[a].kind \in {"issue", "rotate"}
        BY <3>1, <4>1, <4>2, RolledBackIs DEF RollBack, Valid
      <4>3. CASE op[a].kind \in {"revoke", "retire"} /\ op[a].live
        <5>1. RollBack(a) = [mem[Server] EXCEPT !.dead = @ \ {op[a].old}]
          BY <3>1, <4>3 DEF RollBack
        <5> QED
          BY <4>1, <5>1 DEF Valid, MemoryBefore
      <4>4. CASE /\ op[a].kind \notin {"issue", "rotate"}
                 /\ ~(op[a].kind \in {"revoke", "retire"} /\ op[a].live)
        BY <3>1, <4>1, <4>4 DEF RollBack, Valid
      <4> QED
        BY <4>2, <4>3, <4>4
    <3>2. CASE op[a].home # Server
      BY <2>3, <3>2 DEF Ended, Valid
    <3> QED
      BY <3>1, <3>2
  <2> QED
    BY <2>1, <2>2, <2>4, VouchKept
<1>6. ASSUME NEW a \in Calls, NEW h \in {Server, a}, Issue(a, h)
      PROVE  VouchShape' /\ GrantedAuthenticates'
  <2>1. BeginsOp(a, h, Added(StoreOf(h), next), "issue", next, NoToken)
    BY <1>6, IssueOps
  <2>2. \A b \in Calls \ {a} : Like(b)
    BY <1>6, IssueOps DEF Like
  <2>3. up' = up /\ vouched' = vouched /\ CanStart(a, h)
    BY <1>6 DEF Issue
  <2>4. \A t : ~Kills(a, t)'
    BY <2>1 DEF BeginsOp, Kills
  <2>5. /\ op'[a].home = Server => next \in Valid'
        /\ \A t \in Valid : t \in Valid'
    <3>1. op'[a].home = h /\ mem' = [mem EXCEPT ![h] = Added(StoreOf(h), next)]
      BY <1>6, <2>1 DEF Issue, BeginsOp
    <3> QED
      BY <2>3, <3>1, GrownValid
  <2>6. vouched' = vouched \ {0} /\ 0 < next
    BY <2>3 DEF Aged, Before
  <2>7. op'[a].new = next
    BY <2>1 DEF BeginsOp
  <2> QED
    BY <2>2, <2>3, <2>4, <2>5, <2>6, <2>7, VouchBegun DEF NoToken
<1>7. ASSUME NEW a \in Calls, NEW h \in {Server, a}, NEW t \in Tokens,
             Rotate(a, h, t)
      PROVE  VouchShape' /\ GrantedAuthenticates'
  <2>1. BeginsOp(a, h, Added(StoreOf(h), next), "rotate", next, t)
    BY <1>7, RotateOps
  <2>2. \A b \in Calls \ {a} : Tries(b, t)
    BY <1>7, RotateOps
  <2>3. up' = up /\ vouched' = vouched \ {t} /\ CanStart(a, h) /\ t \in StoreOf(h).known
    BY <1>7 DEF Rotate
  <2>4. \A u : Kills(a, u)' => u = t
    BY <2>1 DEF BeginsOp, Kills
  <2>5. /\ op'[a].home = Server => next \in Valid'
        /\ \A u \in Valid : u \in Valid'
    <3>1. op'[a].home = h /\ mem' = [mem EXCEPT ![h] = Added(StoreOf(h), next)]
      BY <1>7, <2>1 DEF Rotate, BeginsOp
    <3> QED
      BY <2>3, <3>1, GrownValid
  <2>6. t < next /\ t \in Nat
    BY <2>3, StoreIs, KnownBefore DEF Tokens
  <2>7. op'[a].new = next
    BY <2>1 DEF BeginsOp
  <2>8. \A b \in Calls \ {a} : op[b].new = t => op'[b].tried
    BY <2>2 DEF Tries
  <2> QED
    BY <2>2, <2>3, <2>4, <2>5, <2>6, <2>7, <2>8, VouchBegun
<1>8. ASSUME NEW a \in Calls, NEW h \in {Server, a}, NEW t \in Tokens,
             Revoke(a, h, t)
      PROVE  VouchShape' /\ GrantedAuthenticates'
  <2>1. BeginsOp(a, h, Killed(StoreOf(h), t), "revoke", NoToken, t)
    BY <1>8, RevokeOps
  <2>2. \A b \in Calls \ {a} : Tries(b, t)
    BY <1>8, RevokeOps
  <2>3. up' = up /\ vouched' = vouched \ {t} /\ CanStart(a, h) /\ t \in StoreOf(h).known
    BY <1>8 DEF Revoke
  <2>4. \A u : ~Kills(a, u)'
    BY <2>1 DEF BeginsOp, Kills
  <2>5. \A u \in Valid : u \in Valid' \/ u = t
    <3>1. mem' = [mem EXCEPT ![h] = Killed(StoreOf(h), t)]
      BY <1>8 DEF Revoke
    <3>2. CASE h = Server
      <4>1. mem'[Server] = Killed(mem[Server], t) /\ MemoryBefore(mem[Server], next)
        BY <3>1, <3>2 DEF StoreOf, Aged
      <4>2. t \in Before(next)
        BY <2>3, <3>2, <4>1, KnownBefore DEF StoreOf
      <4>3. /\ Killed(mem[Server], t).known = mem[Server].known
            /\ Killed(mem[Server], t).dead = mem[Server].dead \union {t}
        BY <4>1, <4>2, KilledIs
      <4> QED
        BY <4>1, <4>3 DEF Valid
    <3>3. CASE h # Server
      BY <3>1, <3>3 DEF Valid
    <3> QED
      BY <3>2, <3>3
  <2>6. t < next /\ t \in Nat
    BY <2>3, StoreIs, KnownBefore DEF Tokens
  <2>7. op'[a].new = NoToken
    BY <2>1 DEF BeginsOp
  <2>8. \A b \in Calls \ {a} : op[b].new = t => op'[b].tried
    BY <2>2 DEF Tries
  <2> QED
    BY <2>2, <2>3, <2>4, <2>5, <2>6, <2>7, <2>8, VouchBegun DEF NoToken
<1>9. ASSUME NEW a \in Calls, NEW h \in {Server, a}, NEW t \in Tokens,
             RevokeAgain(a, h, t)
      PROVE  VouchShape' /\ GrantedAuthenticates'
  <2>1. vouched' = vouched /\ mem' = mem /\ up' = up /\ op' = op
    BY <1>9 DEF RevokeAgain
  <2> QED
    BY <2>1 DEF VouchShape, GrantedAuthenticates, Authenticates, Kills
<1>10. ASSUME NEW a \in Calls, CliKilled(a)
       PROVE  VouchShape' /\ GrantedAuthenticates'
  <2>1. /\ op'[a] = NoOp /\ up' = up /\ vouched' = vouched /\ op[a].home # Server
        /\ \A b \in Calls \ {a} : op'[b] = op[b]
    BY <1>10 DEF CliKilled
  <2>2. \A b \in Calls \ {a} : Like(b)
    BY <2>1 DEF Like
  <2>3. Valid' = Valid
    BY <1>10 DEF CliKilled, Valid
  <2> QED
    BY <2>1, <2>2, <2>3, VouchKept
<1>11. CASE ReloadAbsent
  <2>1. vouched' = {} /\ \A b \in Calls : Detaches(b)
    BY <1>11, DetachedIs DEF ReloadAbsent
  <2>2. ASSUME NEW b \in Calls, op'[b].home = Server, op'[b].live
        PROVE  op'[b].new = NoToken
    <3>1. Detaches(b) /\ op'[b].new = op[b].new /\ op[b].home = Server
      BY <2>1, <2>2 DEF Detaches, Stays
    <3>2. ~Busy(b)
      BY <2>2, <3>1 DEF Detaches
    <3> QED
      BY <3>1, <3>2 DEF OpShape, OpRecords
  <2> QED
    BY <2>1, <2>2 DEF VouchShape, GrantedAuthenticates
<1>12. CASE ReloadRead
  <2>1. vouched' = vouched /\ mem' = mem /\ up' = up /\ op' = op
    BY <1>12 DEF ReloadRead
  <2> QED
    BY <2>1 DEF VouchShape, GrantedAuthenticates, Authenticates, Kills
<1>13. CASE ReloadSwap
  <2>1. vouched' = {} /\ \A b \in Calls : Detaches(b)
    BY <1>13, DetachedIs DEF ReloadSwap
  <2>2. ASSUME NEW b \in Calls, op'[b].home = Server, op'[b].live
        PROVE  op'[b].new = NoToken
    <3>1. Detaches(b) /\ op'[b].new = op[b].new /\ op[b].home = Server
      BY <2>1, <2>2 DEF Detaches, Stays
    <3>2. ~Busy(b)
      BY <2>2, <3>1 DEF Detaches
    <3> QED
      BY <3>1, <3>2 DEF OpShape, OpRecords
  <2> QED
    BY <2>1, <2>2 DEF VouchShape, GrantedAuthenticates
<1>14. CASE ReloadFails
  <2>1. vouched' = vouched /\ mem' = mem /\ up' = up /\ op' = op
    BY <1>14 DEF ReloadFails
  <2> QED
    BY <2>1 DEF VouchShape, GrantedAuthenticates, Authenticates, Kills
<1>15. CASE Crash
  <2>1. /\ vouched' = {}
        /\ \A b \in Calls : op'[b] = NoOp \/ (op'[b] = op[b] /\ op[b].home # Server)
    BY <1>15 DEF Crash
  <2> QED
    BY <2>1, NoOpIs DEF VouchShape, GrantedAuthenticates
<1>16. CASE Boot
  <2>1. /\ vouched' = vouched /\ vouched = {} /\ op' = op
        /\ \A b \in Calls : op[b].home = Server => op[b].new = NoToken
    <3>1. ~up /\ vouched' = vouched /\ op' = op
      BY <1>16 DEF Boot
    <3>2. vouched = {}
      BY <3>1 DEF GrantedAuthenticates, Authenticates
    <3> QED
      BY <3>1, <3>2 DEF OpShape, Busy, OpRecords
  <2> QED
    BY <2>1 DEF VouchShape, GrantedAuthenticates
<1>17. ASSUME NEW f \in {Absent, Broken}, EditFile(f)
       PROVE  VouchShape' /\ GrantedAuthenticates'
  <2>1. /\ vouched' = vouched /\ mem' = mem /\ up' = up
    BY <1>17 DEF EditFile
  <2>2. \A b \in Calls : Like(b)
    BY <1>17, EditOps DEF Like, Stays
  <2>3. \A b \in Calls : \A t : Kills(b, t)' <=> Kills(b, t)
    BY <2>2 DEF Like, Kills
  <2>4. \A b \in Calls : /\ op'[b].home = op[b].home /\ op'[b].live = op[b].live
                         /\ op'[b].new = op[b].new /\ op'[b].tried = op[b].tried
    BY <2>2 DEF Like
  <2> QED
    BY <2>1, <2>3, <2>4, SameVouch
<1>18. CASE UNCHANGED vars
  BY <1>18 DEF vars, history, ReloadShape, AllIdle, VouchShape, GrantedAuthenticates,
     Authenticates, Kills
<1> QED
  BY <1>1, <1>2, <1>3, <1>4, <1>5, <1>6, <1>7, <1>8, <1>9, <1>10, <1>11, <1>12, <1>13,
     <1>14, <1>15, <1>16, <1>17, <1>18 DEF Next

(* ---- Reloads ----------------------------------------------------------------- *)

\* An operation is under way before the step, and nobody else's state matters.
LEMMA BusyReload ==
  ASSUME ReloadShape, reload' = reload, up' = up, ledger'.orderly => ledger.orderly,
         \/ ~AllIdle
         \/ AllIdle' /\ file' = file
  PROVE  ReloadShape'
BY DEF ReloadShape

\* One begins: the reload, if there is one, is not clean, and operations are orderly
\* only if there is none.
LEMMA BegunReload ==
  ASSUME ReloadShape, reload \in [pc : {"idle", "read"}, text : Files, clean : BOOLEAN],
         NEW a, NEW h, NEW entries, Begins(a, h, entries), up' = up
  PROVE  ReloadShape'
<1>1. /\ reload' = [reload EXCEPT !.clean = FALSE]
      /\ ledger'.orderly => reload.pc = "idle"
  BY DEF Begins, Quiet, NoLedger
<1>2. reload'.pc = reload.pc /\ reload'.text = reload.text /\ ~reload'.clean
  BY <1>1
<1> QED
  BY <1>1, <1>2 DEF ReloadShape

\* A clean reload has what the file says.
LEMMA ReloadShaped ==
  ASSUME Inv, [Next]_vars
  PROVE  ReloadShape'
<1>a. /\ ReloadShape /\ OpShape /\ TypeOK
      /\ reload \in [pc : {"idle", "read"}, text : Files, clean : BOOLEAN]
      /\ \A a \in Calls : a # Server
  BY DEF Inv, TypeOK
<1> USE <1>a
<1> USE DEF history
<1>1. ASSUME NEW a \in Calls, OpenTmp(a)
      PROVE  ReloadShape'
  <2>1. ~AllIdle /\ reload' = reload /\ up' = up /\ ledger'.orderly = ledger.orderly
    BY <1>1 DEF OpenTmp, Replaces, AllIdle
  <2> QED
    BY <2>1, BusyReload
<1>2. ASSUME NEW a \in Calls, WriteTmp(a)
      PROVE  ReloadShape'
  <2>1. ~AllIdle /\ reload' = reload /\ up' = up /\ ledger'.orderly = ledger.orderly
    BY <1>2 DEF WriteTmp, Replaces, AllIdle
  <2> QED
    BY <2>1, BusyReload
<1>3. ASSUME NEW a \in Calls, Retire(a)
      PROVE  ReloadShape'
  <2>1. ~AllIdle /\ reload' = reload /\ up' = up /\ ledger'.orderly = ledger.orderly
    BY <1>3 DEF Retire, Replaces, AllIdle
  <2> QED
    BY <2>1, BusyReload
<1>4. ASSUME NEW a \in Calls, Acknowledge(a)
      PROVE  ReloadShape'
  <2>1. ~AllIdle /\ reload' = reload /\ up' = up
    BY <1>4 DEF Acknowledge, Replaces, AllIdle
  <2>2. ledger'.orderly = ledger.orderly
    BY <1>4 DEF Acknowledge, TypeOK
  <2> QED
    BY <2>1, <2>2, BusyReload
<1>5. ASSUME NEW a \in Calls, PersistFails(a)
      PROVE  ReloadShape'
  <2>1. ~AllIdle /\ reload' = reload /\ up' = up /\ ledger'.orderly = ledger.orderly
    BY <1>5 DEF PersistFails, Replaces, AllIdle
  <2> QED
    BY <2>1, BusyReload
<1>6. ASSUME NEW a \in Calls, NEW h \in {Server, a}, Issue(a, h)
      PROVE  ReloadShape'
  <2>1. PICK entries : Begins(a, h, entries)
    BY <1>6 DEF Issue
  <2>2. up' = up
    BY <1>6 DEF Issue
  <2> QED
    BY <2>1, <2>2, BegunReload
<1>7. ASSUME NEW a \in Calls, NEW h \in {Server, a}, NEW t \in Tokens,
             Rotate(a, h, t)
      PROVE  ReloadShape'
  <2>1. PICK entries : Begins(a, h, entries)
    BY <1>7 DEF Rotate
  <2>2. up' = up
    BY <1>7 DEF Rotate
  <2> QED
    BY <2>1, <2>2, BegunReload
<1>8. ASSUME NEW a \in Calls, NEW h \in {Server, a}, NEW t \in Tokens,
             Revoke(a, h, t)
      PROVE  ReloadShape'
  <2>1. PICK entries : Begins(a, h, entries)
    BY <1>8 DEF Revoke
  <2>2. up' = up
    BY <1>8 DEF Revoke
  <2> QED
    BY <2>1, <2>2, BegunReload
<1>9. ASSUME NEW a \in Calls, NEW h \in {Server, a}, NEW t \in Tokens,
             RevokeAgain(a, h, t)
      PROVE  ReloadShape'
  <2>1. PICK entries : Begins(a, h, entries)
    BY <1>9 DEF RevokeAgain
  <2>2. up' = up
    BY <1>9 DEF RevokeAgain
  <2> QED
    BY <2>1, <2>2, BegunReload
<1>10. ASSUME NEW a \in Calls, CliKilled(a)
       PROVE  ReloadShape'
  <2>1. reload' = reload /\ up' = up /\ ledger' = ledger /\ op[a].home = a
    BY <1>10 DEF CliKilled
  <2>2. ~AllIdle
    BY <2>1 DEF AllIdle, OpShape
  <2> QED
    BY <2>1, <2>2, BusyReload
<1>11. CASE ReloadAbsent
  <2>1. reload' = reload /\ reload.pc = "idle"
    BY <1>11 DEF ReloadAbsent
  <2> QED
    BY <2>1 DEF ReloadShape
<1>12. CASE ReloadRead
  <2>1. /\ reload'.pc = "read" /\ reload'.text = file /\ (reload'.clean <=> AllIdle)
        /\ up /\ up' = up /\ file' = file /\ file # Absent /\ op' = op
    BY <1>12 DEF ReloadRead
  <2>2. ledger'.orderly => AllIdle
    BY <1>12 DEF ReloadRead, Interrupted, NoLedger
  <2>3. AllIdle' <=> AllIdle
    BY <2>1 DEF AllIdle
  <2> QED
    BY <2>1, <2>2, <2>3 DEF ReloadShape
<1>13. CASE ReloadSwap
  <2>1. reload' = NoReload
    BY <1>13 DEF ReloadSwap
  <2> QED
    BY <2>1 DEF ReloadShape, NoReload
<1>14. CASE ReloadFails
  <2>1. reload' = NoReload
    BY <1>14 DEF ReloadFails
  <2> QED
    BY <2>1 DEF ReloadShape, NoReload
<1>15. CASE Crash
  <2>1. reload' = NoReload
    BY <1>15 DEF Crash
  <2> QED
    BY <2>1 DEF ReloadShape, NoReload
<1>16. CASE Boot
  <2>1. reload' = reload /\ reload.pc # "read"
    BY <1>16 DEF Boot, ReloadShape
  <2> QED
    BY <2>1 DEF ReloadShape
<1>17. ASSUME NEW f \in {Absent, Broken}, EditFile(f)
       PROVE  ReloadShape'
  <2>1. reload' = [reload EXCEPT !.clean = FALSE] /\ ~ledger'.orderly /\ up' = up
    BY <1>17 DEF EditFile, NoLedger
  <2>2. reload'.pc = reload.pc /\ reload'.text = reload.text /\ ~reload'.clean
    BY <2>1
  <2> QED
    BY <2>1, <2>2 DEF ReloadShape
<1>18. CASE UNCHANGED vars
  BY <1>18 DEF vars, history, ReloadShape, AllIdle, VouchShape, GrantedAuthenticates,
     Authenticates, Kills
<1> QED
  BY <1>1, <1>2, <1>3, <1>4, <1>5, <1>6, <1>7, <1>8, <1>9, <1>10, <1>11, <1>12, <1>13,
     <1>14, <1>15, <1>16, <1>17, <1>18 DEF Next

(* ---- An operation alone ------------------------------------------------------- *)

Alone == synced \/ ledger.orderly

\* Only the fields of a memory matter to what the file says of it.
LEMMA SameInSync ==
  ASSUME NEW m, NEW k, NEW f, InSync(m, f),
         k.list = m.list, k.known = m.known, k.dead = m.dead
  PROVE  InSync(k, f)
BY DEF InSync, Text

\* A file that is loaded is in step.
LEMMA LoadedInSync ==
  ASSUME NEW n \in 1..MaxTokens + 1, NEW x, TextBefore(x, n)
  PROVE  InSync(Loaded(x), x) /\ x # Absent /\ x \in Texts
<1>1. x \in Texts
  BY OfTypes
<1> QED
  BY <1>1, LoadedIs DEF InSync

\* While nothing runs, what an operation starts from is in step with the file.
LEMMA StoreInSync ==
  ASSUME Inv, NEW a \in Calls, NEW h \in {Server, a}, CanStart(a, h), Quiet(a),
         h = Server => synced
  PROVE  InSync(StoreOf(h), file)
<1>1. next \in Nat \ {0} /\ next \in 1..MaxTokens + 1 /\ FileBefore(file, next)
  BY DEF Inv, Aged
<1>2. CASE h = Server
  <2>1. NoToolRuns
    BY DEF NoToolRuns, Quiet, CanStart
  <2> QED
    BY <1>2, <2>1 DEF StoreOf, Inv, SyncedShape
<1>3. CASE h = a /\ file = Absent
  BY <1>1, <1>3, EmptyOnes DEF StoreOf, InSync
<1>4. CASE h = a /\ file # Absent
  <2>1. TextBefore(file, next)
    BY <1>1, <1>4 DEF FileBefore, CanStart
  <2> QED
    BY <1>1, <1>4, <2>1, LoadedInSync DEF StoreOf
<1> QED
  BY <1>2, <1>3, <1>4

\* One that runs alone is the only one.
LEMMA OnlyOne ==
  ASSUME AloneShape, NEW a \in Calls, Busy(a), Alone
  PROVE  AloneAt(a) /\ \A b \in Calls \ {a} : ~Busy(b)
BY DEF AloneShape, Alone, AloneAt

\* A step of its own that leaves memory and file as they are.
LEMMA AloneKept ==
  ASSUME NEW a \in Calls, AloneAt(a), mem' = mem, file' = file, synced' = synced,
         \A b \in Calls \ {a} : op'[b] = op[b],
         op'[a].home = op[a].home, op'[a].kind = op[a].kind, op'[a].new = op[a].new,
         op'[a].old = op[a].old, op'[a].text = op[a].text, op'[a].live = op[a].live,
         op'[a].where = "tmp", op'[a].pc = "write" => tmp' = Empty,
         op'[a].pc = "rename" => tmp' = op[a].text
  PROVE  AloneAt(a)'
<1>1. RollBack(a)' = RollBack(a)
  BY DEF RollBack
<1>2. InSync(RollBack(a), file)'
  BY <1>1 DEF AloneAt
<1> QED
  BY <1>2 DEF AloneAt, Busy

\* A step that begins or ends an operation, and none is under way beside it.
LEMMA NobodyAlone ==
  ASSUME NEW a \in Calls, \A b \in Calls \ {a} : ~Busy(b)', Alone' => ~Busy(a)' \/ AloneAt(a)'
  PROVE  AloneShape'
BY DEF AloneShape, Alone

\* Who is disorderly has no ledger.
LEMMA Disorderly ==
  ASSUME NEW a, NEW h, NEW entries, Begins(a, h, entries)
  PROVE  /\ ledger'.orderly => Quiet(a) /\ (h = Server => synced) /\ ledger.orderly
         /\ ledger'.orderly => ledger' = entries
BY DEF Begins, NoLedger

\* What runs alone keeps memory and file in reach of each other.
LEMMA AloneShaped ==
  ASSUME Inv, [Next]_vars
  PROVE  AloneShape'
<1>a. /\ AloneShape /\ OpShape /\ TypeOK /\ Aged /\ ReloadShape /\ op \in [Calls -> OpRecords]
      /\ mem \in [Homes -> Memories] /\ Server \in Homes
      /\ \A a \in Calls : a \in Homes /\ a # Server
      /\ next \in Nat \ {0} /\ next \in 1..MaxTokens + 1
      /\ \A a \in Calls : op[a].home \in Homes
  BY DEF Inv, TypeOK, Homes, Aged, OpRecords
<1> USE <1>a
<1> USE DEF history
<1>1. ASSUME NEW a \in Calls, OpenTmp(a)
      PROVE  AloneShape'
  <2>1. Busy(a) /\ mem' = mem /\ synced' = synced /\ ledger' = ledger
    BY <1>1 DEF OpenTmp, Busy
  <2>2. \A b \in Calls \ {a} : op'[b] = op[b] /\ (Busy(b)' <=> Busy(b))
    BY <1>1, OpenOps DEF Busy
  <2>3. ASSUME Alone
        PROVE  AloneAt(a)' /\ \A b \in Calls \ {a} : ~Busy(b)'
    <3>1. AloneAt(a) /\ \A b \in Calls \ {a} : ~Busy(b)
      BY <2>1, <2>3, OnlyOne
    <3>2. file' = file /\ tmp' = Empty
      BY <1>1 DEF OpenTmp
    <3> QED
      BY <1>1, <2>1, <2>2, <3>1, <3>2, OpenOps, AloneKept
  <2> QED
    BY <2>1, <2>2, <2>3 DEF AloneShape, Alone
<1>2. ASSUME NEW a \in Calls, WriteTmp(a)
      PROVE  AloneShape'
  <2>1. Busy(a) /\ mem' = mem /\ synced' = synced /\ ledger' = ledger
    BY <1>2 DEF WriteTmp, Busy
  <2>2. \A b \in Calls \ {a} : op'[b] = op[b] /\ (Busy(b)' <=> Busy(b))
    BY <1>2, WriteOps DEF Busy
  <2>3. ASSUME Alone
        PROVE  AloneAt(a)' /\ \A b \in Calls \ {a} : ~Busy(b)'
    <3>1. AloneAt(a) /\ \A b \in Calls \ {a} : ~Busy(b)
      BY <2>1, <2>3, OnlyOne
    <3>2. file' = file /\ tmp' = op[a].text /\ op'[a].where = "tmp"
      <4>1. op[a].where = "tmp" /\ tmp = Empty /\ op'[a].where = op[a].where
        BY <1>2, <3>1, WriteOps DEF WriteTmp, AloneAt
      <4> QED
        BY <1>2, <4>1 DEF WriteTmp, Overwritten
    <3> QED
      BY <1>2, <2>1, <2>2, <3>1, <3>2, WriteOps, AloneKept
  <2> QED
    BY <2>1, <2>2, <2>3 DEF AloneShape, Alone
<1>3. ASSUME NEW a \in Calls, Retire(a)
      PROVE  AloneShape'
  <2>1. /\ Busy(a) /\ synced' = (synced /\ op[a].home = Server) /\ ledger' = ledger
        /\ op[a].pc = "rename" /\ op[a].kind = "rotate" /\ file' = tmp
        /\ mem' = [mem EXCEPT ![op[a].home] = Retired(a)]
    BY <1>3 DEF Retire, Replaces, Busy, Retired
  <2>2. /\ op'[a].pc = "mkdir" /\ op'[a].home = op[a].home /\ op'[a].kind = "retire"
        /\ op'[a].new = op[a].new /\ op'[a].old = op[a].old
        /\ op'[a].text = Text(Retired(a)) /\ op'[a].live = op[a].live
        /\ \A b \in Calls \ {a} : Busy(b)' <=> Busy(b)
    BY <1>3, RetireOps DEF Busy, Relinks, Stays
  <2>3. ASSUME Alone'
        PROVE  AloneAt(a)' /\ \A b \in Calls \ {a} : ~Busy(b)'
    <3>1. Alone
      BY <2>1, <2>3 DEF Alone
    <3>2. AloneAt(a) /\ \A b \in Calls \ {a} : ~Busy(b)
      BY <2>1, <3>1, OnlyOne
    <3>3. PICK s : s = mem[op[a].home]
      OBVIOUS
    <3>4. PICK m : m = Killed(s, op[a].old)
      OBVIOUS
    <3>5. PICK r : r = Unkilled(m, op[a].old)
      OBVIOUS
    <3>6. /\ op[a].live /\ op[a].old \in s.known \ s.dead /\ op[a].new \in s.known \ s.dead
          /\ s.known = ToSet(s.list) /\ op[a].text = Text(s) /\ tmp = op[a].text
          /\ op[a].home = Server => synced
      <4>1. /\ op[a].live /\ op[a].old \in s.known \ s.dead
            /\ op[a].home = Server => synced
        BY <2>1, <3>2, <3>3 DEF AloneAt
      <4>2. op[a].new \in s.known \ s.dead
        BY <2>1, <3>2, <3>3 DEF AloneAt, OpShape
      <4>3. s.known = ToSet(s.list) /\ op[a].text = Text(s) /\ tmp = op[a].text
        BY <2>1, <3>2, <3>3 DEF AloneAt
      <4> QED
        BY <4>1, <4>2, <4>3
    <3>7. Retired(a) = m /\ mem'[op[a].home] = m /\ MemoryBefore(s, next)
      BY <2>1, <3>3, <3>4, <3>6 DEF Retired, Aged
    <3>8. /\ m.known = s.known /\ m.dead = s.dead \union {op[a].old} /\ m.list = s.list
          /\ r.list = s.list /\ r.known = s.known /\ r.dead = s.dead
      <4>1. op[a].old \in Before(next)
        BY <3>6, <3>7, KnownBefore
      <4>2. /\ m.known = s.known /\ m.dead = s.dead \union {op[a].old} /\ m.list = s.list
            /\ MemoryBefore(m, next)
        BY <3>4, <3>7, <4>1, KilledIs
      <4>3. r.list = m.list /\ r.known = m.known /\ r.dead = m.dead \ {op[a].old}
        BY <3>5, <4>2, UnkilledIs
      <4> QED
        BY <3>6, <4>2, <4>3
    <3>9. InSync(RollBack(a), file)'
      <4>1. RollBack(a)' = r
        BY <2>2, <3>5, <3>6, <3>7 DEF RollBack, Unkilled
      <4>2. file' = Text(s) /\ file' # Absent
        <5>1. TextBefore(Text(s), next)
          BY <3>7, TextIs
        <5>2. Text(s) \in Texts
          BY <5>1, OfTypes
        <5> QED
          BY <2>1, <3>6, <5>2
      <4>3. InSync(s, file')
        BY <3>6, <4>2 DEF InSync
      <4> QED
        BY <3>8, <4>1, <4>3, SameInSync
    <3>10. /\ op[a].new # op[a].old /\ \A b \in Calls \ {a} : ~Busy(b)'
           /\ op[a].home = Server => synced'
      BY <2>1, <2>2, <3>2, <3>6 DEF OpShape
    <3> QED
      BY <2>2, <3>6, <3>7, <3>8, <3>9, <3>10 DEF AloneAt, Busy
  <2>4. \A b \in Calls \ {a} : Alone' => ~Busy(b)'
    BY <2>3
  <2> QED
    BY <2>3, <2>4 DEF AloneShape, Alone
<1>4. ASSUME NEW a \in Calls, Acknowledge(a)
      PROVE  AloneShape'
  <2>1. /\ Busy(a) /\ (synced' => synced) /\ ledger'.orderly = ledger.orderly
    BY <1>4 DEF Acknowledge, Replaces, Busy, TypeOK
  <2>2. ~Busy(a)' /\ \A b \in Calls \ {a} : Busy(b)' <=> Busy(b)
    BY <1>4, NoOpIs, AcknowledgeOps DEF Busy, Relinks, Stays
  <2> QED
    BY <2>1, <2>2, OnlyOne DEF AloneShape, Alone
<1>5. ASSUME NEW a \in Calls, PersistFails(a)
      PROVE  AloneShape'
  <2>1. Busy(a) /\ synced' = synced /\ ledger'.orderly = ledger.orderly /\ ~Busy(a)'
    BY <1>5, NoOpIs DEF PersistFails, Busy, OpShape
  <2>2. \A b \in Calls \ {a} : Busy(b)' <=> Busy(b)
    BY <1>5 DEF PersistFails, Busy, Relinks, Stays
  <2> QED
    BY <2>1, <2>2, OnlyOne DEF AloneShape, Alone
<1>6. ASSUME NEW a \in Calls, NEW h \in {Server, a}, Issue(a, h)
      PROVE  AloneShape'
  <2>1. /\ CanStart(a, h) /\ Begins(a, h, ledger) /\ file' = file /\ h \in Homes
        /\ mem' = [mem EXCEPT ![h] = Added(StoreOf(h), next)]
    BY <1>6 DEF Issue
  <2>2. /\ BeginsOp(a, h, Added(StoreOf(h), next), "issue", next, NoToken)
        /\ \A b \in Calls \ {a} : Busy(b)' <=> Busy(b)
    BY <1>6, IssueOps DEF Busy, Tries, Stays
  <2>3. ASSUME Alone'
        PROVE  AloneAt(a)' /\ \A b \in Calls \ {a} : ~Busy(b)'
    <3>1. Quiet(a) /\ (h = Server => synced')
      BY <2>1, <2>3, Disorderly DEF Alone, Begins
    <3>2. h = Server => synced
      BY <2>1, <3>1 DEF Begins
    <3>3. PICK s : s = StoreOf(h)
      OBVIOUS
    <3>4. InSync(s, file') /\ MemoryBefore(s, next)
      BY <2>1, <3>1, <3>2, <3>3, StoreIs, StoreInSync
    <3>5. PICK m : m = Added(s, next)
      OBVIOUS
    <3>6. PICK r : r = RolledBack(m, next)
      OBVIOUS
    <3>7. /\ m.known = s.known \union {next} /\ m.dead = s.dead
          /\ ToSet(m.list) = ToSet(s.list) \union {next}
          /\ next \notin s.dead /\ s.known = ToSet(s.list)
          /\ r.list = s.list /\ r.known = s.known /\ r.dead = s.dead
      <4>1. s.known = ToSet(s.list) /\ MemoryBefore(s, next)
        BY <3>4 DEF InSync
      <4>2. /\ m.known = s.known \union {next} /\ m.dead = s.dead
            /\ ToSet(m.list) = ToSet(s.list) \union {next} /\ next \notin s.dead
        <5>1. /\ Added(s, next).known = s.known \union {next} /\ Added(s, next).dead = s.dead
              /\ ToSet(Added(s, next).list) = ToSet(s.list) \union {next}
          BY <4>1, AddedIs
        <5>2. next \notin s.dead
          BY <4>1 DEF MemoryBefore, Before
        <5> QED
          BY <3>5, <5>1, <5>2
      <4>3. r.list = s.list /\ r.known = s.known /\ r.dead = s.dead
        BY <3>5, <3>6, <4>1, UndoneIs
      <4> QED
        BY <4>1, <4>2, <4>3
    <3>8. RollBack(a)' = r
      <4>1. mem'[h] = m
        BY <2>1, <3>3, <3>5
      <4> QED
        BY <2>2, <3>6, <4>1 DEF RollBack, BeginsOp

    <3>9. \A b \in Calls \ {a} : ~Busy(b)'
      BY <2>2, <3>1 DEF Busy, Quiet
    <3>10. InSync(RollBack(a), file)'
      BY <3>4, <3>7, <3>8, SameInSync
    <3>11. /\ op'[a].pc = "mkdir" /\ op'[a].home = h /\ op'[a].kind = "issue"
           /\ op'[a].new = next /\ op'[a].old = NoToken /\ op'[a].text = Text(m)
           /\ op'[a].live = TRUE /\ mem'[h] = m
      BY <2>1, <2>2, <3>3, <3>5 DEF BeginsOp
    <3>12. m.known = ToSet(m.list)
           /\ next \in m.known \ m.dead
      BY <3>4, <3>7
    <3> QED
      BY <3>1, <3>9, <3>10, <3>11, <3>12 DEF AloneAt, Busy
  <2>4. \A b \in Calls \ {a} : Alone' => ~Busy(b)'
    BY <2>3
  <2> QED
    BY <2>3, <2>4 DEF AloneShape, Alone
<1>7. ASSUME NEW a \in Calls, NEW h \in {Server, a}, NEW t \in Tokens,
             Rotate(a, h, t)
      PROVE  AloneShape'
  <2>1. /\ CanStart(a, h) /\ file' = file /\ h \in Homes
        /\ Begins(a, h, [ledger EXCEPT !.origin[next] = ledger.origin[t]])
        /\ mem' = [mem EXCEPT ![h] = Added(StoreOf(h), next)]
        /\ t \in StoreOf(h).known \ StoreOf(h).dead
    BY <1>7 DEF Rotate
  <2>2. /\ BeginsOp(a, h, Added(StoreOf(h), next), "rotate", next, t)
        /\ \A b \in Calls \ {a} : Busy(b)' <=> Busy(b)
    BY <1>7, RotateOps DEF Busy, Tries, Stays
  <2>3. ASSUME Alone'
        PROVE  AloneAt(a)' /\ \A b \in Calls \ {a} : ~Busy(b)'
    <3>1. Quiet(a) /\ (h = Server => synced')
      BY <2>1, <2>3, Disorderly DEF Alone, Begins
    <3>2. h = Server => synced
      BY <2>1, <3>1 DEF Begins
    <3>3. PICK s : s = StoreOf(h)
      OBVIOUS
    <3>4. InSync(s, file') /\ MemoryBefore(s, next) /\ t \in s.known \ s.dead
      BY <2>1, <3>1, <3>2, <3>3, StoreIs, StoreInSync
    <3>5. PICK m : m = Added(s, next)
      OBVIOUS
    <3>6. PICK r : r = RolledBack(m, next)
      OBVIOUS
    <3>7. /\ m.known = s.known \union {next} /\ m.dead = s.dead
          /\ ToSet(m.list) = ToSet(s.list) \union {next}
          /\ next \notin s.dead /\ s.known = ToSet(s.list)
          /\ r.list = s.list /\ r.known = s.known /\ r.dead = s.dead
      <4>1. s.known = ToSet(s.list) /\ MemoryBefore(s, next)
        BY <3>4 DEF InSync
      <4>2. /\ m.known = s.known \union {next} /\ m.dead = s.dead
            /\ ToSet(m.list) = ToSet(s.list) \union {next} /\ next \notin s.dead
        <5>1. /\ Added(s, next).known = s.known \union {next} /\ Added(s, next).dead = s.dead
              /\ ToSet(Added(s, next).list) = ToSet(s.list) \union {next}
          BY <4>1, AddedIs
        <5>2. next \notin s.dead
          BY <4>1 DEF MemoryBefore, Before
        <5> QED
          BY <3>5, <5>1, <5>2
      <4>3. r.list = s.list /\ r.known = s.known /\ r.dead = s.dead
        BY <3>5, <3>6, <4>1, UndoneIs
      <4> QED
        BY <4>1, <4>2, <4>3
    <3>8. RollBack(a)' = r
      <4>1. mem'[h] = m
        BY <2>1, <3>3, <3>5
      <4> QED
        BY <2>2, <3>6, <4>1 DEF RollBack, BeginsOp

    <3>9. \A b \in Calls \ {a} : ~Busy(b)'
      BY <2>2, <3>1 DEF Busy, Quiet
    <3>10. InSync(RollBack(a), file)'
      BY <3>4, <3>7, <3>8, SameInSync
    <3>11. /\ op'[a].pc = "mkdir" /\ op'[a].home = h /\ op'[a].kind = "rotate"
           /\ op'[a].new = next /\ op'[a].old = t /\ op'[a].text = Text(m)
           /\ op'[a].live = TRUE /\ mem'[h] = m
      BY <2>1, <2>2, <3>3, <3>5 DEF BeginsOp
    <3>12. m.known = ToSet(m.list)
           /\ next \in m.known \ m.dead /\ t \in m.known \ m.dead
      BY <3>4, <3>7
    <3> QED
      BY <3>1, <3>9, <3>10, <3>11, <3>12 DEF AloneAt, Busy
  <2>4. \A b \in Calls \ {a} : Alone' => ~Busy(b)'
    BY <2>3
  <2> QED
    BY <2>3, <2>4 DEF AloneShape, Alone
<1>8. ASSUME NEW a \in Calls, NEW h \in {Server, a}, NEW t \in Tokens,
             Revoke(a, h, t)
      PROVE  AloneShape'
  <2>1. /\ CanStart(a, h) /\ file' = file /\ h \in Homes
        /\ Begins(a, h, [ledger EXCEPT !.dropped = @ \union {ledger.origin[t]}])
        /\ mem' = [mem EXCEPT ![h] = Killed(StoreOf(h), t)]
        /\ t \in StoreOf(h).known \ StoreOf(h).dead
    BY <1>8 DEF Revoke
  <2>2. /\ BeginsOp(a, h, Killed(StoreOf(h), t), "revoke", NoToken, t)
        /\ \A b \in Calls \ {a} : Busy(b)' <=> Busy(b)
    BY <1>8, RevokeOps DEF Busy, Tries, Stays
  <2>3. ASSUME Alone'
        PROVE  AloneAt(a)' /\ \A b \in Calls \ {a} : ~Busy(b)'
    <3>1. Quiet(a) /\ (h = Server => synced')
      BY <2>1, <2>3, Disorderly DEF Alone, Begins
    <3>2. h = Server => synced
      BY <2>1, <3>1 DEF Begins
    <3>3. PICK s : s = StoreOf(h)
      OBVIOUS
    <3>4. InSync(s, file') /\ MemoryBefore(s, next) /\ t \in s.known \ s.dead
      BY <2>1, <3>1, <3>2, <3>3, StoreIs, StoreInSync
    <3>5. PICK m : m = Killed(s, t)
      OBVIOUS
    <3>6. PICK r : r = Unkilled(m, t)
      OBVIOUS
    <3>7. /\ m.known = s.known /\ m.dead = s.dead \union {t} /\ m.list = s.list
          /\ s.known = ToSet(s.list)
          /\ r.list = s.list /\ r.known = s.known /\ r.dead = s.dead
      <4>1. t \in Before(next)
        BY <3>4, KnownBefore
      <4>2. /\ m.known = s.known /\ m.dead = s.dead \union {t} /\ m.list = s.list
            /\ MemoryBefore(m, next)
        BY <3>4, <3>5, <4>1, KilledIs
      <4>3. r.list = m.list /\ r.known = m.known /\ r.dead = m.dead \ {t}
        BY <3>6, <4>2, UnkilledIs
      <4> QED
        BY <3>4, <4>2, <4>3 DEF InSync
    <3>8. RollBack(a)' = r
      <4>1. mem'[h] = m
        BY <2>1, <3>3, <3>5
      <4> QED
        BY <2>2, <3>6, <4>1 DEF RollBack, BeginsOp, Unkilled

    <3>9. \A b \in Calls \ {a} : ~Busy(b)'
      BY <2>2, <3>1 DEF Busy, Quiet
    <3>10. InSync(RollBack(a), file)'
      BY <3>4, <3>7, <3>8, SameInSync
    <3>11. /\ op'[a].pc = "mkdir" /\ op'[a].home = h /\ op'[a].kind = "revoke"
           /\ op'[a].new = NoToken /\ op'[a].old = t /\ op'[a].text = Text(m)
           /\ op'[a].live = TRUE /\ mem'[h] = m
      BY <2>1, <2>2, <3>3, <3>5 DEF BeginsOp
    <3>12. m.known = ToSet(m.list)
           /\ t \in m.dead
      BY <3>4, <3>7
    <3> QED
      BY <3>1, <3>9, <3>10, <3>11, <3>12 DEF AloneAt, Busy
  <2>4. \A b \in Calls \ {a} : Alone' => ~Busy(b)'
    BY <2>3
  <2> QED
    BY <2>3, <2>4 DEF AloneShape, Alone
<1>9. ASSUME NEW a \in Calls, NEW h \in {Server, a}, NEW t \in Tokens,
             RevokeAgain(a, h, t)
      PROVE  AloneShape'
  <2>1. PICK entries : Begins(a, h, entries)
    BY <1>9 DEF RevokeAgain
  <2>2. op' = op /\ ~Busy(a)
    BY <1>9 DEF RevokeAgain, CanStart, Busy
  <2>3. Alone' => Quiet(a)
    BY <2>1, Disorderly DEF Alone, Begins
  <2> QED
    BY <2>2, <2>3 DEF AloneShape, Alone, Quiet, Busy
<1>10. ASSUME NEW a \in Calls, CliKilled(a)
       PROVE  AloneShape'
  <2>1. Busy(a) /\ synced' = synced /\ ledger'.orderly = ledger.orderly /\ ~Busy(a)'
    BY <1>10, NoOpIs DEF CliKilled, Busy, OpShape
  <2>2. \A b \in Calls \ {a} : Busy(b)' <=> Busy(b)
    BY <1>10 DEF CliKilled, Busy, Relinks, Stays
  <2> QED
    BY <2>1, <2>2, OnlyOne DEF AloneShape, Alone
<1>11. CASE ReloadAbsent
  <2>1. /\ ~synced' /\ (ledger'.orderly => AllIdle)
        /\ \A b \in Calls : Busy(b)' <=> Busy(b)
    BY <1>11, DetachedIs DEF ReloadAbsent, Interrupted, NoLedger, Detaches, Stays, Busy
  <2> QED
    BY <2>1 DEF AloneShape, AllIdle, Busy
<1>12. CASE ReloadRead
  <2>1. /\ mem' = mem /\ op' = op /\ file' = file /\ tmp' = tmp /\ synced' = synced
        /\ ledger'.orderly => ledger.orderly
    BY <1>12 DEF ReloadRead, Interrupted, NoLedger
  <2>2. ASSUME NEW b \in Calls, Busy(b)', Alone'
        PROVE  AloneAt(b)'
    <3>1. AloneAt(b) /\ RollBack(b)' = RollBack(b)
      BY <2>1, <2>2, OnlyOne DEF Alone, Busy, RollBack
    <3> QED
      BY <2>1, <3>1 DEF AloneAt, Busy, InSync
  <2> QED
    BY <2>2 DEF AloneShape, Alone
<1>13. CASE ReloadSwap
  <2>1. /\ (synced' => AllIdle) /\ (ledger'.orderly => AllIdle)
        /\ \A b \in Calls : Busy(b)' <=> Busy(b)
    BY <1>13, DetachedIs DEF ReloadSwap, ReloadShape, Detaches, Stays, Busy
  <2> QED
    BY <2>1 DEF AloneShape, AllIdle, Busy
<1>14. CASE ReloadFails
  <2>1. /\ mem' = mem /\ op' = op /\ file' = file /\ tmp' = tmp /\ synced' = synced
        /\ ledger'.orderly => ledger.orderly
    BY <1>14 DEF ReloadFails, Interrupted, NoLedger
  <2>2. ASSUME NEW b \in Calls, Busy(b)', Alone'
        PROVE  AloneAt(b)'
    <3>1. AloneAt(b) /\ RollBack(b)' = RollBack(b)
      BY <2>1, <2>2, OnlyOne DEF Alone, Busy, RollBack
    <3> QED
      BY <2>1, <3>1 DEF AloneAt, Busy, InSync
  <2> QED
    BY <2>2 DEF AloneShape, Alone
<1>15. CASE Crash
  <2>1. ~synced' /\ ledger' = ledger /\ file' = file /\ tmp' = tmp
    BY <1>15 DEF Crash
  <2>2. \A b \in Calls : /\ Busy(b)' => op'[b] = op[b] /\ Busy(b)
                         /\ Busy(b)' => op[b].home = b /\ mem'[b] = mem[b] /\ b # Server
    BY <1>15, NoOpIs DEF Crash, Busy, OpShape
  <2>3. ASSUME NEW b \in Calls, Busy(b)', ledger'.orderly
        PROVE  AloneAt(b)'
    <3>1. /\ AloneAt(b) /\ op'[b] = op[b] /\ mem'[op'[b].home] = mem[op[b].home]
          /\ op'[b].home # Server
      BY <2>1, <2>2, <2>3, OnlyOne DEF Alone
    <3>2. RollBack(b)' = RollBack(b)
      BY <3>1 DEF RollBack
    <3>3. InSync(RollBack(b), file)'
      BY <2>1, <3>1, <3>2 DEF AloneAt
    <3>4. \A c \in Calls \ {b} : ~Busy(c)'
      BY <2>2, <3>1 DEF AloneAt
    <3> QED
      BY <2>1, <3>1, <3>3, <3>4 DEF AloneAt
  <2> QED
    BY <2>1, <2>3 DEF AloneShape
<1>16. CASE Boot
  <2>1. /\ ledger' = ledger /\ file' = file /\ tmp' = tmp /\ op' = op
        /\ (synced' => AllIdle) /\ \A b \in Calls : mem'[b] = mem[b]
    BY <1>16 DEF Boot
  <2>2. \A b \in Calls : /\ Busy(b)' <=> Busy(b)
                         /\ Busy(b) => op[b].home = b /\ b # Server /\ ~AllIdle
    BY <1>16, <2>1 DEF Boot, Busy, OpShape, AllIdle
  <2>3. ASSUME NEW b \in Calls, Busy(b)', ledger'.orderly
        PROVE  AloneAt(b)'
    <3>1. /\ AloneAt(b) /\ op'[b] = op[b] /\ mem'[op'[b].home] = mem[op[b].home]
          /\ op'[b].home # Server
      BY <2>1, <2>2, <2>3, OnlyOne DEF Alone
    <3>2. RollBack(b)' = RollBack(b)
      BY <3>1 DEF RollBack
    <3>3. InSync(RollBack(b), file)'
      BY <2>1, <3>1, <3>2 DEF AloneAt
    <3>4. \A c \in Calls \ {b} : ~Busy(c)'
      BY <2>2, <3>1 DEF AloneAt
    <3> QED
      BY <2>1, <3>1, <3>3, <3>4 DEF AloneAt
  <2> QED
    BY <2>1, <2>2, <2>3 DEF AloneShape
<1>17. ASSUME NEW f \in {Absent, Broken}, EditFile(f)
       PROVE  AloneShape'
  <2>1. ~synced' /\ ~ledger'.orderly
    BY <1>17 DEF EditFile, NoLedger
  <2> QED
    BY <2>1 DEF AloneShape
<1>18. CASE UNCHANGED vars
  BY <1>18 DEF vars, history, AloneShape, AloneAt, Busy, RollBack, InSync
<1> QED
  BY <1>1, <1>2, <1>3, <1>4, <1>5, <1>6, <1>7, <1>8, <1>9, <1>10, <1>11, <1>12, <1>13,
     <1>14, <1>15, <1>16, <1>17, <1>18 DEF Next

(* ---- Memory and file --------------------------------------------------------- *)

\* A step after which the server's tools rest only if they did before.
LEMMA SyncedKept ==
  ASSUME SyncedShape, synced' => synced, file' = file, up' = up, mem'[Server] = mem[Server],
         NoToolRuns' => NoToolRuns
  PROVE  SyncedShape'
BY DEF SyncedShape, InSync

\* One after which a tool runs.
LEMMA SyncedRuns ==
  ASSUME SyncedShape, synced' => synced, synced' => file' # Absent, up' = up,
         NEW a \in Calls, Busy(a)', op'[a].home = Server
  PROVE  SyncedShape'
BY DEF SyncedShape, NoToolRuns, Busy

\* The server's memory stays in step with the file it read.
LEMMA SyncedShaped ==
  ASSUME Inv, [Next]_vars
  PROVE  SyncedShape'
<1>a. /\ SyncedShape /\ AloneShape /\ OpShape /\ TypeOK /\ Aged /\ ReloadShape
      /\ op \in [Calls -> OpRecords] /\ next \in 1..MaxTokens + 1
      /\ mem \in [Homes -> Memories] /\ Server \in Homes
      /\ \A a \in Calls : a \in Homes /\ a # Server
      /\ next \in Nat \ {0} /\ \A a \in Calls : op[a].home \in Homes
  BY DEF Inv, TypeOK, Homes, Aged, OpRecords
<1> USE <1>a
<1> USE DEF history
<1>1. ASSUME NEW a \in Calls, OpenTmp(a)
      PROVE  SyncedShape'
  <2>1. /\ op'[a].home = op[a].home /\ Busy(a)' /\ Busy(a)
        /\ \A b \in Calls \ {a} : op'[b] = op[b]
    BY <1>1, OpenOps DEF OpenTmp, Busy
  <2>2. synced' = synced /\ up' = up /\ mem' = mem
    BY <1>1 DEF OpenTmp
  <2>3. synced => file' = file
    BY <1>1, <2>1 DEF OpenTmp
  <2>4. NoToolRuns' => NoToolRuns
    BY <2>1 DEF NoToolRuns, Busy
  <2> QED
    BY <2>2, <2>3, <2>4, SyncedKept DEF SyncedShape
<1>2. ASSUME NEW a \in Calls, WriteTmp(a)
      PROVE  SyncedShape'
  <2>1. /\ op'[a].home = op[a].home /\ Busy(a)' /\ Busy(a)
        /\ \A b \in Calls \ {a} : op'[b] = op[b]
    BY <1>2, WriteOps DEF WriteTmp, Busy
  <2>2. synced' = synced /\ up' = up /\ mem' = mem
    BY <1>2 DEF WriteTmp
  <2>3. synced => file' = file
    BY <1>2, <2>1, OnlyOne DEF WriteTmp, AloneAt, Alone
  <2>4. NoToolRuns' => NoToolRuns
    BY <2>1 DEF NoToolRuns, Busy
  <2> QED
    BY <2>2, <2>3, <2>4, SyncedKept DEF SyncedShape
<1>3. ASSUME NEW a \in Calls, Retire(a)
      PROVE  SyncedShape'
  <2>1. /\ op'[a].home = op[a].home /\ Busy(a)' /\ Busy(a)
    BY <1>3, RetireOps DEF Retire, Replaces, Busy
  <2>2. /\ up' = up /\ synced' = (synced /\ op[a].home = Server) /\ file' = tmp
        /\ op[a].pc = "rename"
    BY <1>3 DEF Retire, Replaces
  <2>3. synced' => file' # Absent
    BY <1>3 DEF Retire, Replaces
  <2>4. CASE op[a].home = Server
    BY <2>1, <2>2, <2>3, <2>4, SyncedRuns
  <2>5. CASE op[a].home # Server
    BY <2>2, <2>5 DEF SyncedShape
  <2> QED
    BY <2>4, <2>5
<1>4. ASSUME NEW a \in Calls, Acknowledge(a)
      PROVE  SyncedShape'
  <2>1. /\ up' = up /\ synced' = (synced /\ op[a].home = Server) /\ file' = tmp
        /\ op[a].pc = "rename" /\ tmp # Absent /\ Busy(a)
        /\ mem' = Ended(a, mem[op[a].home])
    BY <1>4 DEF Acknowledge, Replaces, Busy
  <2>2. ASSUME synced'
        PROVE  InSync(mem[Server], file)'
    <3>1. AloneAt(a) /\ op[a].home = Server
      BY <2>1, <2>2, OnlyOne DEF Alone
    <3>2. /\ mem'[Server] = mem[Server] /\ file' = Text(mem[Server]) /\ file' # Absent
          /\ mem[Server].known = ToSet(mem[Server].list)
      BY <2>1, <3>1 DEF AloneAt, Ended
    <3> QED
      BY <3>2 DEF InSync
  <2>3. synced' => up' /\ file' # Absent
    BY <2>1 DEF SyncedShape
  <2> QED
    BY <2>2, <2>3 DEF SyncedShape
<1>5. ASSUME NEW a \in Calls, PersistFails(a)
      PROVE  SyncedShape'
  <2>1. /\ up' = up /\ synced' = synced /\ mem' = Ended(a, RollBack(a)) /\ Busy(a)
        /\ \A b \in Calls \ {a} : op'[b] = op[b]
    BY <1>5 DEF PersistFails, Busy
  <2>2. ASSUME synced
        PROVE  AloneAt(a) /\ file' = file
    <3>1. AloneAt(a)
      BY <2>1, <2>2, OnlyOne DEF Alone
    <3> QED
      BY <1>5, <3>1 DEF PersistFails, AloneAt
  <2>3. CASE op[a].home = Server
    <3>1. synced => InSync(RollBack(a), file') /\ mem'[Server] = RollBack(a)
      BY <2>1, <2>2, <2>3 DEF AloneAt, Ended
    <3> QED
      BY <2>1, <2>2, <3>1 DEF SyncedShape, InSync
  <2>4. CASE op[a].home # Server
    <3>1. mem'[Server] = mem[Server]
      BY <2>1, <2>4 DEF Ended
    <3>2. NoToolRuns' => NoToolRuns
      BY <2>1, <2>4 DEF NoToolRuns
    <3> QED
      BY <2>1, <2>2, <3>1, <3>2, SyncedKept DEF SyncedShape
  <2> QED
    BY <2>3, <2>4
<1>6. ASSUME NEW a \in Calls, NEW h \in {Server, a}, Issue(a, h)
      PROVE  SyncedShape'
  <2>1. /\ ~Busy(a) /\ file' = file /\ up' = up /\ (synced' => synced)
        /\ h # Server => mem'[Server] = mem[Server]
    BY <1>6 DEF Issue, Begins, CanStart, Busy
  <2>2. /\ Busy(a)' /\ op'[a].home = h
        /\ \A b \in Calls \ {a} : op'[b].home = op[b].home /\ op'[b].pc = op[b].pc
    <3>1. op'[a].pc = "mkdir" /\ op'[a].home = h
      <4>1. BeginsOp(a, h, Added(StoreOf(h), next), "issue", next, NoToken)
        BY <1>6, IssueOps
      <4> QED
        BY <4>1 DEF BeginsOp
    <3>2. \A b \in Calls \ {a} : op'[b].home = op[b].home /\ op'[b].pc = op[b].pc
      BY <1>6, IssueOps DEF Tries, Stays
    <3> QED
      BY <3>1, <3>2 DEF Busy
  <2>3. CASE h = Server
    BY <2>1, <2>2, <2>3, SyncedRuns DEF SyncedShape
  <2>4. CASE h # Server
    <3>1. NoToolRuns' => NoToolRuns
      BY <2>1, <2>2 DEF NoToolRuns, Busy
    <3> QED
      BY <2>1, <2>4, <3>1, SyncedKept
  <2> QED
    BY <2>3, <2>4
<1>7. ASSUME NEW a \in Calls, NEW h \in {Server, a}, NEW t \in Tokens,
             Rotate(a, h, t)
      PROVE  SyncedShape'
  <2>1. /\ ~Busy(a) /\ file' = file /\ up' = up /\ (synced' => synced)
        /\ h # Server => mem'[Server] = mem[Server]
    BY <1>7 DEF Rotate, Begins, CanStart, Busy
  <2>2. /\ Busy(a)' /\ op'[a].home = h
        /\ \A b \in Calls \ {a} : op'[b].home = op[b].home /\ op'[b].pc = op[b].pc
    <3>1. op'[a].pc = "mkdir" /\ op'[a].home = h
      <4>1. BeginsOp(a, h, Added(StoreOf(h), next), "rotate", next, t)
        BY <1>7, RotateOps
      <4> QED
        BY <4>1 DEF BeginsOp
    <3>2. \A b \in Calls \ {a} : op'[b].home = op[b].home /\ op'[b].pc = op[b].pc
      BY <1>7, RotateOps DEF Tries, Stays
    <3> QED
      BY <3>1, <3>2 DEF Busy
  <2>3. CASE h = Server
    BY <2>1, <2>2, <2>3, SyncedRuns DEF SyncedShape
  <2>4. CASE h # Server
    <3>1. NoToolRuns' => NoToolRuns
      BY <2>1, <2>2 DEF NoToolRuns, Busy
    <3> QED
      BY <2>1, <2>4, <3>1, SyncedKept
  <2> QED
    BY <2>3, <2>4
<1>8. ASSUME NEW a \in Calls, NEW h \in {Server, a}, NEW t \in Tokens,
             Revoke(a, h, t)
      PROVE  SyncedShape'
  <2>1. /\ ~Busy(a) /\ file' = file /\ up' = up /\ (synced' => synced)
        /\ h # Server => mem'[Server] = mem[Server]
    BY <1>8 DEF Revoke, Begins, CanStart, Busy
  <2>2. /\ Busy(a)' /\ op'[a].home = h
        /\ \A b \in Calls \ {a} : op'[b].home = op[b].home /\ op'[b].pc = op[b].pc
    <3>1. op'[a].pc = "mkdir" /\ op'[a].home = h
      <4>1. BeginsOp(a, h, Killed(StoreOf(h), t), "revoke", NoToken, t)
        BY <1>8, RevokeOps
      <4> QED
        BY <4>1 DEF BeginsOp
    <3>2. \A b \in Calls \ {a} : op'[b].home = op[b].home /\ op'[b].pc = op[b].pc
      BY <1>8, RevokeOps DEF Tries, Stays
    <3> QED
      BY <3>1, <3>2 DEF Busy
  <2>3. CASE h = Server
    BY <2>1, <2>2, <2>3, SyncedRuns DEF SyncedShape
  <2>4. CASE h # Server
    <3>1. NoToolRuns' => NoToolRuns
      BY <2>1, <2>2 DEF NoToolRuns, Busy
    <3> QED
      BY <2>1, <2>4, <3>1, SyncedKept
  <2> QED
    BY <2>3, <2>4
<1>9. ASSUME NEW a \in Calls, NEW h \in {Server, a}, NEW t \in Tokens,
             RevokeAgain(a, h, t)
      PROVE  SyncedShape'
  <2>1. file' = file /\ up' = up /\ mem' = mem /\ op' = op /\ (synced' => synced)
    BY <1>9 DEF RevokeAgain, Begins
  <2> QED
    BY <2>1, SyncedKept DEF NoToolRuns
<1>10. ASSUME NEW a \in Calls, CliKilled(a)
       PROVE  SyncedShape'
  <2>1. /\ file' = file /\ up' = up /\ mem'[Server] = mem[Server] /\ synced' = synced
        /\ op[a].home # Server /\ \A b \in Calls \ {a} : op'[b] = op[b]
    BY <1>10 DEF CliKilled
  <2>2. NoToolRuns' => NoToolRuns
    BY <2>1 DEF NoToolRuns
  <2> QED
    BY <2>1, <2>2, SyncedKept
<1>11. CASE ReloadAbsent
  <2>1. ~synced'
    BY <1>11 DEF ReloadAbsent
  <2> QED
    BY <2>1 DEF SyncedShape
<1>12. CASE ReloadRead
  <2>1. file' = file /\ up' = up /\ mem' = mem /\ op' = op /\ synced' = synced
    BY <1>12 DEF ReloadRead
  <2> QED
    BY <2>1, SyncedKept DEF NoToolRuns
<1>13. CASE ReloadSwap
  <2>1. /\ mem'[Server] = Loaded(reload.text) /\ file' = file /\ up'
        /\ synced' => reload.text = file
    BY <1>13 DEF ReloadSwap, ReloadShape
  <2>2. reload.text # Broken /\ reload.text # Absent /\ FileBefore(reload.text, next)
    BY <1>13 DEF ReloadSwap, ReloadShape, Aged
  <2>3. InSync(Loaded(reload.text), reload.text)
    BY <2>2, LoadedInSync DEF FileBefore
  <2> QED
    BY <2>1, <2>2, <2>3 DEF SyncedShape
<1>14. CASE ReloadFails
  <2>1. file' = file /\ up' = up /\ mem' = mem /\ op' = op /\ synced' = synced
    BY <1>14 DEF ReloadFails
  <2> QED
    BY <2>1, SyncedKept DEF NoToolRuns
<1>15. CASE Crash
  <2>1. ~synced'
    BY <1>15 DEF Crash
  <2> QED
    BY <2>1 DEF SyncedShape
<1>16. CASE Boot
  <2>1. /\ mem'[Server] = Loaded(file) /\ file' = file /\ up'
        /\ synced' => file = file
    BY <1>16 DEF Boot, ReloadShape
  <2>2. file # Broken /\ file # Absent /\ FileBefore(file, next)
    BY <1>16 DEF Boot, ReloadShape, Aged
  <2>3. InSync(Loaded(file), file)
    BY <2>2, LoadedInSync DEF FileBefore
  <2> QED
    BY <2>1, <2>2, <2>3 DEF SyncedShape
<1>17. ASSUME NEW f \in {Absent, Broken}, EditFile(f)
       PROVE  SyncedShape'
  <2>1. ~synced'
    BY <1>17 DEF EditFile
  <2> QED
    BY <2>1 DEF SyncedShape
<1>18. CASE UNCHANGED vars
  BY <1>18 DEF vars, history, SyncedShape, InSync, NoToolRuns
<1> QED
  BY <1>1, <1>2, <1>3, <1>4, <1>5, <1>6, <1>7, <1>8, <1>9, <1>10, <1>11, <1>12, <1>13,
     <1>14, <1>15, <1>16, <1>17, <1>18 DEF Next

(* ---- What was answered -------------------------------------------------------- *)

\* Operations that were disorderly are remembered by nothing.
LEMMA Disorder ==
  ASSUME ~ledger'.orderly, ledger'.granted = {}, ledger'.retired = {}
  PROVE  LedgerShape' /\ RotationLeavesNoGap' /\ RevocationSticks'
BY DEF LedgerShape, RotationLeavesNoGap, RevocationSticks

LEMMA NoLedgerIs == ~NoLedger.orderly /\ NoLedger.granted = {} /\ NoLedger.retired = {}
BY DEF NoLedger

\* What is active in a file that memory is in step with.
LEMMA InSyncActive ==
  ASSUME NEW m, NEW f, InSync(m, f), f # Absent
  PROVE  Active(f) = m.known \ m.dead
<1>1. f.list = m.list /\ f.dead = m.dead \intersect ToSet(m.list) /\ m.known = ToSet(m.list)
  BY DEF InSync, Text
<1> QED
  BY <1>1 DEF Active

\* The text of an operation that runs alone has what is active in memory: its
\* new token beside what the file has, or its old one no longer.
LEMMA ActiveAlone ==
  ASSUME Inv, NEW a \in Calls, Busy(a), AloneAt(a), NEW m, m = mem[op[a].home]
  PROVE  /\ op[a].text \in Texts /\ Active(op[a].text) = m.known \ m.dead
         /\ op[a].new # NoToken => op[a].new \in Active(op[a].text)
         /\ op[a].kind \in {"revoke", "retire"} => op[a].old \notin Active(op[a].text)
         /\ file # Absent =>
              /\ op[a].kind \in {"issue", "rotate"} =>
                   Active(op[a].text) = Active(file) \union {op[a].new}
              /\ op[a].kind \in {"revoke", "retire"} =>
                   Active(op[a].text) = Active(file) \ {op[a].old}
<1>1. /\ MemoryBefore(m, next) /\ op[a].text = Text(m) /\ m.known = ToSet(m.list)
      /\ InSync(RollBack(a), file) /\ op[a].live
      /\ op[a].new # NoToken => op[a].new \in m.known \ m.dead
      /\ op[a].kind \in {"revoke", "retire"} => op[a].old \in m.dead
      /\ next \in 1..MaxTokens + 1 /\ next \in Nat
  BY DEF Inv, Aged, TypeOK, OpRecords, AloneAt
<1>2. op[a].text \in Texts /\ Active(op[a].text) = m.known \ m.dead
  BY <1>1, TextIs, OfTypes
<1>3. ASSUME file # Absent, op[a].kind \in {"issue", "rotate"}
      PROVE  Active(op[a].text) = Active(file) \union {op[a].new}
  <2>1. RollBack(a) = RolledBack(m, op[a].new)
    BY <1>3 DEF RollBack
  <2>2. RollBack(a).known = m.known \ {op[a].new} /\ RollBack(a).dead = m.dead
    BY <1>1, <2>1, RolledBackIs
  <2>3. Active(file) = RollBack(a).known \ RollBack(a).dead
    BY <1>1, <1>3, InSyncActive
  <2>4. op[a].new \in m.known \ m.dead
    BY <1>1, <1>3 DEF Inv, OpShape
  <2> QED
    BY <1>2, <2>2, <2>3, <2>4
<1>4. ASSUME file # Absent, op[a].kind \in {"revoke", "retire"}
      PROVE  Active(op[a].text) = Active(file) \ {op[a].old}
  <2>1. RollBack(a) = Unkilled(m, op[a].old)
    BY <1>1, <1>4 DEF RollBack, Unkilled
  <2>2. RollBack(a).known = m.known /\ RollBack(a).dead = m.dead \ {op[a].old}
    BY <1>1, <2>1, UnkilledIs
  <2>3. Active(file) = RollBack(a).known \ RollBack(a).dead
    BY <1>1, <1>4, InSyncActive
  <2> QED
    BY <1>1, <1>2, <1>4, <2>2, <2>3
<1> QED
  BY <1>1, <1>2, <1>3, <1>4

\* The ledger and the file are as they were, and so is who runs, or has ended.
LEMMA ShapeKept ==
  ASSUME LedgerShape, ledger' = ledger, file' = file,
         \A b \in Calls : \/ ~Busy(b)'
                          \/ /\ Busy(b) /\ op'[b].new = op[b].new /\ op'[b].old = op[b].old
                             /\ op'[b].kind = op[b].kind
  PROVE  LedgerShape'
BY DEF LedgerShape

\* Tokens keep their origin.
LEMMA GapKept ==
  ASSUME RotationLeavesNoGap, file' = file, ledger'.granted = ledger.granted,
         ledger.dropped \subseteq ledger'.dropped,
         file \in Texts => Active(file) \subseteq Before(next),
         ledger.granted \subseteq Before(next),
         \A t \in Before(next) : ledger'.origin[t] = ledger.origin[t]
  PROVE  RotationLeavesNoGap'
BY DEF RotationLeavesNoGap

\* The server forgets records, or is in step with the file.
LEMMA SticksKept ==
  ASSUME RevocationSticks, file' = file, ledger'.retired = ledger.retired,
         \A t \in ledger.retired : synced' /\ Authenticates(t)' => synced /\ Authenticates(t)
  PROVE  RevocationSticks'
BY DEF RevocationSticks

LEMMA SticksIn ==
  ASSUME RevocationSticks, file' = file, ledger'.retired = ledger.retired,
         synced' => InSync(mem[Server], file)' /\ file # Absent
  PROVE  RevocationSticks'
<1>1. ASSUME NEW t \in ledger.retired, synced'
      PROVE  ~Authenticates(t)'
  <2>1. Active(file') = mem'[Server].known \ mem'[Server].dead
    BY <1>1, InSyncActive
  <2> QED
    BY <1>1, <2>1 DEF RevocationSticks, Authenticates
<1> QED
  BY <1>1 DEF RevocationSticks

\* What was answered stays true of the file and of the server.
LEMMA LedgerKept ==
  ASSUME Inv, [Next]_vars
  PROVE  LedgerShape' /\ RotationLeavesNoGap' /\ RevocationSticks'
<1>a. /\ SyncedShape /\ AloneShape /\ OpShape /\ TypeOK /\ Aged /\ ReloadShape /\ LedgerShape
      /\ RotationLeavesNoGap /\ RevocationSticks /\ Inv
      /\ op \in [Calls -> OpRecords] /\ next \in 1..MaxTokens + 1 /\ file \in Files
      /\ mem \in [Homes -> Memories] /\ Server \in Homes
      /\ \A a \in Calls : a \in Homes /\ a # Server
      /\ next \in Nat \ {0} /\ \A a \in Calls : op[a].home \in Homes
      /\ ledger \in OfLedger
  BY DEF Inv, TypeOK, Homes, Aged, OpRecords, OfLedger
<1>b. /\ ledger.granted \subseteq Before(next) /\ ledger.retired \subseteq Before(next)
      /\ file \in Texts => Active(file) \subseteq Before(next)
  <2>1. file \in Texts => TextBefore(file, next)
    BY <1>a DEF Aged, FileBefore
  <2>2. file \in Texts => ToSet(file.list) \subseteq Before(next)
    BY <2>1, ToSetIn DEF TextBefore
  <2> QED
    BY <1>a, <2>2 DEF Aged, Active
<1> USE <1>a, <1>b
<1> USE DEF history
<1>1. ASSUME NEW a \in Calls, OpenTmp(a)
      PROVE  LedgerShape' /\ RotationLeavesNoGap' /\ RevocationSticks'
  <2>1. /\ ledger' = ledger /\ file' = file /\ mem'[Server] = mem[Server] /\ up' = up
        /\ synced' => synced
    BY <1>1 DEF OpenTmp
  <2>2. \A b \in Calls : \/ ~Busy(b)'
                         \/ /\ Busy(b) /\ op'[b].new = op[b].new /\ op'[b].old = op[b].old
                            /\ op'[b].kind = op[b].kind
    <3>1. Busy(a)
      BY <1>1 DEF OpenTmp, Busy
    <3> QED
      BY <1>1, <3>1, OpenOps DEF Busy
  <2>3. LedgerShape'
    BY <2>1, <2>2, ShapeKept
  <2>4. RotationLeavesNoGap'
    BY <2>1, GapKept
  <2>5. RevocationSticks'
    BY <2>1, SticksKept DEF Authenticates
  <2> QED
    BY <2>3, <2>4, <2>5
<1>2. ASSUME NEW a \in Calls, WriteTmp(a)
      PROVE  LedgerShape' /\ RotationLeavesNoGap' /\ RevocationSticks'
  <2>1. ledger' = ledger /\ mem' = mem /\ up' = up /\ synced' = synced /\ Busy(a)
    BY <1>2 DEF WriteTmp, Busy
  <2>2. \A b \in Calls : \/ ~Busy(b)'
                         \/ /\ Busy(b) /\ op'[b].new = op[b].new /\ op'[b].old = op[b].old
                            /\ op'[b].kind = op[b].kind
    BY <1>2, WriteOps DEF WriteTmp, Busy
  <2>3. CASE ~ledger.orderly
    <3>1. ~ledger'.orderly /\ ledger'.granted = {} /\ ledger'.retired = {}
      BY <1>2, <2>3 DEF WriteTmp, LedgerShape
    <3> QED
      BY <3>1, Disorder
  <2>4. CASE ledger.orderly
    <3>1. AloneAt(a)
      BY <2>1, <2>4, OnlyOne DEF Alone
    <3>2. file' = file
      BY <1>2, <3>1 DEF WriteTmp, AloneAt
    <3>3. LedgerShape'
      BY <2>1, <2>2, <3>2, ShapeKept
    <3>4. RotationLeavesNoGap'
      BY <2>1, <3>2, GapKept
    <3>5. RevocationSticks'
      BY <2>1, <3>2, SticksKept DEF Authenticates
    <3> QED
      BY <3>3, <3>4, <3>5
  <2> QED
    BY <2>3, <2>4
<1>3. ASSUME NEW a \in Calls, Retire(a)
      PROVE  LedgerShape' /\ RotationLeavesNoGap' /\ RevocationSticks'
  <2>1. /\ Busy(a) /\ synced' = (synced /\ op[a].home = Server) /\ ledger' = ledger
        /\ op[a].pc = "rename" /\ op[a].kind = "rotate" /\ file' = tmp /\ up' = up
        /\ mem' = [mem EXCEPT ![op[a].home] = Retired(a)]
    BY <1>3 DEF Retire, Replaces, Busy, Retired
  <2>2. /\ op'[a].kind = "retire" /\ op'[a].new = op[a].new /\ op'[a].old = op[a].old
        /\ \A b \in Calls \ {a} : Busy(b)' <=> Busy(b)
    BY <1>3, RetireOps DEF Busy, Relinks, Stays
  <2>3. CASE ~ledger.orderly
    <3>1. ~ledger'.orderly /\ ledger'.granted = {} /\ ledger'.retired = {}
      BY <1>3, <2>3 DEF Retire, LedgerShape
    <3> QED
      BY <3>1, Disorder
  <2>4. CASE ledger.orderly
    <3>1. PICK m : m = mem[op[a].home]
      OBVIOUS
    <3>2. /\ AloneAt(a) /\ file' = op[a].text /\ op[a].new # NoToken
          /\ \A b \in Calls \ {a} : ~Busy(b)
      BY <2>1, <2>4, OnlyOne DEF Alone, AloneAt, OpShape
    <3>3. /\ file' \in Texts /\ Active(file') = m.known \ m.dead
          /\ file # Absent => Active(file') = Active(file) \union {op[a].new}
      BY <2>1, <3>1, <3>2, ActiveAlone
    <3>4. op[a].new \notin ledger.retired
      BY <2>1, <2>4 DEF LedgerShape
    <3>5. LedgerShape'
      <4>1. ledger.origin[op[a].new] = ledger.origin[op[a].old]
            /\ op[a].new \notin ledger.granted \union ledger.retired
        BY <2>1, <2>4 DEF LedgerShape
      <4> QED
        BY <2>1, <2>2, <2>4, <3>2, <3>3, <4>1 DEF LedgerShape
    <3>6. RotationLeavesNoGap'
      BY <2>1, <3>3 DEF RotationLeavesNoGap
    <3>7. ASSUME NEW t \in ledger.retired
          PROVE  t \notin Active(file')
      BY <3>3, <3>4, <3>7 DEF RevocationSticks, LedgerShape
    <3>8. ASSUME NEW t \in ledger.retired, synced'
          PROVE  ~Authenticates(t)'
      <4>1. op[a].home = Server /\ mem'[Server] = Killed(m, op[a].old)
        BY <2>1, <3>1, <3>2, <3>8 DEF Retired, AloneAt
      <4>2. mem'[Server].known = m.known /\ m.dead \subseteq mem'[Server].dead
        <5>1. MemoryBefore(m, next) /\ op[a].old \in Before(next)
          BY <2>1, <3>1, <4>1 DEF Aged, OpShape, Before, OpRecords, Tokens, NoToken
        <5> QED
          BY <4>1, <5>1, KilledIs
      <4> QED
        BY <3>3, <3>7, <3>8, <4>2 DEF Authenticates
    <3> QED
      BY <2>1, <3>3, <3>5, <3>6, <3>7, <3>8 DEF RevocationSticks
  <2> QED
    BY <2>3, <2>4
<1>4. ASSUME NEW a \in Calls, Acknowledge(a)
      PROVE  LedgerShape' /\ RotationLeavesNoGap' /\ RevocationSticks'
  <2>1. /\ Busy(a) /\ synced' = (synced /\ op[a].home = Server)
        /\ op[a].pc = "rename" /\ op[a].kind # "rotate" /\ file' = tmp /\ up' = up
        /\ mem' = Ended(a, mem[op[a].home])
    BY <1>4 DEF Acknowledge, Replaces, Busy
  <2>2. ~Busy(a)' /\ \A b \in Calls \ {a} : Busy(b)' <=> Busy(b)
    BY <1>4, NoOpIs, AcknowledgeOps DEF Busy, Relinks, Stays
  <2>3. CASE ~ledger.orderly
    <3>1. ~ledger'.orderly /\ ledger'.granted = {} /\ ledger'.retired = {}
      BY <1>4, <2>3 DEF Acknowledge, LedgerShape
    <3> QED
      BY <3>1, Disorder
  <2>4. CASE ledger.orderly
    <3>1. PICK m : m = mem[op[a].home]
      OBVIOUS
    <3>2. /\ ledger'.granted = ledger.granted \union ({op[a].new} \ {NoToken})
          /\ ledger'.retired = ledger.retired \union ({op[a].old} \ {NoToken})
          /\ ledger'.origin = ledger.origin /\ ledger'.dropped = ledger.dropped
      BY <1>4, <2>4 DEF Acknowledge, OfLedger
    <3>3. /\ AloneAt(a) /\ file' = op[a].text /\ \A b \in Calls \ {a} : ~Busy(b)
      BY <2>1, <2>4, OnlyOne DEF Alone, AloneAt
    <3>4. op[a].kind \in {"issue", "revoke", "retire"}
      BY <2>1 DEF OpShape, OpRecords
    <3>5. /\ op[a].new # NoToken <=> op[a].kind \in {"issue", "retire"}
          /\ op[a].old # NoToken <=> op[a].kind \in {"revoke", "retire"}
      BY <3>4 DEF OpShape
    <3>6. /\ file' \in Texts /\ Active(file') = m.known \ m.dead
          /\ op[a].new # NoToken => op[a].new \in Active(file')
          /\ op[a].old # NoToken => op[a].old \notin Active(file')
          /\ file # Absent /\ op[a].kind = "issue" =>
               Active(file') = Active(file) \union {op[a].new}
          /\ file # Absent /\ op[a].kind \in {"revoke", "retire"} =>
               Active(file') = Active(file) \ {op[a].old}
      BY <2>1, <3>1, <3>3, <3>5, ActiveAlone
    <3>7. /\ op[a].new \notin ledger.retired
          /\ op[a].kind = "retire" => ledger.origin[op[a].new] = ledger.origin[op[a].old]
          /\ op[a].kind = "revoke" => ledger.origin[op[a].old] \in ledger.dropped
      BY <2>1, <2>4 DEF LedgerShape
    <3>8. LedgerShape'
      <4>1. ledger'.orderly
        BY <1>4, <2>4 DEF Acknowledge, OfLedger
      <4> QED
        BY <2>2, <3>3, <3>6, <4>1 DEF LedgerShape
    <3>9. RotationLeavesNoGap'
      <4>1. ASSUME NEW t \in ledger.granted, ledger.origin[t] \notin ledger.dropped
            PROVE  \E s \in Active(file') : ledger.origin[s] = ledger.origin[t]
        <5>1. PICK s \in Active(file) : ledger.origin[s] = ledger.origin[t]
          BY <4>1 DEF RotationLeavesNoGap
        <5>2. file # Absent
          BY <4>1 DEF RotationLeavesNoGap
        <5>3. CASE s \in Active(file')
          BY <5>1, <5>3
        <5>4. CASE s \notin Active(file')
          <6>1. s = op[a].old /\ op[a].kind \in {"revoke", "retire"}
            BY <3>4, <3>6, <5>1, <5>2, <5>4
          <6>2. op[a].kind = "retire" /\ op[a].new \in Active(file')
            BY <3>5, <3>6, <3>7, <4>1, <5>1, <6>1
          <6> QED
            BY <3>7, <5>1, <6>1, <6>2
        <5> QED
          BY <5>3, <5>4
      <4> QED
        BY <3>2, <3>6, <4>1 DEF RotationLeavesNoGap
    <3>10. ASSUME NEW t \in ledger'.retired
           PROVE  t \notin Active(file')
      <4>1. CASE t \in ledger.retired
        <5>1. file # Absent /\ t \notin Active(file)
          BY <4>1 DEF RevocationSticks
        <5> QED
          BY <3>4, <3>6, <3>7, <4>1, <5>1
      <4>2. CASE t \notin ledger.retired
        BY <3>2, <3>6, <3>10, <4>2
      <4> QED
        BY <4>1, <4>2
    <3>11. ASSUME NEW t \in ledger'.retired, synced'
           PROVE  ~Authenticates(t)'
      <4>1. mem'[Server] = m
        BY <2>1, <3>1, <3>11 DEF Ended
      <4> QED
        BY <3>6, <3>10, <3>11, <4>1 DEF Authenticates
    <3> QED
      BY <3>6, <3>8, <3>9, <3>10, <3>11 DEF RevocationSticks
  <2> QED
    BY <2>3, <2>4
<1>5. ASSUME NEW a \in Calls, PersistFails(a)
      PROVE  LedgerShape' /\ RotationLeavesNoGap' /\ RevocationSticks'
  <2>1. /\ ledger' = ledger /\ up' = up /\ synced' = synced /\ Busy(a)
        /\ mem' = Ended(a, RollBack(a))
    BY <1>5 DEF PersistFails, Busy
  <2>2. \A b \in Calls : \/ ~Busy(b)'
                         \/ /\ Busy(b) /\ op'[b].new = op[b].new /\ op'[b].old = op[b].old
                            /\ op'[b].kind = op[b].kind
    BY <1>5, NoOpIs DEF PersistFails, Busy
  <2>3. CASE ~ledger.orderly
    <3>1. ~ledger'.orderly /\ ledger'.granted = {} /\ ledger'.retired = {}
      BY <1>5, <2>3 DEF PersistFails, LedgerShape
    <3> QED
      BY <3>1, Disorder
  <2>4. CASE ledger.orderly
    <3>1. AloneAt(a)
      BY <2>1, <2>4, OnlyOne DEF Alone
    <3>2. file' = file
      BY <1>5, <3>1 DEF PersistFails, AloneAt
    <3>3. LedgerShape'
      BY <2>1, <2>2, <3>2, ShapeKept
    <3>4. RotationLeavesNoGap'
      BY <2>1, <3>2, GapKept
    <3>5. CASE op[a].home = Server
      <4>1. mem'[Server] = RollBack(a) /\ InSync(RollBack(a), file)
        BY <2>1, <3>1, <3>5 DEF Ended, AloneAt
      <4>2. synced' => InSync(mem[Server], file)' /\ file # Absent
        BY <2>1, <3>2, <4>1 DEF SyncedShape
      <4> QED
        BY <2>1, <3>2, <3>3, <3>4, <4>2, SticksIn
    <3>6. CASE op[a].home # Server
      <4>1. mem'[Server] = mem[Server]
        BY <2>1, <3>6 DEF Ended
      <4>2. RevocationSticks'
        BY <2>1, <3>2, <4>1, SticksKept DEF Authenticates
      <4> QED
        BY <3>3, <3>4, <4>2
    <3> QED
      BY <3>5, <3>6
  <2> QED
    BY <2>3, <2>4
<1>6. ASSUME NEW a \in Calls, NEW h \in {Server, a}, Issue(a, h)
      PROVE  LedgerShape' /\ RotationLeavesNoGap' /\ RevocationSticks'
  <2>1. /\ CanStart(a, h) /\ Begins(a, h, ledger) /\ file' = file /\ up' = up
        /\ mem' = [mem EXCEPT ![h] = Added(StoreOf(h), next)] /\ next \in Tokens
    BY <1>6 DEF Issue
  <2>2. BeginsOp(a, h, Added(StoreOf(h), next), "issue", next, NoToken)
    BY <1>6, IssueOps
  <2>3. CASE ~ledger'.orderly
    <3>1. ledger'.granted = {} /\ ledger'.retired = {}
      BY <2>1, <2>3, NoLedgerIs DEF Begins
    <3> QED
      BY <2>3, <3>1, Disorder
  <2>4. CASE ledger'.orderly
    <3>1. /\ ledger.orderly /\ Quiet(a) /\ (h = Server => synced)
          /\ ledger' = ledger
      BY <2>1, <2>4, Disorderly
    <3>2. /\ ledger'.granted = ledger.granted /\ ledger'.retired = ledger.retired
          /\ ledger'.origin = ledger.origin /\ ledger'.dropped = ledger.dropped
      BY <3>1
    <3>3. next \notin ledger.granted \union ledger.retired
      BY DEF Before
    <3>4. RotationLeavesNoGap'
      BY <2>1, <3>2, GapKept
    <3>5. \A b \in Calls \ {a} : ~Busy(b)'
      BY <1>6, <3>1, IssueOps DEF Quiet, Busy, Tries, Stays
    <3>6. LedgerShape'
      <4>1. op'[a].kind = "issue" /\ op'[a].new = next /\ op'[a].old = NoToken
        BY <2>2 DEF BeginsOp
      <4> QED
        BY <2>1, <2>4, <3>1, <3>2, <3>3, <3>5, <4>1 DEF LedgerShape
    <3>7. RevocationSticks'
      <4>1. synced' => synced
        BY <2>1 DEF Begins
      <4>2. ASSUME NEW u \in ledger.retired, Authenticates(u)'
            PROVE  Authenticates(u)
        <5>1. CASE h = Server
          <6>1. mem'[Server] = Added(mem[Server], next) /\ MemoryBefore(mem[Server], next)
            BY <2>1, <5>1 DEF StoreOf, Aged
          <6>2. /\ mem'[Server].known = mem[Server].known \union {next}
                /\ mem'[Server].dead = mem[Server].dead
            BY <6>1, AddedIs
          <6>3. u # next
            BY DEF Before
          <6> QED
            BY <2>1, <4>2, <6>2, <6>3 DEF Authenticates
        <5>2. CASE h # Server
          BY <2>1, <4>2, <5>2 DEF Authenticates
        <5> QED
          BY <5>1, <5>2
      <4> QED
        BY <2>1, <3>2, <4>1, <4>2, SticksKept
    <3> QED
      BY <3>4, <3>6, <3>7
  <2> QED
    BY <2>3, <2>4
<1>7. ASSUME NEW a \in Calls, NEW h \in {Server, a}, NEW t \in Tokens,
             Rotate(a, h, t)
      PROVE  LedgerShape' /\ RotationLeavesNoGap' /\ RevocationSticks'
  <2>1. /\ CanStart(a, h) /\ file' = file /\ up' = up
        /\ Begins(a, h, [ledger EXCEPT !.origin[next] = ledger.origin[t]])
        /\ mem' = [mem EXCEPT ![h] = Added(StoreOf(h), next)]
        /\ t \in StoreOf(h).known /\ next \in Tokens
    BY <1>7 DEF Rotate
  <2>2. BeginsOp(a, h, Added(StoreOf(h), next), "rotate", next, t)
    BY <1>7, RotateOps
  <2>3. CASE ~ledger'.orderly
    <3>1. ledger'.granted = {} /\ ledger'.retired = {}
      BY <2>1, <2>3, NoLedgerIs DEF Begins
    <3> QED
      BY <2>3, <3>1, Disorder
  <2>4. CASE ledger'.orderly
    <3>1. /\ ledger.orderly /\ Quiet(a) /\ (h = Server => synced)
          /\ ledger' = [ledger EXCEPT !.origin[next] = ledger.origin[t]]
      BY <2>1, <2>4, Disorderly
    <3>2. /\ ledger'.granted = ledger.granted /\ ledger'.retired = ledger.retired
          /\ ledger'.dropped = ledger.dropped
          /\ \A u \in Before(next) : ledger'.origin[u] = ledger.origin[u]
          /\ ledger'.origin[next] = ledger.origin[t]
      BY <2>1, <3>1 DEF OfLedger, Before, Tokens
    <3>3. /\ next \notin ledger.granted \union ledger.retired /\ t \in Before(next)
      BY <2>1, StoreIs, KnownBefore DEF Before
    <3>4. RotationLeavesNoGap'
      BY <2>1, <3>2, GapKept
    <3>5. \A b \in Calls \ {a} : ~Busy(b)'
      BY <1>7, <3>1, RotateOps DEF Quiet, Busy, Tries, Stays
    <3>6. LedgerShape'
      <4>1. op'[a].kind = "rotate" /\ op'[a].new = next /\ op'[a].old = t
        BY <2>2 DEF BeginsOp
      <4> QED
        BY <2>1, <2>4, <3>1, <3>2, <3>3, <3>5, <4>1 DEF LedgerShape
    <3>7. RevocationSticks'
      <4>1. synced' => synced
        BY <2>1 DEF Begins
      <4>2. ASSUME NEW u \in ledger.retired, Authenticates(u)'
            PROVE  Authenticates(u)
        <5>1. CASE h = Server
          <6>1. mem'[Server] = Added(mem[Server], next) /\ MemoryBefore(mem[Server], next)
            BY <2>1, <5>1 DEF StoreOf, Aged
          <6>2. /\ mem'[Server].known = mem[Server].known \union {next}
                /\ mem'[Server].dead = mem[Server].dead
            BY <6>1, AddedIs
          <6>3. u # next
            BY DEF Before
          <6> QED
            BY <2>1, <4>2, <6>2, <6>3 DEF Authenticates
        <5>2. CASE h # Server
          BY <2>1, <4>2, <5>2 DEF Authenticates
        <5> QED
          BY <5>1, <5>2
      <4> QED
        BY <2>1, <3>2, <4>1, <4>2, SticksKept
    <3> QED
      BY <3>4, <3>6, <3>7
  <2> QED
    BY <2>3, <2>4
<1>8. ASSUME NEW a \in Calls, NEW h \in {Server, a}, NEW t \in Tokens,
             Revoke(a, h, t)
      PROVE  LedgerShape' /\ RotationLeavesNoGap' /\ RevocationSticks'
  <2>1. /\ CanStart(a, h) /\ file' = file /\ up' = up
        /\ Begins(a, h, [ledger EXCEPT !.dropped = @ \union {ledger.origin[t]}])
        /\ mem' = [mem EXCEPT ![h] = Killed(StoreOf(h), t)]
        /\ t \in StoreOf(h).known
    BY <1>8 DEF Revoke
  <2>2. BeginsOp(a, h, Killed(StoreOf(h), t), "revoke", NoToken, t)
    BY <1>8, RevokeOps
  <2>3. CASE ~ledger'.orderly
    <3>1. ledger'.granted = {} /\ ledger'.retired = {}
      BY <2>1, <2>3, NoLedgerIs DEF Begins
    <3> QED
      BY <2>3, <3>1, Disorder
  <2>4. CASE ledger'.orderly
    <3>1. /\ ledger.orderly /\ Quiet(a) /\ (h = Server => synced)
          /\ ledger' = [ledger EXCEPT !.dropped = @ \union {ledger.origin[t]}]
      BY <2>1, <2>4, Disorderly
    <3>2. /\ ledger'.granted = ledger.granted /\ ledger'.retired = ledger.retired
          /\ ledger'.origin = ledger.origin
          /\ ledger'.dropped = ledger.dropped \union {ledger.origin[t]}
      BY <3>1 DEF OfLedger
    <3>3. NoToken \notin ledger.granted \union ledger.retired
      BY DEF Before, NoToken
    <3>4. RotationLeavesNoGap'
      BY <2>1, <3>2, GapKept
    <3>5. \A b \in Calls \ {a} : ~Busy(b)'
      BY <1>8, <3>1, RevokeOps DEF Quiet, Busy, Tries, Stays
    <3>6. LedgerShape'
      <4>1. op'[a].kind = "revoke" /\ op'[a].new = NoToken /\ op'[a].old = t
        BY <2>2 DEF BeginsOp
      <4> QED
        BY <2>1, <2>4, <3>1, <3>2, <3>3, <3>5, <4>1 DEF LedgerShape
    <3>7. RevocationSticks'
      <4>1. synced' => synced
        BY <2>1 DEF Begins
      <4>2. ASSUME NEW u \in ledger.retired, Authenticates(u)'
            PROVE  Authenticates(u)
        <5>1. CASE h = Server
          <6>1. mem'[Server] = Killed(mem[Server], t) /\ MemoryBefore(mem[Server], next)
            BY <2>1, <5>1 DEF StoreOf, Aged
          <6>2. t \in Before(next)
            BY <2>1, <5>1, <6>1, KnownBefore DEF StoreOf
          <6>3. /\ mem'[Server].known = mem[Server].known
                /\ mem'[Server].dead = mem[Server].dead \union {t}
            BY <6>1, <6>2, KilledIs
          <6> QED
            BY <2>1, <4>2, <6>3 DEF Authenticates
        <5>2. CASE h # Server
          BY <2>1, <4>2, <5>2 DEF Authenticates
        <5> QED
          BY <5>1, <5>2
      <4> QED
        BY <2>1, <3>2, <4>1, <4>2, SticksKept
    <3> QED
      BY <3>4, <3>6, <3>7
  <2> QED
    BY <2>3, <2>4
<1>9. ASSUME NEW a \in Calls, NEW h \in {Server, a}, NEW t \in Tokens,
             RevokeAgain(a, h, t)
      PROVE  LedgerShape' /\ RotationLeavesNoGap' /\ RevocationSticks'
  <2>1. /\ CanStart(a, h) /\ file' = file /\ up' = up /\ mem' = mem /\ op' = op
        /\ t \in StoreOf(h).known \intersect StoreOf(h).dead
        /\ Begins(a, h, [ledger EXCEPT !.retired = @ \union {t},
                                       !.dropped = @ \union {ledger.origin[t]}])
    BY <1>9 DEF RevokeAgain
  <2>2. CASE ~ledger'.orderly
    <3>1. ledger'.granted = {} /\ ledger'.retired = {}
      BY <2>1, <2>2, NoLedgerIs DEF Begins, OfLedger
    <3> QED
      BY <2>2, <3>1, Disorder
  <2>3. CASE ledger'.orderly
    <3>1. /\ ledger.orderly /\ Quiet(a) /\ (h = Server => synced)
          /\ ledger' = [ledger EXCEPT !.retired = @ \union {t},
                                      !.dropped = @ \union {ledger.origin[t]}]
      BY <2>1, <2>3, Disorderly
    <3>2. /\ ledger'.granted = ledger.granted /\ ledger'.origin = ledger.origin
          /\ ledger'.retired = ledger.retired \union {t}
          /\ ledger'.dropped = ledger.dropped \union {ledger.origin[t]}
      BY <3>1 DEF OfLedger
    <3>3. PICK s : s = StoreOf(h)
      OBVIOUS
    <3>4. InSync(s, file) /\ t \in s.known /\ t \in s.dead
      BY <2>1, <3>1, <3>3, StoreInSync
    <3>5. file # Absent
      <4>1. ASSUME file = Absent
            PROVE  FALSE
        <5>1. s.list = <<>> /\ s.known = ToSet(s.list)
          BY <3>4, <4>1 DEF InSync, Text, Empty
        <5> QED
          BY <3>4, <5>1 DEF ToSet
      <4> QED
        BY <4>1
    <3>6. file \in Texts
      BY <3>1, <3>5 DEF LedgerShape, Files
    <3>7. t \notin Active(file)
      BY <3>4, <3>5, InSyncActive
    <3>8. LedgerShape'
      <4>1. \A b \in Calls : ~Busy(b)'
        BY <2>1, <3>1 DEF Busy, CanStart, Quiet
      <4> QED
        BY <2>1, <2>3, <3>5, <3>6, <4>1 DEF LedgerShape
    <3>9. RotationLeavesNoGap'
      BY <2>1, <3>2, GapKept
    <3>10. ASSUME synced'
           PROVE  ~Authenticates(t)'
      <4>1. synced /\ NoToolRuns
        BY <2>1, <3>1, <3>10 DEF Begins, NoToolRuns, Quiet, CanStart
      <4>2. Active(file) = mem[Server].known \ mem[Server].dead
        BY <3>5, <4>1, InSyncActive DEF SyncedShape
      <4> QED
        BY <2>1, <3>7, <4>2 DEF Authenticates
    <3>11. \A u \in ledger.retired :
             file \in Texts /\ u \notin Active(file) /\ (synced' => ~Authenticates(u)')
      BY <2>1 DEF RevocationSticks, Begins, Authenticates
    <3> QED
      BY <2>1, <3>2, <3>6, <3>7, <3>8, <3>9, <3>10, <3>11 DEF RevocationSticks
  <2> QED
    BY <2>2, <2>3
<1>10. ASSUME NEW a \in Calls, CliKilled(a)
       PROVE  LedgerShape' /\ RotationLeavesNoGap' /\ RevocationSticks'
  <2>1. /\ ledger' = ledger /\ file' = file /\ mem'[Server] = mem[Server] /\ up' = up
        /\ synced' => synced
    BY <1>10 DEF CliKilled
  <2>2. \A b \in Calls : \/ ~Busy(b)'
                         \/ /\ Busy(b) /\ op'[b].new = op[b].new /\ op'[b].old = op[b].old
                            /\ op'[b].kind = op[b].kind
    BY <1>10, NoOpIs DEF CliKilled, Busy
  <2>3. LedgerShape'
    BY <2>1, <2>2, ShapeKept
  <2>4. RotationLeavesNoGap'
    BY <2>1, GapKept
  <2>5. RevocationSticks'
    BY <2>1, SticksKept DEF Authenticates
  <2> QED
    BY <2>3, <2>4, <2>5
<1>11. CASE ReloadAbsent
  <2>1. file' = file /\ (ledger' = ledger \/ ledger' = NoLedger)
    BY <1>11 DEF ReloadAbsent, Interrupted
  <2>2. CASE ledger' = NoLedger
    BY <2>2, NoLedgerIs, Disorder
  <2>3. CASE ledger' = ledger
    <3>1. \A b \in Calls : \/ ~Busy(b)'
                           \/ /\ Busy(b) /\ op'[b].new = op[b].new
                              /\ op'[b].old = op[b].old /\ op'[b].kind = op[b].kind
      BY <1>11, DetachedIs DEF ReloadAbsent, Busy, Detaches, Stays
    <3>2. LedgerShape'
      BY <2>1, <2>3, <3>1, ShapeKept
    <3>3. RotationLeavesNoGap'
      BY <2>1, <2>3, GapKept
    <3>4. RevocationSticks'
      BY <1>11, <2>1, <2>3, SticksKept DEF ReloadAbsent, Authenticates
    <3> QED
      BY <3>2, <3>3, <3>4
  <2> QED
    BY <2>1, <2>2, <2>3
<1>12. CASE ReloadRead
  <2>1. file' = file /\ (ledger' = ledger \/ ledger' = NoLedger)
    BY <1>12 DEF ReloadRead, Interrupted
  <2>2. CASE ledger' = NoLedger
    BY <2>2, NoLedgerIs, Disorder
  <2>3. CASE ledger' = ledger
    <3>1. \A b \in Calls : \/ ~Busy(b)'
                           \/ /\ Busy(b) /\ op'[b].new = op[b].new
                              /\ op'[b].old = op[b].old /\ op'[b].kind = op[b].kind
      BY <1>12, DetachedIs DEF ReloadRead, Busy, Detaches, Stays
    <3>2. LedgerShape'
      BY <2>1, <2>3, <3>1, ShapeKept
    <3>3. RotationLeavesNoGap'
      BY <2>1, <2>3, GapKept
    <3>4. RevocationSticks'
      BY <1>12, <2>1, <2>3, SticksKept DEF ReloadRead, Authenticates
    <3> QED
      BY <3>2, <3>3, <3>4
  <2> QED
    BY <2>1, <2>2, <2>3
<1>13. CASE ReloadSwap
  <2>1. /\ ledger' = ledger /\ file' = file
    BY <1>13 DEF ReloadSwap
  <2>2. \A b \in Calls : \/ ~Busy(b)'
                         \/ /\ Busy(b) /\ op'[b].new = op[b].new /\ op'[b].old = op[b].old
                            /\ op'[b].kind = op[b].kind
    BY <1>13, DetachedIs DEF ReloadSwap, Busy, Detaches, Stays
  <2>3. LedgerShape'
    BY <2>1, <2>2, ShapeKept
  <2>4. RotationLeavesNoGap'
    BY <2>1, GapKept
  <2>5. synced' => InSync(mem[Server], file)' /\ file # Absent
    <3>1. mem'[Server] = Loaded(reload.text) /\ (synced' => reload.text = file)
      BY <1>13 DEF ReloadSwap, ReloadShape
    <3>2. reload.text # Broken /\ reload.text # Absent /\ FileBefore(reload.text, next)
      BY <1>13 DEF ReloadSwap, ReloadShape, Aged
    <3>3. InSync(Loaded(reload.text), reload.text)
      BY <3>2, LoadedInSync DEF FileBefore
    <3> QED
      BY <2>1, <3>1, <3>2, <3>3
  <2> QED
    BY <2>1, <2>3, <2>4, <2>5, SticksIn
<1>14. CASE ReloadFails
  <2>1. /\ ledger' = ledger /\ file' = file /\ mem'[Server] = mem[Server] /\ up' = up
        /\ synced' => synced
    BY <1>14 DEF ReloadFails
  <2>2. \A b \in Calls : \/ ~Busy(b)'
                         \/ /\ Busy(b) /\ op'[b].new = op[b].new /\ op'[b].old = op[b].old
                            /\ op'[b].kind = op[b].kind
    BY <1>14, NoOpIs DEF ReloadFails, Busy
  <2>3. LedgerShape'
    BY <2>1, <2>2, ShapeKept
  <2>4. RotationLeavesNoGap'
    BY <2>1, GapKept
  <2>5. RevocationSticks'
    BY <2>1, SticksKept DEF Authenticates
  <2> QED
    BY <2>3, <2>4, <2>5
<1>15. CASE Crash
  <2>1. /\ ledger' = ledger /\ file' = file /\ ~synced'
    BY <1>15 DEF Crash
  <2>2. \A b \in Calls : \/ ~Busy(b)'
                         \/ /\ Busy(b) /\ op'[b].new = op[b].new /\ op'[b].old = op[b].old
                            /\ op'[b].kind = op[b].kind
    BY <1>15, NoOpIs DEF Crash, Busy
  <2>3. LedgerShape'
    BY <2>1, <2>2, ShapeKept
  <2>4. RotationLeavesNoGap'
    BY <2>1, GapKept
  <2>5. RevocationSticks'
    BY <2>1, SticksKept
  <2> QED
    BY <2>3, <2>4, <2>5
<1>16. CASE Boot
  <2>1. /\ ledger' = ledger /\ file' = file
    BY <1>16 DEF Boot
  <2>2. \A b \in Calls : \/ ~Busy(b)'
                         \/ /\ Busy(b) /\ op'[b].new = op[b].new /\ op'[b].old = op[b].old
                            /\ op'[b].kind = op[b].kind
    BY <1>16, DetachedIs DEF Boot, Busy, Detaches, Stays
  <2>3. LedgerShape'
    BY <2>1, <2>2, ShapeKept
  <2>4. RotationLeavesNoGap'
    BY <2>1, GapKept
  <2>5. synced' => InSync(mem[Server], file)' /\ file # Absent
    <3>1. mem'[Server] = Loaded(file) /\ (synced' => file = file)
      BY <1>16 DEF Boot, ReloadShape
    <3>2. file # Broken /\ file # Absent /\ FileBefore(file, next)
      BY <1>16 DEF Boot, ReloadShape, Aged
    <3>3. InSync(Loaded(file), file)
      BY <3>2, LoadedInSync DEF FileBefore
    <3> QED
      BY <2>1, <3>1, <3>2, <3>3
  <2> QED
    BY <2>1, <2>3, <2>4, <2>5, SticksIn
<1>17. ASSUME NEW f \in {Absent, Broken}, EditFile(f)
       PROVE  LedgerShape' /\ RotationLeavesNoGap' /\ RevocationSticks'
  <2>1. ledger' = NoLedger
    BY <1>17 DEF EditFile
  <2> QED
    BY <2>1, NoLedgerIs, Disorder
<1>18. CASE UNCHANGED vars
  BY <1>18 DEF vars, history, LedgerShape, RotationLeavesNoGap, RevocationSticks,
     Authenticates, Busy
<1> QED
  BY <1>1, <1>2, <1>3, <1>4, <1>5, <1>6, <1>7, <1>8, <1>9, <1>10, <1>11, <1>12, <1>13,
     <1>14, <1>15, <1>16, <1>17, <1>18 DEF Next

(* ---- The theorems --------------------------------------------------------------- *)

LEMMA InitInv == Init => Inv
<1> SUFFICES ASSUME Init
             PROVE  Inv
  OBVIOUS
<1>1. PICK granted \in {{}, {1}} :
        /\ file = IF granted = {} THEN Absent ELSE [list |-> <<1>>, dead |-> {}]
        /\ next = Cardinality(granted) + 1
        /\ ledger = [NoLedger EXCEPT !.orderly = TRUE, !.granted = granted]
  BY DEF Init
<1>2. /\ up = FALSE /\ mem = [h \in Homes |-> NoMemory] /\ tmp = Absent
      /\ op = [a \in Calls |-> NoOp] /\ reload = NoReload /\ races = 0 /\ edits = 0
      /\ vouched = {} /\ synced = FALSE
  BY DEF Init
<1>3. Cardinality({}) = 0 /\ Cardinality({1}) = 1
  BY FS_EmptySet, FS_Singleton
<1>4. /\ next \in 1..MaxTokens + 1 /\ next \in Nat \ {0}
      /\ granted = {} => file = Absent /\ next = 1
      /\ granted # {} => granted = {1} /\ file = [list |-> <<1>>, dead |-> {}] /\ next = 2
  BY <1>1, <1>3
<1>5. TextBefore(Empty, next) /\ MemoryBefore(NoMemory, next) /\ NoMemory \in Memories
  BY <1>4, EmptyOnes, OfTypes
<1>6. FileBefore(file, next) /\ file \in Files
  <2>1. CASE granted = {}
    BY <1>4, <2>1 DEF FileBefore, Files
  <2>2. CASE granted # {}
    <3>1. TextBefore(file, next)
      BY <1>4, <2>2, Singleton
    <3> QED
      BY <1>4, <3>1, OfTypes DEF FileBefore, Files
  <2> QED
    BY <2>1, <2>2
<1>7. /\ ledger.granted = granted /\ ledger.retired = {} /\ ledger.dropped = {}
      /\ ledger.orderly = TRUE /\ ledger.origin = [t \in Tokens |-> t]
  BY <1>1 DEF NoLedger
<1>8. ledger \in OfLedger
  <2>1. granted \subseteq Tokens
    BY <1>1 DEF Tokens
  <2> QED
    BY <1>1, <2>1 DEF NoLedger, OfLedger
<1>9. \A a \in Calls : op[a] = NoOp /\ ~Busy(a)
  BY <1>2, NoOpIs DEF Busy
<1>10. TypeOK
  <2>1. mem \in [Homes -> Memories] /\ op \in [Calls -> OpRecords]
    BY <1>2, <1>5, NoOpIs
  <2>2. reload \in [pc : {"idle", "read"}, text : Files, clean : BOOLEAN] /\ tmp \in Files
    BY <1>2 DEF NoReload, Files
  <2>3. up \in BOOLEAN /\ synced \in BOOLEAN /\ vouched \in SUBSET Tokens
    BY <1>2
  <2>4. races \in 0..MaxRaces /\ edits \in 0..MaxEdits
    BY <1>2
  <2> QED
    BY <1>4, <1>6, <1>8, <2>1, <2>2, <2>3, <2>4 DEF TypeOK, OfLedger
<1>11. Aged
  BY <1>2, <1>4, <1>5, <1>6, <1>7, <1>9, NoOpIs DEF Aged, NoReload, FileBefore, Before,
     NoToken
<1>12. OpShape /\ VouchShape /\ AloneShape /\ LedgerShape
  <2>1. OpShape
    BY <1>2, <1>9, NoOpIs DEF OpShape
  <2>2. VouchShape /\ AloneShape
    BY <1>2, <1>9, NoOpIs DEF VouchShape, AloneShape
  <2>3. LedgerShape
    <3>1. file # Broken /\ (granted # {} => file # Absent)
      <4>1. [list |-> <<1>>, dead |-> {}] \in Texts \/ granted = {}
        BY <1>4, Singleton, OfTypes
      <4> QED
        BY <1>4, <4>1
    <3> QED
      BY <1>7, <1>9, <3>1 DEF LedgerShape
  <2> QED
    BY <2>1, <2>2, <2>3
<1>13. ReloadShape /\ SyncedShape /\ GrantedAuthenticates /\ RevocationSticks
  BY <1>2, <1>7 DEF ReloadShape, NoReload, SyncedShape, GrantedAuthenticates,
     RevocationSticks
<1>14. RotationLeavesNoGap
  <2>1. CASE granted = {}
    BY <1>7, <2>1 DEF RotationLeavesNoGap
  <2>2. CASE granted # {}
    <3>1. file = [list |-> <<1>>, dead |-> {}] /\ TextBefore(file, next) /\ file \in Texts
      BY <1>4, <2>2, Singleton, OfTypes
    <3>2. ToSet(file.list) = {1} /\ file.dead = {}
      BY <1>4, <2>2, <3>1, Singleton
    <3>3. 1 \in Active(file) /\ granted = {1}
      BY <1>4, <2>2, <3>2 DEF Active
    <3> QED
      BY <1>7, <3>1, <3>3 DEF RotationLeavesNoGap
  <2> QED
    BY <2>1, <2>2
<1> QED
  BY <1>10, <1>11, <1>12, <1>13, <1>14 DEF Inv

LEMMA NextInv == Inv /\ [Next]_vars => Inv'
BY Typed, Ages, OpShaped, VouchShaped, ReloadShaped, AloneShaped, SyncedShaped,
   LedgerKept DEF Inv

\* Whatever calls, reloads, crashes and edits interleave.
THEOREM InvHolds == Spec => []Inv
<1>1. Init => Inv
  BY InitInv
<1>2. Inv /\ [Next]_vars => Inv'
  BY NextInv
<1> QED
  BY <1>1, <1>2, PTL DEF Spec

\* Every store, every text and every file is of its type.
THEOREM TypeCorrect == Spec => []TypeOK
<1>1. Inv => TypeOK
  BY DEF Inv
<1> QED
  BY <1>1, InvHolds, PTL

\* After operations that did not overlap, whatever of them failed, the
\* server's memory is what tokens.yaml says.
THEOREM MemoryIsFileHolds == Spec => []MemoryIsFile
<1>1. Inv => MemoryIsFile
  BY DEF Inv, SyncedShape, MemoryIsFile, InSync
<1> QED
  BY <1>1, InvHolds, PTL

\* A bearer that the server vouched for is let in until its token is revoked,
\* rotated or the file is read again.
THEOREM GrantedAuthenticatesHolds == Spec => []GrantedAuthenticates
<1>1. Inv => GrantedAuthenticates
  BY DEF Inv
<1> QED
  BY <1>1, InvHolds, PTL

\* Operations that do not overlap lose no credential, at no step of theirs.
THEOREM RotationLeavesNoGapHolds == Spec => []RotationLeavesNoGap
<1>1. Inv => RotationLeavesNoGap
  BY DEF Inv
<1> QED
  BY <1>1, InvHolds, PTL

\* And bring none back.
THEOREM RevocationSticksHolds == Spec => []RevocationSticks
<1>1. Inv => RevocationSticks
  BY DEF Inv
<1> QED
  BY <1>1, InvHolds, PTL
=============================================================================
