----------------------------- MODULE WriteMutex -----------------------------
(***************************************************************************)
(* The write lock of one MaadEngine: the class AsyncFifoMutex and the      *)
(* method runExclusive every mutating operation goes through.              *)
(*                                                                         *)
(* JavaScript runs one turn of the event loop at a time, so the state      *)
(* changes only between the awaits of the code: acquire() and release()    *)
(* are atomic, but a caller whose grant was resolved runs in a later turn  *)
(* (phase "granted"), and a caller inside the lock is interleaved with     *)
(* every other caller at each await of its body.                           *)
(***************************************************************************)
EXTENDS Sequences, Naturals, FiniteSets

CONSTANTS Callers,   \* async contexts: MCP requests, CLI commands, imports
          NoCaller,  \* the null of lastWriteOp
          MaxNest    \* bound on how deep runExclusive is re-entered

ASSUME CallersAssumption == NoCaller \notin Callers
ASSUME MaxNestAssumption == MaxNest \in Nat

VARIABLES
  held,         \* AsyncFifoMutex.held
  queue,        \* AsyncFifoMutex.queue: the callers whose grant closure waits
  phase,        \* where each caller is in runExclusive
  kind,         \* what the caller asked runExclusive for
  nest,         \* re-entered scopes of the caller (writeScope already set)
  lastWriteOp,  \* the operation health reports as running
  initialized,  \* MaadEngine.initialized
  open          \* the SQLite handle behind this.backend is open

mutexVars == <<held, queue, phase, kind, nest, lastWriteOp, initialized, open>>

\* A mutation, engine.reload() called directly, or the MCP tool maad_reload,
\* whose handler calls engine.reload() from inside the tool's own scope.
Kinds == {"write", "reload", "maad_reload"}

Phases == {"idle",     \* outside runExclusive
           "waiting",  \* awaits acquire(), grant closure in the queue
           "granted",  \* acquire() resolved, the continuation not yet run
           "loading",  \* inside, re-reading registry and schemas from disk
           "body",     \* inside, fn() about to take its EngineContext
           "working",  \* inside, fn() holds an EngineContext
           "reinit",   \* inside reload(): backend closed, init() running
           "reloaded"} \* inside, reload() has returned

Inside  == {"loading", "body", "working", "reinit", "reloaded"}
Owning  == Inside \union {"granted"}

MutexTypeOK ==
  /\ held \in BOOLEAN
  /\ queue \in Seq(Callers)
  /\ phase \in [Callers -> Phases]
  /\ kind \in [Callers -> Kinds]
  /\ nest \in [Callers -> 0..MaxNest]
  /\ lastWriteOp \in Callers \union {NoCaller}
  /\ initialized \in BOOLEAN
  /\ open \in BOOLEAN

\* The state MaadEngine.init() leaves behind when it succeeds.
MutexInit ==
  /\ held = FALSE
  /\ queue = <<>>
  /\ phase = [c \in Callers |-> "idle"]
  /\ kind = [c \in Callers |-> "write"]
  /\ nest = [c \in Callers |-> 0]
  /\ lastWriteOp = NoCaller
  /\ initialized = TRUE
  /\ open = TRUE

(* ---- AsyncFifoMutex ---------------------------------------------------- *)

\* acquire(): a free lock is granted within the call, a held one is queued for.
Acquire(c) ==
  \/ /\ ~held
     /\ held' = TRUE
     /\ phase' = [phase EXCEPT ![c] = "granted"]
     /\ UNCHANGED queue
  \/ /\ held
     /\ queue' = Append(queue, c)
     /\ phase' = [phase EXCEPT ![c] = "waiting"]
     /\ UNCHANGED held

\* Mutants of Release: the grant runs before held is cleared; the newest
\* waiter is popped instead of the oldest shifted; nobody is granted.
ReleaseClearsLast(c) ==
  /\ held' = FALSE
  /\ IF queue = <<>>
       THEN /\ phase' = [phase EXCEPT ![c] = "idle"]
            /\ UNCHANGED queue
       ELSE /\ phase' = [phase EXCEPT ![c] = "idle", ![Head(queue)] = "granted"]
            /\ queue' = Tail(queue)
ReleasePops(c) ==
  LET last == Len(queue) IN
  /\ held' = (queue # <<>>)
  /\ queue' = SubSeq(queue, 1, last - 1)
  /\ phase' = [d \in Callers |->
                 CASE d = c -> "idle"
                   [] d # c /\ last > 0 /\ d = queue[last] -> "granted"
                   [] OTHER -> phase[d]]
ReleaseForgetsWaiters(c) ==
  /\ held' = FALSE
  /\ phase' = [phase EXCEPT ![c] = "idle"]
  /\ UNCHANGED queue

\* release(): clears held, then the grant of the oldest waiter sets it again.
Release(c) ==
  \/ /\ queue = <<>>
     /\ held' = FALSE
     /\ phase' = [phase EXCEPT ![c] = "idle"]
     /\ UNCHANGED queue
  \/ /\ queue # <<>>
     /\ held' = TRUE
     /\ queue' = Tail(queue)
     /\ phase' = [phase EXCEPT ![c] = "idle", ![Head(queue)] = "granted"]

\* Mutant of Depth: only the waiters are counted.
DepthOfQueue == Len(queue)

\* depth(): what drain loops and health report.
Depth == Len(queue) + (IF held THEN 1 ELSE 0)

(* ---- runExclusive ------------------------------------------------------ *)

\* Mutant of Call: a reload does not ask for the lock.
CallReloadUnlocked(c, k) ==
  /\ phase[c] = "idle"
  /\ IF k = "reload"
       THEN /\ phase' = [phase EXCEPT ![c] = "body"]
            /\ UNCHANGED <<held, queue>>
       ELSE Acquire(c)
  /\ kind' = [kind EXCEPT ![c] = k]
  /\ UNCHANGED <<nest, lastWriteOp, initialized, open>>

\* An outermost call: the caller's context does not carry the write scope.
Call(c, k) ==
  /\ phase[c] = "idle"
  /\ Acquire(c)
  /\ kind' = [kind EXCEPT ![c] = k]
  /\ UNCHANGED <<nest, lastWriteOp, initialized, open>>

\* The continuation after acquire(): only the operation "reload" and an engine
\* not initialized skip the staleness check; the file system answers it.
Enter(c) ==
  /\ phase[c] = "granted"
  /\ lastWriteOp' = c
  /\ \/ phase' = [phase EXCEPT ![c] = "body"]
     \/ /\ kind[c] # "reload"
        /\ initialized
        /\ phase' = [phase EXCEPT ![c] = "loading"]
  /\ UNCHANGED <<held, queue, kind, nest, initialized, open>>

\* reloadSchemasIfStale returns; a failed load keeps the stale schemas.
SchemasReloaded(c) ==
  /\ phase[c] = "loading"
  /\ phase' = [phase EXCEPT ![c] = "body"]
  /\ UNCHANGED <<held, queue, kind, nest, lastWriteOp, initialized, open>>

\* fn() takes its EngineContext; ctx() throws on an engine not initialized.
TakeContext(c) ==
  /\ phase[c] = "body"
  /\ kind[c] = "write"
  /\ initialized
  /\ phase' = [phase EXCEPT ![c] = "working"]
  /\ UNCHANGED <<held, queue, kind, nest, lastWriteOp, initialized, open>>

\* A handler inside the scope calls a self-wrapping method: fn runs directly.
Reenter(c) ==
  /\ phase[c] \in {"body", "working"}
  /\ kind[c] # "reload"
  /\ nest[c] < MaxNest
  /\ nest' = [nest EXCEPT ![c] = @ + 1]
  /\ UNCHANGED <<held, queue, phase, kind, lastWriteOp, initialized, open>>

\* fn() of the current scope has nothing left to do: it returns, or ctx()
\* threw because the engine is not initialized.
FnEnds(c) ==
  \/ phase[c] \in {"working", "reloaded"}
  \/ phase[c] = "body" /\ kind[c] = "write" /\ ~initialized

\* The re-entered call returns to its outer scope and keeps the lock.
LeaveInner(c) ==
  /\ FnEnds(c)
  /\ nest[c] > 0
  /\ nest' = [nest EXCEPT ![c] = @ - 1]
  /\ UNCHANGED <<held, queue, phase, kind, lastWriteOp, initialized, open>>

\* reload(): closes the backend and awaits init(). maad_reload gets here in
\* the scope that its handler re-entered.
CloseForReload(c) ==
  /\ phase[c] = "body"
  /\ \/ kind[c] = "reload"
     \/ kind[c] = "maad_reload" /\ nest[c] > 0
  /\ open' = FALSE
  /\ initialized' = FALSE
  /\ phase' = [phase EXCEPT ![c] = "reinit"]
  /\ UNCHANGED <<held, queue, kind, nest, lastWriteOp>>

\* init() returned inside reload(): an error before the backend is opened, a
\* recent git index.lock after it is opened, or success.
FinishReload(c) ==
  /\ phase[c] = "reinit"
  /\ \E r \in {[open |-> FALSE, initialized |-> FALSE],
               [open |-> TRUE, initialized |-> FALSE],
               [open |-> TRUE, initialized |-> TRUE]} :
       /\ open' = r.open
       /\ initialized' = r.initialized
  /\ phase' = [phase EXCEPT ![c] = "reloaded"]
  /\ UNCHANGED <<held, queue, kind, nest, lastWriteOp>>

\* The finally block of the outermost scope, on a result or an exception.
Leave(c) ==
  /\ FnEnds(c)
  /\ nest[c] = 0
  /\ Release(c)
  /\ lastWriteOp' = NoCaller
  /\ UNCHANGED <<kind, nest, initialized, open>>

Step(c) ==
  \/ Enter(c)
  \/ SchemasReloaded(c)
  \/ TakeContext(c)
  \/ Reenter(c)
  \/ LeaveInner(c)
  \/ CloseForReload(c)
  \/ FinishReload(c)
  \/ Leave(c)

MutexNext ==
  \E c \in Callers :
    \/ \E k \in Kinds : Call(c, k)
    \/ Step(c)

(***************************************************************************)
(* Fairness: an async function whose awaits settle runs to its end, so a   *)
(* caller that owns the lock keeps taking steps, and does not re-enter     *)
(* runExclusive for ever. Nobody has to call in the first place.           *)
(***************************************************************************)
MutexFairness ==
  /\ \A c \in Callers : WF_mutexVars(Step(c))
  /\ \A c \in Callers : SF_mutexVars(Leave(c))

MutexSafety == MutexInit /\ [][MutexNext]_mutexVars
MutexSpec   == MutexSafety /\ MutexFairness

(* ---- Properties -------------------------------------------------------- *)

Owners == {c \in Callers : phase[c] \in Owning}

\* Mutual exclusion, from the turn in which the grant is resolved on: the gap
\* between a resolved acquire() and its continuation is owned too.
MutualExclusion == \A c, d \in Owners : c = d

Pending == {c \in Callers : phase[c] # "idle"}

\* depth() counts exactly the operations that have called and not finished,
\* also in the turns between a release and the next owner's continuation:
\* shutdown closes the engine as soon as it reads 0.
DepthIsPending == Depth = Cardinality(Pending)

\* health never names an operation that does not hold the lock.
LastWriteOpOwnsLock == lastWriteOp # NoCaller => phase[lastWriteOp] \in Inside

\* Once fn() of a write has its context, no reload closes the backend or
\* un-initialises the engine under it before it finishes.
WorkingKeepsBackend ==
  \A c \in Callers : phase[c] = "working" => initialized /\ open

CurrentOwner == IF Owners = {} THEN NoCaller ELSE CHOOSE c \in Owners : TRUE

\* The mutex and runExclusive together implement the FIFO lock.
Lock == INSTANCE FifoLock WITH owner <- CurrentOwner, line <- queue
ImplementsFifoLock == Lock!Spec

\* Every caller that queues for the lock is served: no grant is lost and no
\* re-entered scope waits for itself.
EveryCallerServed ==
  \A c \in Callers : phase[c] = "waiting" ~> phase[c] = "idle"
=============================================================================
