------------------------------ MODULE ToolCalls ------------------------------
(***************************************************************************)
(* The life of a tool call in the HTTP server: admission (withEngine), the *)
(* per-session concurrency slots, the wait for the engine and for its      *)
(* write lock, the idempotency cache consulted under that lock, the        *)
(* request timeout that answers the client while the handler runs on, and  *)
(* the shutdown of the server while calls are in all of these stages.      *)
(*                                                                         *)
(* The write lock is what FifoLock promises and WriteMutex implements.     *)
(* There is one project, whose engine is loaded on first use and neither   *)
(* swept nor reloaded: EnginePool is about that. Everything between two    *)
(* awaits is one step.                                                     *)
(***************************************************************************)
EXTENDS Naturals, FiniteSets, Sequences

CONSTANTS
  Calls,       \* tool calls, each made once
  NoCall,
  Sessions,    \* HTTP sessions
  Authed,      \* those whose commits carry their token's identity
  NoSession,
  Listeners,   \* those whose client opens an event stream
  Keys,        \* client-supplied idempotency keys
  NoKey,
  Concurrent   \* MAAD_RL_CONCURRENT

ASSUME CallsAssumption == IsFiniteSet(Calls)
ASSUME SessionsAssumption == Authed \subseteq Sessions /\ Listeners \subseteq Sessions
ASSUME NullsAssumption ==
  NoCall \notin Calls /\ NoSession \notin Sessions /\ NoKey \notin Keys
ASSUME ConcurrentAssumption == Concurrent \in Nat \ {0}

VARIABLES
  state,       \* ShutdownState
  drain,       \* how far beginShutdown's promise is
  timedOut,    \* drainTimedOut: the exit code will be 1, not 0
  forced,      \* a second signal arrived while draining
  gone,        \* sessions closed by the client, by the transport, or as idle
  streams,     \* sessions whose client holds an event stream open
  inFlight,    \* SessionRateLimiter.inFlight, an absent entry being 0
  engine,      \* the project's engine in the pool
  identity,    \* engine.setCommitIdentity's slot
  owner, line, \* the engine's write lock
  cached,      \* keys of the idempotency cache
  call,        \* the calls
  answered,    \* calls whose client has its response, good or bad
  written      \* how often a keyed write was done since its key was unknown

lockVars     == <<owner, line>>
shutdownVars == <<state, drain, timedOut, forced>>
sessionVars  == <<gone, streams, inFlight>>
vars == <<shutdownVars, sessionVars, engine, identity, lockVars, cached, call, answered, written>>

WriteLock == INSTANCE FifoLock WITH Callers <- Calls, NoCaller <- NoCall

\* before; awaiting pool.get; in line for the lock; a read's handler; a
\* write's handler in the engine; notifying subscribers; result known; over.
Stages == {"idle", "getting", "queued", "reading", "writing", "notifying", "returning", "done"}

CallRecords ==
  [at : Stages, session : Sessions \union {NoSession}, kind : {"read", "write"},
   key : Keys \union {NoKey}]

NoArgs(stage) == [at |-> stage, session |-> NoSession, kind |-> "read", key |-> NoKey]

TypeOK ==
  /\ state \in {"running", "draining", "exiting"}
  /\ drain \in {"none", "polling", "closing", "exited"}
  /\ timedOut \in BOOLEAN /\ forced \in BOOLEAN
  /\ gone \in SUBSET Sessions /\ streams \in SUBSET (Listeners \ gone)
  /\ inFlight \in [Sessions -> 0..Concurrent]
  /\ engine \in {"absent", "loading", "open", "closed"}
  /\ identity \in Sessions \union {NoSession}
  /\ owner \in Calls \union {NoCall} /\ line \in Seq(Calls)
  /\ cached \in SUBSET Keys
  /\ call \in [Calls -> CallRecords]
  /\ answered \in SUBSET Calls
  /\ written \in [Keys -> Nat]

Init ==
  /\ state = "running" /\ drain = "none"
  /\ timedOut = FALSE /\ forced = FALSE
  /\ gone = {} /\ streams = {}
  /\ inFlight = [s \in Sessions |-> 0]
  /\ engine = "absent"
  /\ identity = NoSession
  /\ WriteLock!Init
  /\ cached = {}
  /\ call = [c \in Calls |-> NoArgs("idle")]
  /\ answered = {}
  /\ written = [k \in Keys |-> 0]

At(c, stage) == call[c].at = stage
Admitted(c)  == call[c].at \notin {"idle", "done"}
Goto(c, stage) == call' = [call EXCEPT ![c].at = stage]
Finish(c) == call' = [call EXCEPT ![c] = NoArgs("done")]

\* Admitted, not answered: the calls that hold one of s's slots.
Holding(s) == {c \in Calls : call[c].session = s /\ Admitted(c) /\ c \notin answered}

(* ---- the concurrency slots ------------------------------------------------ *)

tryAcquireConcurrent(s) ==
  /\ inFlight[s] < Concurrent
  /\ inFlight' = [inFlight EXCEPT ![s] = @ + 1]

\* What slot.release() leaves in the entry: one less, an entry of one or none
\* being deleted.
Less(n, k) == IF n <= k THEN 0 ELSE n - k

release(c) == inFlight' = [inFlight EXCEPT ![call[c].session] = Less(@, 1)]

\* totalInFlight() = 0
NoneInFlight == \A s \in Sessions : inFlight[s] = 0

\* Whatever the session had in flight is forgotten.
disposeSession(s) == inFlight' = [inFlight EXCEPT ![s] = 0]

(* ---- admission ------------------------------------------------------------ *)

\* A call that never reaches the engine.
TurnAway(c) == Finish(c) /\ answered' = answered \union {c}

Refuse(c, s) ==
  /\ At(c, "idle") /\ s \notin gone
  /\ state # "running"
  /\ TurnAway(c)
  /\ UNCHANGED <<shutdownVars, sessionVars, engine, identity, lockVars, cached, written>>

OverLimit(c, s) ==
  /\ At(c, "idle") /\ s \notin gone
  /\ state = "running"
  /\ inFlight[s] >= Concurrent
  /\ TurnAway(c)
  /\ UNCHANGED <<shutdownVars, sessionVars, engine, identity, lockVars, cached, written>>

\* Bound, within its role and its limits: a slot, then await pool.get.
Admit(c, s, kind, key) ==
  /\ At(c, "idle") /\ s \notin gone
  /\ state = "running"
  /\ kind = "read" => key = NoKey
  /\ tryAcquireConcurrent(s)
  /\ call' = [call EXCEPT ![c] = [at |-> "getting", session |-> s, kind |-> kind,
                                  key |-> key]]
  /\ engine' = IF engine = "absent" THEN "loading" ELSE engine
  /\ UNCHANGED <<shutdownVars, gone, streams, identity, lockVars, cached,
                 answered, written>>

EngineLoaded ==
  /\ engine = "loading"
  /\ engine' = "open"
  /\ UNCHANGED <<shutdownVars, sessionVars, identity, lockVars, cached, call, answered, written>>

\* init() fails: every call that shares the promise is told so.
EngineFails ==
  /\ engine = "loading"
  /\ engine' = "absent"
  /\ LET Sharing == {c \in Calls : At(c, "getting")}
     IN /\ call' = [c \in Calls |-> IF c \in Sharing THEN NoArgs("done") ELSE call[c]]
        /\ answered' = answered \union Sharing
        /\ inFlight' = [s \in Sessions |->
             Less(inFlight[s], Cardinality({c \in Sharing : call[c].session = s}))]
  /\ UNCHANGED <<shutdownVars, gone, streams, identity, lockVars, cached, written>>

\* pool.get has resolved. A read's handler runs at once, a write asks for the
\* lock; the request timer starts.
Dispatch(c) ==
  /\ At(c, "getting")
  /\ engine = "open"
  /\ \/ /\ call[c].kind = "read"
        /\ Goto(c, "reading")
        /\ UNCHANGED lockVars
     \/ /\ call[c].kind = "write"
        /\ Goto(c, "queued")
        /\ WriteLock!Take(c) \/ WriteLock!Queue(c)
  /\ UNCHANGED <<shutdownVars, sessionVars, engine, identity, cached, answered, written>>

(* ---- the handlers ---------------------------------------------------------- *)

\* Mutant of Answer: the slot is given back by the timer and by the handler.
AnswerReleasesTwice(c) ==
  /\ answered' = answered \union {c}
  /\ release(c)

\* The race between the handler and the timer: the first gives the slot back.
Answer(c) ==
  /\ answered' = answered \union {c}
  /\ IF c \in answered THEN UNCHANGED inFlight ELSE release(c)

\* The lock is ours: the commit identity is set and, in the same turn, the
\* cache is asked. A hit is replayed; a miss may still run into a write limit.
StartWrite(c) ==
  /\ At(c, "queued") /\ owner = c
  /\ identity' = IF call[c].session \in Authed THEN call[c].session ELSE identity
  /\ \/ Goto(c, "returning")
     \/ call[c].key \notin cached /\ Goto(c, "writing")
  /\ UNCHANGED <<shutdownVars, sessionVars, engine, lockVars, cached, answered, written>>

\* engine.createDocument and its kin return a result.
EngineWrites(c) ==
  /\ At(c, "writing")
  /\ \/ /\ Goto(c, "notifying")
        /\ written' = IF call[c].key = NoKey THEN written
                      ELSE [written EXCEPT ![call[c].key] = @ + 1]
     \/ Goto(c, "returning") /\ UNCHANGED written
  /\ UNCHANGED <<shutdownVars, sessionVars, engine, identity, lockVars, cached, answered>>

\* Mutant of Remember: a response nobody waits for any more is not kept.
RememberIfAwaited(c) ==
  /\ At(c, "notifying")
  /\ cached' = IF c \in answered THEN cached ELSE cached \union ({call[c].key} \ {NoKey})
  /\ Goto(c, "returning")
  /\ UNCHANGED <<shutdownVars, sessionVars, engine, identity, lockVars, answered, written>>

\* notifyWrite has returned: the response is a success, and remembered.
Remember(c) ==
  /\ At(c, "notifying")
  /\ cached' = cached \union ({call[c].key} \ {NoKey})
  /\ Goto(c, "returning")
  /\ UNCHANGED <<shutdownVars, sessionVars, engine, identity, lockVars, answered, written>>

\* The handler's promise settles: the identity is cleared, the lock handed
\* over, and the client answered unless the timer was first.
FinishWrite(c) ==
  /\ At(c, "returning")
  /\ identity' = NoSession
  /\ WriteLock!HandOver
  /\ Finish(c)
  /\ Answer(c)
  /\ UNCHANGED <<shutdownVars, gone, streams, engine, cached, written>>

FinishRead(c) ==
  /\ At(c, "reading")
  /\ Finish(c)
  /\ Answer(c)
  /\ UNCHANGED <<shutdownVars, gone, streams, engine, identity, lockVars, cached, written>>

\* Mutant of Timeout: the timer starts with the handler, not with the wait.
TimeoutOfHandler(c) ==
  /\ call[c].at \in {"reading", "writing", "notifying"}
  /\ c \notin answered
  /\ Answer(c)
  /\ UNCHANGED <<shutdownVars, gone, streams, engine, identity, lockVars, cached, call, written>>

\* Mutant of Timeout: the identity is cleared when the call is answered.
TimeoutClearsIdentity(c) ==
  /\ call[c].at \in {"queued", "reading", "writing", "notifying"}
  /\ c \notin answered
  /\ Answer(c)
  /\ identity' = NoSession
  /\ UNCHANGED <<shutdownVars, gone, streams, engine, lockVars, cached, call, written>>

\* REQUEST_TIMEOUT: the slot is given back, the handler runs on.
Timeout(c) ==
  /\ call[c].at \in {"queued", "reading", "writing", "notifying"}
  /\ c \notin answered
  /\ Answer(c)
  /\ UNCHANGED <<shutdownVars, gone, streams, engine, identity, lockVars, cached, call, written>>

\* A key outlives its TTL, or is the least recently used of too many.
Forget(k) ==
  /\ k \in cached
  /\ cached' = cached \ {k}
  /\ written' = [written EXCEPT ![k] = 0]
  /\ UNCHANGED <<shutdownVars, sessionVars, engine, identity, lockVars, call, answered>>

(* ---- sessions ---------------------------------------------------------------- *)

\* DELETE, a dropped transport, or the idle sweep; its connections are closed.
CloseSession(s) ==
  /\ s \notin gone
  /\ gone' = gone \union {s}
  /\ streams' = streams \ {s}
  /\ disposeSession(s)
  /\ UNCHANGED <<shutdownVars, engine, identity, lockVars, cached, call, answered, written>>

\* The client's GET /mcp, answered by an event stream for as long as it likes.
OpenStream(s) ==
  /\ s \in Listeners \ (gone \union streams)
  /\ drain \in {"none", "polling"}
  /\ streams' = streams \union {s}
  /\ UNCHANGED <<shutdownVars, gone, inFlight, engine, identity, lockVars, cached, call,
                 answered, written>>

CloseStream(s) ==
  /\ s \in streams
  /\ streams' = streams \ {s}
  /\ UNCHANGED <<shutdownVars, gone, inFlight, engine, identity, lockVars, cached, call,
                 answered, written>>

(* ---- shutdown ------------------------------------------------------------------ *)

\* SIGTERM or SIGINT. Once exiting, further signals are ignored.
beginShutdown ==
  /\ \/ /\ state = "running"
        /\ state' = "draining" /\ drain' = "polling"
        /\ UNCHANGED forced
     \/ /\ state = "draining"
        /\ state' = "exiting" /\ forced' = TRUE
        /\ UNCHANGED drain
  /\ UNCHANGED <<timedOut, sessionVars, engine, identity, lockVars, cached, call, answered, written>>

\* totalWriteQueueDepth(): only engines still in the pool are asked.
WriteQueueDepth ==
  IF engine # "open" THEN 0
  ELSE Len(line) + (IF owner = NoCall THEN 0 ELSE 1)

\* Mutant of Drained: only unanswered requests are waited for.
DrainedOfRequests == NoneInFlight

Drained == WriteQueueDepth = 0 /\ NoneInFlight

\* Mutant of LeaveDrainLoop: there is no deadline.
LeaveWhenDrained ==
  /\ drain = "polling"
  /\ Drained \/ state = "exiting"
  /\ drain' = "closing"
  /\ state' = "exiting"
  /\ engine' = IF engine = "open" THEN "closed" ELSE engine
  /\ UNCHANGED <<timedOut, forced, sessionVars, identity, lockVars, cached, call, answered,
                 written>>

\* The drain loop breaks: drained, forced, or past its deadline. closeAll runs
\* in the same turn.
LeaveDrainLoop ==
  /\ drain = "polling"
  /\ drain' = "closing"
  /\ state' = "exiting"
  /\ timedOut' = (~Drained /\ state # "exiting")
  /\ engine' = IF engine = "open" THEN "closed" ELSE engine
  /\ UNCHANGED <<forced, sessionVars, identity, lockVars, cached, call, answered, written>>

\* finalCleanup: httpServer.close waits for every connection, an event stream
\* or an unanswered call, before the sessions are destroyed; then exit(code).
Exit ==
  /\ drain = "closing"
  /\ streams = {}
  /\ \A s \in Sessions \ gone : Holding(s) = {}
  /\ drain' = "exited"
  /\ UNCHANGED <<state, timedOut, forced, sessionVars, engine, identity, lockVars, cached,
                 call, answered, written>>

(* ---- the specification ----------------------------------------------------------- *)

\* The continuations of pool.get run before any other event does.
Settled == engine = "open" => \A c \in Calls : ~At(c, "getting")
Arrive(c) ==
  \E s \in Sessions :
    \/ Refuse(c, s)
    \/ OverLimit(c, s)
    \/ \E kind \in {"read", "write"}, key \in Keys \union {NoKey} : Admit(c, s, kind, key)

\* What the event loop does by itself: continuations, timers, initialisation.
ServerStep ==
  \/ \E c \in Calls : Dispatch(c)
  \/ Settled /\ \/ \E c \in Calls : StartWrite(c) \/ FinishWrite(c) \/ Timeout(c)
                \/ EngineLoaded \/ EngineFails
                \/ LeaveDrainLoop \/ Exit

\* What handlers, clients, the clock and the operator may do.
OtherStep ==
  \/ \E c \in Calls : Arrive(c) \/ EngineWrites(c) \/ Remember(c) \/ FinishRead(c)
  \/ \E k \in Keys : Forget(k)
  \/ \E s \in Sessions : CloseSession(s) \/ OpenStream(s) \/ CloseStream(s)
  \/ beginShutdown

Running == drain # "exited"

Next == Running /\ (ServerStep \/ (Settled /\ OtherStep))

\* The event loop turns: as each of its steps is taken once per call or once
\* per shutdown, it comes round to all of them. Nothing obliges a handler to
\* return, nor a client to hang up.
Spec == Init /\ [][Next]_vars /\ WF_vars(Running /\ ServerStep)

(* ---- properties -------------------------------------------------------------------- *)

\* The limiter's count is exactly the number of a session's unanswered calls,
\* and so never over the limit: a slot is given back once, by whichever of the
\* timeout, the handler or a failed init answers the call.
SlotsExact ==
  \A s \in Sessions \ gone :
    /\ inFlight[s] = Cardinality(Holding(s))
    /\ inFlight[s] <= Concurrent

\* A keyed write is done at most once while its key is known, however its
\* retries overlap with it: sent before it ends, or after its timeout.
KeyedWriteOnce == \A k \in Keys : written[k] <= 1

\* Who the commit of a write in the engine is attributed to: the session that
\* asked for it, whatever timed out or was read meanwhile.
AttributedToCaller ==
  \A c \in Calls : At(c, "writing") =>
    identity = IF call[c].session \in Authed THEN call[c].session ELSE NoSession

\* Exit code 0 without a second signal: no write of a session that is still
\* there was cut, queued or half done, not even one already answered with
\* REQUEST_TIMEOUT.
CleanExitCutsNoWrite ==
  drain = "exited" /\ ~timedOut /\ ~forced =>
    \A c \in Calls : call[c].kind = "write" /\ Admitted(c) => call[c].session \in gone

\* Every admitted call is answered, though a handler may hang forever.
EveryCallAnswered ==
  \A c \in Calls : Admitted(c) ~> (c \in answered \/ call[c].session \in gone)

\* A signal leads to exit, once clients stop holding event streams open: hung
\* handlers cannot prevent it.
ShutdownEndsIfClientsLeave ==
  <>[](streams = {}) => (state = "draining" ~> drain = "exited")
=============================================================================
