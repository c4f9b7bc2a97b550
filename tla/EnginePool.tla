----------------------------- MODULE EnginePool -----------------------------
(***************************************************************************)
(* The pool of engines of one server process: lazy initialisation shared   *)
(* by concurrent requests, reference counts taken and given back around    *)
(* each tool call (withEngine), the idle sweeper, and the reload of        *)
(* instance.yaml that adds and removes projects while calls are running.   *)
(*                                                                         *)
(* Everything between two awaits is one step. The continuations that run   *)
(* in the microtasks of one event (the end of an init, its waiters'        *)
(* acquire()) are one step too: no timer and no other event is between.    *)
(***************************************************************************)
EXTENDS Naturals, FiniteSets

CONSTANTS
  Requests,    \* concurrent tool calls
  Reloads,     \* concurrent reloads: the tool, SIGHUP
  Projects,    \* project names
  NoProject,
  Dirs,        \* directories a project can be declared at
  Nowhere,     \* a project that is not declared
  NoEngine,
  MaxEngines,  \* bound on the engines created
  MaxEdits     \* bound on the edits of instance.yaml

ASSUME RequestsAssumption == IsFiniteSet(Requests)
ASSUME NowhereAssumption == Nowhere \notin Dirs
ASSUME NoEngineAssumption == NoEngine \notin Nat
ASSUME NoProjectAssumption == NoProject \notin Projects
ASSUME BoundsAssumption == MaxEngines \in Nat /\ MaxEdits \in Nat

Engines == 1..MaxEngines
Declarations == [Projects -> Dirs \union {Nowhere}]

VARIABLES
  instance,   \* the live InstanceConfig: the directory of each project
  applied,    \* which edit of instance.yaml it was read from
  config,     \* instance.yaml on disk
  edition,    \* how often it was edited
  engines,    \* EnginePool.engines
  initing,    \* EnginePool.initPromises: the engine being initialized
  refcount,   \* EnginePool.refcount, an absent entry being 0
  recent,     \* projects touched less than the idle timeout ago
  created,    \* how many engines were created
  dir,        \* the directory each engine was initialized at
  closed,     \* engines that were closed, or dropped because init() failed
  req,        \* the tool calls
  reload,     \* the reloads
  slot,       \* EnginePool.reloadInFlight
  removed     \* projects a reload has removed so far

vars == <<instance, applied, config, edition, engines, initing, refcount, recent,
          created, dir, closed, req, reload, slot, removed>>

\* idle; waiting for the engine; running, counted; overrun: answered with
\* REQUEST_TIMEOUT and released, the handler still running.
Calls == [pc : {"idle", "waiting", "running", "overrun"},
          project : Projects \union {NoProject}, engine : Engines \union {NoEngine}]

NoCall == [pc |-> "idle", project |-> NoProject, engine |-> NoEngine]

ReloadSteps == {"idle", "loading", "loaded"}
NoReload == [pc |-> "idle", decl |-> [p \in Projects |-> Nowhere], edition |-> 0]

TypeOK ==
  /\ instance \in Declarations /\ config \in Declarations
  /\ applied \in Nat /\ edition \in 0..MaxEdits
  /\ engines \in [Projects -> Engines \union {NoEngine}]
  /\ initing \in [Projects -> Engines \union {NoEngine}]
  /\ refcount \in [Projects -> 0..Cardinality(Requests)]
  /\ recent \in SUBSET Projects
  /\ created \in 0..MaxEngines
  /\ dir \in [Engines -> Dirs \union {Nowhere}]
  /\ closed \in SUBSET Engines
  /\ req \in [Requests -> Calls]
  /\ reload \in [Reloads -> [pc : ReloadSteps, decl : Declarations, edition : Nat]]
  /\ slot \in BOOLEAN
  /\ removed \in SUBSET Projects

\* The server has parsed its instance file; no engine is loaded.
Init ==
  /\ instance \in Declarations
  /\ config = instance
  /\ applied = 0 /\ edition = 0
  /\ engines = [p \in Projects |-> NoEngine]
  /\ initing = [p \in Projects |-> NoEngine]
  /\ refcount = [p \in Projects |-> 0]
  /\ recent = {}
  /\ created = 0
  /\ dir = [e \in Engines |-> Nowhere]
  /\ closed = {}
  /\ req = [r \in Requests |-> NoCall]
  /\ reload = [k \in Reloads |-> NoReload]
  /\ slot = FALSE
  /\ removed = {}

instanceVars == <<instance, applied, config, edition, reload, slot, removed>>
engineVars   == <<created, dir, closed>>

Declared(p) == instance[p] # Nowhere
Waiting(p)  == {r \in Requests : req[r].pc = "waiting" /\ req[r].project = p}
Running(p)  == {r \in Requests : req[r].pc = "running" /\ req[r].project = p}

(* ---- withEngine: pool.get, acquire, the handler, release ------------------ *)

\* The engine is cached: get() and acquire() in one turn.
CallCached(r, p) ==
  /\ req[r].pc = "idle"
  /\ Declared(p)
  /\ engines[p] # NoEngine
  /\ req' = [req EXCEPT ![r] = [pc |-> "running", project |-> p, engine |-> engines[p]]]
  /\ refcount' = [refcount EXCEPT ![p] = @ + 1]
  /\ recent' = recent \union {p}
  /\ UNCHANGED <<instanceVars, engineVars, engines, initing>>

\* Somebody is initializing the project's engine: share the promise.
CallJoins(r, p) ==
  /\ req[r].pc = "idle"
  /\ Declared(p)
  /\ engines[p] = NoEngine
  /\ initing[p] # NoEngine
  /\ req' = [req EXCEPT ![r] = [pc |-> "waiting", project |-> p, engine |-> NoEngine]]
  /\ UNCHANGED <<instanceVars, engineVars, engines, initing, refcount, recent>>

\* Mutant of CallInits: the promise of a running init is not looked up.
CallInitsAlways(r, p) ==
  /\ req[r].pc = "idle"
  /\ Declared(p)
  /\ engines[p] = NoEngine
  /\ created < MaxEngines
  /\ created' = created + 1
  /\ dir' = [dir EXCEPT ![created'] = instance[p]]
  /\ initing' = [initing EXCEPT ![p] = created']
  /\ req' = [req EXCEPT ![r] = [pc |-> "waiting", project |-> p, engine |-> NoEngine]]
  /\ UNCHANGED <<instanceVars, closed, engines, refcount, recent>>

\* Nobody is: initialize one at the directory declared now.
CallInits(r, p) ==
  /\ req[r].pc = "idle"
  /\ Declared(p)
  /\ engines[p] = NoEngine
  /\ initing[p] = NoEngine
  /\ created < MaxEngines
  /\ created' = created + 1
  /\ dir' = [dir EXCEPT ![created'] = instance[p]]
  /\ initing' = [initing EXCEPT ![p] = created']
  /\ req' = [req EXCEPT ![r] = [pc |-> "waiting", project |-> p, engine |-> NoEngine]]
  /\ UNCHANGED <<instanceVars, closed, engines, refcount, recent>>

\* init() succeeded: the engine is cached and every call that waited acquires
\* it. If the project has been removed meanwhile the engine is cached all the
\* same, and the calls die looking up the project's entry, releasing it again.
InitSucceeds(p) ==
  /\ initing[p] # NoEngine
  /\ engines' = [engines EXCEPT ![p] = initing[p]]
  /\ initing' = [initing EXCEPT ![p] = NoEngine]
  /\ req' = [r \in Requests |->
               CASE r \notin Waiting(p) -> req[r]
                 [] r \in Waiting(p) /\ Declared(p) ->
                      [req[r] EXCEPT !.pc = "running", !.engine = initing[p]]
                 [] OTHER -> NoCall]
  /\ refcount' = IF Declared(p) THEN [refcount EXCEPT ![p] = @ + Cardinality(Waiting(p))]
                 ELSE refcount
  /\ recent' = recent \union {p}
  /\ UNCHANGED <<instanceVars, engineVars>>

\* Mutant of InitFails: only the promise is cleared, its waiters hear nothing.
InitFailsQuietly(p) ==
  /\ initing[p] # NoEngine
  /\ initing' = [initing EXCEPT ![p] = NoEngine]
  /\ UNCHANGED <<instanceVars, engineVars, engines, refcount, recent, req>>

\* init() failed: the next call tries again, these get the error.
InitFails(p) ==
  /\ initing[p] # NoEngine
  /\ initing' = [initing EXCEPT ![p] = NoEngine]
  /\ req' = [r \in Requests |-> IF r \in Waiting(p) THEN NoCall ELSE req[r]]
  /\ closed' = closed \union {initing[p]}
  /\ UNCHANGED <<instanceVars, created, dir, engines, refcount, recent>>

\* release(): a count of 1, or none left by an eviction, is deleted.
Release(p) ==
  /\ refcount' = [refcount EXCEPT ![p] = IF @ <= 1 THEN 0 ELSE @ - 1]
  /\ recent' = recent \union {p}

\* The handler settles first: finally releases the engine.
Finish(r) ==
  /\ req[r].pc = "running"
  /\ Release(req[r].project)
  /\ req' = [req EXCEPT ![r] = NoCall]
  /\ UNCHANGED <<instanceVars, engineVars, engines, initing>>

\* The timer wins the race: the call is answered and its engine released; the
\* handler goes on.
Timeout(r) ==
  /\ req[r].pc = "running"
  /\ Release(req[r].project)
  /\ req' = [req EXCEPT ![r].pc = "overrun"]
  /\ UNCHANGED <<instanceVars, engineVars, engines, initing>>

\* Mutant of Overrun: the observed handler releases once more.
OverrunReleases(r) ==
  /\ req[r].pc = "overrun"
  /\ Release(req[r].project)
  /\ req' = [req EXCEPT ![r] = NoCall]
  /\ UNCHANGED <<instanceVars, engineVars, engines, initing>>

\* tool_call_overrun: the handler has settled at last.
Overrun(r) ==
  /\ req[r].pc = "overrun"
  /\ req' = [req EXCEPT ![r] = NoCall]
  /\ UNCHANGED <<instanceVars, engineVars, engines, initing, refcount, recent>>

(* ---- Eviction ---------------------------------------------------------------- *)

\* evict() of each project of P whose engine is loaded, unconditionally.
Evict(P) ==
  LET loaded == {p \in P : engines[p] # NoEngine} IN
  /\ closed' = closed \union {engines[p] : p \in loaded}
  /\ engines' = [p \in Projects |-> IF p \in loaded THEN NoEngine ELSE engines[p]]
  /\ recent' = recent \ loaded
  /\ refcount' = [p \in Projects |-> IF p \in loaded THEN 0 ELSE refcount[p]]

\* Time passes: the project was last touched longer ago than the idle timeout.
Age(p) ==
  /\ p \in recent
  /\ recent' = recent \ {p}
  /\ UNCHANGED <<instanceVars, engineVars, engines, initing, refcount, req>>

\* Mutant of Idle: the reference count is not looked at.
IdleUncounted(p) == engines[p] # NoEngine /\ p \notin recent

Idle(p) == engines[p] # NoEngine /\ refcount[p] = 0 /\ p \notin recent

\* evictIdle(): every idle engine of the pool is closed.
Sweep ==
  /\ \E p \in Projects : Idle(p)
  /\ Evict({p \in Projects : Idle(p)})
  /\ UNCHANGED <<instanceVars, created, dir, initing, req>>

(* ---- Reloading instance.yaml -------------------------------------------------- *)

\* The operator saves the instance file.
EditConfig(decl) ==
  /\ edition < MaxEdits
  /\ config' = decl
  /\ edition' = edition + 1
  /\ UNCHANGED <<instance, applied, reload, slot, removed, engineVars,
                 engines, initing, refcount, recent, req>>

\* Mutant of BeginReload: the slot is not looked at.
BeginReloadAnyway(k) ==
  /\ reload[k].pc = "idle"
  /\ slot' = TRUE
  /\ reload' = [reload EXCEPT ![k].pc = "loading"]
  /\ UNCHANGED <<instance, applied, config, edition, removed, engineVars,
                 engines, initing, refcount, recent, req>>

\* tryBeginReload(): a second reload is turned away.
BeginReload(k) ==
  /\ reload[k].pc = "idle"
  /\ ~slot
  /\ slot' = TRUE
  /\ reload' = [reload EXCEPT ![k].pc = "loading"]
  /\ UNCHANGED <<instance, applied, config, edition, removed, engineVars,
                 engines, initing, refcount, recent, req>>

\* loadInstance() has read the file.
LoadConfig(k) ==
  /\ reload[k].pc = "loading"
  /\ reload' = [reload EXCEPT ![k] = [pc |-> "loaded", decl |-> config, edition |-> edition]]
  /\ UNCHANGED <<instance, applied, config, edition, slot, removed, engineVars,
                 engines, initing, refcount, recent, req>>

Mutates(decl) ==
  \E p \in Projects : Declared(p) /\ decl[p] # Nowhere /\ decl[p] # instance[p]

EndReload(k) ==
  /\ slot' = FALSE
  /\ reload' = [reload EXCEPT ![k] = NoReload]

\* A file that does not parse, or that moves a project: nothing is applied.
ReloadFails(k) ==
  /\ \/ reload[k].pc = "loading"
     \/ reload[k].pc = "loaded" /\ Mutates(reload[k].decl)
  /\ EndReload(k)
  /\ UNCHANGED <<instance, applied, config, edition, removed, engineVars,
                 engines, initing, refcount, recent, req>>

Removed(decl) == {p \in Projects : Declared(p) /\ decl[p] = Nowhere}

\* applyDiff(): evicts the removed projects, whatever is running on them, and
\* swaps the instance of the pool, the server and the sessions.
ApplyDiff(k) ==
  /\ reload[k].pc = "loaded"
  /\ ~Mutates(reload[k].decl)
  /\ Evict(Removed(reload[k].decl))
  /\ instance' = reload[k].decl
  /\ applied' = reload[k].edition
  /\ removed' = removed \union Removed(reload[k].decl)
  /\ EndReload(k)
  /\ UNCHANGED <<config, edition, created, dir, initing, req>>

Next ==
  \/ \E r \in Requests, p \in Projects : CallCached(r, p) \/ CallJoins(r, p) \/ CallInits(r, p)
  \/ \E r \in Requests : Finish(r) \/ Timeout(r) \/ Overrun(r)
  \/ \E p \in Projects : InitSucceeds(p) \/ InitFails(p) \/ Age(p)
  \/ Sweep
  \/ \E decl \in Declarations : EditConfig(decl)
  \/ \E k \in Reloads : BeginReload(k) \/ LoadConfig(k) \/ ReloadFails(k) \/ ApplyDiff(k)

\* The file system answers: an init that was started ends, one way or the other.
Fairness == \A p \in Projects : WF_vars(InitSucceeds(p) \/ InitFails(p))

Safety == Init /\ [][Next]_vars
Spec   == Safety /\ Fairness

(* ---- Properties ------------------------------------------------------------------ *)

InPool == {engines[p] : p \in Projects} \union {initing[p] : p \in Projects}

\* No engine is lost: each one created is cached, being initialized or closed,
\* so a project never has two open engines on its files, and what the pool
\* closes at shutdown is everything there is.
NoEngineLost ==
  /\ \A e \in 1..created : e \in closed \/ e \in InPool
  /\ \A p \in Projects : engines[p] = NoEngine \/ initing[p] = NoEngine

\* For a project that no reload has removed the count is the number of calls
\* that hold its engine, the ones that timed out not counted: it neither
\* leaks, which would keep the engine for ever, nor runs low.
RefcountExact == \A p \in Projects \ removed : refcount[p] = Cardinality(Running(p))

\* The engine of a call that has not been answered is open and serves the
\* directory declared for its project, unless a reload removed the project: a
\* reload that keeps a project does not touch its engine.
RunningIsOpen ==
  \A r \in Requests :
    LET p == req[r].project
        e == req[r].engine IN
    req[r].pc = "running" /\ p \notin removed => e \notin closed /\ dir[e] = instance[p]

\* A reload never applies an instance file older than the one that is live.
ConfigNeverRegresses == [][applied' >= applied]_vars

\* Every call that waits for an engine is answered or gets it, also when the
\* init fails and when the project is removed while it runs.
EveryWaiterAnswered ==
  \A r \in Requests : req[r].pc = "waiting" ~> req[r].pc # "waiting"
=============================================================================
