--------------------------- MODULE EnginePoolProofs ---------------------------
(***************************************************************************)
(* Theorems about EnginePool, for any finite set of calls, any reloads,    *)
(* projects and directories, and any bounds. The inductive invariant says  *)
(* where each engine is (cached, being initialized or closed), how the     *)
(* reference counts relate to the calls that run, and that the reloads     *)
(* take their turns at the slot.                                           *)
(***************************************************************************)
EXTENDS EnginePool, FiniteSetTheorems, TLAPS

USE RequestsAssumption, NowhereAssumption, NoEngineAssumption, NoProjectAssumption,
    BoundsAssumption

\* The engine a project has, cached or being initialized.
PoolOf(p) == {engines[p], initing[p]} \ {NoEngine}

\* The count never exceeds the calls that run, and is exact for a project that
\* no reload has removed: an eviction forgets the calls it cuts loose.
CountedAt(p) ==
  /\ refcount[p] <= Cardinality(Running(p))
  /\ p \notin removed => refcount[p] = Cardinality(Running(p))

Counted == \A p \in Projects : CountedAt(p)

\* A call that runs has an engine of a project.
CallShape ==
  \A r \in Requests : req[r].pc = "running" =>
    req[r].project \in Projects /\ req[r].engine \in Engines

\* What was closed was created, and so was what the pool holds, which is open,
Open ==
  /\ closed \subseteq 1..created
  /\ \A p \in Projects : PoolOf(p) \subseteq (1..created) \ closed

\* and no engine is in the pool twice.
Apart == \A p, q \in Projects : p # q => PoolOf(p) \intersect PoolOf(q) = {}

\* Unless it was removed, a project's engine is at its directory,
AtDirs ==
  \A p \in Projects \ removed : \A e \in PoolOf(p) :
    dir[e] = instance[p] /\ instance[p] # Nowhere

\* and its calls run on that engine.
OnTheirEngine ==
  \A p \in Projects \ removed : \A r \in Running(p) : req[r].engine = engines[p]

\* One reload at a time, and what it has read is not older than what is live.
Serial ==
  /\ \A k \in Reloads : reload[k].pc # "idle" => slot
  /\ \A k, l \in Reloads : reload[k].pc # "idle" /\ reload[l].pc # "idle" => k = l
  /\ applied <= edition
  /\ \A k \in Reloads : reload[k].pc = "loaded" =>
       applied <= reload[k].edition /\ reload[k].edition <= edition

\* What a reload is: TypeOK's typing of each.
ReloadRecords ==
  [pc : ReloadSteps, decl : [Projects -> Dirs \union {Nowhere}], edition : Nat]

Inv ==
  /\ TypeOK /\ Counted /\ CallShape
  /\ Open /\ Apart /\ NoEngineLost /\ AtDirs /\ OnTheirEngine
  /\ Serial

(* ---- Who changes what --------------------------------------------------- *)

\* Calls of Requests are finitely many.
LEMMA Finite ==
  ASSUME NEW S \in SUBSET Requests
  PROVE  IsFiniteSet(S) /\ Cardinality(S) \in 0..Cardinality(Requests)
BY FS_Subset, FS_CardinalityType


\* One call more,
LEMMA OneMore ==
  ASSUME NEW S \in SUBSET Requests, NEW r \in Requests, r \notin S
  PROVE  Cardinality(S \union {r}) = Cardinality(S) + 1
BY Finite, FS_AddElement

\* one less,
LEMMA OneLess ==
  ASSUME NEW S \in SUBSET Requests, NEW r \in S
  PROVE  Cardinality(S \ {r}) = Cardinality(S) - 1
BY Finite, FS_RemoveElement

\* and all that waited.
LEMMA ManyMore ==
  ASSUME NEW S \in SUBSET Requests, NEW W \in SUBSET Requests, S \intersect W = {}
  PROVE  Cardinality(S \union W) = Cardinality(S) + Cardinality(W)
<1>1. Cardinality(S \union W) = Cardinality(S) + Cardinality(W) - Cardinality(S \intersect W)
  BY Finite, FS_Union
<1>2. Cardinality(S \intersect W) = 0
  BY FS_EmptySet
<1> QED
  BY <1>1, <1>2, Finite

\* A step that changes one count, to what its project's calls are.
LEMMA Recount ==
  ASSUME refcount \in [Projects -> Nat], Counted, removed' = removed,
         NEW p \in Projects, NEW n \in Nat,
         refcount' = [refcount EXCEPT ![p] = n],
         \A q \in Projects : q # p => Running(q)' = Running(q),
         n <= Cardinality(Running(p)'),
         p \notin removed => n = Cardinality(Running(p)')
  PROVE  refcount' \in [Projects -> Nat] /\ Counted'
<1>1. refcount' \in [Projects -> Nat]
  OBVIOUS
<1>2. ASSUME NEW q \in Projects
      PROVE  CountedAt(q)'
  <2>1. CASE q = p
    BY <2>1 DEF CountedAt
  <2>2. CASE q # p
    <3>1. CountedAt(q) /\ refcount'[q] = refcount[q] /\ Running(q)' = Running(q)
      BY <2>2 DEF Counted
    <3> QED
      BY <3>1 DEF CountedAt
  <2> QED
    BY <2>1, <2>2
<1> QED
  BY <1>1, <1>2 DEF Counted

\* The counts follow the calls.
LEMMA CountedKept ==
  ASSUME Inv, [Next]_vars
  PROVE  refcount' \in [Projects -> Nat] /\ Counted'
<1>a. refcount \in [Projects -> Nat] /\ Counted
  BY DEF Inv, TypeOK
<1>b. ASSUME NEW p \in Projects
       PROVE  /\ CountedAt(p)
              /\ IsFiniteSet(Running(p)) /\ Cardinality(Running(p)) \in Nat
              /\ refcount[p] \in Nat
  BY Finite DEF Running, Inv, TypeOK, Counted
<1> USE <1>a, <1>b
<1> USE DEF Inv, TypeOK, CallShape, Counted, CountedAt, Declarations, instanceVars,
     engineVars, Calls
<1>1. ASSUME NEW r \in Requests, NEW p \in Projects, CallCached(r, p)
      PROVE  refcount' \in [Projects -> Nat] /\ Counted'
  <2>1. ASSUME NEW q \in Projects
        PROVE  Running(q)' = IF q = p THEN Running(q) \union {r} ELSE Running(q)
    BY <1>1 DEF CallCached, Running
  <2>2. r \notin Running(p)
    BY <1>1 DEF CallCached, Running
  <2>3. Cardinality(Running(p) \union {r}) = Cardinality(Running(p)) + 1
    BY <2>2, OneMore DEF Running
  <2>4. refcount' = [refcount EXCEPT ![p] = refcount[p] + 1] /\ removed' = removed
    BY <1>1 DEF CallCached
  <2>5. /\ Running(p)' = Running(p) \union {r}
        /\ \A q \in Projects : q # p => Running(q)' = Running(q)
    BY <2>1
  <2>6. /\ refcount[p] + 1 \in Nat /\ refcount[p] + 1 <= Cardinality(Running(p)')
        /\ p \notin removed => refcount[p] + 1 = Cardinality(Running(p)')
    BY <2>3, <2>5 DEF CountedAt
  <2> HIDE DEF TypeOK, CallShape, Counted
  <2> QED
    BY <2>4, <2>5, <2>6, Recount
<1>2. ASSUME NEW r \in Requests, NEW p \in Projects, CallJoins(r, p)
      PROVE  refcount' \in [Projects -> Nat] /\ Counted'
  <2>1. ASSUME NEW q \in Projects
        PROVE  Running(q)' = Running(q)
    BY <1>2 DEF CallJoins, Running, NoCall, Waiting
  <2> QED
    BY <1>2, <2>1 DEF CallJoins, Evict, Idle
<1>3. ASSUME NEW r \in Requests, NEW p \in Projects, CallInits(r, p)
      PROVE  refcount' \in [Projects -> Nat] /\ Counted'
  <2>1. ASSUME NEW q \in Projects
        PROVE  Running(q)' = Running(q)
    BY <1>3 DEF CallInits, Running, NoCall, Waiting
  <2> QED
    BY <1>3, <2>1 DEF CallInits, Evict, Idle
<1>4. ASSUME NEW r \in Requests, Finish(r)
      PROVE  refcount' \in [Projects -> Nat] /\ Counted'
  <2>0. PICK p \in Projects : p = req[r].project
    BY <1>4 DEF Finish
  <2>1. ASSUME NEW q \in Projects
        PROVE  Running(q)' = IF q = p THEN Running(q) \ {r} ELSE Running(q)
    BY <1>4, <2>0 DEF Finish, Running, NoCall
  <2>2. p \in Projects /\ r \in Running(p)
 BY <1>4, <2>0 DEF Finish, Running
  <2>3. Cardinality(Running(p) \ {r}) = Cardinality(Running(p)) - 1
    BY <2>2, OneLess DEF Running
  <2> DEFINE n == IF refcount[p] <= 1 THEN 0 ELSE refcount[p] - 1
  <2>4. refcount' = [refcount EXCEPT ![p] = n] /\ removed' = removed
    BY <1>4, <2>0 DEF Finish, Release
  <2>5. /\ Running(p)' = Running(p) \ {r}
        /\ \A q \in Projects : q # p => Running(q)' = Running(q)
    BY <2>1, <2>2
  <2>6. CountedAt(p) /\ Cardinality(Running(p)) \in Nat /\ Cardinality(Running(p) \ {r}) \in Nat
    BY <2>2, Finite DEF Counted, Running
  <2>7. n \in Nat /\ n <= Cardinality(Running(p)')
    BY <2>2, <2>3, <2>5, <2>6 DEF CountedAt
  <2>8. p \notin removed => n = Cardinality(Running(p)')
    BY <2>2, <2>3, <2>5, <2>6 DEF CountedAt
  <2> HIDE DEF n, TypeOK, CallShape, Counted
  <2> QED
    BY <2>2, <2>4, <2>5, <2>7, <2>8, Recount
<1>5. ASSUME NEW r \in Requests, Timeout(r)
      PROVE  refcount' \in [Projects -> Nat] /\ Counted'
  <2>0. PICK p \in Projects : p = req[r].project
    BY <1>5 DEF Timeout
  <2>1. ASSUME NEW q \in Projects
        PROVE  Running(q)' = IF q = p THEN Running(q) \ {r} ELSE Running(q)
    BY <1>5, <2>0 DEF Timeout, Running, NoCall
  <2>2. p \in Projects /\ r \in Running(p)
 BY <1>5, <2>0 DEF Timeout, Running
  <2>3. Cardinality(Running(p) \ {r}) = Cardinality(Running(p)) - 1
    BY <2>2, OneLess DEF Running
  <2> DEFINE n == IF refcount[p] <= 1 THEN 0 ELSE refcount[p] - 1
  <2>4. refcount' = [refcount EXCEPT ![p] = n] /\ removed' = removed
    BY <1>5, <2>0 DEF Timeout, Release
  <2>5. /\ Running(p)' = Running(p) \ {r}
        /\ \A q \in Projects : q # p => Running(q)' = Running(q)
    BY <2>1, <2>2
  <2>6. CountedAt(p) /\ Cardinality(Running(p)) \in Nat /\ Cardinality(Running(p) \ {r}) \in Nat
    BY <2>2, Finite DEF Counted, Running
  <2>7. n \in Nat /\ n <= Cardinality(Running(p)')
    BY <2>2, <2>3, <2>5, <2>6 DEF CountedAt
  <2>8. p \notin removed => n = Cardinality(Running(p)')
    BY <2>2, <2>3, <2>5, <2>6 DEF CountedAt
  <2> HIDE DEF n, TypeOK, CallShape, Counted
  <2> QED
    BY <2>2, <2>4, <2>5, <2>7, <2>8, Recount
<1>6. ASSUME NEW r \in Requests, Overrun(r)
      PROVE  refcount' \in [Projects -> Nat] /\ Counted'
  <2>1. ASSUME NEW q \in Projects
        PROVE  Running(q)' = Running(q)
    BY <1>6 DEF Overrun, Running, NoCall, Waiting
  <2> QED
    BY <1>6, <2>1 DEF Overrun, Evict, Idle
<1>7. ASSUME NEW p \in Projects, InitSucceeds(p)
      PROVE  refcount' \in [Projects -> Nat] /\ Counted'
  <2> DEFINE new == IF Declared(p) THEN Waiting(p) ELSE {}
  <2>1. ASSUME NEW q \in Projects
        PROVE  Running(q)' = IF q = p THEN Running(q) \union new ELSE Running(q)
    <3>1. CASE Declared(p)
      BY <1>7, <3>1 DEF InitSucceeds, Running, Waiting
    <3>2. CASE ~Declared(p)
      BY <1>7, <3>2 DEF InitSucceeds, Running, Waiting, NoCall
    <3> QED
      BY <3>1, <3>2
  <2>2. /\ new \in SUBSET Requests /\ Running(p) \intersect new = {}
        /\ Cardinality(new) = IF Declared(p) THEN Cardinality(Waiting(p)) ELSE 0
    BY FS_EmptySet DEF Running, Waiting
  <2>3. Cardinality(new) \in Nat
    BY <2>2, Finite
  <2>4. Cardinality(Running(p) \union new) = Cardinality(Running(p)) + Cardinality(new)
    BY <2>2, ManyMore DEF Running
  <2>5. refcount' = [refcount EXCEPT ![p] = refcount[p] + Cardinality(new)]
        /\ removed' = removed
    <3>1. CASE Declared(p)
      BY <1>7, <2>2, <3>1 DEF InitSucceeds
    <3>2. CASE ~Declared(p)
      BY <1>7, <2>2, <3>2 DEF InitSucceeds
    <3> QED
      BY <3>1, <3>2
  <2>6. /\ Running(p)' = Running(p) \union new
        /\ \A q \in Projects : q # p => Running(q)' = Running(q)
    BY <2>1
  <2> DEFINE n == refcount[p] + Cardinality(new)
  <2>7. CountedAt(p) /\ n \in Nat
    BY <2>3
  <2>8. n <= Cardinality(Running(p)') /\ (p \notin removed => n = Cardinality(Running(p)'))
    BY <2>3, <2>4, <2>6, <2>7 DEF CountedAt
  <2> HIDE DEF n, TypeOK, CallShape, Counted
  <2>9. refcount' = [refcount EXCEPT ![p] = n]
    BY <2>5 DEF n
  <2> QED
    BY <2>5, <2>6, <2>7, <2>8, <2>9, Recount
<1>8. ASSUME NEW p \in Projects, InitFails(p)
      PROVE  refcount' \in [Projects -> Nat] /\ Counted'
  <2>1. ASSUME NEW q \in Projects
        PROVE  Running(q)' = Running(q)
    BY <1>8 DEF InitFails, Running, NoCall, Waiting
  <2> QED
    BY <1>8, <2>1 DEF InitFails, Evict, Idle
<1>9. ASSUME NEW p \in Projects, Age(p)
      PROVE  refcount' \in [Projects -> Nat] /\ Counted'
  <2>1. ASSUME NEW q \in Projects
        PROVE  Running(q)' = Running(q)
    BY <1>9 DEF Age, Running, NoCall, Waiting
  <2> QED
    BY <1>9, <2>1 DEF Age, Evict, Idle
<1>10. CASE Sweep
  <2>1. ASSUME NEW q \in Projects
        PROVE  Running(q)' = Running(q)
    BY <1>10 DEF Sweep, Running, NoCall, Waiting
  <2> QED
    BY <1>10, <2>1 DEF Sweep, Evict, Idle
<1>11. ASSUME NEW decl \in Declarations, EditConfig(decl)
       PROVE  refcount' \in [Projects -> Nat] /\ Counted'
  <2>1. ASSUME NEW q \in Projects
        PROVE  Running(q)' = Running(q)
    BY <1>11 DEF EditConfig, Running, NoCall, Waiting
  <2> QED
    BY <1>11, <2>1 DEF EditConfig, Evict, Idle
<1>12. ASSUME NEW k \in Reloads, BeginReload(k)
       PROVE  refcount' \in [Projects -> Nat] /\ Counted'
  <2>1. ASSUME NEW q \in Projects
        PROVE  Running(q)' = Running(q)
    BY <1>12 DEF BeginReload, Running, NoCall, Waiting
  <2> QED
    BY <1>12, <2>1 DEF BeginReload, Evict, Idle
<1>13. ASSUME NEW k \in Reloads, LoadConfig(k)
       PROVE  refcount' \in [Projects -> Nat] /\ Counted'
  <2>1. ASSUME NEW q \in Projects
        PROVE  Running(q)' = Running(q)
    BY <1>13 DEF LoadConfig, Running, NoCall, Waiting
  <2> QED
    BY <1>13, <2>1 DEF LoadConfig, Evict, Idle
<1>14. ASSUME NEW k \in Reloads, ReloadFails(k)
       PROVE  refcount' \in [Projects -> Nat] /\ Counted'
  <2>1. ASSUME NEW q \in Projects
        PROVE  Running(q)' = Running(q)
    BY <1>14 DEF ReloadFails, Running, NoCall, Waiting
  <2> QED
    BY <1>14, <2>1 DEF ReloadFails, Evict, Idle
<1>15. ASSUME NEW k \in Reloads, ApplyDiff(k)
       PROVE  refcount' \in [Projects -> Nat] /\ Counted'
  <2>1. ASSUME NEW q \in Projects
        PROVE  Running(q)' = Running(q)
    BY <1>15 DEF ApplyDiff, Running, NoCall, Waiting
  <2> QED
    BY <1>15, <2>1 DEF ApplyDiff, Evict, Idle
<1>16. CASE UNCHANGED vars
  <2>1. ASSUME NEW q \in Projects
        PROVE  Running(q)' = Running(q)
    BY <1>16 DEF vars, Running
  <2> QED
    BY <1>16, <2>1 DEF vars
<1> HIDE DEF Counted
<1> QED
  BY <1>1, <1>2, <1>3, <1>4, <1>5, <1>6, <1>7, <1>8, <1>9, <1>10, <1>11, <1>12, <1>13,
     <1>14, <1>15, <1>16 DEF Next

\* A call in another state, or on another engine, is a call.
LEMMA CallTyped ==
  ASSUME NEW c \in Calls
  PROVE  /\ NoCall \in Calls
         /\ [c EXCEPT !.pc = "overrun"] \in Calls
         /\ \A e \in Engines : [c EXCEPT !.pc = "running", !.engine = e] \in Calls
BY DEF Calls, NoCall

\* An eviction leaves well-typed maps behind.
LEMMA EvictTyped ==
  ASSUME TypeOK, NEW P \in SUBSET Projects, Evict(P)
  PROVE  /\ engines' \in [Projects -> Engines \union {NoEngine}]
         /\ closed' \in SUBSET Engines /\ recent' \in SUBSET Projects
BY DEF TypeOK, Evict

\* The types hold after every step.
LEMMA Typed ==
  ASSUME Inv, [Next]_vars
  PROVE  TypeOK'
<1>a. refcount' \in [Projects -> 0..Cardinality(Requests)]
  <2>1. ASSUME NEW p \in Projects
        PROVE  refcount'[p] \in 0..Cardinality(Requests)
    <3>1. refcount'[p] \in Nat /\ CountedAt(p)'
      BY CountedKept DEF Counted
    <3>2. Running(p)' \in SUBSET Requests
      BY DEF Running
    <3>3. Cardinality(Running(p)') \in 0..Cardinality(Requests)
      BY <3>2, Finite
    <3>4. Cardinality(Requests) \in Nat
      BY FS_CardinalityType
    <3> QED
      BY <3>1, <3>3, <3>4 DEF CountedAt
  <2> QED
    BY <2>1, CountedKept
<1>b. TypeOK
  BY DEF Inv
<1> USE <1>a, <1>b
<1> USE DEF TypeOK, Declarations, instanceVars, engineVars
<1>1. ASSUME NEW r \in Requests, NEW p \in Projects, CallCached(r, p)
      PROVE  TypeOK'
  BY <1>1 DEF CallCached, Release, EndReload, Calls, NoCall, NoReload, ReloadSteps,
     Engines, Declared
<1>2. ASSUME NEW r \in Requests, NEW p \in Projects, CallJoins(r, p)
      PROVE  TypeOK'
  BY <1>2 DEF CallJoins, Release, EndReload, Calls, NoCall, NoReload, ReloadSteps,
     Engines, Declared
<1>3. ASSUME NEW r \in Requests, NEW p \in Projects, CallInits(r, p)
      PROVE  TypeOK'
  BY <1>3 DEF CallInits, Release, EndReload, Calls, NoCall, NoReload, ReloadSteps,
     Engines, Declared
<1>4. ASSUME NEW r \in Requests, Finish(r)
      PROVE  TypeOK'
  BY <1>4 DEF Finish, Release, EndReload, Calls, NoCall, NoReload, ReloadSteps, Engines,
     Declared
<1>5. ASSUME NEW r \in Requests, Timeout(r)
      PROVE  TypeOK'
  <2>1. req[r] \in Calls
    OBVIOUS
  <2>2. [req[r] EXCEPT !.pc = "overrun"] \in Calls
    BY <2>1, CallTyped
  <2>3. req' \in [Requests -> Calls]
    BY <1>5, <2>2 DEF Timeout
  <2>4. recent' \in SUBSET Projects
    BY <1>5, <2>1 DEF Timeout, Release, Calls
  <2> QED
    BY <1>5, <2>3, <2>4 DEF Timeout
<1>6. ASSUME NEW r \in Requests, Overrun(r)
      PROVE  TypeOK'
  BY <1>6 DEF Overrun, Release, EndReload, Calls, NoCall, NoReload, ReloadSteps,
     Engines, Declared
<1>7. ASSUME NEW p \in Projects, InitSucceeds(p)
      PROVE  TypeOK'
  <2>1. ASSUME NEW r \in Requests
        PROVE  req'[r] \in Calls
    <3>1. req[r] \in Calls /\ initing[p] \in Engines
      BY <1>7 DEF InitSucceeds
    <3>2. /\ [req[r] EXCEPT !.pc = "running", !.engine = initing[p]] \in Calls
          /\ NoCall \in Calls
      BY <3>1, CallTyped
    <3> QED
      BY <1>7, <3>1, <3>2 DEF InitSucceeds
  <2>2. req' = [r \in Requests |-> req'[r]]
    BY <1>7 DEF InitSucceeds
  <2>3. req' \in [Requests -> Calls]
    BY <2>1, <2>2
  <2> QED
    BY <1>7, <2>3 DEF InitSucceeds
<1>8. ASSUME NEW p \in Projects, InitFails(p)
      PROVE  TypeOK'
  BY <1>8 DEF InitFails, Release, EndReload, Calls, NoCall, NoReload, ReloadSteps,
     Engines, Declared
<1>9. ASSUME NEW p \in Projects, Age(p)
      PROVE  TypeOK'
  BY <1>9 DEF Age, Release, EndReload, Calls, NoCall, NoReload, ReloadSteps, Engines,
     Declared
<1>10. CASE Sweep
  <2>1. PICK P \in SUBSET Projects : Evict(P)
    BY <1>10 DEF Sweep, Removed
  <2>2. /\ engines' \in [Projects -> Engines \union {NoEngine}]
        /\ closed' \in SUBSET Engines /\ recent' \in SUBSET Projects
    BY <2>1, EvictTyped
  <2> QED
    BY <1>10, <2>2 DEF Sweep, ReloadRecords
<1>11. ASSUME NEW decl \in Declarations, EditConfig(decl)
       PROVE  TypeOK'
  BY <1>11 DEF EditConfig, Release, EndReload, Calls, NoCall, NoReload, ReloadSteps,
     Engines, Declared
<1>12. ASSUME NEW k \in Reloads, BeginReload(k)
       PROVE  TypeOK'
  <2>1. ASSUME NEW c \in ReloadRecords
        PROVE  [c EXCEPT !.pc = "loading"] \in
                 ReloadRecords
    BY DEF ReloadRecords, ReloadSteps
  <2> QED
    BY <1>12, <2>1 DEF BeginReload, ReloadRecords
<1>13. ASSUME NEW k \in Reloads, LoadConfig(k)
       PROVE  TypeOK'
  BY <1>13 DEF LoadConfig, Release, EndReload, Calls, NoCall, NoReload, ReloadSteps,
     Engines, Declared
<1>14. ASSUME NEW k \in Reloads, ReloadFails(k)
       PROVE  TypeOK'
  BY <1>14 DEF ReloadFails, Release, EndReload, Calls, NoCall, NoReload, ReloadSteps,
     Engines, Declared
<1>15. ASSUME NEW k \in Reloads, ApplyDiff(k)
       PROVE  TypeOK'
  <2>1. PICK P \in SUBSET Projects : Evict(P)
    BY <1>15 DEF ApplyDiff, Removed
  <2>2. /\ engines' \in [Projects -> Engines \union {NoEngine}]
        /\ closed' \in SUBSET Engines /\ recent' \in SUBSET Projects
    BY <2>1, EvictTyped
  <2>3. /\ reload[k].decl \in [Projects -> Dirs \union {Nowhere}] /\ reload[k].edition \in Nat
        /\ NoReload \in ReloadRecords
    BY DEF ReloadRecords, NoReload, ReloadSteps
  <2>4. /\ reload' \in [Reloads -> ReloadRecords]
        /\ slot' \in BOOLEAN /\ removed' \in SUBSET Projects
    BY <1>15, <2>3 DEF ApplyDiff, ReloadRecords, EndReload, Removed
  <2> QED
    BY <1>15, <2>2, <2>3, <2>4 DEF ApplyDiff, ReloadRecords
<1>16. CASE UNCHANGED vars
  BY <1>16 DEF vars
<1> QED
  BY <1>1, <1>2, <1>3, <1>4, <1>5, <1>6, <1>7, <1>8, <1>9, <1>10, <1>11, <1>12, <1>13,
     <1>14, <1>15, <1>16 DEF Next

\* The calls keep their shape.
LEMMA CallShaped ==
  ASSUME Inv, TypeOK', [Next]_vars
  PROVE  CallShape'
<1> USE DEF Inv, TypeOK, CallShape, Declarations, instanceVars, engineVars, NoCall, Calls,
     Engines
<1>1. ASSUME NEW r \in Requests, NEW p \in Projects, CallCached(r, p)
      PROVE  CallShape'
  BY <1>1 DEF CallCached
<1>2. ASSUME NEW r \in Requests, NEW p \in Projects, CallJoins(r, p)
      PROVE  CallShape'
  BY <1>2 DEF CallJoins
<1>3. ASSUME NEW r \in Requests, NEW p \in Projects, CallInits(r, p)
      PROVE  CallShape'
  BY <1>3 DEF CallInits
<1>4. ASSUME NEW r \in Requests, Finish(r)
      PROVE  CallShape'
  BY <1>4 DEF Finish
<1>5. ASSUME NEW r \in Requests, Timeout(r)
      PROVE  CallShape'
  BY <1>5 DEF Timeout
<1>6. ASSUME NEW r \in Requests, Overrun(r)
      PROVE  CallShape'
  BY <1>6 DEF Overrun
<1>7. ASSUME NEW p \in Projects, InitSucceeds(p)
      PROVE  CallShape'
  <2>1. ASSUME NEW r \in Requests, req'[r].pc = "running"
        PROVE  req'[r].project \in Projects /\ req'[r].engine \in Engines
    <3>1. CASE r \notin Waiting(p)
      BY <1>7, <2>1, <3>1 DEF InitSucceeds
    <3>2. CASE r \in Waiting(p)
      <4>1. req'[r] = [req[r] EXCEPT !.pc = "running", !.engine = initing[p]]
        BY <1>7, <2>1, <3>2 DEF InitSucceeds
      <4>2. initing[p] \in Engines
        BY <1>7 DEF InitSucceeds
      <4>3. req[r] \in Calls /\ req[r].project = p
        BY <3>2 DEF Waiting
      <4> QED
        BY <4>1, <4>2, <4>3
    <3> QED
      BY <3>1, <3>2
  <2> QED
    BY <2>1
<1>8. ASSUME NEW p \in Projects, InitFails(p)
      PROVE  CallShape'
  BY <1>8 DEF InitFails
<1>9. ASSUME NEW p \in Projects, Age(p)
      PROVE  CallShape'
  BY <1>9 DEF Age
<1>10. CASE Sweep
  BY <1>10 DEF Sweep
<1>11. ASSUME NEW decl \in Declarations, EditConfig(decl)
       PROVE  CallShape'
  BY <1>11 DEF EditConfig
<1>12. ASSUME NEW k \in Reloads, BeginReload(k)
       PROVE  CallShape'
  BY <1>12 DEF BeginReload
<1>13. ASSUME NEW k \in Reloads, LoadConfig(k)
       PROVE  CallShape'
  BY <1>13 DEF LoadConfig
<1>14. ASSUME NEW k \in Reloads, ReloadFails(k)
       PROVE  CallShape'
  BY <1>14 DEF ReloadFails
<1>15. ASSUME NEW k \in Reloads, ApplyDiff(k)
       PROVE  CallShape'
  BY <1>15 DEF ApplyDiff
<1>16. CASE UNCHANGED vars
  BY <1>16 DEF vars
<1> QED
  BY <1>1, <1>2, <1>3, <1>4, <1>5, <1>6, <1>7, <1>8, <1>9, <1>10, <1>11, <1>12, <1>13,
     <1>14, <1>15, <1>16 DEF Next

\* An eviction takes the engines it closes out of the pool,
LEMMA EvictedLeave ==
  ASSUME Inv, NEW P \in SUBSET Projects, Evict(P), initing' = initing, NEW q \in Projects
  PROVE  /\ PoolOf(q)' \subseteq PoolOf(q) \ closed'
         /\ q \notin P \/ engines[q] = NoEngine => engines'[q] = engines[q]
<1>1. TypeOK /\ Open /\ Apart /\ NoEngineLost
  BY DEF Inv
<1>2. ASSUME NEW e \in PoolOf(q)'
      PROVE  e \in PoolOf(q) /\ e \notin closed'
  <2>1. e \in PoolOf(q)
    BY <1>1 DEF Evict, PoolOf, TypeOK
  <2>2. ASSUME NEW o \in P, engines[o] # NoEngine, e = engines[o]
        PROVE  FALSE
    <3>1. e \in PoolOf(o)
      BY <2>2 DEF PoolOf
    <3>2. o = q
      BY <1>1, <2>1, <3>1 DEF Apart
    <3>3. engines'[q] = NoEngine /\ initing[q] = NoEngine
      BY <1>1, <2>2, <3>2 DEF Evict, NoEngineLost
    <3> QED
      BY <3>3 DEF PoolOf
  <2> QED
    BY <1>1, <2>1, <2>2 DEF Evict, Open
<1> QED
  BY <1>1, <1>2 DEF Evict, TypeOK

\* and loses none.
LEMMA EvictedClosed ==
  ASSUME Inv, NEW P \in SUBSET Projects, Evict(P), initing' = initing, created' = created
  PROVE  NoEngineLost' /\ closed' \subseteq 1..created
<1>1. TypeOK /\ Open /\ NoEngineLost
  BY DEF Inv
<1>2. ASSUME NEW e \in 1..created
      PROVE  e \in closed' \/ e \in InPool'
  <2>1. CASE e \in closed
    BY <2>1 DEF Evict
  <2>2. ASSUME NEW p \in Projects, e = initing[p]
        PROVE  e \in InPool'
    BY <2>2 DEF InPool
  <2>3. ASSUME NEW p \in Projects, e = engines[p]
        PROVE  e \in closed' \/ e \in InPool'
    <3>1. CASE p \in P
      BY <2>3, <3>1 DEF Evict
    <3>2. CASE p \notin P
      <4>1. engines'[p] = e
        BY <2>3, <3>2 DEF Evict
      <4> QED
        BY <4>1 DEF InPool
    <3> QED
      BY <3>1, <3>2
  <2> QED
    BY <1>1, <2>1, <2>2, <2>3 DEF NoEngineLost, InPool
<1>3. ASSUME NEW p \in Projects
      PROVE  engines'[p] = NoEngine \/ initing'[p] = NoEngine
  BY <1>1 DEF NoEngineLost, Evict
<1>4. ASSUME NEW p \in Projects, engines[p] # NoEngine
      PROVE  engines[p] \in 1..created
  BY <1>1, <1>4 DEF Open, PoolOf
<1> QED
  BY <1>1, <1>2, <1>3, <1>4 DEF NoEngineLost, Evict, Open

\* No step closes an engine it leaves in the pool.
LEMMA OpenKept ==
  ASSUME Inv, TypeOK', [Next]_vars
  PROVE  Open'
<1>a. TypeOK /\ Open /\ Apart /\ NoEngineLost
  BY DEF Inv
<1> USE <1>a
<1> USE DEF instanceVars, engineVars
<1>1. ASSUME NEW r \in Requests, NEW p \in Projects, CallCached(r, p)
      PROVE  Open'
  BY <1>1 DEF CallCached, Open, PoolOf
<1>2. ASSUME NEW r \in Requests, NEW p \in Projects, CallJoins(r, p)
      PROVE  Open'
  BY <1>2 DEF CallJoins, Open, PoolOf
<1>3. ASSUME NEW r \in Requests, NEW p \in Projects, CallInits(r, p)
      PROVE  Open'
  <2>1. ASSUME NEW q \in Projects
        PROVE  PoolOf(q)' \subseteq PoolOf(q) \union {created'}
    BY <1>3 DEF CallInits, PoolOf, TypeOK
  <2>2. /\ created' \in 1..created' /\ 1..created \subseteq 1..created'
        /\ created' \notin closed /\ closed' = closed
    BY <1>3 DEF CallInits, Open, TypeOK
  <2> QED
    BY <2>1, <2>2 DEF Open
<1>4. ASSUME NEW r \in Requests, Finish(r)
      PROVE  Open'
  BY <1>4 DEF Finish, Open, PoolOf
<1>5. ASSUME NEW r \in Requests, Timeout(r)
      PROVE  Open'
  BY <1>5 DEF Timeout, Open, PoolOf
<1>6. ASSUME NEW r \in Requests, Overrun(r)
      PROVE  Open'
  BY <1>6 DEF Overrun, Open, PoolOf
<1>7. ASSUME NEW p \in Projects, InitSucceeds(p)
      PROVE  Open'
  <2>1. ASSUME NEW q \in Projects
        PROVE  PoolOf(q)' \subseteq PoolOf(q)
    BY <1>7 DEF InitSucceeds, PoolOf, TypeOK
  <2> QED
    BY <1>7, <2>1 DEF InitSucceeds, Open
<1>8. ASSUME NEW p \in Projects, InitFails(p)
      PROVE  Open'
  <2>1. ASSUME NEW q \in Projects
        PROVE  PoolOf(q)' \subseteq PoolOf(q) \ {initing[p]}
    <3>1. PoolOf(q)' \subseteq PoolOf(q) /\ (q = p => PoolOf(q)' = {})
      BY <1>8 DEF InitFails, PoolOf, TypeOK, NoEngineLost
    <3>2. initing[p] \in PoolOf(p)
      BY <1>8 DEF InitFails, PoolOf
    <3> QED
      BY <3>1, <3>2 DEF Apart
  <2>2. initing[p] \in PoolOf(p)
    BY <1>8 DEF InitFails, PoolOf
  <2> QED
    BY <1>8, <2>1, <2>2 DEF InitFails, Open
<1>9. ASSUME NEW p \in Projects, Age(p)
      PROVE  Open'
  BY <1>9 DEF Age, Open, PoolOf
<1>10. CASE Sweep
  <2>1. PICK P \in SUBSET Projects : Evict(P) /\ initing' = initing /\ created' = created
    BY <1>10 DEF Sweep, Removed
  <2>2. ASSUME NEW q \in Projects
        PROVE  PoolOf(q)' \subseteq PoolOf(q) \ closed'
    BY <2>1, EvictedLeave
  <2> QED
    BY <2>1, <2>2, EvictedClosed DEF Open
<1>11. ASSUME NEW decl \in Declarations, EditConfig(decl)
       PROVE  Open'
  BY <1>11 DEF EditConfig, Open, PoolOf
<1>12. ASSUME NEW k \in Reloads, BeginReload(k)
       PROVE  Open'
  BY <1>12 DEF BeginReload, Open, PoolOf
<1>13. ASSUME NEW k \in Reloads, LoadConfig(k)
       PROVE  Open'
  BY <1>13 DEF LoadConfig, Open, PoolOf
<1>14. ASSUME NEW k \in Reloads, ReloadFails(k)
       PROVE  Open'
  BY <1>14 DEF ReloadFails, Open, PoolOf
<1>15. ASSUME NEW k \in Reloads, ApplyDiff(k)
       PROVE  Open'
  <2>1. PICK P \in SUBSET Projects : Evict(P) /\ initing' = initing /\ created' = created
    BY <1>15 DEF ApplyDiff, Removed
  <2>2. ASSUME NEW q \in Projects
        PROVE  PoolOf(q)' \subseteq PoolOf(q) \ closed'
    BY <2>1, EvictedLeave
  <2> QED
    BY <2>1, <2>2, EvictedClosed DEF Open
<1>16. CASE UNCHANGED vars
  BY <1>16 DEF vars, Open, PoolOf
<1> QED
  BY <1>1, <1>2, <1>3, <1>4, <1>5, <1>6, <1>7, <1>8, <1>9, <1>10, <1>11, <1>12, <1>13,
     <1>14, <1>15, <1>16 DEF Next

\* No step puts an engine in the pool twice.
LEMMA ApartKept ==
  ASSUME Inv, TypeOK', [Next]_vars
  PROVE  Apart'
<1>a. TypeOK /\ Open /\ Apart /\ NoEngineLost
  BY DEF Inv
<1> USE <1>a
<1> USE DEF instanceVars, engineVars
<1>1. ASSUME NEW r \in Requests, NEW p \in Projects, CallCached(r, p)
      PROVE  Apart'
  BY <1>1 DEF CallCached, Apart, PoolOf
<1>2. ASSUME NEW r \in Requests, NEW p \in Projects, CallJoins(r, p)
      PROVE  Apart'
  BY <1>2 DEF CallJoins, Apart, PoolOf
<1>3. ASSUME NEW r \in Requests, NEW p \in Projects, CallInits(r, p)
      PROVE  Apart'
  <2>1. ASSUME NEW q \in Projects
        PROVE  /\ PoolOf(q)' \subseteq PoolOf(q) \union (IF q = p THEN {created'} ELSE {})
               /\ created' \notin PoolOf(q)
    BY <1>3 DEF CallInits, PoolOf, TypeOK, Open
  <2> QED
    BY <2>1 DEF Apart
<1>4. ASSUME NEW r \in Requests, Finish(r)
      PROVE  Apart'
  BY <1>4 DEF Finish, Apart, PoolOf
<1>5. ASSUME NEW r \in Requests, Timeout(r)
      PROVE  Apart'
  BY <1>5 DEF Timeout, Apart, PoolOf
<1>6. ASSUME NEW r \in Requests, Overrun(r)
      PROVE  Apart'
  BY <1>6 DEF Overrun, Apart, PoolOf
<1>7. ASSUME NEW p \in Projects, InitSucceeds(p)
      PROVE  Apart'
  <2>1. ASSUME NEW q \in Projects
        PROVE  PoolOf(q)' \subseteq PoolOf(q)
    BY <1>7 DEF InitSucceeds, PoolOf, TypeOK
  <2> QED
    BY <2>1 DEF Apart
<1>8. ASSUME NEW p \in Projects, InitFails(p)
      PROVE  Apart'
  <2>1. ASSUME NEW q \in Projects
        PROVE  PoolOf(q)' \subseteq PoolOf(q)
    BY <1>8 DEF InitFails, PoolOf, TypeOK
  <2> QED
    BY <2>1 DEF Apart
<1>9. ASSUME NEW p \in Projects, Age(p)
      PROVE  Apart'
  BY <1>9 DEF Age, Apart, PoolOf
<1>10. CASE Sweep
  <2>1. PICK P \in SUBSET Projects : Evict(P) /\ initing' = initing /\ created' = created
    BY <1>10 DEF Sweep, Removed
  <2>2. ASSUME NEW q \in Projects
        PROVE  PoolOf(q)' \subseteq PoolOf(q) \ closed'
    BY <2>1, EvictedLeave
  <2> QED
    BY <2>2 DEF Apart
<1>11. ASSUME NEW decl \in Declarations, EditConfig(decl)
       PROVE  Apart'
  BY <1>11 DEF EditConfig, Apart, PoolOf
<1>12. ASSUME NEW k \in Reloads, BeginReload(k)
       PROVE  Apart'
  BY <1>12 DEF BeginReload, Apart, PoolOf
<1>13. ASSUME NEW k \in Reloads, LoadConfig(k)
       PROVE  Apart'
  BY <1>13 DEF LoadConfig, Apart, PoolOf
<1>14. ASSUME NEW k \in Reloads, ReloadFails(k)
       PROVE  Apart'
  BY <1>14 DEF ReloadFails, Apart, PoolOf
<1>15. ASSUME NEW k \in Reloads, ApplyDiff(k)
       PROVE  Apart'
  <2>1. PICK P \in SUBSET Projects : Evict(P) /\ initing' = initing /\ created' = created
    BY <1>15 DEF ApplyDiff, Removed
  <2>2. ASSUME NEW q \in Projects
        PROVE  PoolOf(q)' \subseteq PoolOf(q) \ closed'
    BY <2>1, EvictedLeave
  <2> QED
    BY <2>2 DEF Apart
<1>16. CASE UNCHANGED vars
  BY <1>16 DEF vars, Apart, PoolOf
<1> QED
  BY <1>1, <1>2, <1>3, <1>4, <1>5, <1>6, <1>7, <1>8, <1>9, <1>10, <1>11, <1>12, <1>13,
     <1>14, <1>15, <1>16 DEF Next

\* No step loses an engine.
LEMMA NoneLost ==
  ASSUME Inv, TypeOK', [Next]_vars
  PROVE  NoEngineLost'
<1>a. TypeOK /\ NoEngineLost
  BY DEF Inv
<1>b. created \in Nat /\ NoEngine \notin 1..created
  BY <1>a DEF TypeOK
<1> USE <1>a, <1>b
<1> USE DEF instanceVars, engineVars
<1>1. ASSUME NEW r \in Requests, NEW p \in Projects, CallCached(r, p)
      PROVE  NoEngineLost'
  BY <1>1 DEF CallCached, NoEngineLost, InPool
<1>2. ASSUME NEW r \in Requests, NEW p \in Projects, CallJoins(r, p)
      PROVE  NoEngineLost'
  BY <1>2 DEF CallJoins, NoEngineLost, InPool
<1>3. ASSUME NEW r \in Requests, NEW p \in Projects, CallInits(r, p)
      PROVE  NoEngineLost'
  <2>1. ASSUME NEW q \in Projects
        PROVE  /\ engines'[q] = engines[q]
               /\ initing'[q] = IF q = p THEN created' ELSE initing[q]
    BY <1>3 DEF CallInits, TypeOK
  <2>2. InPool \ {NoEngine} \subseteq InPool' /\ created' \in InPool'
    BY <1>3, <2>1 DEF CallInits, InPool
  <2>3. 1..created' = (1..created) \union {created'}
    BY <1>3 DEF CallInits
  <2>4. closed' = closed
    BY <1>3 DEF CallInits
  <2> QED
    BY <1>3, <2>1, <2>2, <2>3, <2>4 DEF CallInits, NoEngineLost
<1>4. ASSUME NEW r \in Requests, Finish(r)
      PROVE  NoEngineLost'
  BY <1>4 DEF Finish, NoEngineLost, InPool
<1>5. ASSUME NEW r \in Requests, Timeout(r)
      PROVE  NoEngineLost'
  BY <1>5 DEF Timeout, NoEngineLost, InPool
<1>6. ASSUME NEW r \in Requests, Overrun(r)
      PROVE  NoEngineLost'
  BY <1>6 DEF Overrun, NoEngineLost, InPool
<1>7. ASSUME NEW p \in Projects, InitSucceeds(p)
      PROVE  NoEngineLost'
  <2>1. ASSUME NEW q \in Projects
        PROVE  /\ engines'[q] = IF q = p THEN initing[p] ELSE engines[q]
               /\ initing'[q] = IF q = p THEN NoEngine ELSE initing[q]
    BY <1>7 DEF InitSucceeds, TypeOK
  <2>2. engines[p] = NoEngine
    BY <1>7 DEF InitSucceeds, NoEngineLost
  <2>3. InPool \ {NoEngine} \subseteq InPool'
    BY <2>1, <2>2 DEF InPool
  <2>4. closed' = closed /\ created' = created
    BY <1>7 DEF InitSucceeds
  <2> QED
    BY <2>1, <2>2, <2>3, <2>4 DEF NoEngineLost
<1>8. ASSUME NEW p \in Projects, InitFails(p)
      PROVE  NoEngineLost'
  <2>1. ASSUME NEW q \in Projects
        PROVE  /\ engines'[q] = engines[q]
               /\ initing'[q] = IF q = p THEN NoEngine ELSE initing[q]
    BY <1>8 DEF InitFails, TypeOK
  <2>2. InPool \ {initing[p]} \subseteq InPool'
    BY <2>1 DEF InPool
  <2>3. closed' = closed \union {initing[p]} /\ created' = created
    BY <1>8 DEF InitFails
  <2> QED
    BY <2>1, <2>2, <2>3 DEF NoEngineLost
<1>9. ASSUME NEW p \in Projects, Age(p)
      PROVE  NoEngineLost'
  BY <1>9 DEF Age, NoEngineLost, InPool
<1>10. CASE Sweep
  <2>1. PICK P \in SUBSET Projects : Evict(P) /\ initing' = initing /\ created' = created
    BY <1>10 DEF Sweep, Removed
  <2> QED
    BY <2>1, EvictedClosed
<1>11. ASSUME NEW decl \in Declarations, EditConfig(decl)
       PROVE  NoEngineLost'
  BY <1>11 DEF EditConfig, NoEngineLost, InPool
<1>12. ASSUME NEW k \in Reloads, BeginReload(k)
       PROVE  NoEngineLost'
  BY <1>12 DEF BeginReload, NoEngineLost, InPool
<1>13. ASSUME NEW k \in Reloads, LoadConfig(k)
       PROVE  NoEngineLost'
  BY <1>13 DEF LoadConfig, NoEngineLost, InPool
<1>14. ASSUME NEW k \in Reloads, ReloadFails(k)
       PROVE  NoEngineLost'
  BY <1>14 DEF ReloadFails, NoEngineLost, InPool
<1>15. ASSUME NEW k \in Reloads, ApplyDiff(k)
       PROVE  NoEngineLost'
  <2>1. PICK P \in SUBSET Projects : Evict(P) /\ initing' = initing /\ created' = created
    BY <1>15 DEF ApplyDiff, Removed
  <2> QED
    BY <2>1, EvictedClosed
<1>16. CASE UNCHANGED vars
  BY <1>16 DEF vars, NoEngineLost, InPool
<1> QED
  BY <1>1, <1>2, <1>3, <1>4, <1>5, <1>6, <1>7, <1>8, <1>9, <1>10, <1>11, <1>12, <1>13,
     <1>14, <1>15, <1>16 DEF Next

\* The engines of the pool stay at the directories of their projects.
LEMMA DirsKept ==
  ASSUME Inv, TypeOK', [Next]_vars
  PROVE  AtDirs'
<1>a. TypeOK /\ CallShape /\ Open /\ AtDirs /\ OnTheirEngine /\ Counted /\ NoEngineLost
  BY DEF Inv
<1>b. ASSUME NEW p \in Projects
       PROVE  NoEngine \notin PoolOf(p)
  BY DEF PoolOf
<1> USE <1>a, <1>b
<1> USE DEF instanceVars, engineVars
<1>1. ASSUME NEW r \in Requests, NEW p \in Projects, CallCached(r, p)
      PROVE  AtDirs'
  BY <1>1 DEF CallCached, AtDirs, OnTheirEngine, PoolOf
<1>2. ASSUME NEW r \in Requests, NEW p \in Projects, CallJoins(r, p)
      PROVE  AtDirs'
  BY <1>2 DEF CallJoins, AtDirs, OnTheirEngine, PoolOf
<1>3. ASSUME NEW r \in Requests, NEW p \in Projects, CallInits(r, p)
      PROVE  AtDirs'
  <2>1. ASSUME NEW o \in Projects, NEW e \in PoolOf(o)'
        PROVE  e \in PoolOf(o) \/ (o = p /\ e = created')
    BY <1>3 DEF CallInits, PoolOf, TypeOK
  <2>2. created' \in Engines /\ dir'[created'] = instance[p] /\ instance[p] # Nowhere
    BY <1>3 DEF CallInits, TypeOK, Declared, Engines
  <2>3. ASSUME NEW o \in Projects, NEW e \in PoolOf(o)
        PROVE  dir'[e] = dir[e]
    <3>1. e # created'
      BY <1>3 DEF CallInits, Open, TypeOK
    <3> QED
      BY <1>3, <3>1 DEF CallInits, TypeOK
  <2> QED
    BY <1>3, <2>1, <2>2, <2>3 DEF CallInits, AtDirs, OnTheirEngine
<1>4. ASSUME NEW r \in Requests, Finish(r)
      PROVE  AtDirs'
  BY <1>4 DEF Finish, AtDirs, OnTheirEngine, PoolOf
<1>5. ASSUME NEW r \in Requests, Timeout(r)
      PROVE  AtDirs'
  BY <1>5 DEF Timeout, AtDirs, OnTheirEngine, PoolOf
<1>6. ASSUME NEW r \in Requests, Overrun(r)
      PROVE  AtDirs'
  BY <1>6 DEF Overrun, AtDirs, OnTheirEngine, PoolOf
<1>7. ASSUME NEW p \in Projects, InitSucceeds(p)
      PROVE  AtDirs'
  <2>1. ASSUME NEW o \in Projects
        PROVE  PoolOf(o)' \subseteq PoolOf(o)
    BY <1>7 DEF InitSucceeds, PoolOf, TypeOK
  <2> QED
    BY <1>7, <2>1 DEF InitSucceeds, AtDirs, OnTheirEngine
<1>8. ASSUME NEW p \in Projects, InitFails(p)
      PROVE  AtDirs'
  <2>1. ASSUME NEW o \in Projects
        PROVE  PoolOf(o)' \subseteq PoolOf(o)
    BY <1>8 DEF InitFails, PoolOf, TypeOK
  <2> QED
    BY <1>8, <2>1 DEF InitFails, AtDirs, OnTheirEngine
<1>9. ASSUME NEW p \in Projects, Age(p)
      PROVE  AtDirs'
  BY <1>9 DEF Age, AtDirs, OnTheirEngine, PoolOf
<1>10. CASE Sweep
  <2>1. PICK P \in SUBSET Projects : Evict(P) /\ initing' = initing /\ created' = created
    BY <1>10 DEF Sweep, Removed
  <2>2. ASSUME NEW q \in Projects
        PROVE  PoolOf(q)' \subseteq PoolOf(q) \ closed'
    BY <2>1, EvictedLeave
  <2> QED
    BY <1>10, <2>2 DEF Sweep, AtDirs, OnTheirEngine
<1>11. ASSUME NEW decl \in Declarations, EditConfig(decl)
       PROVE  AtDirs'
  BY <1>11 DEF EditConfig, AtDirs, OnTheirEngine, PoolOf
<1>12. ASSUME NEW k \in Reloads, BeginReload(k)
       PROVE  AtDirs'
  BY <1>12 DEF BeginReload, AtDirs, OnTheirEngine, PoolOf
<1>13. ASSUME NEW k \in Reloads, LoadConfig(k)
       PROVE  AtDirs'
  BY <1>13 DEF LoadConfig, AtDirs, OnTheirEngine, PoolOf
<1>14. ASSUME NEW k \in Reloads, ReloadFails(k)
       PROVE  AtDirs'
  BY <1>14 DEF ReloadFails, AtDirs, OnTheirEngine, PoolOf
<1>15. ASSUME NEW k \in Reloads, ApplyDiff(k)
       PROVE  AtDirs'
  <2>1. PICK P \in SUBSET Projects : Evict(P) /\ initing' = initing /\ created' = created
    BY <1>15 DEF ApplyDiff, Removed
  <2>2. ASSUME NEW q \in Projects
        PROVE  PoolOf(q)' \subseteq PoolOf(q) \ closed'
    BY <2>1, EvictedLeave
  <2>3. ASSUME NEW o \in Projects \ removed', NEW e \in PoolOf(o)'
        PROVE  dir'[e] = instance'[o] /\ instance'[o] # Nowhere
    <3>1. e \in PoolOf(o) /\ o \notin removed /\ o \notin Removed(reload[k].decl)
      BY <1>15, <2>2, <2>3 DEF ApplyDiff
    <3>2. dir[e] = instance[o] /\ instance[o] # Nowhere
      BY <3>1 DEF AtDirs, OnTheirEngine
    <3>3. reload[k].decl[o] = instance[o]
      BY <1>15, <3>1, <3>2 DEF ApplyDiff, Removed, Declared, Mutates
    <3> QED
      BY <1>15, <3>2, <3>3 DEF ApplyDiff
  <2> QED
    BY <2>3 DEF AtDirs
<1>16. CASE UNCHANGED vars
  BY <1>16 DEF vars, AtDirs, OnTheirEngine, PoolOf
<1> QED
  BY <1>1, <1>2, <1>3, <1>4, <1>5, <1>6, <1>7, <1>8, <1>9, <1>10, <1>11, <1>12, <1>13,
     <1>14, <1>15, <1>16 DEF Next

\* The calls stay on the engines of their projects.
LEMMA CallsKept ==
  ASSUME Inv, TypeOK', [Next]_vars
  PROVE  OnTheirEngine'
<1>a. TypeOK /\ CallShape /\ Open /\ AtDirs /\ OnTheirEngine /\ Counted /\ NoEngineLost
  BY DEF Inv
<1>b. ASSUME NEW p \in Projects
       PROVE  NoEngine \notin PoolOf(p)
  BY DEF PoolOf
<1> USE <1>a, <1>b
<1> USE DEF instanceVars, engineVars
<1>1. ASSUME NEW r \in Requests, NEW p \in Projects, CallCached(r, p)
      PROVE  OnTheirEngine'
  <2>1. ASSUME NEW o \in Projects, NEW c \in Running(o)'
        PROVE  \/ c \in Running(o) /\ req'[c] = req[c]
               \/ o = p /\ c = r /\ req'[c].engine = engines[p]
    BY <1>1, <2>1 DEF CallCached, Running, TypeOK
  <2> QED
    BY <1>1, <2>1 DEF CallCached, AtDirs, OnTheirEngine
<1>2. ASSUME NEW r \in Requests, NEW p \in Projects, CallJoins(r, p)
      PROVE  OnTheirEngine'
  <2>1. ASSUME NEW o \in Projects
        PROVE  Running(o)' \subseteq Running(o)
    BY <1>2 DEF CallJoins, Running, TypeOK, NoCall
  <2>2. ASSUME NEW o \in Projects, NEW c \in Running(o)'
        PROVE  req'[c] = req[c]
    BY <1>2, <2>2 DEF CallJoins, Running, TypeOK, NoCall
  <2> QED
    BY <1>2, <2>1, <2>2 DEF CallJoins, AtDirs, OnTheirEngine
<1>3. ASSUME NEW r \in Requests, NEW p \in Projects, CallInits(r, p)
      PROVE  OnTheirEngine'
  <2>1. ASSUME NEW o \in Projects
        PROVE  Running(o)' \subseteq Running(o)
    BY <1>3 DEF CallInits, Running, TypeOK, NoCall
  <2>2. ASSUME NEW o \in Projects, NEW c \in Running(o)'
        PROVE  req'[c] = req[c]
    BY <1>3, <2>2 DEF CallInits, Running, TypeOK, NoCall
  <2> QED
    BY <1>3, <2>1, <2>2 DEF CallInits, AtDirs, OnTheirEngine
<1>4. ASSUME NEW r \in Requests, Finish(r)
      PROVE  OnTheirEngine'
  <2>1. ASSUME NEW o \in Projects
        PROVE  Running(o)' \subseteq Running(o)
    BY <1>4 DEF Finish, Running, TypeOK, NoCall
  <2>2. ASSUME NEW o \in Projects, NEW c \in Running(o)'
        PROVE  req'[c] = req[c]
    BY <1>4, <2>2 DEF Finish, Running, TypeOK, NoCall
  <2> QED
    BY <1>4, <2>1, <2>2 DEF Finish, AtDirs, OnTheirEngine
<1>5. ASSUME NEW r \in Requests, Timeout(r)
      PROVE  OnTheirEngine'
  <2>1. ASSUME NEW o \in Projects
        PROVE  Running(o)' \subseteq Running(o)
    BY <1>5 DEF Timeout, Running, TypeOK, NoCall
  <2>2. ASSUME NEW o \in Projects, NEW c \in Running(o)'
        PROVE  req'[c] = req[c]
    BY <1>5, <2>2 DEF Timeout, Running, TypeOK, NoCall
  <2> QED
    BY <1>5, <2>1, <2>2 DEF Timeout, AtDirs, OnTheirEngine
<1>6. ASSUME NEW r \in Requests, Overrun(r)
      PROVE  OnTheirEngine'
  <2>1. ASSUME NEW o \in Projects
        PROVE  Running(o)' \subseteq Running(o)
    BY <1>6 DEF Overrun, Running, TypeOK, NoCall
  <2>2. ASSUME NEW o \in Projects, NEW c \in Running(o)'
        PROVE  req'[c] = req[c]
    BY <1>6, <2>2 DEF Overrun, Running, TypeOK, NoCall
  <2> QED
    BY <1>6, <2>1, <2>2 DEF Overrun, AtDirs, OnTheirEngine
<1>7. ASSUME NEW p \in Projects, InitSucceeds(p)
      PROVE  OnTheirEngine'
  <2>1. ASSUME NEW o \in Projects, NEW c \in Running(o)'
        PROVE  \/ c \in Running(o) /\ req'[c] = req[c]
               \/ o = p /\ req'[c].engine = initing[p]
    <3>1. c \in Requests /\ req'[c].pc = "running" /\ req'[c].project = o
      BY <2>1 DEF Running
    <3>2. CASE c \notin Waiting(p)
      BY <1>7, <3>1, <3>2 DEF InitSucceeds, Running
    <3>3. CASE c \in Waiting(p) /\ ~Declared(p)
      BY <1>7, <3>1, <3>3 DEF InitSucceeds, NoCall
    <3>4. CASE c \in Waiting(p) /\ Declared(p)
      <4>1. req'[c] = [req[c] EXCEPT !.pc = "running", !.engine = initing[p]]
        BY <1>7, <3>1, <3>4 DEF InitSucceeds
      <4>2. req[c] \in Calls /\ req[c].project = p
        BY <3>4 DEF Waiting, TypeOK
      <4>3. req'[c].engine = initing[p] /\ req'[c].project = p
        BY <4>1, <4>2 DEF Calls
      <4> QED
        BY <3>1, <4>3
    <3> QED
      BY <3>2, <3>3, <3>4
  <2>2. ASSUME NEW o \in Projects
        PROVE  engines'[o] = IF o = p THEN initing[p] ELSE engines[o]
    BY <1>7 DEF InitSucceeds, TypeOK
  <2>3. ASSUME NEW c \in Running(p), p \notin removed
        PROVE  FALSE
    <3>1. engines[p] = NoEngine
      BY <1>7 DEF InitSucceeds, NoEngineLost
    <3>2. req[c].engine = NoEngine
      BY <2>3, <3>1 DEF AtDirs, OnTheirEngine
    <3>3. req[c].engine \in Nat
      BY DEF CallShape, Running, Engines
    <3> QED
      BY <3>2, <3>3
  <2>4. removed' = removed
    BY <1>7 DEF InitSucceeds
  <2> QED
    BY <2>1, <2>2, <2>3, <2>4 DEF AtDirs, OnTheirEngine
<1>8. ASSUME NEW p \in Projects, InitFails(p)
      PROVE  OnTheirEngine'
  <2>1. ASSUME NEW o \in Projects, NEW c \in Running(o)'
        PROVE  c \in Running(o) /\ req'[c] = req[c]
    BY <1>8, <2>1 DEF InitFails, Running, Waiting, NoCall
  <2> QED
    BY <1>8, <2>1 DEF InitFails, AtDirs, OnTheirEngine
<1>9. ASSUME NEW p \in Projects, Age(p)
      PROVE  OnTheirEngine'
  BY <1>9 DEF Age, AtDirs, OnTheirEngine, Running
<1>10. CASE Sweep
  <2>1. ASSUME NEW o \in Projects \ removed, NEW c \in Running(o)
        PROVE  engines'[o] = engines[o]
    <3>1. IsFiniteSet(Running(o)) /\ refcount[o] = Cardinality(Running(o))
      BY Finite DEF Counted, CountedAt, Running
    <3>2. refcount[o] # 0
      BY <3>1, FS_EmptySet
    <3>3. ~Idle(o)
      BY <3>2 DEF Idle
    <3> QED
      BY <1>10, <3>3 DEF Sweep, Evict, TypeOK
  <2> QED
    BY <1>10, <2>1 DEF Sweep, AtDirs, OnTheirEngine, Running
<1>11. ASSUME NEW decl \in Declarations, EditConfig(decl)
       PROVE  OnTheirEngine'
  BY <1>11 DEF EditConfig, AtDirs, OnTheirEngine, Running
<1>12. ASSUME NEW k \in Reloads, BeginReload(k)
       PROVE  OnTheirEngine'
  BY <1>12 DEF BeginReload, AtDirs, OnTheirEngine, Running
<1>13. ASSUME NEW k \in Reloads, LoadConfig(k)
       PROVE  OnTheirEngine'
  BY <1>13 DEF LoadConfig, AtDirs, OnTheirEngine, Running
<1>14. ASSUME NEW k \in Reloads, ReloadFails(k)
       PROVE  OnTheirEngine'
  BY <1>14 DEF ReloadFails, AtDirs, OnTheirEngine, Running
<1>15. ASSUME NEW k \in Reloads, ApplyDiff(k)
       PROVE  OnTheirEngine'
  <2>1. ASSUME NEW o \in Projects \ removed', NEW c \in Running(o)'
        PROVE  o \notin removed /\ c \in Running(o) /\ engines'[o] = engines[o]
    BY <1>15, <2>1 DEF ApplyDiff, Evict, Running, TypeOK
  <2> QED
    BY <1>15, <2>1 DEF ApplyDiff, AtDirs, OnTheirEngine
<1>16. CASE UNCHANGED vars
  BY <1>16 DEF vars, AtDirs, OnTheirEngine, Running
<1> QED
  BY <1>1, <1>2, <1>3, <1>4, <1>5, <1>6, <1>7, <1>8, <1>9, <1>10, <1>11, <1>12, <1>13,
     <1>14, <1>15, <1>16 DEF Next

\* The reloads take turns.
LEMMA SerialKept ==
  ASSUME Inv, TypeOK', [Next]_vars
  PROVE  Serial'
<1> USE DEF Inv, TypeOK, Serial, Declarations, instanceVars, engineVars
<1>1. ASSUME NEW r \in Requests, NEW p \in Projects, CallCached(r, p)
      PROVE  Serial'
  BY <1>1 DEF CallCached, EndReload, NoReload, ReloadSteps
<1>2. ASSUME NEW r \in Requests, NEW p \in Projects, CallJoins(r, p)
      PROVE  Serial'
  BY <1>2 DEF CallJoins, EndReload, NoReload, ReloadSteps
<1>3. ASSUME NEW r \in Requests, NEW p \in Projects, CallInits(r, p)
      PROVE  Serial'
  BY <1>3 DEF CallInits, EndReload, NoReload, ReloadSteps
<1>4. ASSUME NEW r \in Requests, Finish(r)
      PROVE  Serial'
  BY <1>4 DEF Finish, EndReload, NoReload, ReloadSteps
<1>5. ASSUME NEW r \in Requests, Timeout(r)
      PROVE  Serial'
  BY <1>5 DEF Timeout, EndReload, NoReload, ReloadSteps
<1>6. ASSUME NEW r \in Requests, Overrun(r)
      PROVE  Serial'
  BY <1>6 DEF Overrun, EndReload, NoReload, ReloadSteps
<1>7. ASSUME NEW p \in Projects, InitSucceeds(p)
      PROVE  Serial'
  BY <1>7 DEF InitSucceeds, EndReload, NoReload, ReloadSteps
<1>8. ASSUME NEW p \in Projects, InitFails(p)
      PROVE  Serial'
  BY <1>8 DEF InitFails, EndReload, NoReload, ReloadSteps
<1>9. ASSUME NEW p \in Projects, Age(p)
      PROVE  Serial'
  BY <1>9 DEF Age, EndReload, NoReload, ReloadSteps
<1>10. CASE Sweep
  BY <1>10 DEF Sweep, EndReload, NoReload, ReloadSteps
<1>11. ASSUME NEW decl \in Declarations, EditConfig(decl)
       PROVE  Serial'
  BY <1>11 DEF EditConfig, EndReload, NoReload, ReloadSteps
<1>12. ASSUME NEW k \in Reloads, BeginReload(k)
       PROVE  Serial'
  BY <1>12 DEF BeginReload, EndReload, NoReload, ReloadSteps
<1>13. ASSUME NEW k \in Reloads, LoadConfig(k)
       PROVE  Serial'
  BY <1>13 DEF LoadConfig, EndReload, NoReload, ReloadSteps
<1>14. ASSUME NEW k \in Reloads, ReloadFails(k)
       PROVE  Serial'
  BY <1>14 DEF ReloadFails, EndReload, NoReload, ReloadSteps
<1>15. ASSUME NEW k \in Reloads, ApplyDiff(k)
       PROVE  Serial'
  BY <1>15 DEF ApplyDiff, EndReload, NoReload, ReloadSteps
<1>16. CASE UNCHANGED vars
  BY <1>16 DEF vars
<1> QED
  BY <1>1, <1>2, <1>3, <1>4, <1>5, <1>6, <1>7, <1>8, <1>9, <1>10, <1>11, <1>12, <1>13,
     <1>14, <1>15, <1>16 DEF Next

(* ---- The invariant ------------------------------------------------------- *)

LEMMA InitInv ==
  ASSUME Init
  PROVE  Inv
<1>1. ASSUME NEW p \in Projects
      PROVE  PoolOf(p) = {} /\ Running(p) = {}
  BY DEF Init, PoolOf, Running, NoCall
<1>2. TypeOK
  <2>1. Cardinality(Requests) \in Nat
    BY FS_CardinalityType
  <2>2. NoCall \in Calls
    BY DEF NoCall, Calls
  <2>3. NoReload \in [pc : ReloadSteps, decl : Declarations, edition : Nat]
    BY DEF NoReload, ReloadSteps, Declarations
  <2>4. refcount \in [Projects -> 0..Cardinality(Requests)]
    BY <2>1 DEF Init
  <2>5. /\ req \in [Requests -> Calls]
        /\ reload \in [Reloads -> [pc : ReloadSteps, decl : Declarations, edition : Nat]]
    BY <2>2, <2>3 DEF Init
  <2>6. /\ applied \in Nat /\ edition \in 0..MaxEdits /\ created \in 0..MaxEngines
        /\ instance \in Declarations /\ config \in Declarations
    BY DEF Init
  <2>7. /\ engines \in [Projects -> Engines \union {NoEngine}]
        /\ initing \in [Projects -> Engines \union {NoEngine}]
        /\ dir \in [Engines -> Dirs \union {Nowhere}]
    BY DEF Init
  <2>8. /\ recent \in SUBSET Projects /\ closed \in SUBSET Engines
        /\ slot \in BOOLEAN /\ removed \in SUBSET Projects
    BY DEF Init
  <2> QED
    BY <2>4, <2>5, <2>6, <2>7, <2>8 DEF TypeOK
<1>3. Counted /\ CallShape
  <2>1. ASSUME NEW p \in Projects
        PROVE  CountedAt(p)
    <3>1. Cardinality(Running(p)) = 0 /\ refcount[p] = 0
      BY <1>1, FS_EmptySet DEF Init
    <3> QED
      BY <3>1 DEF CountedAt
  <2> QED
    BY <2>1 DEF Init, Counted, CallShape, NoCall
<1>4. Open /\ Apart /\ NoEngineLost
  BY <1>1 DEF Init, Open, Apart, NoEngineLost
<1>5. AtDirs /\ OnTheirEngine /\ Serial
  BY <1>1 DEF Init, AtDirs, OnTheirEngine, Serial, NoReload
<1> QED
  BY <1>2, <1>3, <1>4, <1>5 DEF Inv

LEMMA NextInv ==
  ASSUME Inv, [Next]_vars
  PROVE  Inv'
<1>1. TypeOK' /\ Counted'
  BY CountedKept, Typed
<1>2. AtDirs' /\ OnTheirEngine'
  BY <1>1, DirsKept, CallsKept
<1> QED
  BY <1>1, <1>2, CallShaped, OpenKept, ApartKept, NoneLost, SerialKept DEF Inv

\* The invariant holds of every behaviour.
THEOREM InvHolds == Spec => []Inv
BY InitInv, NextInv, PTL DEF Spec, Safety

(* ---- What it says ------------------------------------------------------- *)

\* The pool's maps, counts and calls always have their types: in particular a
\* count is never more than the number of calls (EnginePool.refcount).
THEOREM TypeCorrect == Spec => []TypeOK
<1>1. Inv => TypeOK
  BY DEF Inv
<1> QED
  BY <1>1, InvHolds, PTL

\* An engine that was created is cached, being initialized or closed, and no
\* project has two: EnginePool.get and evict lose none.
THEOREM NoEngineLostHolds == Spec => []NoEngineLost
<1>1. Inv => NoEngineLost
  BY DEF Inv
<1> QED
  BY <1>1, InvHolds, PTL

\* acquire and release keep the count equal to the calls that run, for a
\* project no reload has removed.
THEOREM RefcountExactHolds == Spec => []RefcountExact
<1>1. Inv => RefcountExact
  BY DEF Inv, Counted, CountedAt, RefcountExact
<1> QED
  BY <1>1, InvHolds, PTL

\* Neither the sweeper nor a reload closes the engine a call is running on,
\* nor leaves it at a directory its project is no longer declared at, unless a
\* reload removed the project.
THEOREM RunningIsOpenHolds == Spec => []RunningIsOpen
<1>1. ASSUME Inv
      PROVE  RunningIsOpen
  <2>1. ASSUME NEW r \in Requests, req[r].pc = "running", req[r].project \notin removed
        PROVE  req[r].engine \notin closed /\ dir[req[r].engine] = instance[req[r].project]
    <3>1. PICK p \in Projects : p = req[r].project
      BY <1>1, <2>1 DEF Inv, CallShape
    <3>2. req[r].engine = engines[p] /\ engines[p] # NoEngine
      BY <1>1, <2>1, <3>1 DEF Inv, CallShape, AtDirs, OnTheirEngine, Running, Engines
    <3>3. engines[p] \in PoolOf(p)
      BY <3>2 DEF PoolOf
    <3> QED
      BY <1>1, <2>1, <3>1, <3>2, <3>3 DEF Inv, Open, AtDirs, OnTheirEngine
  <2> QED
    BY <2>1 DEF RunningIsOpen
<1> QED
  BY <1>1, InvHolds, PTL

\* applyDiff never goes back to an older instance file, whichever reloads
\* overlap: the slot makes them take turns.
THEOREM ConfigNeverRegressesHolds == Spec => ConfigNeverRegresses
<1>1. ASSUME Inv, [Next]_vars
      PROVE  [applied' >= applied]_vars
  <2>0. applied \in Nat
    BY <1>1 DEF Inv, TypeOK
  <2>1. ASSUME NEW k \in Reloads, ApplyDiff(k)
        PROVE  applied' >= applied
    <3>1. applied' = reload[k].edition /\ reload[k].pc = "loaded"
      BY <2>1 DEF ApplyDiff
    <3>2. applied <= reload[k].edition /\ reload[k].edition \in Nat
      BY <1>1, <3>1 DEF Inv, Serial, TypeOK
    <3> QED
      BY <2>0, <3>1, <3>2
  <2>2. ASSUME Next, \A k \in Reloads : ~ApplyDiff(k)
        PROVE  applied' = applied
    BY <2>2 DEF Next, CallCached, CallJoins, CallInits, Finish, Timeout, Overrun,
       InitSucceeds, InitFails, Age, Sweep, EditConfig, BeginReload, LoadConfig,
       ReloadFails, instanceVars
  <2> QED
    BY <1>1, <2>0, <2>1, <2>2
<1>2. Spec => [][applied' >= applied]_vars
  BY <1>1, InvHolds, PTL DEF Spec, Safety
<1> QED
  BY <1>2 DEF ConfigNeverRegresses
=============================================================================
