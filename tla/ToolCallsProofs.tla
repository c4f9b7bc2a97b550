--------------------------- MODULE ToolCallsProofs ---------------------------
(***************************************************************************)
(* Theorems about ToolCalls, for any finite set of calls, any sessions and *)
(* keys, and any limit. The inductive invariant ties the stages of the     *)
(* calls to the write lock, to the slots of their sessions, to the cache   *)
(* of keys, to the commit identity and to the state of the shutdown. After *)
(* them those about what a call rests on: WriteMutex, for any callers, and *)
(* Sessions, for any session ids, projects, tokens and declarable roles.   *)
(***************************************************************************)
EXTENDS ToolCalls, WriteMutex, Sessions, FiniteSetTheorems, SequenceTheorems, TLAPS

USE CallsAssumption, SessionsAssumption, NullsAssumption, ConcurrentAssumption

\* The stages of a write that has the lock.
Locked == {"writing", "notifying", "returning"}

InLine(c) == \E i \in DOMAIN line : line[i] = c

\* The owner of the lock is at one of them, or about to start; the calls in
\* line wait for it, each once, and only for an owner.
LockShape ==
  /\ \A c \in Calls : call[c].at \in Locked => owner = c
  /\ \A c \in Calls : owner = c => call[c].at \in Locked \union {"queued"} /\ ~InLine(c)
  /\ \A c \in Calls : At(c, "queued") => owner = c \/ InLine(c)
  /\ \A c \in Calls : InLine(c) => At(c, "queued")
  /\ \A i, j \in DOMAIN line : line[i] = line[j] => i = j
  /\ owner = NoCall => line = <<>>

\* What stage a call is at says what kind it is, and that it was not answered
\* before its engine was there.
CallShape ==
  \A c \in Calls :
    /\ Admitted(c) => call[c].session \in Sessions
    /\ call[c].at \in Locked \union {"queued"} => call[c].kind = "write"
    /\ At(c, "reading") => call[c].kind = "read"
    /\ call[c].at \in {"idle", "getting"} => c \notin answered

\* Each session's count, which is forgotten with the session.
Counted ==
  \A s \in Sessions : inFlight[s] = IF s \in gone THEN 0 ELSE Cardinality(Holding(s))

\* A keyed write that was done is remembered, or about to be; one that is
\* being done was not.
KeyShape ==
  /\ \A c \in Calls, k \in Keys :
       At(c, "writing") /\ call[c].key = k => k \notin cached /\ written[k] = 0
  /\ \A k \in Keys :
       \/ written[k] = 0
       \/ /\ written[k] = 1
          /\ \/ k \in cached
             \/ \E c \in Calls : At(c, "notifying") /\ call[c].key = k

\* An identity in the slot is the owner's.
IdentityShape == identity # NoSession => \E c \in Calls : call[c].at \in Locked

\* How far the server is, and the engine with it.
ShutdownShape ==
  /\ drain = "none" <=> state = "running"
  /\ drain \in {"closing", "exited"} => state = "exiting"
  /\ state = "exiting" /\ drain = "polling" => forced
  /\ engine = "closed" => drain \in {"closing", "exited"}
  /\ \A c \in Calls :
       call[c].at \in Locked \union {"queued"} => engine \in {"open", "closed"}

\* What the drain loop was left with, when it was not cut short.
LeftClean ==
  drain \in {"closing", "exited"} /\ ~timedOut /\ ~forced =>
    \A c \in Calls : call[c].kind = "write" /\ Admitted(c) => call[c].session \in gone

Inv ==
  /\ TypeOK /\ CallShape /\ LockShape /\ Counted
  /\ KeyShape /\ IdentityShape /\ AttributedToCaller
  /\ ShutdownShape /\ LeftClean

\* A step is one of these, or changes nothing.
LEMMA StepCases ==
  ASSUME [Next]_vars
  PROVE  \/ \E c \in Calls, s \in Sessions :
              \/ Refuse(c, s) \/ OverLimit(c, s)
              \/ \E k \in {"read", "write"}, key \in Keys \union {NoKey} : Admit(c, s, k, key)
         \/ \E c \in Calls :
              \/ Dispatch(c) \/ StartWrite(c) \/ FinishWrite(c) \/ Timeout(c)
              \/ EngineWrites(c) \/ Remember(c) \/ FinishRead(c)
         \/ EngineLoaded \/ EngineFails \/ LeaveDrainLoop \/ Exit \/ beginShutdown
         \/ \E k \in Keys : Forget(k)
         \/ \E s \in Sessions : CloseSession(s) \/ OpenStream(s) \/ CloseStream(s)
         \/ UNCHANGED vars
<1>1. CASE ServerStep
  BY <1>1, Zenon DEF ServerStep
<1>2. CASE OtherStep
  <2>1. CASE \E c \in Calls : Arrive(c)
    BY <2>1, Zenon DEF Arrive
  <2> QED
    BY <1>2, <2>1, Zenon DEF OtherStep
<1>3. CASE UNCHANGED vars
  BY <1>3, Zenon
<1> QED
  BY <1>1, <1>2, <1>3, Zenon DEF Next

\* Every step leaves records of calls behind.
LEMMA CallTyped ==
  ASSUME Inv, [Next]_vars
  PROVE  call' \in [Calls -> CallRecords]
<1>a. call \in [Calls -> CallRecords]
  BY DEF Inv, TypeOK
<1> USE <1>a
<1> USE DEF shutdownVars, sessionVars, lockVars, CallRecords, Stages, NoArgs, Finish,
     Goto, TurnAway
<1>1. ASSUME NEW c \in Calls, NEW s \in Sessions, Refuse(c, s)
      PROVE  call' \in [Calls -> CallRecords]
  BY <1>1 DEF Refuse
<1>2. ASSUME NEW c \in Calls, NEW s \in Sessions, OverLimit(c, s)
      PROVE  call' \in [Calls -> CallRecords]
  BY <1>2 DEF OverLimit
<1>3. ASSUME NEW c \in Calls, NEW s \in Sessions,
            NEW k \in {"read", "write"}, NEW key \in Keys \union {NoKey},
             Admit(c, s, k, key)
      PROVE  call' \in [Calls -> CallRecords]
  BY <1>3 DEF Admit
<1>4. ASSUME NEW c \in Calls, Dispatch(c)
      PROVE  call' \in [Calls -> CallRecords]
  BY <1>4 DEF Dispatch
<1>5. ASSUME NEW c \in Calls, StartWrite(c)
      PROVE  call' \in [Calls -> CallRecords]
  BY <1>5 DEF StartWrite
<1>6. ASSUME NEW c \in Calls, FinishWrite(c)
      PROVE  call' \in [Calls -> CallRecords]
  BY <1>6 DEF FinishWrite
<1>7. ASSUME NEW c \in Calls, Timeout(c)
      PROVE  call' \in [Calls -> CallRecords]
  BY <1>7 DEF Timeout
<1>8. CASE EngineLoaded
  BY <1>8 DEF EngineLoaded
<1>9. CASE EngineFails
  BY <1>9 DEF EngineFails
<1>10. CASE LeaveDrainLoop
  BY <1>10 DEF LeaveDrainLoop
<1>11. CASE Exit
  BY <1>11 DEF Exit
<1>12. ASSUME NEW c \in Calls, EngineWrites(c)
       PROVE  call' \in [Calls -> CallRecords]
  BY <1>12 DEF EngineWrites
<1>13. ASSUME NEW c \in Calls, Remember(c)
       PROVE  call' \in [Calls -> CallRecords]
  BY <1>13 DEF Remember
<1>14. ASSUME NEW c \in Calls, FinishRead(c)
       PROVE  call' \in [Calls -> CallRecords]
  BY <1>14 DEF FinishRead
<1>15. ASSUME NEW k \in Keys, Forget(k)
       PROVE  call' \in [Calls -> CallRecords]
  BY <1>15 DEF Forget
<1>16. ASSUME NEW s \in Sessions, CloseSession(s)
       PROVE  call' \in [Calls -> CallRecords]
  BY <1>16 DEF CloseSession
<1>17. ASSUME NEW s \in Sessions, OpenStream(s)
       PROVE  call' \in [Calls -> CallRecords]
  BY <1>17 DEF OpenStream
<1>18. ASSUME NEW s \in Sessions, CloseStream(s)
       PROVE  call' \in [Calls -> CallRecords]
  BY <1>18 DEF CloseStream
<1>19. CASE beginShutdown
  BY <1>19 DEF beginShutdown
<1>20. CASE UNCHANGED vars
  BY <1>20 DEF vars
<1> QED
  BY <1>1, <1>2, <1>3, <1>4, <1>5, <1>6, <1>7, <1>8, <1>9, <1>10, <1>11, <1>12, <1>13,
     <1>14, <1>15, <1>16, <1>17, <1>18, <1>19, <1>20, StepCases

\* What it is to move a call to another stage.
LEMMA Moved ==
  ASSUME call \in [Calls -> CallRecords], NEW c \in Calls, NEW stage, Goto(c, stage)
  PROVE  /\ call'[c].at = stage /\ call'[c].key = call[c].key
         /\ call'[c].session = call[c].session /\ call'[c].kind = call[c].kind
         /\ \A d \in Calls : d # c => call'[d] = call[d]
BY DEF Goto, CallRecords

\* The calls keep their shape.
LEMMA CallShaped ==
  ASSUME Inv, call' \in [Calls -> CallRecords], [Next]_vars
  PROVE  CallShape'
<1>a. TypeOK /\ CallShape
  BY DEF Inv
<1> USE <1>a
<1>b. call \in [Calls -> CallRecords]
  BY DEF TypeOK
<1> USE <1>b
<1> USE DEF shutdownVars, sessionVars, lockVars, CallShape, CallRecords, NoArgs, Finish,
     Goto, TurnAway, Answer, At, Admitted, Locked
<1>1. ASSUME NEW c \in Calls, NEW s \in Sessions, Refuse(c, s)
      PROVE  CallShape'
  BY <1>1 DEF Refuse
<1>2. ASSUME NEW c \in Calls, NEW s \in Sessions, OverLimit(c, s)
      PROVE  CallShape'
  BY <1>2 DEF OverLimit
<1>3. ASSUME NEW c \in Calls, NEW s \in Sessions,
            NEW k \in {"read", "write"}, NEW key \in Keys \union {NoKey},
             Admit(c, s, k, key)
      PROVE  CallShape'
  BY <1>3 DEF Admit
<1>4. ASSUME NEW c \in Calls, Dispatch(c)
      PROVE  CallShape'
  BY <1>4 DEF Dispatch
<1>5. ASSUME NEW c \in Calls, StartWrite(c)
      PROVE  CallShape'
  BY <1>5 DEF StartWrite
<1>6. ASSUME NEW c \in Calls, FinishWrite(c)
      PROVE  CallShape'
  BY <1>6 DEF FinishWrite
<1>7. ASSUME NEW c \in Calls, Timeout(c)
      PROVE  CallShape'
  BY <1>7 DEF Timeout
<1>8. CASE EngineLoaded
  BY <1>8 DEF EngineLoaded
<1>9. CASE EngineFails
  BY <1>9 DEF EngineFails
<1>10. CASE LeaveDrainLoop
  BY <1>10 DEF LeaveDrainLoop
<1>11. CASE Exit
  BY <1>11 DEF Exit
<1>12. ASSUME NEW c \in Calls, EngineWrites(c)
       PROVE  CallShape'
  BY <1>12 DEF EngineWrites
<1>13. ASSUME NEW c \in Calls, Remember(c)
       PROVE  CallShape'
  BY <1>13 DEF Remember
<1>14. ASSUME NEW c \in Calls, FinishRead(c)
       PROVE  CallShape'
  BY <1>14 DEF FinishRead
<1>15. ASSUME NEW k \in Keys, Forget(k)
       PROVE  CallShape'
  BY <1>15 DEF Forget
<1>16. ASSUME NEW s \in Sessions, CloseSession(s)
       PROVE  CallShape'
  BY <1>16 DEF CloseSession
<1>17. ASSUME NEW s \in Sessions, OpenStream(s)
       PROVE  CallShape'
  BY <1>17 DEF OpenStream
<1>18. ASSUME NEW s \in Sessions, CloseStream(s)
       PROVE  CallShape'
  BY <1>18 DEF CloseStream
<1>19. CASE beginShutdown
  BY <1>19 DEF beginShutdown
<1>20. CASE UNCHANGED vars
  BY <1>20 DEF vars
<1> HIDE DEF CallShape
<1> QED
  BY <1>1, <1>2, <1>3, <1>4, <1>5, <1>6, <1>7, <1>8, <1>9, <1>10, <1>11, <1>12, <1>13,
     <1>14, <1>15, <1>16, <1>17, <1>18, <1>19, <1>20, StepCases

\* The keys.
LEMMA KeyShaped ==
  ASSUME Inv, call' \in [Calls -> CallRecords], [Next]_vars
  PROVE  KeyShape'
<1>a. TypeOK /\ LockShape /\ KeyShape
  BY DEF Inv
<1> USE <1>a
<1>b. /\ call \in [Calls -> CallRecords] /\ written \in [Keys -> Nat]
      /\ \A c \in Calls : call[c].at \in Locked => owner = c
  BY DEF TypeOK, LockShape
<1> USE <1>b
<1> USE DEF shutdownVars, sessionVars, lockVars, KeyShape, NoArgs, Finish, Goto, TurnAway,
     Answer, At, Locked
<1>1. ASSUME NEW c \in Calls, NEW s \in Sessions, Refuse(c, s)
      PROVE  KeyShape'
  BY <1>1 DEF Refuse
<1>2. ASSUME NEW c \in Calls, NEW s \in Sessions, OverLimit(c, s)
      PROVE  KeyShape'
  BY <1>2 DEF OverLimit
<1>3. ASSUME NEW c \in Calls, NEW s \in Sessions,
            NEW k \in {"read", "write"}, NEW key \in Keys \union {NoKey},
             Admit(c, s, k, key)
      PROVE  KeyShape'
  BY <1>3 DEF Admit
<1>4. ASSUME NEW c \in Calls, Dispatch(c)
      PROVE  KeyShape'
  <2>1. PICK stage \in {"reading", "queued"} : Goto(c, stage)
    BY <1>4 DEF Dispatch
  <2>2. /\ call'[c].at = stage /\ call'[c].key = call[c].key
        /\ call'[c].session = call[c].session
        /\ \A d \in Calls : d # c => call'[d] = call[d]
    BY <2>1, Moved
  <2>3. cached' = cached /\ written' = written /\ At(c, "getting")
    BY <1>4 DEF Dispatch
  <2> HIDE DEF Goto
  <2> QED
    BY <2>2, <2>3
<1>5. ASSUME NEW c \in Calls, StartWrite(c)
      PROVE  KeyShape'
  <2>1. PICK stage \in {"returning", "writing"} :
          Goto(c, stage) /\ (stage = "writing" => call[c].key \notin cached)
    BY <1>5 DEF StartWrite
  <2>2. /\ call'[c].at = stage /\ call'[c].key = call[c].key
        /\ call'[c].session = call[c].session
        /\ \A d \in Calls : d # c => call'[d] = call[d]
    BY <2>1, Moved
  <2>3. \A d \in Calls : call[d].at \notin {"writing", "notifying", "returning"}
    BY <1>5 DEF StartWrite
  <2>4. cached' = cached /\ written' = written
    BY <1>5 DEF StartWrite
  <2> HIDE DEF Goto
  <2> QED
    BY <2>1, <2>2, <2>3, <2>4
<1>6. ASSUME NEW c \in Calls, FinishWrite(c)
      PROVE  KeyShape'
  BY <1>6 DEF FinishWrite
<1>7. ASSUME NEW c \in Calls, Timeout(c)
      PROVE  KeyShape'
  BY <1>7 DEF Timeout
<1>8. CASE EngineLoaded
  BY <1>8 DEF EngineLoaded
<1>9. CASE EngineFails
  BY <1>9 DEF EngineFails
<1>10. CASE LeaveDrainLoop
  BY <1>10 DEF LeaveDrainLoop
<1>11. CASE Exit
  BY <1>11 DEF Exit
<1>12. ASSUME NEW c \in Calls, EngineWrites(c)
       PROVE  KeyShape'
  <2>1. PICK stage \in {"returning", "notifying"} : Goto(c, stage)
    BY <1>12 DEF EngineWrites
  <2>2. /\ call'[c].at = stage /\ call'[c].key = call[c].key
        /\ call'[c].session = call[c].session
        /\ \A d \in Calls : d # c => call'[d] = call[d]
    BY <2>1, Moved
  <2>3. \A d \in Calls : call[d].at \in {"writing", "notifying", "returning"} => d = c
    BY <1>12 DEF EngineWrites
  <2>4. cached' = cached
    BY <1>12 DEF EngineWrites
  <2>5. ASSUME NEW k \in Keys
        PROVE  \/ written'[k] = written[k]
               \/ call[c].key = k /\ written'[k] = written[k] + 1 /\ stage = "notifying"
    <3>1. CASE written' = written
      BY <3>1
    <3>2. CASE Goto(c, "notifying") /\ call[c].key # NoKey
               /\ written' = [written EXCEPT ![call[c].key] = @ + 1]
      BY <2>2, <3>2, Moved
    <3> QED
      BY <1>12, <3>1, <3>2 DEF EngineWrites
  <2>6. \A k \in Keys : call[c].key = k => k \notin cached /\ written[k] = 0
    BY <1>12 DEF EngineWrites
  <2> HIDE DEF Goto
  <2> QED
    BY <2>1, <2>2, <2>3, <2>4, <2>5, <2>6
<1>13. ASSUME NEW c \in Calls, Remember(c)
       PROVE  KeyShape'
  BY <1>13 DEF Remember
<1>14. ASSUME NEW c \in Calls, FinishRead(c)
       PROVE  KeyShape'
  BY <1>14 DEF FinishRead
<1>15. ASSUME NEW k \in Keys, Forget(k)
       PROVE  KeyShape'
  BY <1>15 DEF Forget
<1>16. ASSUME NEW s \in Sessions, CloseSession(s)
       PROVE  KeyShape'
  BY <1>16 DEF CloseSession
<1>17. ASSUME NEW s \in Sessions, OpenStream(s)
       PROVE  KeyShape'
  BY <1>17 DEF OpenStream
<1>18. ASSUME NEW s \in Sessions, CloseStream(s)
       PROVE  KeyShape'
  BY <1>18 DEF CloseStream
<1>19. CASE beginShutdown
  BY <1>19 DEF beginShutdown
<1>20. CASE UNCHANGED vars
  BY <1>20 DEF vars
<1> HIDE DEF KeyShape
<1> QED
  BY <1>1, <1>2, <1>3, <1>4, <1>5, <1>6, <1>7, <1>8, <1>9, <1>10, <1>11, <1>12, <1>13,
     <1>14, <1>15, <1>16, <1>17, <1>18, <1>19, <1>20, StepCases

\* The slot is cleared with the lock.
LEMMA IdentityShaped ==
  ASSUME Inv, call' \in [Calls -> CallRecords], [Next]_vars
  PROVE  IdentityShape' /\ AttributedToCaller'
<1>a. TypeOK /\ LockShape /\ IdentityShape /\ AttributedToCaller
  BY DEF Inv
<1> USE <1>a
<1>b. call \in [Calls -> CallRecords] /\ \A c \in Calls : call[c].at \in Locked => owner = c
  BY DEF TypeOK, LockShape
<1> USE <1>b
<1> USE DEF shutdownVars, sessionVars, lockVars, IdentityShape, AttributedToCaller,
     NoArgs, Finish, Goto, TurnAway, Answer, At, Locked
<1>1. ASSUME NEW c \in Calls, NEW s \in Sessions, Refuse(c, s)
      PROVE  IdentityShape' /\ AttributedToCaller'
  BY <1>1 DEF Refuse
<1>2. ASSUME NEW c \in Calls, NEW s \in Sessions, OverLimit(c, s)
      PROVE  IdentityShape' /\ AttributedToCaller'
  BY <1>2 DEF OverLimit
<1>3. ASSUME NEW c \in Calls, NEW s \in Sessions,
            NEW k \in {"read", "write"}, NEW key \in Keys \union {NoKey},
             Admit(c, s, k, key)
      PROVE  IdentityShape' /\ AttributedToCaller'
  BY <1>3 DEF Admit
<1>4. ASSUME NEW c \in Calls, Dispatch(c)
      PROVE  IdentityShape' /\ AttributedToCaller'
  <2>1. PICK stage \in {"reading", "queued"} : Goto(c, stage)
    BY <1>4 DEF Dispatch
  <2>2. /\ call'[c].at = stage /\ call'[c].key = call[c].key
        /\ call'[c].session = call[c].session
        /\ \A d \in Calls : d # c => call'[d] = call[d]
    BY <2>1, Moved
  <2>3. identity' = identity /\ At(c, "getting")
    BY <1>4 DEF Dispatch
  <2> HIDE DEF Goto
  <2> QED
    BY <2>2, <2>3
<1>5. ASSUME NEW c \in Calls, StartWrite(c)
      PROVE  IdentityShape' /\ AttributedToCaller'
  <2>1. PICK stage \in {"returning", "writing"} :
          Goto(c, stage) /\ (stage = "writing" => call[c].key \notin cached)
    BY <1>5 DEF StartWrite
  <2>2. /\ call'[c].at = stage /\ call'[c].key = call[c].key
        /\ call'[c].session = call[c].session
        /\ \A d \in Calls : d # c => call'[d] = call[d]
    BY <2>1, Moved
  <2>3. \A d \in Calls : call[d].at \notin {"writing", "notifying", "returning"}
    BY <1>5 DEF StartWrite
  <2>4. identity = NoSession
    BY <2>3
  <2>5. identity' = IF call[c].session \in Authed THEN call[c].session ELSE NoSession
    BY <1>5, <2>4 DEF StartWrite
  <2> HIDE DEF Goto
  <2> QED
    BY <2>1, <2>2, <2>3, <2>5
<1>6. ASSUME NEW c \in Calls, FinishWrite(c)
      PROVE  IdentityShape' /\ AttributedToCaller'
  BY <1>6 DEF FinishWrite
<1>7. ASSUME NEW c \in Calls, Timeout(c)
      PROVE  IdentityShape' /\ AttributedToCaller'
  BY <1>7 DEF Timeout
<1>8. CASE EngineLoaded
  BY <1>8 DEF EngineLoaded
<1>9. CASE EngineFails
  BY <1>9 DEF EngineFails
<1>10. CASE LeaveDrainLoop
  BY <1>10 DEF LeaveDrainLoop
<1>11. CASE Exit
  BY <1>11 DEF Exit
<1>12. ASSUME NEW c \in Calls, EngineWrites(c)
       PROVE  IdentityShape' /\ AttributedToCaller'
  <2>1. PICK stage \in {"returning", "notifying"} : Goto(c, stage)
    BY <1>12 DEF EngineWrites
  <2>2. /\ call'[c].at = stage /\ call'[c].key = call[c].key
        /\ call'[c].session = call[c].session
        /\ \A d \in Calls : d # c => call'[d] = call[d]
    BY <2>1, Moved
  <2>3. \A d \in Calls : call[d].at \in {"writing", "notifying", "returning"} => d = c
    BY <1>12 DEF EngineWrites
  <2>4. identity' = identity
    BY <1>12 DEF EngineWrites
  <2> HIDE DEF Goto
  <2> QED
    BY <2>1, <2>2, <2>3, <2>4
<1>13. ASSUME NEW c \in Calls, Remember(c)
       PROVE  IdentityShape' /\ AttributedToCaller'
  BY <1>13 DEF Remember
<1>14. ASSUME NEW c \in Calls, FinishRead(c)
       PROVE  IdentityShape' /\ AttributedToCaller'
  BY <1>14 DEF FinishRead
<1>15. ASSUME NEW k \in Keys, Forget(k)
       PROVE  IdentityShape' /\ AttributedToCaller'
  BY <1>15 DEF Forget
<1>16. ASSUME NEW s \in Sessions, CloseSession(s)
       PROVE  IdentityShape' /\ AttributedToCaller'
  BY <1>16 DEF CloseSession
<1>17. ASSUME NEW s \in Sessions, OpenStream(s)
       PROVE  IdentityShape' /\ AttributedToCaller'
  BY <1>17 DEF OpenStream
<1>18. ASSUME NEW s \in Sessions, CloseStream(s)
       PROVE  IdentityShape' /\ AttributedToCaller'
  BY <1>18 DEF CloseStream
<1>19. CASE beginShutdown
  BY <1>19 DEF beginShutdown
<1>20. CASE UNCHANGED vars
  BY <1>20 DEF vars
<1> HIDE DEF IdentityShape, AttributedToCaller
<1> QED
  BY <1>1, <1>2, <1>3, <1>4, <1>5, <1>6, <1>7, <1>8, <1>9, <1>10, <1>11, <1>12, <1>13,
     <1>14, <1>15, <1>16, <1>17, <1>18, <1>19, <1>20, StepCases

\* The engine is closed last.
LEMMA ShutdownShaped ==
  ASSUME Inv, call' \in [Calls -> CallRecords], [Next]_vars
  PROVE  ShutdownShape'
<1>a. TypeOK /\ ShutdownShape
  BY DEF Inv
<1> USE <1>a
<1>b. call \in [Calls -> CallRecords]
  BY DEF TypeOK
<1> USE <1>b
<1> USE DEF shutdownVars, sessionVars, lockVars, ShutdownShape, NoArgs, Finish, Goto,
     TurnAway, Answer, At, Locked
<1>1. ASSUME NEW c \in Calls, NEW s \in Sessions, Refuse(c, s)
      PROVE  ShutdownShape'
  BY <1>1 DEF Refuse
<1>2. ASSUME NEW c \in Calls, NEW s \in Sessions, OverLimit(c, s)
      PROVE  ShutdownShape'
  BY <1>2 DEF OverLimit
<1>3. ASSUME NEW c \in Calls, NEW s \in Sessions,
            NEW k \in {"read", "write"}, NEW key \in Keys \union {NoKey},
             Admit(c, s, k, key)
      PROVE  ShutdownShape'
  BY <1>3 DEF Admit
<1>4. ASSUME NEW c \in Calls, Dispatch(c)
      PROVE  ShutdownShape'
  BY <1>4 DEF Dispatch
<1>5. ASSUME NEW c \in Calls, StartWrite(c)
      PROVE  ShutdownShape'
  BY <1>5 DEF StartWrite
<1>6. ASSUME NEW c \in Calls, FinishWrite(c)
      PROVE  ShutdownShape'
  BY <1>6 DEF FinishWrite
<1>7. ASSUME NEW c \in Calls, Timeout(c)
      PROVE  ShutdownShape'
  BY <1>7 DEF Timeout
<1>8. CASE EngineLoaded
  BY <1>8 DEF EngineLoaded
<1>9. CASE EngineFails
  BY <1>9 DEF EngineFails
<1>10. CASE LeaveDrainLoop
  BY <1>10 DEF LeaveDrainLoop
<1>11. CASE Exit
  BY <1>11 DEF Exit
<1>12. ASSUME NEW c \in Calls, EngineWrites(c)
       PROVE  ShutdownShape'
  BY <1>12 DEF EngineWrites
<1>13. ASSUME NEW c \in Calls, Remember(c)
       PROVE  ShutdownShape'
  BY <1>13 DEF Remember
<1>14. ASSUME NEW c \in Calls, FinishRead(c)
       PROVE  ShutdownShape'
  BY <1>14 DEF FinishRead
<1>15. ASSUME NEW k \in Keys, Forget(k)
       PROVE  ShutdownShape'
  BY <1>15 DEF Forget
<1>16. ASSUME NEW s \in Sessions, CloseSession(s)
       PROVE  ShutdownShape'
  BY <1>16 DEF CloseSession
<1>17. ASSUME NEW s \in Sessions, OpenStream(s)
       PROVE  ShutdownShape'
  BY <1>17 DEF OpenStream
<1>18. ASSUME NEW s \in Sessions, CloseStream(s)
       PROVE  ShutdownShape'
  BY <1>18 DEF CloseStream
<1>19. CASE beginShutdown
  BY <1>19 DEF beginShutdown
<1>20. CASE UNCHANGED vars
  BY <1>20 DEF vars
<1> HIDE DEF ShutdownShape
<1> QED
  BY <1>1, <1>2, <1>3, <1>4, <1>5, <1>6, <1>7, <1>8, <1>9, <1>10, <1>11, <1>12, <1>13,
     <1>14, <1>15, <1>16, <1>17, <1>18, <1>19, <1>20, StepCases

(* ---- The lock ------------------------------------------------------------ *)

\* The next in line leaves it.
LEMMA LineTail ==
  ASSUME line \in Seq(Calls), line # <<>>
  PROVE  /\ Head(line) = line[1] /\ Head(line) \in Calls /\ Tail(line) \in Seq(Calls)
         /\ Len(Tail(line)) = Len(line) - 1 /\ Len(line) \in Nat \ {0}
         /\ \A i \in 1..Len(line) - 1 : Tail(line)[i] = line[i + 1]
BY HeadTailProperties

\* The lock has an owner and a line of calls.
LEMMA LockTyped ==
  ASSUME Inv, [Next]_vars
  PROVE  owner' \in Calls \union {NoCall} /\ line' \in Seq(Calls)
<1>a. owner \in Calls \union {NoCall} /\ line \in Seq(Calls)
  BY DEF Inv, TypeOK
<1>b. line # <<>> => Head(line) \in Calls /\ Tail(line) \in Seq(Calls)
  BY <1>a, LineTail
<1> USE <1>a, <1>b
<1> USE DEF shutdownVars, sessionVars, lockVars
<1>1. ASSUME NEW c \in Calls, NEW s \in Sessions, Refuse(c, s)
      PROVE  owner' \in Calls \union {NoCall} /\ line' \in Seq(Calls)
  BY <1>1 DEF Refuse, WriteLock!Take, WriteLock!Queue, WriteLock!HandOver
<1>2. ASSUME NEW c \in Calls, NEW s \in Sessions, OverLimit(c, s)
      PROVE  owner' \in Calls \union {NoCall} /\ line' \in Seq(Calls)
  BY <1>2 DEF OverLimit, WriteLock!Take, WriteLock!Queue, WriteLock!HandOver
<1>3. ASSUME NEW c \in Calls, NEW s \in Sessions,
            NEW k \in {"read", "write"}, NEW key \in Keys \union {NoKey},
             Admit(c, s, k, key)
      PROVE  owner' \in Calls \union {NoCall} /\ line' \in Seq(Calls)
  BY <1>3 DEF Admit, WriteLock!Take, WriteLock!Queue, WriteLock!HandOver
<1>4. ASSUME NEW c \in Calls, Dispatch(c)
      PROVE  owner' \in Calls \union {NoCall} /\ line' \in Seq(Calls)
  BY <1>4 DEF Dispatch, WriteLock!Take, WriteLock!Queue, WriteLock!HandOver
<1>5. ASSUME NEW c \in Calls, StartWrite(c)
      PROVE  owner' \in Calls \union {NoCall} /\ line' \in Seq(Calls)
  BY <1>5 DEF StartWrite, WriteLock!Take, WriteLock!Queue, WriteLock!HandOver
<1>6. ASSUME NEW c \in Calls, FinishWrite(c)
      PROVE  owner' \in Calls \union {NoCall} /\ line' \in Seq(Calls)
  BY <1>6 DEF FinishWrite, WriteLock!Take, WriteLock!Queue, WriteLock!HandOver
<1>7. ASSUME NEW c \in Calls, Timeout(c)
      PROVE  owner' \in Calls \union {NoCall} /\ line' \in Seq(Calls)
  BY <1>7 DEF Timeout, WriteLock!Take, WriteLock!Queue, WriteLock!HandOver
<1>8. CASE EngineLoaded
  BY <1>8 DEF EngineLoaded, WriteLock!Take, WriteLock!Queue, WriteLock!HandOver
<1>9. CASE EngineFails
  BY <1>9 DEF EngineFails, WriteLock!Take, WriteLock!Queue, WriteLock!HandOver
<1>10. CASE LeaveDrainLoop
  BY <1>10 DEF LeaveDrainLoop, WriteLock!Take, WriteLock!Queue, WriteLock!HandOver
<1>11. CASE Exit
  BY <1>11 DEF Exit, WriteLock!Take, WriteLock!Queue, WriteLock!HandOver
<1>12. ASSUME NEW c \in Calls, EngineWrites(c)
       PROVE  owner' \in Calls \union {NoCall} /\ line' \in Seq(Calls)
  BY <1>12 DEF EngineWrites, WriteLock!Take, WriteLock!Queue, WriteLock!HandOver
<1>13. ASSUME NEW c \in Calls, Remember(c)
       PROVE  owner' \in Calls \union {NoCall} /\ line' \in Seq(Calls)
  BY <1>13 DEF Remember, WriteLock!Take, WriteLock!Queue, WriteLock!HandOver
<1>14. ASSUME NEW c \in Calls, FinishRead(c)
       PROVE  owner' \in Calls \union {NoCall} /\ line' \in Seq(Calls)
  BY <1>14 DEF FinishRead, WriteLock!Take, WriteLock!Queue, WriteLock!HandOver
<1>15. ASSUME NEW k \in Keys, Forget(k)
       PROVE  owner' \in Calls \union {NoCall} /\ line' \in Seq(Calls)
  BY <1>15 DEF Forget, WriteLock!Take, WriteLock!Queue, WriteLock!HandOver
<1>16. ASSUME NEW s \in Sessions, CloseSession(s)
       PROVE  owner' \in Calls \union {NoCall} /\ line' \in Seq(Calls)
  BY <1>16 DEF CloseSession, WriteLock!Take, WriteLock!Queue, WriteLock!HandOver
<1>17. ASSUME NEW s \in Sessions, OpenStream(s)
       PROVE  owner' \in Calls \union {NoCall} /\ line' \in Seq(Calls)
  BY <1>17 DEF OpenStream, WriteLock!Take, WriteLock!Queue, WriteLock!HandOver
<1>18. ASSUME NEW s \in Sessions, CloseStream(s)
       PROVE  owner' \in Calls \union {NoCall} /\ line' \in Seq(Calls)
  BY <1>18 DEF CloseStream, WriteLock!Take, WriteLock!Queue, WriteLock!HandOver
<1>19. CASE beginShutdown
  BY <1>19 DEF beginShutdown, WriteLock!Take, WriteLock!Queue, WriteLock!HandOver
<1>20. CASE UNCHANGED vars
  BY <1>20 DEF vars
<1> QED
  BY <1>1, <1>2, <1>3, <1>4, <1>5, <1>6, <1>7, <1>8, <1>9, <1>10, <1>11, <1>12, <1>13,
     <1>14, <1>15, <1>16, <1>17, <1>18, <1>19, <1>20, StepCases

\* Answering a call leaves counts within the limit.
LEMMA AnswerTyped ==
  ASSUME inFlight \in [Sessions -> 0..Concurrent], answered \in SUBSET Calls,
         NEW c \in Calls, Answer(c)
  PROVE  inFlight' \in [Sessions -> 0..Concurrent] /\ answered' \in SUBSET Calls
<1>1. ASSUME NEW n \in 0..Concurrent
      PROVE  Less(n, 1) \in 0..Concurrent
  BY DEF Less
<1>2. CASE c \in answered
  BY <1>2 DEF Answer
<1>3. CASE c \notin answered
  BY <1>1, <1>3 DEF Answer, release
<1> QED
  BY <1>2, <1>3

\* The types hold after every step.
LEMMA Typed ==
  ASSUME Inv, [Next]_vars
  PROVE  TypeOK'
<1>a. /\ TypeOK /\ call' \in [Calls -> CallRecords]
      /\ owner' \in Calls \union {NoCall} /\ line' \in Seq(Calls)
  BY CallTyped, LockTyped DEF Inv
<1> USE <1>a
<1> USE DEF TypeOK, shutdownVars, sessionVars, lockVars
<1>1. ASSUME NEW c \in Calls, NEW s \in Sessions, Refuse(c, s)
      PROVE  TypeOK'
  BY <1>1 DEF Refuse, TurnAway, Answer, release, Less, tryAcquireConcurrent,
     disposeSession
<1>2. ASSUME NEW c \in Calls, NEW s \in Sessions, OverLimit(c, s)
      PROVE  TypeOK'
  BY <1>2 DEF OverLimit, TurnAway, Answer, release, Less, tryAcquireConcurrent,
     disposeSession
<1>3. ASSUME NEW c \in Calls, NEW s \in Sessions,
            NEW k \in {"read", "write"}, NEW key \in Keys \union {NoKey},
             Admit(c, s, k, key)
      PROVE  TypeOK'
  BY <1>3 DEF Admit, TurnAway, Answer, release, Less, tryAcquireConcurrent,
     disposeSession
<1>4. ASSUME NEW c \in Calls, Dispatch(c)
      PROVE  TypeOK'
  BY <1>4 DEF Dispatch, TurnAway, Answer, release, Less, tryAcquireConcurrent,
     disposeSession
<1>5. ASSUME NEW c \in Calls, StartWrite(c)
      PROVE  TypeOK'
  BY <1>5 DEF StartWrite, TurnAway, Answer, release, Less, tryAcquireConcurrent,
     disposeSession
<1>6. ASSUME NEW c \in Calls, FinishWrite(c)
      PROVE  TypeOK'
  <2>1. inFlight' \in [Sessions -> 0..Concurrent] /\ answered' \in SUBSET Calls
    BY <1>6, AnswerTyped DEF FinishWrite
  <2> QED
    BY <1>6, <2>1 DEF FinishWrite
<1>7. ASSUME NEW c \in Calls, Timeout(c)
      PROVE  TypeOK'
  <2>1. inFlight' \in [Sessions -> 0..Concurrent] /\ answered' \in SUBSET Calls
    BY <1>7, AnswerTyped DEF Timeout
  <2> QED
    BY <1>7, <2>1 DEF Timeout
<1>8. CASE EngineLoaded
  BY <1>8 DEF EngineLoaded, TurnAway, Answer, release, Less, tryAcquireConcurrent,
     disposeSession
<1>9. CASE EngineFails
  <2>1. ASSUME NEW s \in Sessions
        PROVE  Cardinality({c \in {d \in Calls : At(d, "getting")} :
                              call[c].session = s}) \in Nat
    <3>1. {c \in {d \in Calls : At(d, "getting")} : call[c].session = s} \in SUBSET Calls
      OBVIOUS
    <3> QED
      BY <3>1, FS_Subset, FS_CardinalityType
  <2>2. inFlight' \in [Sessions -> 0..Concurrent]
    BY <1>9, <2>1 DEF EngineFails, Less
  <2>3. answered' \in SUBSET Calls
    BY <1>9 DEF EngineFails
  <2> QED
    BY <1>9, <2>2, <2>3 DEF EngineFails
<1>10. CASE LeaveDrainLoop
  BY <1>10 DEF LeaveDrainLoop, TurnAway, Answer, release, Less, tryAcquireConcurrent,
     disposeSession
<1>11. CASE Exit
  BY <1>11 DEF Exit, TurnAway, Answer, release, Less, tryAcquireConcurrent,
     disposeSession
<1>12. ASSUME NEW c \in Calls, EngineWrites(c)
       PROVE  TypeOK'
  BY <1>12 DEF EngineWrites, TurnAway, Answer, release, Less, tryAcquireConcurrent,
     disposeSession
<1>13. ASSUME NEW c \in Calls, Remember(c)
       PROVE  TypeOK'
  <2>1. call[c].key \in Keys \union {NoKey}
    BY DEF CallRecords
  <2> QED
    BY <1>13, <2>1 DEF Remember
<1>14. ASSUME NEW c \in Calls, FinishRead(c)
       PROVE  TypeOK'
  <2>1. inFlight' \in [Sessions -> 0..Concurrent] /\ answered' \in SUBSET Calls
    BY <1>14, AnswerTyped DEF FinishRead
  <2> QED
    BY <1>14, <2>1 DEF FinishRead
<1>15. ASSUME NEW k \in Keys, Forget(k)
       PROVE  TypeOK'
  BY <1>15 DEF Forget, TurnAway, Answer, release, Less, tryAcquireConcurrent,
     disposeSession
<1>16. ASSUME NEW s \in Sessions, CloseSession(s)
       PROVE  TypeOK'
  BY <1>16 DEF CloseSession, TurnAway, Answer, release, Less, tryAcquireConcurrent,
     disposeSession
<1>17. ASSUME NEW s \in Sessions, OpenStream(s)
       PROVE  TypeOK'
  BY <1>17 DEF OpenStream, TurnAway, Answer, release, Less, tryAcquireConcurrent,
     disposeSession
<1>18. ASSUME NEW s \in Sessions, CloseStream(s)
       PROVE  TypeOK'
  BY <1>18 DEF CloseStream, TurnAway, Answer, release, Less, tryAcquireConcurrent,
     disposeSession
<1>19. CASE beginShutdown
  BY <1>19 DEF beginShutdown, TurnAway, Answer, release, Less, tryAcquireConcurrent,
     disposeSession
<1>20. CASE UNCHANGED vars
  BY <1>20 DEF vars
<1> HIDE DEF TypeOK
<1> QED
  BY <1>1, <1>2, <1>3, <1>4, <1>5, <1>6, <1>7, <1>8, <1>9, <1>10, <1>11, <1>12, <1>13,
     <1>14, <1>15, <1>16, <1>17, <1>18, <1>19, <1>20, StepCases

\* The lock is handed from call to call.
LEMMA LockShaped ==
  ASSUME Inv, TypeOK', [Next]_vars
  PROVE  LockShape'
<1>a. LockShape
  BY DEF Inv
<1>b. /\ call \in [Calls -> CallRecords]
      /\ line \in Seq(Calls) /\ owner \in Calls \union {NoCall}
  BY DEF Inv, TypeOK
<1> USE <1>a, <1>b
<1> USE DEF shutdownVars, sessionVars, lockVars, LockShape, NoArgs, Finish, Goto,
     TurnAway, Answer, At, Locked, InLine
<1>1. ASSUME NEW c \in Calls, NEW s \in Sessions, Refuse(c, s)
      PROVE  LockShape'
  BY <1>1 DEF Refuse
<1>2. ASSUME NEW c \in Calls, NEW s \in Sessions, OverLimit(c, s)
      PROVE  LockShape'
  BY <1>2 DEF OverLimit
<1>3. ASSUME NEW c \in Calls, NEW s \in Sessions,
            NEW k \in {"read", "write"}, NEW key \in Keys \union {NoKey},
             Admit(c, s, k, key)
      PROVE  LockShape'
  BY <1>3 DEF Admit
<1>4. ASSUME NEW c \in Calls, Dispatch(c)
      PROVE  LockShape'
  <2>1. /\ At(c, "getting") /\ c # owner
        /\ \A i \in DOMAIN line : line[i] # c
    BY <1>4 DEF Dispatch
  <2>2. CASE Goto(c, "reading") /\ owner' = owner /\ line' = line
    <3>1. call'[c].at = "reading" /\ \A d \in Calls : d # c => call'[d] = call[d]
      BY <2>2, Moved
    <3> HIDE DEF Goto
    <3> QED
      BY <2>1, <2>2, <3>1
  <2>3. CASE Goto(c, "queued") /\ (WriteLock!Take(c) \/ WriteLock!Queue(c))
    <3>1. call'[c].at = "queued" /\ \A d \in Calls : d # c => call'[d] = call[d]
      BY <2>3, Moved
    <3> HIDE DEF Goto
    <3>2. CASE owner = NoCall /\ line = <<>> /\ owner' = c /\ line' = line
      BY <2>1, <3>1, <3>2
    <3>3. CASE owner # NoCall /\ owner' = owner /\ line' = Append(line, c)
      <4>1. /\ DOMAIN line = 1..Len(line) /\ Len(line) \in Nat
            /\ DOMAIN line' = 1..Len(line) + 1 /\ line'[Len(line) + 1] = c
            /\ \A i \in 1..Len(line) : line'[i] = line[i]
        BY <3>3
      <4>2. \A d \in Calls : InLine(d)' <=> InLine(d) \/ d = c
        BY <4>1
      <4>3. ASSUME NEW i \in DOMAIN line', NEW j \in DOMAIN line', line'[i] = line'[j]
            PROVE  i = j
        <5>1. ASSUME NEW k \in DOMAIN line', k # Len(line) + 1
              PROVE  k \in DOMAIN line /\ line'[k] = line[k] /\ line'[k] # c
          BY <2>1, <4>1, <5>1
        <5>2. \A k, l \in DOMAIN line : line[k] = line[l] => k = l
          OBVIOUS
        <5> QED
          BY <4>1, <4>3, <5>1, <5>2
      <4>4. ~InLine(c) /\ owner' # c
        BY <2>1, <3>3
      <4> HIDE DEF InLine
      <4> QED
        BY <2>1, <3>1, <3>3, <4>2, <4>3, <4>4
    <3> QED
      BY <2>3, <3>2, <3>3 DEF WriteLock!Take, WriteLock!Queue
  <2> QED
    BY <1>4, <2>2, <2>3 DEF Dispatch
<1>5. ASSUME NEW c \in Calls, StartWrite(c)
      PROVE  LockShape'
  <2>1. PICK stage \in {"returning", "writing"} : Goto(c, stage)
    BY <1>5 DEF StartWrite
  <2>2. /\ call'[c].at = stage
        /\ \A d \in Calls : d # c => call'[d] = call[d]
    BY <2>1, Moved
  <2>3. owner = c /\ owner' = owner /\ line' = line
    BY <1>5 DEF StartWrite
  <2> HIDE DEF Goto
  <2> QED
    BY <2>2, <2>3
<1>6. ASSUME NEW c \in Calls, FinishWrite(c)
      PROVE  LockShape'
  <2>1. /\ owner = c /\ At(c, "returning") /\ \A i \in DOMAIN line : line[i] # c
        /\ call'[c].at = "done" /\ \A d \in Calls : d # c => call'[d] = call[d]
    BY <1>6 DEF FinishWrite
  <2>2. CASE line = <<>> /\ owner' = NoCall /\ line' = line
    BY <2>1, <2>2
  <2>3. CASE line # <<>> /\ owner' = Head(line) /\ line' = Tail(line)
    <3>1. /\ owner' = line[1] /\ owner' \in Calls /\ Len(line) \in Nat \ {0}
          /\ DOMAIN line = 1..Len(line) /\ DOMAIN line' = 1..Len(line) - 1
          /\ \A i \in 1..Len(line) - 1 : line'[i] = line[i + 1]
      BY <2>3, LineTail
    <3>2. ASSUME NEW d \in Calls, InLine(d)'
          PROVE  InLine(d) /\ d # owner'
      <4>1. PICK i \in 1..Len(line) - 1 : line'[i] = d
        BY <3>1, <3>2
      <4>2. i + 1 \in 1..Len(line) /\ 1 \in 1..Len(line) /\ i + 1 # 1 /\ line[i + 1] = d
        BY <3>1, <4>1
      <4> QED
        BY <3>1, <4>2
    <3>3. ASSUME NEW d \in Calls, InLine(d), d # owner'
          PROVE  InLine(d)'
      <4>1. PICK i \in 1..Len(line) : line[i] = d
        BY <3>1, <3>3
      <4>2. i # 1 /\ i \in Nat
        BY <3>1, <3>3, <4>1
      <4>3. i - 1 \in 1..Len(line) - 1 /\ (i - 1) + 1 = i
        BY <3>1, <4>1, <4>2
      <4>4. i - 1 \in DOMAIN line' /\ line'[i - 1] = d
        BY <3>1, <4>1, <4>3
      <4> QED
        BY <4>4
    <3>4. ASSUME NEW i \in DOMAIN line', NEW j \in DOMAIN line', line'[i] = line'[j]
          PROVE  i = j
      <4>1. i \in 1..Len(line) - 1 /\ j \in 1..Len(line) - 1
        BY <3>1, Zenon
      <4>2. /\ line[i + 1] = line[j + 1]
            /\ i + 1 \in DOMAIN line /\ j + 1 \in DOMAIN line
            /\ i \in Int /\ j \in Int
        BY <3>1, <3>4, <4>1
      <4>3. i + 1 = j + 1
        BY <4>2, Zenon DEF LockShape
      <4> QED
        BY <4>2, <4>3
    <3>5. InLine(owner') /\ owner' # c /\ call[owner'].at = "queued"
      BY <2>1, <3>1
    <3> HIDE DEF InLine
    <3>6. owner' # NoCall /\ InLine(owner')
      BY <3>1, <3>5
    <3>7. /\ \A d \in Calls : call'[d].at \in Locked => owner' = d
          /\ \A d \in Calls : owner' = d => call'[d].at \in Locked \union {"queued"} /\ ~InLine(d)'
      BY <2>1, <3>1, <3>2, <3>5
    <3>8. /\ \A d \in Calls : At(d, "queued")' => owner' = d \/ InLine(d)'
          /\ \A d \in Calls : InLine(d)' => At(d, "queued")'
      BY <2>1, <3>2, <3>3, <3>5
    <3> QED
      BY <3>4, <3>6, <3>7, <3>8
  <2> QED
    BY <1>6, <2>2, <2>3 DEF FinishWrite, WriteLock!HandOver
<1>7. ASSUME NEW c \in Calls, Timeout(c)
      PROVE  LockShape'
  BY <1>7 DEF Timeout
<1>8. CASE EngineLoaded
  BY <1>8 DEF EngineLoaded
<1>9. CASE EngineFails
  BY <1>9 DEF EngineFails
<1>10. CASE LeaveDrainLoop
  BY <1>10 DEF LeaveDrainLoop
<1>11. CASE Exit
  BY <1>11 DEF Exit
<1>12. ASSUME NEW c \in Calls, EngineWrites(c)
       PROVE  LockShape'
  <2>1. PICK stage \in {"returning", "notifying"} : Goto(c, stage)
    BY <1>12 DEF EngineWrites
  <2>2. /\ call'[c].at = stage
        /\ \A d \in Calls : d # c => call'[d] = call[d]
    BY <2>1, Moved
  <2>3. At(c, "writing") /\ owner' = owner /\ line' = line
    BY <1>12 DEF EngineWrites
  <2> HIDE DEF Goto
  <2> QED
    BY <2>2, <2>3
<1>13. ASSUME NEW c \in Calls, Remember(c)
       PROVE  LockShape'
  BY <1>13 DEF Remember
<1>14. ASSUME NEW c \in Calls, FinishRead(c)
       PROVE  LockShape'
  BY <1>14 DEF FinishRead
<1>15. ASSUME NEW k \in Keys, Forget(k)
       PROVE  LockShape'
  BY <1>15 DEF Forget
<1>16. ASSUME NEW s \in Sessions, CloseSession(s)
       PROVE  LockShape'
  BY <1>16 DEF CloseSession
<1>17. ASSUME NEW s \in Sessions, OpenStream(s)
       PROVE  LockShape'
  BY <1>17 DEF OpenStream
<1>18. ASSUME NEW s \in Sessions, CloseStream(s)
       PROVE  LockShape'
  BY <1>18 DEF CloseStream
<1>19. CASE beginShutdown
  BY <1>19 DEF beginShutdown
<1>20. CASE UNCHANGED vars
  BY <1>20 DEF vars
<1> HIDE DEF LockShape
<1> QED
  BY <1>1, <1>2, <1>3, <1>4, <1>5, <1>6, <1>7, <1>8, <1>9, <1>10, <1>11, <1>12, <1>13,
     <1>14, <1>15, <1>16, <1>17, <1>18, <1>19, <1>20, StepCases

(* ---- The slots ------------------------------------------------------------ *)

\* The calls that hold a session's slots are finitely many.
LEMMA Finite ==
  ASSUME NEW S \in SUBSET Calls
  PROVE  IsFiniteSet(S) /\ Cardinality(S) \in Nat
BY FS_Subset, FS_CardinalityType

\* What the count of a session is.
CountedAt(s) == inFlight[s] = IF s \in gone THEN 0 ELSE Cardinality(Holding(s))

LEMMA CountedEach == Counted <=> \A s \in Sessions : CountedAt(s)
BY DEF Counted, CountedAt

\* Nothing about the slots changes.
LEMMA SameSlots ==
  ASSUME Counted, gone' = gone, inFlight' = inFlight,
         \A s \in Sessions : Holding(s)' = Holding(s)
  PROVE  Counted'
BY DEF Counted

\* A call is answered: the slot is given back, if it was not before.
LEMMA AnswerCounted ==
  ASSUME TypeOK, Counted, NEW c \in Calls, Answer(c), gone' = gone,
         Admitted(c), call[c].session \in Sessions,
         \A d \in Calls : call'[d] = call[d] \/ d = c
  PROVE  Counted'
<1>1. /\ inFlight \in [Sessions -> 0..Concurrent] /\ answered' = answered \union {c}
  BY DEF TypeOK, Answer
<1>2. ASSUME NEW s \in Sessions
      PROVE  CountedAt(s)'
  <2>1. /\ CountedAt(s) /\ inFlight[s] \in Nat
    BY <1>1, CountedEach
  <2>2. Holding(s)' = Holding(s) \ {c} /\ Holding(s) \in SUBSET Calls
    BY <1>1 DEF Holding, Admitted
  <2>3. Cardinality(Holding(s)) \in Nat /\ Cardinality(Holding(s) \ {c}) \in Nat
    BY <2>2, Finite
  <2>4. CASE s = call[c].session /\ c \notin answered
    <3>1. c \in Holding(s)
      BY <2>4 DEF Holding
    <3>2. Cardinality(Holding(s)') = Cardinality(Holding(s)) - 1
      BY <2>2, <3>1, Finite, FS_RemoveElement
    <3>3. inFlight'[s] = Less(inFlight[s], 1)
      BY <1>1, <2>4 DEF Answer, release
    <3> HIDE DEF Holding, Admitted
    <3> QED
      BY <2>1, <2>2, <2>3, <3>2, <3>3 DEF CountedAt, Less
  <2>5. CASE s # call[c].session \/ c \in answered
    <3>1. Holding(s)' = Holding(s)
      BY <2>2, <2>5 DEF Holding
    <3>2. inFlight'[s] = inFlight[s]
      BY <1>1, <2>5 DEF Answer, release
    <3> QED
      BY <2>1, <3>1, <3>2 DEF CountedAt
  <2> QED
    BY <2>4, <2>5
<1> QED
  BY <1>2 DEF Counted, CountedAt

\* Slots are taken and given back one by one, and forgotten with their session.
LEMMA CountedKept ==
  ASSUME Inv, [Next]_vars
  PROVE  Counted'
<1>a. TypeOK /\ CallShape /\ Counted
  BY DEF Inv
<1>b. call \in [Calls -> CallRecords] /\ inFlight \in [Sessions -> 0..Concurrent]
  BY DEF Inv, TypeOK
<1> USE <1>a, <1>b
<1> USE DEF shutdownVars, sessionVars, lockVars
<1>1. ASSUME NEW c \in Calls, NEW s \in Sessions, Refuse(c, s)
      PROVE  Counted'
  <2>1. ASSUME NEW t \in Sessions
        PROVE  Holding(t)' = Holding(t)
    BY <1>1 DEF Refuse, Holding, Admitted, Finish, TurnAway, NoArgs, At
  <2>2. gone' = gone /\ inFlight' = inFlight
    BY <1>1 DEF Refuse
  <2> QED
    BY <2>1, <2>2, SameSlots
<1>2. ASSUME NEW c \in Calls, NEW s \in Sessions, OverLimit(c, s)
      PROVE  Counted'
  <2>1. ASSUME NEW t \in Sessions
        PROVE  Holding(t)' = Holding(t)
    BY <1>2 DEF OverLimit, Holding, Admitted, Finish, TurnAway, NoArgs, At
  <2>2. gone' = gone /\ inFlight' = inFlight
    BY <1>2 DEF OverLimit
  <2> QED
    BY <2>1, <2>2, SameSlots
<1>3. ASSUME NEW c \in Calls, NEW s \in Sessions,
            NEW k \in {"read", "write"}, NEW key \in Keys \union {NoKey},
             Admit(c, s, k, key)
      PROVE  Counted'
  <2>1. /\ At(c, "idle") /\ c \notin answered /\ s \notin gone
        /\ gone' = gone /\ answered' = answered
        /\ inFlight' = [inFlight EXCEPT ![s] = @ + 1]
    BY <1>3 DEF Admit, tryAcquireConcurrent, CallShape, At
  <2>2. /\ call'[c].session = s /\ call'[c].at = "getting"
        /\ \A d \in Calls : d # c => call'[d] = call[d]
    BY <1>3 DEF Admit
  <2>3. ASSUME NEW t \in Sessions
        PROVE  CountedAt(t)'
    <3>1. CountedAt(t) /\ Holding(t) \in SUBSET Calls /\ c \notin Holding(t)
      BY <2>1, CountedEach DEF Holding, Admitted, At
    <3>2. Holding(t)' = IF t = s THEN Holding(t) \union {c} ELSE Holding(t)
      BY <2>1, <2>2 DEF Holding, Admitted, At
    <3>3. Cardinality(Holding(t) \union {c}) = Cardinality(Holding(t)) + 1
      BY <3>1, Finite, FS_AddElement
    <3>4. inFlight'[t] = IF t = s THEN inFlight[t] + 1 ELSE inFlight[t]
      BY <2>1
    <3> QED
      BY <2>1, <3>1, <3>2, <3>3, <3>4 DEF CountedAt
  <2> QED
    BY <2>3 DEF Counted, CountedAt
<1>4. ASSUME NEW c \in Calls, Dispatch(c)
      PROVE  Counted'
  <2>1. ASSUME NEW t \in Sessions
        PROVE  Holding(t)' = Holding(t)
    <3>1. PICK stage \in {"reading", "queued"} : Goto(c, stage)
      BY <1>4 DEF Dispatch
    <3>2. /\ call'[c].at = stage /\ call'[c].session = call[c].session
          /\ \A d \in Calls : d # c => call'[d] = call[d]
      BY <3>1, Moved
    <3>3. call[c].at \notin {"idle", "done"} /\ answered' = answered
      BY <1>4 DEF Dispatch, At
    <3> QED
      BY <3>1, <3>2, <3>3 DEF Holding, Admitted
  <2>2. gone' = gone /\ inFlight' = inFlight
    BY <1>4 DEF Dispatch
  <2> QED
    BY <2>1, <2>2, SameSlots
<1>5. ASSUME NEW c \in Calls, StartWrite(c)
      PROVE  Counted'
  <2>1. ASSUME NEW t \in Sessions
        PROVE  Holding(t)' = Holding(t)
    <3>1. PICK stage \in {"returning", "writing"} : Goto(c, stage)
      BY <1>5 DEF StartWrite
    <3>2. /\ call'[c].at = stage /\ call'[c].session = call[c].session
          /\ \A d \in Calls : d # c => call'[d] = call[d]
      BY <3>1, Moved
    <3>3. call[c].at \notin {"idle", "done"} /\ answered' = answered
      BY <1>5 DEF StartWrite, At
    <3> QED
      BY <3>1, <3>2, <3>3 DEF Holding, Admitted
  <2>2. gone' = gone /\ inFlight' = inFlight
    BY <1>5 DEF StartWrite
  <2> QED
    BY <2>1, <2>2, SameSlots
<1>6. ASSUME NEW c \in Calls, FinishWrite(c)
      PROVE  Counted'
  <2>1. Admitted(c) /\ call[c].session \in Sessions
    BY <1>6 DEF FinishWrite, At, Admitted, CallShape
  <2>2. gone' = gone /\ Answer(c) /\ \A d \in Calls : call'[d] = call[d] \/ d = c
    BY <1>6 DEF FinishWrite, Finish
  <2> QED
    BY <2>1, <2>2, AnswerCounted
<1>7. ASSUME NEW c \in Calls, Timeout(c)
      PROVE  Counted'
  <2>1. Admitted(c) /\ call[c].session \in Sessions
    BY <1>7 DEF Timeout, At, Admitted, CallShape
  <2>2. gone' = gone /\ Answer(c) /\ \A d \in Calls : call'[d] = call[d] \/ d = c
    BY <1>7 DEF Timeout, Finish
  <2> QED
    BY <2>1, <2>2, AnswerCounted
<1>8. CASE EngineLoaded
  <2>1. ASSUME NEW t \in Sessions
        PROVE  Holding(t)' = Holding(t)
    BY <1>8 DEF EngineLoaded, Holding, Admitted, Finish, TurnAway, NoArgs, At
  <2>2. gone' = gone /\ inFlight' = inFlight
    BY <1>8 DEF EngineLoaded
  <2> QED
    BY <2>1, <2>2, SameSlots
<1>9. CASE EngineFails
  <2>1. PICK Sharing : Sharing = {c \in Calls : At(c, "getting")}
    OBVIOUS
  <2>2. /\ call' = [c \in Calls |-> IF c \in Sharing THEN NoArgs("done") ELSE call[c]]
        /\ answered' = answered \union Sharing /\ gone' = gone
        /\ inFlight' = [s \in Sessions |->
             Less(inFlight[s], Cardinality({c \in Sharing : call[c].session = s}))]
    BY <1>9, <2>1 DEF EngineFails
  <2>3. \A c \in Sharing : c \in Calls /\ c \notin answered /\ Admitted(c)
    BY <2>1 DEF CallShape, At, Admitted
  <2>4. ASSUME NEW t \in Sessions
        PROVE  CountedAt(t)'
    <3>1. PICK W : W = {c \in Sharing : call[c].session = t}
      OBVIOUS
    <3>2. /\ Holding(t) \in SUBSET Calls /\ W \subseteq Holding(t)
          /\ Holding(t)' = Holding(t) \ W
      BY <2>2, <2>3, <3>1 DEF Holding, Admitted, NoArgs
    <3>3. PICK H \in SUBSET Calls : H = Holding(t)
      BY <3>2
    <3>4. /\ Cardinality(H) = Cardinality(H \ W) + Cardinality(W)
          /\ Cardinality(H \ W) \in Nat /\ Cardinality(W) \in Nat
      <4>1. H \ W \in SUBSET Calls /\ W \in SUBSET Calls /\ (H \ W) \union W = H
        BY <3>2, <3>3
      <4>2. (H \ W) \intersect W = {}
        OBVIOUS
      <4>3. Cardinality(H) =
              Cardinality(H \ W) + Cardinality(W) - Cardinality((H \ W) \intersect W)
        BY <4>1, Finite, FS_Union
      <4>4. Cardinality((H \ W) \intersect W) = 0
        BY <4>2, FS_EmptySet
      <4> QED
        BY <4>1, <4>3, <4>4, Finite
    <3>5. inFlight'[t] = Less(inFlight[t], Cardinality(W)) /\ CountedAt(t)
      BY <2>2, <3>1, CountedEach
    <3>6. inFlight'[t] = IF t \in gone THEN 0 ELSE Cardinality(H \ W)
      BY <3>3, <3>4, <3>5 DEF CountedAt, Less
    <3> QED
      BY <2>2, <3>2, <3>3, <3>6 DEF CountedAt
  <2> QED
    BY <2>4 DEF Counted, CountedAt
<1>10. CASE LeaveDrainLoop
  <2>1. ASSUME NEW t \in Sessions
        PROVE  Holding(t)' = Holding(t)
    BY <1>10 DEF LeaveDrainLoop, Holding, Admitted, Finish, TurnAway, NoArgs, At
  <2>2. gone' = gone /\ inFlight' = inFlight
    BY <1>10 DEF LeaveDrainLoop
  <2> QED
    BY <2>1, <2>2, SameSlots
<1>11. CASE Exit
  <2>1. ASSUME NEW t \in Sessions
        PROVE  Holding(t)' = Holding(t)
    BY <1>11 DEF Exit, Holding, Admitted, Finish, TurnAway, NoArgs, At
  <2>2. gone' = gone /\ inFlight' = inFlight
    BY <1>11 DEF Exit
  <2> QED
    BY <2>1, <2>2, SameSlots
<1>12. ASSUME NEW c \in Calls, EngineWrites(c)
       PROVE  Counted'
  <2>1. ASSUME NEW t \in Sessions
        PROVE  Holding(t)' = Holding(t)
    <3>1. PICK stage \in {"returning", "notifying"} : Goto(c, stage)
      BY <1>12 DEF EngineWrites
    <3>2. /\ call'[c].at = stage /\ call'[c].session = call[c].session
          /\ \A d \in Calls : d # c => call'[d] = call[d]
      BY <3>1, Moved
    <3>3. call[c].at \notin {"idle", "done"} /\ answered' = answered
      BY <1>12 DEF EngineWrites, At
    <3> QED
      BY <3>1, <3>2, <3>3 DEF Holding, Admitted
  <2>2. gone' = gone /\ inFlight' = inFlight
    BY <1>12 DEF EngineWrites
  <2> QED
    BY <2>1, <2>2, SameSlots
<1>13. ASSUME NEW c \in Calls, Remember(c)
       PROVE  Counted'
  <2>1. ASSUME NEW t \in Sessions
        PROVE  Holding(t)' = Holding(t)
    <3>1. PICK stage \in {"returning"} : Goto(c, stage)
      BY <1>13 DEF Remember
    <3>2. /\ call'[c].at = stage /\ call'[c].session = call[c].session
          /\ \A d \in Calls : d # c => call'[d] = call[d]
      BY <3>1, Moved
    <3>3. call[c].at \notin {"idle", "done"} /\ answered' = answered
      BY <1>13 DEF Remember, At
    <3> QED
      BY <3>1, <3>2, <3>3 DEF Holding, Admitted
  <2>2. gone' = gone /\ inFlight' = inFlight
    BY <1>13 DEF Remember
  <2> QED
    BY <2>1, <2>2, SameSlots
<1>14. ASSUME NEW c \in Calls, FinishRead(c)
       PROVE  Counted'
  <2>1. Admitted(c) /\ call[c].session \in Sessions
    BY <1>14 DEF FinishRead, At, Admitted, CallShape
  <2>2. gone' = gone /\ Answer(c) /\ \A d \in Calls : call'[d] = call[d] \/ d = c
    BY <1>14 DEF FinishRead, Finish
  <2> QED
    BY <2>1, <2>2, AnswerCounted
<1>15. ASSUME NEW k \in Keys, Forget(k)
       PROVE  Counted'
  <2>1. ASSUME NEW t \in Sessions
        PROVE  Holding(t)' = Holding(t)
    BY <1>15 DEF Forget, Holding, Admitted, Finish, TurnAway, NoArgs, At
  <2>2. gone' = gone /\ inFlight' = inFlight
    BY <1>15 DEF Forget
  <2> QED
    BY <2>1, <2>2, SameSlots
<1>16. ASSUME NEW s \in Sessions, CloseSession(s)
       PROVE  Counted'
  <2>1. ASSUME NEW t \in Sessions
        PROVE  Holding(t)' = Holding(t)
    BY <1>16 DEF CloseSession, Holding, Admitted
  <2>2. gone' = gone \union {s} /\ inFlight' = [inFlight EXCEPT ![s] = 0]
    BY <1>16 DEF CloseSession, disposeSession
  <2> QED
    BY <2>1, <2>2 DEF Counted
<1>17. ASSUME NEW s \in Sessions, OpenStream(s)
       PROVE  Counted'
  <2>1. ASSUME NEW t \in Sessions
        PROVE  Holding(t)' = Holding(t)
    BY <1>17 DEF OpenStream, Holding, Admitted, Finish, TurnAway, NoArgs, At
  <2>2. gone' = gone /\ inFlight' = inFlight
    BY <1>17 DEF OpenStream
  <2> QED
    BY <2>1, <2>2, SameSlots
<1>18. ASSUME NEW s \in Sessions, CloseStream(s)
       PROVE  Counted'
  <2>1. ASSUME NEW t \in Sessions
        PROVE  Holding(t)' = Holding(t)
    BY <1>18 DEF CloseStream, Holding, Admitted, Finish, TurnAway, NoArgs, At
  <2>2. gone' = gone /\ inFlight' = inFlight
    BY <1>18 DEF CloseStream
  <2> QED
    BY <2>1, <2>2, SameSlots
<1>19. CASE beginShutdown
  <2>1. ASSUME NEW t \in Sessions
        PROVE  Holding(t)' = Holding(t)
    BY <1>19 DEF beginShutdown, Holding, Admitted, Finish, TurnAway, NoArgs, At
  <2>2. gone' = gone /\ inFlight' = inFlight
    BY <1>19 DEF beginShutdown
  <2> QED
    BY <2>1, <2>2, SameSlots
<1>20. CASE UNCHANGED vars
  <2>1. gone' = gone /\ inFlight' = inFlight /\ \A t \in Sessions : Holding(t)' = Holding(t)
    BY <1>20 DEF vars, Holding, Admitted
  <2> QED
    BY <2>1, SameSlots
<1> QED
  BY <1>1, <1>2, <1>3, <1>4, <1>5, <1>6, <1>7, <1>8, <1>9, <1>10, <1>11, <1>12, <1>13,
     <1>14, <1>15, <1>16, <1>17, <1>18, <1>19, <1>20, StepCases

\* The loop is left with nothing admitted that the exit would cut.
LEMMA LeftCleanKept ==
  ASSUME Inv, call' \in [Calls -> CallRecords], [Next]_vars
  PROVE  LeftClean'
<1>a. TypeOK /\ CallShape /\ LockShape /\ Counted /\ ShutdownShape /\ LeftClean
  BY DEF Inv
<1>b. /\ call \in [Calls -> CallRecords] /\ line \in Seq(Calls)
      /\ state = "running" => drain = "none"
  BY DEF Inv, TypeOK, ShutdownShape
<1> USE <1>a, <1>b
<1> USE DEF shutdownVars, sessionVars, lockVars, LeftClean, NoArgs, Finish, Goto,
     TurnAway, Answer, At, Admitted
<1>1. ASSUME NEW c \in Calls, NEW s \in Sessions, Refuse(c, s)
      PROVE  LeftClean'
  BY <1>1 DEF Refuse
<1>2. ASSUME NEW c \in Calls, NEW s \in Sessions, OverLimit(c, s)
      PROVE  LeftClean'
  BY <1>2 DEF OverLimit
<1>3. ASSUME NEW c \in Calls, NEW s \in Sessions,
            NEW k \in {"read", "write"}, NEW key \in Keys \union {NoKey},
             Admit(c, s, k, key)
      PROVE  LeftClean'
  <2>1. drain' = "none"
    BY <1>3 DEF Admit
  <2> QED
    BY <2>1
<1>4. ASSUME NEW c \in Calls, Dispatch(c)
      PROVE  LeftClean'
  <2>1. PICK stage \in {"reading", "queued"} : Goto(c, stage)
    BY <1>4 DEF Dispatch
  <2>2. /\ call'[c].session = call[c].session /\ call'[c].kind = call[c].kind
        /\ \A d \in Calls : d # c => call'[d] = call[d]
    BY <2>1, Moved
  <2>3. /\ drain' = drain /\ timedOut' = timedOut /\ forced' = forced /\ gone' = gone
        /\ Admitted(c)
    BY <1>4 DEF Dispatch
  <2> HIDE DEF Goto
  <2> QED
    BY <2>2, <2>3
<1>5. ASSUME NEW c \in Calls, StartWrite(c)
      PROVE  LeftClean'
  <2>1. PICK stage \in {"returning", "writing"} : Goto(c, stage)
    BY <1>5 DEF StartWrite
  <2>2. /\ call'[c].session = call[c].session /\ call'[c].kind = call[c].kind
        /\ \A d \in Calls : d # c => call'[d] = call[d]
    BY <2>1, Moved
  <2>3. /\ drain' = drain /\ timedOut' = timedOut /\ forced' = forced /\ gone' = gone
        /\ Admitted(c)
    BY <1>5 DEF StartWrite
  <2> HIDE DEF Goto
  <2> QED
    BY <2>2, <2>3
<1>6. ASSUME NEW c \in Calls, FinishWrite(c)
      PROVE  LeftClean'
  BY <1>6 DEF FinishWrite
<1>7. ASSUME NEW c \in Calls, Timeout(c)
      PROVE  LeftClean'
  BY <1>7 DEF Timeout
<1>8. CASE EngineLoaded
  BY <1>8 DEF EngineLoaded
<1>9. CASE EngineFails
  BY <1>9 DEF EngineFails
<1>10. CASE LeaveDrainLoop
  <2>1. SUFFICES ASSUME ~timedOut', ~forced', NEW d \in Calls, call[d].kind = "write",
                        Admitted(d), call[d].session \notin gone
                 PROVE  FALSE
    BY <1>10 DEF LeaveDrainLoop
  <2>2. forced' = forced /\ drain = "polling" /\ (Drained \/ state = "exiting")
    BY <1>10, <2>1 DEF LeaveDrainLoop
  <2>3. Drained
    <3>1. timedOut' = (~Drained /\ state # "exiting")
      BY <1>10 DEF LeaveDrainLoop
    <3>2. state # "exiting"
      BY <2>1, <2>2 DEF ShutdownShape
    <3> HIDE DEF Drained
    <3> QED
      BY <2>1, <3>1, <3>2
  <2>4. call[d].session \in Sessions /\ call[d].at \in Stages
    BY <2>1 DEF CallShape, CallRecords
  <2>5. d \in answered
    <3>1. Cardinality(Holding(call[d].session)) = 0
      BY <2>1, <2>3, <2>4 DEF Drained, NoneInFlight, Counted
    <3>2. Holding(call[d].session) \in SUBSET Calls
      BY DEF Holding
    <3>3. Holding(call[d].session) = {}
      BY <3>1, <3>2, Finite, FS_EmptySet
    <3> QED
      BY <2>1, <3>3 DEF Holding
  <2>6. call[d].at \in Locked \union {"queued"}
    BY <2>1, <2>4, <2>5 DEF CallShape, Stages, Locked
  <2>7. engine = "open"
    BY <2>2, <2>6 DEF ShutdownShape
  <2>8. owner = NoCall
    BY <2>3, <2>7, LenProperties DEF Drained, WriteQueueDepth
  <2> QED
    BY <2>6, <2>8 DEF LockShape, InLine
<1>11. CASE Exit
  BY <1>11 DEF Exit
<1>12. ASSUME NEW c \in Calls, EngineWrites(c)
       PROVE  LeftClean'
  <2>1. PICK stage \in {"returning", "notifying"} : Goto(c, stage)
    BY <1>12 DEF EngineWrites
  <2>2. /\ call'[c].session = call[c].session /\ call'[c].kind = call[c].kind
        /\ \A d \in Calls : d # c => call'[d] = call[d]
    BY <2>1, Moved
  <2>3. /\ drain' = drain /\ timedOut' = timedOut /\ forced' = forced /\ gone' = gone
        /\ Admitted(c)
    BY <1>12 DEF EngineWrites
  <2> HIDE DEF Goto
  <2> QED
    BY <2>2, <2>3
<1>13. ASSUME NEW c \in Calls, Remember(c)
       PROVE  LeftClean'
  BY <1>13 DEF Remember
<1>14. ASSUME NEW c \in Calls, FinishRead(c)
       PROVE  LeftClean'
  BY <1>14 DEF FinishRead
<1>15. ASSUME NEW k \in Keys, Forget(k)
       PROVE  LeftClean'
  BY <1>15 DEF Forget
<1>16. ASSUME NEW s \in Sessions, CloseSession(s)
       PROVE  LeftClean'
  BY <1>16 DEF CloseSession
<1>17. ASSUME NEW s \in Sessions, OpenStream(s)
       PROVE  LeftClean'
  BY <1>17 DEF OpenStream
<1>18. ASSUME NEW s \in Sessions, CloseStream(s)
       PROVE  LeftClean'
  BY <1>18 DEF CloseStream
<1>19. CASE beginShutdown
  <2>1. CASE drain' = "polling"
    BY <2>1
  <2>2. CASE forced' = TRUE
    BY <2>2
  <2> QED
    BY <1>19, <2>1, <2>2 DEF beginShutdown
<1>20. CASE UNCHANGED vars
  BY <1>20 DEF vars
<1> HIDE DEF LeftClean
<1> QED
  BY <1>1, <1>2, <1>3, <1>4, <1>5, <1>6, <1>7, <1>8, <1>9, <1>10, <1>11, <1>12, <1>13,
     <1>14, <1>15, <1>16, <1>17, <1>18, <1>19, <1>20, StepCases

(* ---- The theorems ---------------------------------------------------------- *)

LEMMA InitInv == Init => Inv
<1> SUFFICES ASSUME Init
             PROVE  Inv
  OBVIOUS
<1> USE DEF Init, NoArgs
<1>1. TypeOK
  <2>1. inFlight \in [Sessions -> 0..Concurrent] /\ written \in [Keys -> Nat]
    BY ConcurrentAssumption
  <2>2. call \in [Calls -> CallRecords]
    BY DEF CallRecords, Stages
  <2>3. line \in Seq(Calls) /\ owner \in Calls \union {NoCall}
    BY DEF WriteLock!Init
  <2> QED
    BY <2>1, <2>2, <2>3 DEF TypeOK
<1>2. CallShape /\ IdentityShape /\ AttributedToCaller /\ ShutdownShape /\ LeftClean
  BY DEF CallShape, IdentityShape, AttributedToCaller, ShutdownShape, LeftClean, At,
     Admitted, Locked
<1>3. LockShape
  BY DEF LockShape, InLine, At, Locked, WriteLock!Init
<1>4. Counted
  <2>1. \A s \in Sessions : Holding(s) = {}
    BY DEF Holding, Admitted
  <2> QED
    BY <2>1, FS_EmptySet DEF Counted
<1>5. KeyShape
  BY DEF KeyShape, At
<1> QED
  BY <1>1, <1>2, <1>3, <1>4, <1>5 DEF Inv

LEMMA NextInv == Inv /\ [Next]_vars => Inv'
<1> SUFFICES ASSUME Inv, [Next]_vars
             PROVE  Inv'
  OBVIOUS
<1>1. TypeOK' /\ call' \in [Calls -> CallRecords]
  BY Typed, CallTyped
<1> QED
  BY <1>1, CallShaped, LockShaped, CountedKept, KeyShaped, IdentityShaped,
     ShutdownShaped,
     LeftCleanKept DEF Inv

\* The invariant holds in every reachable state of withEngine, the limiter,
\* the idempotency cache and shutdown.ts.
THEOREM InvHolds == Spec => []Inv
<1> QED
  BY InitInv, NextInv, PTL DEF Spec

\* Every variable keeps its type; no count exceeds MAAD_RL_CONCURRENT.
THEOREM TypeCorrect == Spec => []TypeOK
<1>1. Inv => TypeOK
  BY DEF Inv
<1> QED
  BY <1>1, InvHolds, PTL

\* SessionRateLimiter's count is the number of the session's unanswered calls:
\* each slot is released once, by the timeout, the handler or a failed init.
THEOREM SlotsExactHolds == Spec => []SlotsExact
<1>1. Inv => SlotsExact
  BY DEF Inv, TypeOK, Counted, SlotsExact
<1> QED
  BY <1>1, InvHolds, PTL

\* A keyed write is done at most once while its key is known: the lookup under
\* the lock sees what every earlier write with the key has left.
THEOREM KeyedWriteOnceHolds == Spec => []KeyedWriteOnce
<1>1. Inv => KeyedWriteOnce
  BY DEF Inv, KeyShape, KeyedWriteOnce
<1> QED
  BY <1>1, InvHolds, PTL

\* The commit identity in the engine's slot is that of the write being done.
THEOREM AttributedToCallerHolds == Spec => []AttributedToCaller
<1>1. Inv => AttributedToCaller
  BY DEF Inv
<1> QED
  BY <1>1, InvHolds, PTL

\* Exit code 0 without a second signal cuts no write of a session that is still
\* there: the drain loop waits for slots and for the line of the lock.
THEOREM CleanExitCutsNoWriteHolds == Spec => []CleanExitCutsNoWrite
<1>1. Inv => CleanExitCutsNoWrite
  BY DEF Inv, LeftClean, CleanExitCutsNoWrite
<1> QED
  BY <1>1, InvHolds, PTL

(* ---- The lock of the engine ----------------------------------------------- *)
(* The write lock calls wait for is FifoLock, and the engine's mutex with its   *)
(* promises, grant closures and re-entered scopes implements it. What follows   *)
(* is about WriteMutex alone, for any set of callers and any nesting depth of   *)
(* runExclusive. It rests on an inductive invariant, MutexInv, which ties the   *)
(* three places the lock state is spread over - held, the queue of grants and   *)
(* the suspended callers themselves - to each other.                            *)

\* The queue holds each waiting caller once, and nobody else.
QueueIsWaiting ==
  /\ \A c \in Callers :
       phase[c] = "waiting" <=> \E i \in 1..Len(queue) : queue[i] = c
  /\ \A i, j \in 1..Len(queue) : queue[i] = queue[j] => i = j

\* held is set exactly while somebody owns the lock, and only then does
\* anybody wait.
HeldIsOwned ==
  /\ held <=> \E c \in Callers : phase[c] \in Owning
  /\ queue # <<>> => held

\* Only an owner names itself in lastWriteOp, and an open context belongs to
\* a write on an initialized engine, whose backend is open.
ContextValid ==
  /\ LastWriteOpOwnsLock
  /\ initialized => open
  /\ \A c \in Callers : phase[c] = "working" => initialized /\ kind[c] = "write"

MutexInv ==
  /\ MutexTypeOK
  /\ MutualExclusion
  /\ QueueIsWaiting
  /\ HeldIsOwned
  /\ ContextValid

USE DEF Phases, Inside, Owning, Owners

(* ---- The invariant ------------------------------------------------------ *)

\* The state init() leaves satisfies the invariant.
LEMMA MutexInitInv == MutexInit => MutexInv
  <1> SUFFICES ASSUME MutexInit PROVE MutexInv
    OBVIOUS
  <1>1. MutexTypeOK
    <2>1. queue \in Seq(Callers)
      BY DEF MutexInit
    <2>2. held \in BOOLEAN /\ initialized \in BOOLEAN /\ open \in BOOLEAN
      BY DEF MutexInit
    <2>3. /\ phase \in [Callers -> Phases]
          /\ kind \in [Callers -> Kinds]
          /\ nest \in [Callers -> 0..MaxNest]
          /\ lastWriteOp \in Callers \union {NoCaller}
      BY MaxNestAssumption DEF MutexInit, Kinds
    <2> QED
      BY <2>1, <2>2, <2>3 DEF MutexTypeOK
  <1>2. MutualExclusion /\ QueueIsWaiting /\ HeldIsOwned /\ ContextValid
    BY CallersAssumption DEF MutexInit, MutualExclusion, QueueIsWaiting,
       HeldIsOwned, ContextValid, LastWriteOpOwnsLock
  <1> QED
    BY <1>1, <1>2 DEF MutexInv

\* A new call either takes a free lock, which nobody owns and nobody waits
\* for, or joins the end of the queue.
LEMMA CallInv ==
  ASSUME MutexInv, NEW c \in Callers, NEW k \in Kinds, Call(c, k)
  PROVE  MutexInv'
  <1> USE DEF Call, MutexInv
  <1>t. MutexTypeOK
    OBVIOUS
  <1>1. CASE ~held
    <2>0. /\ held' = TRUE /\ queue' = queue /\ queue = <<>>
          /\ phase' = [phase EXCEPT ![c] = "granted"]
          /\ \A d \in Callers : phase[d] \notin Owning
      BY <1>1 DEF Acquire, HeldIsOwned, MutexTypeOK
    <2>1. MutexTypeOK'
      BY <2>0 DEF MutexTypeOK
    <2>2. MutualExclusion' /\ QueueIsWaiting' /\ HeldIsOwned'
      BY <2>0 DEF MutexTypeOK, MutualExclusion, QueueIsWaiting, HeldIsOwned
    <2>3. ContextValid'
      BY <2>0, CallersAssumption DEF MutexTypeOK, ContextValid, LastWriteOpOwnsLock
    <2> QED
      BY <2>1, <2>2, <2>3
  <1>2. CASE held
    <2>0. /\ held' = held /\ queue' = Append(queue, c)
          /\ phase' = [phase EXCEPT ![c] = "waiting"]
          /\ phase[c] = "idle"
      BY <1>2 DEF Acquire
    <2>1. MutexTypeOK'
      BY <2>0 DEF MutexTypeOK
    <2>2. MutualExclusion' /\ HeldIsOwned'
      BY <2>0, <1>2 DEF MutexTypeOK, MutualExclusion, HeldIsOwned
    <2>3. QueueIsWaiting'
      <3>1. /\ Len(queue') = Len(queue) + 1
            /\ queue'[Len(queue) + 1] = c
            /\ \A i \in 1..Len(queue) : queue'[i] = queue[i]
            /\ Len(queue) \in Nat
        BY <2>0 DEF MutexTypeOK
      <3>2. \A i \in 1..Len(queue) : queue[i] # c
        BY <2>0 DEF QueueIsWaiting
      <3>3. ASSUME NEW d \in Callers
            PROVE  phase'[d] = "waiting" <=> \E i \in 1..Len(queue') : queue'[i] = d
        BY <2>0, <3>1 DEF QueueIsWaiting, MutexTypeOK
      <3>4. ASSUME NEW i \in 1..Len(queue'), NEW j \in 1..Len(queue'), queue'[i] = queue'[j]
            PROVE  i = j
        BY <3>1, <3>2, <3>4 DEF QueueIsWaiting
      <3> QED
        BY <3>3, <3>4 DEF QueueIsWaiting
    <2>4. ContextValid'
      BY <2>0, CallersAssumption DEF MutexTypeOK, ContextValid, LastWriteOpOwnsLock
    <2> QED
      BY <2>1, <2>2, <2>3, <2>4
  <1> QED
    BY <1>1, <1>2

\* The owner's release hands the lock to the head of the queue.
LEMMA LeaveInv ==
  ASSUME MutexInv, NEW c \in Callers, Leave(c)
  PROVE  MutexInv'
  <1> USE DEF Leave, MutexInv
  <1>0. phase[c] \in Owning /\ held /\ \A d \in Callers : phase[d] \in Owning => d = c
    BY DEF FnEnds, MutualExclusion, HeldIsOwned, MutexTypeOK
  <1>1. CASE queue = <<>>
    <2>0. held' = FALSE /\ queue' = queue /\ phase' = [phase EXCEPT ![c] = "idle"]
      BY <1>1 DEF Release
    <2>1. MutexTypeOK'
      BY <2>0 DEF MutexTypeOK
    <2>2. MutualExclusion' /\ HeldIsOwned'
      BY <2>0, <1>0, <1>1 DEF MutexTypeOK, MutualExclusion, HeldIsOwned
    <2>3. QueueIsWaiting'
      BY <2>0, <1>0 DEF MutexTypeOK, QueueIsWaiting
    <2>4. ContextValid'
      BY <2>0, CallersAssumption DEF MutexTypeOK, ContextValid, LastWriteOpOwnsLock
    <2> QED
      BY <2>1, <2>2, <2>3, <2>4
  <1>2. CASE queue # <<>>
    <2> DEFINE h == Head(queue)
    <2>1. /\ h \in Callers /\ h = queue[1] /\ Len(queue) \in Nat \ {0}
          /\ Tail(queue) \in Seq(Callers)
          /\ Len(Tail(queue)) = Len(queue) - 1
          /\ \A i \in 1..Len(queue) - 1 : Tail(queue)[i] = queue[i + 1]
      BY <1>2 DEF MutexTypeOK
    <2>2. phase[h] = "waiting" /\ h # c
      BY <2>1, <1>0 DEF QueueIsWaiting
    <2>3. /\ held' = TRUE /\ queue' = Tail(queue)
          /\ phase' = [phase EXCEPT ![c] = "idle", ![h] = "granted"]
      BY <1>2 DEF Release
    <2> HIDE DEF h
    <2>4. MutexTypeOK'
      BY <2>1, <2>3 DEF MutexTypeOK
    <2>5. MutualExclusion' /\ HeldIsOwned'
      BY <2>1, <2>2, <2>3, <1>0 DEF MutexTypeOK, MutualExclusion, HeldIsOwned
    <2>6. QueueIsWaiting'
      <3>1. ASSUME NEW i \in 1..Len(queue'), NEW j \in 1..Len(queue'), queue'[i] = queue'[j]
            PROVE  i = j
        BY <3>1, <2>1, <2>3 DEF QueueIsWaiting
      <3>2. \A i \in 1..Len(queue') : queue'[i] # h
        BY <2>1, <2>3 DEF QueueIsWaiting
      <3>3. ASSUME NEW d \in Callers
            PROVE  phase'[d] = "waiting" <=> \E i \in 1..Len(queue') : queue'[i] = d
        <4>1. CASE d = c \/ d = h
          BY <4>1, <2>1, <2>2, <2>3, <3>2, <1>0 DEF MutexTypeOK, QueueIsWaiting
        <4>2. CASE d # c /\ d # h
          <5>1. phase'[d] = phase[d]
            BY <4>2, <2>3 DEF MutexTypeOK
          <5>2. ASSUME NEW i \in 1..Len(queue), queue[i] = d
                PROVE  \E n \in 1..Len(queue') : queue'[n] = d
            <6>1. i # 1
              BY <5>2, <4>2, <2>1
            <6>2. i - 1 \in 1..Len(queue') /\ queue'[i - 1] = d
              BY <5>2, <6>1, <2>1, <2>3
            <6> QED
              BY <6>2
          <5>3. ASSUME NEW i \in 1..Len(queue'), queue'[i] = d
                PROVE  \E n \in 1..Len(queue) : queue[n] = d
            <6>1. i + 1 \in 1..Len(queue) /\ queue[i + 1] = d
              BY <5>3, <2>1, <2>3
            <6> QED
              BY <6>1
          <5> QED
            BY <5>1, <5>2, <5>3 DEF QueueIsWaiting
        <4> QED
          BY <4>1, <4>2
      <3> QED
        BY <3>1, <3>3 DEF QueueIsWaiting
    <2>7. ContextValid'
      BY <2>1, <2>2, <2>3, CallersAssumption DEF MutexTypeOK, ContextValid, LastWriteOpOwnsLock
    <2> QED
      BY <2>4, <2>5, <2>6, <2>7
  <1> QED
    BY <1>1, <1>2

\* Every other step is the owner's own, and leaves the lock and the queue.
LEMMA OwnerStepInv ==
  ASSUME MutexInv, NEW c \in Callers,
         \/ Enter(c) \/ SchemasReloaded(c) \/ TakeContext(c) \/ Reenter(c)
         \/ LeaveInner(c) \/ CloseForReload(c) \/ FinishReload(c)
  PROVE  MutexInv'
  <1> USE DEF MutexInv
  <1> DEFINE Kept == /\ held' = held /\ queue' = queue /\ kind' = kind
                     /\ phase[c] \in Owning
                     /\ \E p \in Owning : phase' = [phase EXCEPT ![c] = p]
             Bools == initialized' \in BOOLEAN /\ open' \in BOOLEAN
             Nested == nest' \in [Callers -> 0..MaxNest]
             Context == ContextValid'
  <1>0. \A d \in Callers : phase[d] = "working" /\ phase[c] \in Owning => d = c
    BY DEF MutualExclusion
  <1>t. MutexTypeOK
    OBVIOUS
  <1>u. ContextValid
    OBVIOUS
  <1>1. ASSUME Enter(c) PROVE Kept /\ Bools /\ Nested /\ Context
    BY <1>1, <1>t, <1>u, CallersAssumption
       DEF Enter, MutexTypeOK, ContextValid, LastWriteOpOwnsLock
  <1>2. ASSUME SchemasReloaded(c) PROVE Kept /\ Bools /\ Nested /\ Context
    BY <1>2, <1>t, <1>u, CallersAssumption
       DEF SchemasReloaded, MutexTypeOK, ContextValid, LastWriteOpOwnsLock
  <1>3. ASSUME TakeContext(c) PROVE Kept /\ Bools /\ Nested /\ Context
    BY <1>3, <1>t, <1>u, CallersAssumption
       DEF TakeContext, MutexTypeOK, ContextValid, LastWriteOpOwnsLock
  <1>4. ASSUME Reenter(c) PROVE Kept /\ Bools /\ Nested /\ Context
    <2>1. phase' = [phase EXCEPT ![c] = phase[c]]
      BY <1>4, <1>t DEF Reenter, MutexTypeOK
    <2>2. Nested
      BY <1>4, <1>t, MaxNestAssumption DEF Reenter, MutexTypeOK
    <2> QED
      BY <1>4, <1>t, <1>u, <2>1, <2>2 DEF Reenter, MutexTypeOK, ContextValid, LastWriteOpOwnsLock
  <1>5. ASSUME LeaveInner(c) PROVE Kept /\ Bools /\ Nested /\ Context
    <2>1. phase' = [phase EXCEPT ![c] = phase[c]] /\ phase[c] \in Owning
      BY <1>5, <1>t DEF LeaveInner, FnEnds, MutexTypeOK
    <2>2. Nested
      BY <1>5, <1>t, MaxNestAssumption DEF LeaveInner, MutexTypeOK
    <2> QED
      BY <1>5, <1>t, <1>u, <2>1, <2>2 DEF LeaveInner, MutexTypeOK, ContextValid, LastWriteOpOwnsLock
  <1>6. ASSUME CloseForReload(c) PROVE Kept /\ Bools /\ Nested /\ Context
    BY <1>0, <1>6, <1>t, <1>u, CallersAssumption
       DEF CloseForReload, MutexTypeOK, ContextValid, LastWriteOpOwnsLock
  <1>7. ASSUME FinishReload(c) PROVE Kept /\ Bools /\ Nested /\ Context
    <2>1. Kept /\ Nested /\ lastWriteOp' = lastWriteOp
          /\ phase' = [phase EXCEPT ![c] = "reloaded"]
      BY <1>7, <1>t DEF FinishReload, MutexTypeOK
    <2>2. Bools /\ (initialized' => open')
      <3>1. \/ open' = FALSE /\ initialized' = FALSE
            \/ open' = TRUE /\ initialized' = FALSE
            \/ open' = TRUE /\ initialized' = TRUE
        BY <1>7 DEF FinishReload
      <3> QED
        BY <3>1
    <2>3. \A d \in Callers : phase[d] # "working"
      BY <1>0, <1>7 DEF FinishReload
    <2> QED
      BY <2>1, <2>2, <2>3, <1>t, <1>u, CallersAssumption
         DEF MutexTypeOK, ContextValid, LastWriteOpOwnsLock
  <1>8. Kept /\ Bools /\ Nested /\ Context
    BY <1>1, <1>2, <1>3, <1>4, <1>5, <1>6, <1>7
  <1>9. MutualExclusion' /\ HeldIsOwned' /\ QueueIsWaiting'
    BY <1>8 DEF MutexTypeOK, MutualExclusion, HeldIsOwned, QueueIsWaiting
  <1>10. MutexTypeOK'
    <2>1. lastWriteOp' \in Callers \union {NoCaller}
      BY <1>t DEF MutexTypeOK, Enter, SchemasReloaded, TakeContext, Reenter, LeaveInner,
                  CloseForReload, FinishReload
    <2> QED
      BY <1>8, <2>1 DEF MutexTypeOK
  <1> QED
    BY <1>8, <1>9, <1>10

LEMMA MutexNextInv == MutexInv /\ [MutexNext]_mutexVars => MutexInv'
  <1> SUFFICES ASSUME MutexInv, [MutexNext]_mutexVars PROVE MutexInv'
    OBVIOUS
  <1>1. ASSUME NEW c \in Callers, NEW k \in Kinds, Call(c, k) PROVE MutexInv'
    BY <1>1, CallInv
  <1>2. ASSUME NEW c \in Callers, Step(c) PROVE MutexInv'
    BY <1>2, LeaveInv, OwnerStepInv DEF Step
  <1>3. CASE UNCHANGED mutexVars
    BY <1>3 DEF mutexVars, MutexInv, MutexTypeOK, MutualExclusion, QueueIsWaiting, HeldIsOwned,
       ContextValid, LastWriteOpOwnsLock
  <1> QED
    BY <1>1, <1>2, <1>3 DEF MutexNext

THEOREM MutexInvHolds == MutexSafety => []MutexInv
  BY MutexInitInv, MutexNextInv, PTL DEF MutexSafety

\* Type correctness of the lock, for any callers and any nesting.
THEOREM MutexTypeCorrect == MutexSafety => []MutexTypeOK
  BY MutexInvHolds, PTL DEF MutexInv

\* At most one operation is inside runExclusive of an engine, counted from
\* the turn in which its grant is resolved.
THEOREM MutualExclusionHolds == MutexSafety => []MutualExclusion
  BY MutexInvHolds, PTL DEF MutexInv

\* A write that has taken its EngineContext keeps an open backend and an
\* initialized engine until it finishes, whatever reloads are queued.
THEOREM WorkingKeepsBackendHolds == MutexSafety => []WorkingKeepsBackend
  <1>1. MutexInv => WorkingKeepsBackend
    BY DEF MutexInv, ContextValid, WorkingKeepsBackend
  <1> QED
    BY <1>1, MutexInvHolds, PTL

\* Health names only an operation that holds the lock.
THEOREM LastWriteOpHolds == MutexSafety => []LastWriteOpOwnsLock
  BY MutexInvHolds, PTL DEF MutexInv, ContextValid

(* ---- depth() ------------------------------------------------------------ *)

\* Which callers are pending changes when one calls or leaves, and only then.
LEMMA PendingChanges ==
  ASSUME MutexInv, [MutexNext]_mutexVars
  PROVE  \/ \E c \in Callers : /\ c \notin Pending
                               /\ Pending' = Pending \union {c}
                               /\ Depth' = Depth + 1
         \/ \E c \in Pending : /\ Pending' = Pending \ {c}
                              /\ Depth' = Depth - 1
         \/ Pending' = Pending /\ Depth' = Depth
  <1>t. MutexTypeOK /\ HeldIsOwned /\ QueueIsWaiting
    BY DEF MutexInv
  <1>n. Len(queue) \in Nat
    BY <1>t DEF MutexTypeOK
  <1>1. ASSUME NEW c \in Callers, NEW k \in Kinds, Call(c, k)
        PROVE  /\ c \notin Pending
               /\ Pending' = Pending \union {c}
               /\ Depth' = Depth + 1
    <2>1. c \notin Pending /\ Pending' = Pending \union {c}
      BY <1>1, <1>t DEF Call, Acquire, Pending, MutexTypeOK
    <2>2. CASE held
      <3>1. queue' = Append(queue, c) /\ held' = held
        BY <2>2, <1>1 DEF Call, Acquire
      <3>2. Len(queue') = Len(queue) + 1
        BY <3>1, <1>t DEF MutexTypeOK
      <3> QED
        BY <3>1, <3>2, <2>1, <2>2, <1>n DEF Depth
    <2>3. CASE ~held
      <3>1. queue' = queue /\ held'
        BY <2>3, <1>1 DEF Call, Acquire
      <3> QED
        BY <3>1, <2>1, <2>3, <1>n DEF Depth
    <2> QED
      BY <2>1, <2>2, <2>3
  <1>2. ASSUME NEW c \in Callers, Leave(c)
        PROVE  /\ c \in Pending
               /\ Pending' = Pending \ {c}
               /\ Depth' = Depth - 1
    <2>1. phase[c] \in Owning
      BY <1>2, <1>t DEF Leave, FnEnds, MutexTypeOK
    <2>2. held
      BY <2>1, <1>t DEF HeldIsOwned
    <2>3. CASE queue = <<>>
      BY <2>1, <2>2, <2>3, <1>2, <1>t DEF Leave, Release, Depth, Pending, MutexTypeOK
    <2>4. CASE queue # <<>>
      <3>1. /\ Head(queue) \in Callers /\ Head(queue) = queue[1]
            /\ Len(Tail(queue)) = Len(queue) - 1 /\ 1 \in 1..Len(queue)
        BY <2>4, <1>t DEF MutexTypeOK
      <3>2. phase[Head(queue)] = "waiting"
        BY <3>1, <1>t DEF QueueIsWaiting
      <3>3. /\ held' = TRUE /\ queue' = Tail(queue)
            /\ phase' = [phase EXCEPT ![c] = "idle", ![Head(queue)] = "granted"]
        BY <1>2, <2>4 DEF Leave, Release
      <3>4. Depth' = Depth - 1
        BY <3>1, <3>3, <2>2, <1>n DEF Depth
      <3>5. c \in Pending /\ Pending' = Pending \ {c}
        BY <2>1, <3>1, <3>2, <3>3, <1>t DEF Pending, MutexTypeOK
      <3> QED
        BY <3>4, <3>5
    <2> QED
      BY <2>3, <2>4
  <1>3. ASSUME NEW c \in Callers, Step(c), ~Leave(c)
        PROVE  Pending' = Pending /\ Depth' = Depth
    <2>1. held' = held /\ queue' = queue
      BY <1>3 DEF Step, Enter, SchemasReloaded, TakeContext, Reenter, LeaveInner,
                  CloseForReload, FinishReload
    <2>2. /\ phase[c] # "idle"
          /\ \E p \in Phases \ {"idle"} : phase' = [phase EXCEPT ![c] = p]
      <3>1. \/ phase' = phase /\ phase[c] \in Owning
            \/ /\ phase[c] \in Owning
               /\ \E p \in Inside : phase' = [phase EXCEPT ![c] = p]
        BY <1>3 DEF Step, Enter, SchemasReloaded, TakeContext, Reenter, LeaveInner,
                    CloseForReload, FinishReload, FnEnds
      <3>2. phase = [phase EXCEPT ![c] = phase[c]]
        BY <1>t DEF MutexTypeOK
      <3> QED
        BY <3>1, <3>2
    <2> QED
      BY <2>1, <2>2, <1>t DEF Depth, Pending, MutexTypeOK
  <1>4. CASE UNCHANGED mutexVars
    BY <1>4 DEF mutexVars, Pending, Depth
  <1> QED
    BY <1>1, <1>2, <1>3, <1>4 DEF MutexNext

\* depth() is exact in every state: no operation that has called and not yet
\* finished is missed by the drain loops, and none is counted twice.
THEOREM DepthIsPendingHolds == MutexSafety => []DepthIsPending
  <1> DEFINE Exact == IsFiniteSet(Pending) /\ DepthIsPending
  <1>1. MutexInit => Exact
    <2> SUFFICES ASSUME MutexInit PROVE Exact
      OBVIOUS
    <2>1. Pending = {} /\ Depth = 0
      BY DEF MutexInit, Pending, Depth
    <2> QED
      BY <2>1, FS_EmptySet DEF DepthIsPending
  <1>2. MutexInv /\ Exact /\ [MutexNext]_mutexVars => Exact'
    <2> SUFFICES ASSUME MutexInv, Exact, [MutexNext]_mutexVars PROVE Exact'
      OBVIOUS
    <2>1. CASE \E c \in Callers : /\ c \notin Pending
                                  /\ Pending' = Pending \union {c}
                                  /\ Depth' = Depth + 1
      BY <2>1, FS_AddElement DEF DepthIsPending
    <2>2. CASE \E c \in Pending : /\ Pending' = Pending \ {c}
                                 /\ Depth' = Depth - 1
      BY <2>2, FS_RemoveElement DEF DepthIsPending
    <2>3. CASE Pending' = Pending /\ Depth' = Depth
      BY <2>3 DEF DepthIsPending
    <2> QED
      BY <2>1, <2>2, <2>3, PendingChanges
  <1> QED
    BY <1>1, <1>2, MutexInvHolds, PTL DEF MutexSafety

(* ---- The refinement ------------------------------------------------------ *)

\* Under mutual exclusion the choice in CurrentOwner is no choice at all.
LEMMA OwnerIs ==
  MutexInv => /\ \A c \in Callers : phase[c] \in Owning => CurrentOwner = c
              /\ ~held => CurrentOwner = NoCaller
              /\ held => CurrentOwner # NoCaller
  <1> SUFFICES ASSUME MutexInv
               PROVE  /\ \A c \in Callers : phase[c] \in Owning => CurrentOwner = c
                      /\ ~held => CurrentOwner = NoCaller
                      /\ held => CurrentOwner # NoCaller
    OBVIOUS
  <1>1. ASSUME NEW c \in Callers, phase[c] \in Owning PROVE CurrentOwner = c
    <2>1. Owners = {c}
      BY <1>1 DEF MutexInv, MutualExclusion
    <2> QED
      BY <2>1 DEF CurrentOwner
  <1>2. ~held => CurrentOwner = NoCaller
    BY DEF MutexInv, HeldIsOwned, CurrentOwner
  <1>3. held => CurrentOwner # NoCaller
    BY <1>1, CallersAssumption DEF MutexInv, HeldIsOwned
  <1> QED
    BY <1>1, <1>2, <1>3

\* Every step of the engine's lock is a step of the FIFO lock or none.
LEMMA StepRefines == MutexInv /\ MutexInv' /\ [MutexNext]_mutexVars => [Lock!Next]_(Lock!vars)
  <1> SUFFICES ASSUME MutexInv, MutexInv', [MutexNext]_mutexVars PROVE [Lock!Next]_(Lock!vars)
    OBVIOUS
  <1>o. /\ \A c \in Callers : phase[c] \in Owning => CurrentOwner = c
        /\ ~held => CurrentOwner = NoCaller
        /\ held => CurrentOwner # NoCaller
    BY OwnerIs
  <1>p. (MutexInv => /\ \A c \in Callers : phase[c] \in Owning => CurrentOwner = c
                     /\ ~held => CurrentOwner = NoCaller
                     /\ held => CurrentOwner # NoCaller)'
    BY OwnerIs, PTL
  <1>q. /\ \A c \in Callers : phase'[c] \in Owning => CurrentOwner' = c
        /\ ~held' => CurrentOwner' = NoCaller
    BY <1>p
  <1>t. MutexTypeOK /\ HeldIsOwned /\ QueueIsWaiting
    BY DEF MutexInv
  <1>1. ASSUME NEW c \in Callers, NEW k \in Kinds, Call(c, k)
        PROVE  Lock!Take(c) \/ Lock!Queue(c)
    <2>1. CASE ~held
      <3>1. phase'[c] = "granted" /\ queue' = queue /\ queue = <<>>
        BY <2>1, <1>1, <1>t DEF Call, Acquire, MutexTypeOK, HeldIsOwned
      <3> QED
        BY <3>1, <2>1, <1>o, <1>q DEF Lock!Take
    <2>2. CASE held
      <3>1. phase[c] = "idle" /\ queue' = Append(queue, c)
            /\ phase' = [phase EXCEPT ![c] = "waiting"]
        BY <2>2, <1>1 DEF Call, Acquire
      <3>2. PICK d \in Callers : phase[d] \in Owning
        BY <2>2, <1>t DEF HeldIsOwned
      <3>3. CurrentOwner = d /\ CurrentOwner' = d /\ d # c
        BY <3>1, <3>2, <1>o, <1>q, <1>t DEF MutexTypeOK
      <3>4. ~Lock!InLine(c)
        <4>1. DOMAIN queue = 1..Len(queue)
          BY <1>t DEF MutexTypeOK
        <4> QED
          BY <4>1, <3>1, <1>t DEF QueueIsWaiting, Lock!InLine
      <3> QED
        BY <3>1, <3>2, <3>3, <3>4, CallersAssumption DEF Lock!Queue
    <2> QED
      BY <2>1, <2>2
  <1>2. ASSUME NEW c \in Callers, Leave(c)
        PROVE  Lock!HandOver
    <2>1. phase[c] \in Owning /\ CurrentOwner # NoCaller
      BY <1>2, <1>t, <1>o, CallersAssumption DEF Leave, FnEnds, MutexTypeOK
    <2>2. CASE queue = <<>>
      BY <2>1, <2>2, <1>2, <1>q DEF Leave, Release, Lock!HandOver
    <2>3. CASE queue # <<>>
      <3>1. /\ Head(queue) \in Callers /\ Head(queue) = queue[1] /\ 1 \in 1..Len(queue)
        BY <2>3, <1>t DEF MutexTypeOK
      <3>2. phase[Head(queue)] = "waiting"
        BY <3>1, <1>t DEF QueueIsWaiting
      <3>3. queue' = Tail(queue) /\ phase'[Head(queue)] = "granted"
        BY <1>2, <2>1, <2>3, <3>1, <3>2, <1>t DEF Leave, Release, MutexTypeOK
      <3> QED
        BY <2>1, <2>3, <3>1, <3>3, <1>q DEF Lock!HandOver
    <2> QED
      BY <2>2, <2>3
  <1>3. ASSUME NEW c \in Callers, Step(c), ~Leave(c)
        PROVE  UNCHANGED Lock!vars
    <2>1. /\ queue' = queue
          /\ phase[c] \in Owning
          /\ phase' = phase \/ \E p \in Inside : phase' = [phase EXCEPT ![c] = p]
      BY <1>3 DEF Step, Enter, SchemasReloaded, TakeContext, Reenter, LeaveInner,
                  CloseForReload, FinishReload, FnEnds
    <2>2. phase'[c] \in Owning
      BY <2>1, <1>t DEF MutexTypeOK
    <2> QED
      BY <2>1, <2>2, <1>o, <1>q DEF Lock!vars
  <1>4. CASE UNCHANGED mutexVars
    BY <1>4 DEF mutexVars, Lock!vars, CurrentOwner, Owners
  <1> QED
    BY <1>1, <1>2, <1>3, <1>4 DEF MutexNext, Lock!Next

\* The promise of the mutex: the lock with its promises, grant closures and
\* re-entered scopes behaves as a plain first-come-first-served lock.
THEOREM RefinesFifoLock == MutexSafety => ImplementsFifoLock
  <1>1. MutexInit => Lock!Init
    BY DEF MutexInit, Lock!Init, CurrentOwner, Owners
  <1> QED
    BY <1>1, StepRefines, MutexInvHolds, PTL DEF MutexSafety, ImplementsFifoLock, Lock!Spec

(* ---- Sessions -------------------------------------------------------------- *)

\* minRole gives a role that neither of two roles falls below.
LEMMA MinRoleIsLeast ==
  ASSUME NEW a \in Roles, NEW b \in Roles
  PROVE  MinRole(a, b) \in Roles /\ MinRole(a, b) <= a /\ MinRole(a, b) <= b
BY DEF MinRole, Roles

\* A role above one that satisfies a need satisfies it.
LEMMA SatisfiesUp ==
  ASSUME NEW a \in Roles, NEW b \in Roles, NEW need \in Roles, a <= b, a >= need
  PROVE  b >= need
BY DEF Roles

USE SessionNullsAssumption, TokensAssumption, DeclarableAssumption, MaxReloadsAssumption

\* The caps of a token: p is among its projects, for at least the role r.
Covers(token, p, r) ==
  token # NoToken => /\ resolveTokenCap(token, p) \in Roles
                     /\ r <= resolveTokenCap(token, p)

\* What a binding owes: a role within the token's cap for each project, and
\* within the declared role of each as long as the session is not cancelled.
Owed(value, inst) ==
  /\ \A p \in value.projects : Covers(value.token, p, value.roles[p])
  /\ ~value.cancelled =>
       \A p \in value.projects : inst[p] # NoRole /\ value.roles[p] <= inst[p]

Good(value) == value \in SessionRecords /\ Shape(value)

SessionInv ==
  /\ SessionTypeOK
  /\ \A s \in Sids : sessions[s] # Gone =>
       /\ Owed(sessions[s], instance)
       /\ s \notin reborn => sessions[s].token = opened[s].token
       /\ entry[s] = "live"

(* ---- Roles ----------------------------------------------------------------- *)

\* A token's cap on a project is a role, or none (resolveTokenCap, capFor).
LEMMA CapIsRole ==
  ASSUME NEW token \in TokenRecords, NEW p \in Projects
  PROVE  resolveTokenCap(token, p) \in Roles \union {NoRole}
BY DEF resolveTokenCap, capFor, MinRole, TokenRecords, Roles

\* A binding gets no role, or one within what the project declares and what
\* the token allows, whatever was asked for (composeEffective).
LEMMA EffectiveWithinCaps ==
  ASSUME NEW p \in Projects, NEW token \in Tokens \union {NoToken},
         NEW as \in Roles \union {NoRole}, instance \in Instances
  PROVE  LET r == composeEffective(p, token, as)
         IN /\ r \in Roles \union {NoRole}
            /\ r # NoRole => /\ Declared(p) /\ r <= instance[p]
                             /\ Covers(token, p, r)
<1> DEFINE ceiling == Ceiling(p, token)
<1>1. instance[p] \in Roles \union {NoRole}
  BY DEF Instances
<1>2. /\ ceiling \in Roles \union {NoRole}
      /\ ceiling # NoRole => Declared(p) /\ ceiling <= instance[p] /\ Covers(token, p, ceiling)
  <2>1. CASE token = NoToken
    BY <1>1, <2>1 DEF Ceiling, Declared, Covers, Roles
  <2>2. CASE token # NoToken
    <3>1. resolveTokenCap(token, p) \in Roles \union {NoRole}
      BY <2>2, CapIsRole
    <3> QED
      BY <1>1, <2>2, <3>1 DEF Ceiling, Declared, Covers, MinRole, Roles
  <2> QED
    BY <2>1, <2>2
<1>3. token # NoToken => resolveTokenCap(token, p) \in Roles \union {NoRole}
  BY CapIsRole
<1> HIDE DEF ceiling
<1>4. composeEffective(p, token, as) =
        IF as = NoRole \/ ceiling = NoRole THEN ceiling
        ELSE IF ceiling >= as THEN MinRole(ceiling, as) ELSE NoRole
  BY DEF composeEffective, ceiling, RoleSatisfies
<1>5. LET r == composeEffective(p, token, as)
      IN r \in Roles \union {NoRole} /\ (r # NoRole => r <= ceiling /\ ceiling # NoRole)
  <2>1. CASE as = NoRole \/ ceiling = NoRole
    <3>1. composeEffective(p, token, as) = ceiling
      BY <1>4, <2>1
    <3>2. ceiling \in Roles => ceiling <= ceiling
      BY DEF Roles
    <3> QED
      BY <1>2, <3>1, <3>2
  <2>2. CASE as # NoRole /\ ceiling # NoRole
    <3>1. as \in Roles /\ ceiling \in Roles
      BY <1>2, <2>2
    <3>2. composeEffective(p, token, as) \in {MinRole(ceiling, as), NoRole}
      BY <1>4, <2>2
    <3>3. MinRole(ceiling, as) \in Roles /\ MinRole(ceiling, as) <= ceiling
      BY <3>1, MinRoleIsLeast
    <3> QED
      BY <2>2, <3>1, <3>2, <3>3
  <2> QED
    BY <2>1, <2>2
<1>6. ASSUME NEW r \in Roles, ceiling \in Roles, r <= ceiling,
             Declared(p), ceiling <= instance[p], Covers(token, p, ceiling)
      PROVE  r <= instance[p] /\ Covers(token, p, r)
  <2>1. instance[p] \in Roles
    BY <1>1, <1>6 DEF Declared
  <2>2. r <= instance[p]
    BY <1>6, <2>1 DEF Roles
  <2>3. ASSUME token # NoToken
        PROVE  resolveTokenCap(token, p) \in Roles /\ r <= resolveTokenCap(token, p)
    BY <1>6, <2>3 DEF Covers, Roles
  <2> QED
    BY <2>2, <2>3 DEF Covers
<1> QED
  BY <1>2, <1>5, <1>6

(* ---- The operations of the registry ---------------------------------------- *)

\* create() gives a well-formed session that owes nothing.
LEMMA NewIsGood ==
  ASSUME NEW token \in Tokens \union {NoToken}, NEW inst
  PROVE  Good(NewSession(token)) /\ Owed(NewSession(token), inst)
BY DEF NewSession, Good, SessionRecords, Shape, Owed

\* bindSingle names one project, bindMulti a list of them.
Names(mode, ps) ==
  /\ mode \in {"single", "multi"} /\ ps \in SUBSET Projects
  /\ mode = "single" => \E p \in Projects : ps = {p}

\* bindSingle and bindMulti keep a session well-formed and within its caps, and
\* leave its token alone.
LEMMA BindIsGood ==
  ASSUME NEW value, Good(value), Owed(value, instance), instance \in Instances,
         NEW mode, NEW ps, Names(mode, ps),
         NEW as \in Roles \union {NoRole}, NEW source \in {"client_tool", "gateway_pin"}
  PROVE  LET after == bind(value, mode, ps, as, source)
         IN Good(after) /\ Owed(after, instance) /\ after.token = value.token
<1>1. CASE ~MayBind(value, ps, as)
  BY <1>1 DEF bind
<1>2. CASE MayBind(value, ps, as)
  <2> DEFINE roles == [p \in Projects |->
               IF p \in ps THEN composeEffective(p, value.token, as) ELSE NoRole]
             after == [value EXCEPT !.mode = mode, !.projects = ps, !.source = source,
                                    !.roles = roles]
  <2>1. bind(value, mode, ps, as, source) = after
    BY <1>2 DEF bind
  <2> USE DEF Names
  <2>2. value \in SessionRecords /\ value.token \in Tokens \union {NoToken}
    BY DEF Good, SessionRecords
  <2>3. ASSUME NEW p \in ps
        PROVE  /\ roles[p] \in Roles /\ roles[p] # NoRole
               /\ instance[p] # NoRole /\ roles[p] <= instance[p]
               /\ Covers(value.token, p, roles[p])
    <3>1. p \in Projects /\ roles[p] = composeEffective(p, value.token, as)
      OBVIOUS
    <3>2. roles[p] # NoRole
      BY <1>2, <3>1 DEF MayBind
    <3> QED
      BY <2>2, <3>1, <3>2, EffectiveWithinCaps DEF Declared
  <2>4. roles \in [Projects -> Roles \union {NoRole}]
    BY <2>3
  <2>5. \A p \in Projects : p \in ps <=> roles[p] # NoRole
    BY <2>3
  <2>6. ps # {} /\ value.mode = "unbound"
    BY <1>2 DEF MayBind
  <2> HIDE DEF roles
  <2>7. after \in SessionRecords
    BY <2>2, <2>4 DEF SessionRecords
  <2>8. /\ after.mode = mode /\ after.projects = ps /\ after.source = source
        /\ after.roles = roles /\ after.cancelled = value.cancelled
        /\ after.token = value.token
    BY <2>2 DEF SessionRecords
  <2> HIDE DEF after
  <2>9. Shape(after)
    BY <2>5, <2>6, <2>8 DEF Shape
  <2>10. Owed(after, instance)
    BY <2>3, <2>8 DEF Owed
  <2> QED
    BY <2>1, <2>7, <2>8, <2>9, <2>10 DEF Good
<1> QED
  BY <1>1, <1>2

\* What a reload leaves of a session: see Reload.
After(value, removed) == pruneProjectFromWhitelist(cancelByProject(value, removed), removed)

\* cancelByProject and pruneProjectFromWhitelist keep a session well-formed,
\* take from it only projects that were removed, and leave a session that is
\* not cancelled without any of these.
LEMMA AfterIsGood ==
  ASSUME NEW value, Good(value), NEW removed \in SUBSET Projects
  PROVE  LET after == After(value, removed)
         IN /\ Good(after)
            /\ after.mode = value.mode /\ after.source = value.source
            /\ after.token = value.token
            /\ after.projects \subseteq value.projects
            /\ \A p \in after.projects : after.roles[p] = value.roles[p]
            /\ value.cancelled => after.cancelled
            /\ ~after.cancelled => after.projects \cap removed = {}
<1>1. value \in SessionRecords /\ Shape(value)
  BY DEF Good
<1>2. CASE value.mode = "single" /\ value.projects \subseteq removed
  <2> DEFINE after == [value EXCEPT !.cancelled = TRUE]
  <2>1. After(value, removed) = after
    BY <1>1, <1>2 DEF After, cancelByProject, pruneProjectFromWhitelist, SessionRecords
  <2>2. /\ after \in SessionRecords /\ after.cancelled = TRUE
        /\ after.mode = value.mode /\ after.source = value.source
        /\ after.token = value.token /\ after.projects = value.projects
        /\ after.roles = value.roles
    BY <1>1 DEF SessionRecords
  <2>3. Shape(after)
    BY <1>1, <1>2, <2>2 DEF Shape
  <2> QED
    BY <2>1, <2>2, <2>3 DEF Good
<1>3. CASE value.mode = "multi" /\ value.projects \cap removed # {}
  <2> DEFINE roles == [p \in Projects |-> IF p \in removed THEN NoRole ELSE value.roles[p]]
             after == [value EXCEPT !.projects = value.projects \ removed, !.roles = roles,
                         !.cancelled = value.cancelled \/ value.projects \subseteq removed]
  <2>1. After(value, removed) = after
    BY <1>1, <1>3 DEF After, cancelByProject, pruneProjectFromWhitelist, SessionRecords
  <2>2. /\ after \in SessionRecords
        /\ after.mode = value.mode /\ after.source = value.source
        /\ after.token = value.token /\ after.projects = value.projects \ removed
        /\ after.roles = roles
        /\ after.cancelled = (value.cancelled \/ value.projects \subseteq removed)
    BY <1>1 DEF SessionRecords
  <2>3. Shape(after)
    BY <1>1, <1>3, <2>2 DEF Shape, SessionRecords
  <2>4. \A p \in after.projects : after.roles[p] = value.roles[p]
    BY <1>1, <2>2 DEF SessionRecords
  <2>5. after.projects \subseteq value.projects /\ after.projects \cap removed = {}
    BY <2>2
  <2> HIDE DEF after
  <2>6. Good(after)
    BY <2>2, <2>3 DEF Good
  <2> QED
    BY <2>1, <2>2, <2>4, <2>5, <2>6
<1>4. CASE /\ ~(value.mode = "single" /\ value.projects \subseteq removed)
           /\ ~(value.mode = "multi" /\ value.projects \cap removed # {})
  <2>1. After(value, removed) = value
    BY <1>4 DEF After, cancelByProject, pruneProjectFromWhitelist
  <2>2. value.projects \cap removed = {}
    BY <1>1, <1>4 DEF Shape, SessionRecords
  <2> QED
    BY <1>1, <2>1, <2>2
<1> QED
  BY <1>2, <1>3, <1>4

(* ---- The invariant of the registry ----------------------------------------- *)

\* The registry is empty at first.
LEMMA SessionInitInv == SessionInit => SessionInv
BY DEF SessionInit, SessionInv, SessionTypeOK, NotOpened, Instances

\* What is to be shown of a step that concerns one session only.
LEMMA OneSession ==
  ASSUME SessionInv, NEW s \in Sids, NEW value,
         value # Gone => /\ Good(value) /\ Owed(value, instance) /\ entry'[s] = "live"
                         /\ s \notin reborn' => value.token = opened'[s].token,
         sessions' = [sessions EXCEPT ![s] = value],
         \A t \in Sids \ {s} : /\ t \in reborn' <=> t \in reborn
                               /\ opened'[t] = opened[t] /\ entry'[t] = entry[t],
         reborn' \in SUBSET Sids,
         entry' \in [Sids -> {"new", "live", "closed"}],
         opened' \in [Sids -> [token : Tokens \union {NoToken}, pin : Projects \union {NoProject}]],
         UNCHANGED <<instance, booted, reloads>>
  PROVE  SessionInv'
<1>1. SessionTypeOK'
  BY DEF SessionInv, SessionTypeOK, Good
<1>2. ASSUME NEW t \in Sids, sessions'[t] # Gone
      PROVE  /\ Owed(sessions'[t], instance)
             /\ t \notin reborn' => sessions'[t].token = opened'[t].token
             /\ entry'[t] = "live"
  <2>1. CASE t = s
    BY <1>2, <2>1 DEF SessionInv, SessionTypeOK
  <2>2. CASE t # s
    BY <1>2, <2>2 DEF SessionInv, SessionTypeOK
  <2> QED
    BY <2>1, <2>2
<1>3. instance' = instance
  OBVIOUS
<1> QED
  BY <1>1, <1>2, <1>3 DEF SessionInv

LEMMA OpenInv ==
  ASSUME SessionInv, NEW s \in Sids, NEW token \in Tokens \union {NoToken},
         NEW pin \in Projects \union {NoProject}, Open(s, token, pin)
  PROVE  SessionInv'
<1> DEFINE value == IF pin = NoProject THEN NewSession(token)
                    ELSE bind(NewSession(token), "single", {pin}, NoRole, "gateway_pin")
<1>1. instance \in Instances /\ entry \in [Sids -> {"new", "live", "closed"}]
      /\ opened \in [Sids -> [token : Tokens \union {NoToken}, pin : Projects \union {NoProject}]]
      /\ reborn \in SUBSET Sids
  BY DEF SessionInv, SessionTypeOK
<1>2. Good(NewSession(token)) /\ Owed(NewSession(token), instance)
  BY NewIsGood
<1>3. NewSession(token).token = token
  BY DEF NewSession
<1>4. Good(value) /\ Owed(value, instance) /\ value.token = token
  <2>1. CASE pin = NoProject
    BY <1>2, <1>3, <2>1
  <2>2. CASE pin # NoProject
    <3>1. Names("single", {pin}) /\ NoRole \in Roles \union {NoRole}
      BY <2>2 DEF Names
    <3>2. LET after == bind(NewSession(token), "single", {pin}, NoRole, "gateway_pin")
          IN Good(after) /\ Owed(after, instance) /\ after.token = NewSession(token).token
      BY <1>1, <1>2, <3>1, BindIsGood
    <3> QED
      BY <1>3, <2>2, <3>2
  <2> QED
    BY <2>1, <2>2
<1>5. sessions' = [sessions EXCEPT ![s] = value]
  BY DEF Open
<1> HIDE DEF value
<1>6. /\ opened' = [opened EXCEPT ![s] = [token |-> token, pin |-> pin]]
      /\ entry' = [entry EXCEPT ![s] = "live"]
      /\ UNCHANGED <<instance, booted, reborn, reloads>>
  BY DEF Open
<1>7. opened'[s].token = token /\ entry'[s] = "live"
  BY <1>1, <1>6
<1> QED
  BY <1>1, <1>4, <1>5, <1>6, <1>7, OneSession

\* The registry's session of s, created if it is not there.
LEMMA CreatedIsGood ==
  ASSUME SessionInv, NEW s \in Sids
  PROVE  /\ Good(created(s)) /\ Owed(created(s), instance)
         /\ s \notin (IF sessions[s] = Gone THEN reborn \union {s} ELSE reborn)
              => created(s).token = opened[s].token
<1>1. CASE sessions[s] = Gone
  BY <1>1, NewIsGood DEF created
<1>2. CASE sessions[s] # Gone
  BY <1>2 DEF created, SessionInv, SessionTypeOK, Good
<1> QED
  BY <1>1, <1>2

\* Both binding tools.
LEMMA BindInv ==
  ASSUME SessionInv, NEW s \in Sids, entry[s] = "live",
         NEW mode, NEW ps, Names(mode, ps), NEW as \in Roles \union {NoRole},
         sessions' = [sessions EXCEPT ![s] = bind(created(s), mode, ps, as, "client_tool")],
         Touched(s), UNCHANGED <<instance, booted, entry, opened, reloads>>
  PROVE  SessionInv'
<1> DEFINE before == created(s)
           value == bind(before, mode, ps, as, "client_tool")
<1>1. instance \in Instances
  BY DEF SessionInv, SessionTypeOK
<1>2. Good(value) /\ Owed(value, instance) /\ value.token = created(s).token
  <2>1. Good(before) /\ Owed(before, instance)
    BY CreatedIsGood
  <2> HIDE DEF before
  <2>2. "client_tool" \in {"client_tool", "gateway_pin"}
    OBVIOUS
  <2>3. Good(value) /\ Owed(value, instance) /\ value.token = before.token
    BY <1>1, <2>1, <2>2, BindIsGood
  <2> QED
    BY <2>3 DEF before
<1>3. sessions' = [sessions EXCEPT ![s] = value]
  OBVIOUS
<1> HIDE DEF value
<1>4. reborn' = IF sessions[s] = Gone THEN reborn \union {s} ELSE reborn
  BY DEF Touched
<1>5. /\ \A t \in Sids \ {s} : t \in reborn' <=> t \in reborn
      /\ reborn' \in SUBSET Sids
      /\ opened' = opened /\ entry' = entry
      /\ opened \in [Sids -> [token : Tokens \union {NoToken}, pin : Projects \union {NoProject}]]
      /\ entry \in [Sids -> {"new", "live", "closed"}]
  BY <1>4 DEF SessionInv, SessionTypeOK
<1>6. s \notin reborn' => value.token = opened'[s].token
  BY <1>2, <1>4, <1>5, CreatedIsGood
<1> QED
  BY <1>2, <1>3, <1>5, <1>6, OneSession

LEMMA SessionCallInv ==
  ASSUME SessionInv, NEW s \in Sids, CallCancelled(s) \/ CallUnknown(s)
  PROVE  SessionInv'
<1>1. /\ opened \in [Sids -> [token : Tokens \union {NoToken}, pin : Projects \union {NoProject}]]
      /\ entry \in [Sids -> {"new", "live", "closed"}] /\ reborn \in SUBSET Sids
  BY DEF SessionInv, SessionTypeOK
<1>2. CASE CallCancelled(s)
  BY <1>1, <1>2, OneSession DEF CallCancelled
<1>3. CASE CallUnknown(s)
  <2>1. /\ sessions' = [sessions EXCEPT ![s] = created(s)]
        /\ reborn' = IF sessions[s] = Gone THEN reborn \union {s} ELSE reborn
        /\ UNCHANGED <<instance, booted, entry, opened, reloads>>
    BY <1>3 DEF CallUnknown, Touched
  <2>2. /\ Good(created(s)) /\ Owed(created(s), instance)
        /\ s \notin reborn' => created(s).token = opened'[s].token
    BY <2>1, CreatedIsGood
  <2>3. /\ \A t \in Sids \ {s} : t \in reborn' <=> t \in reborn
        /\ reborn' \in SUBSET Sids
    BY <1>1, <2>1
  <2> QED
    BY <1>1, <1>3, <2>1, <2>2, <2>3, OneSession DEF CallUnknown
<1> QED
  BY <1>2, <1>3

LEMMA CloseInv ==
  ASSUME SessionInv, NEW s \in Sids, Close(s)
  PROVE  SessionInv'
<1>1. /\ opened \in [Sids -> [token : Tokens \union {NoToken}, pin : Projects \union {NoProject}]]
      /\ entry \in [Sids -> {"new", "live", "closed"}] /\ reborn \in SUBSET Sids
  BY DEF SessionInv, SessionTypeOK
<1>2. /\ sessions' = [sessions EXCEPT ![s] = Gone]
      /\ opened' = [opened EXCEPT ![s] = NotOpened]
      /\ entry' = [entry EXCEPT ![s] = "closed"]
      /\ reborn' = reborn \ {s}
      /\ UNCHANGED <<instance, booted, reloads>>
  BY DEF Close
<1>3. NotOpened \in [token : Tokens \union {NoToken}, pin : Projects \union {NoProject}]
  BY DEF NotOpened
<1>4. /\ opened' \in [Sids -> [token : Tokens \union {NoToken}, pin : Projects \union {NoProject}]]
      /\ entry' \in [Sids -> {"new", "live", "closed"}] /\ reborn' \in SUBSET Sids
      /\ \A t \in Sids \ {s} : /\ t \in reborn' <=> t \in reborn
                             /\ opened'[t] = opened[t] /\ entry'[t] = entry[t]
  BY <1>1, <1>2, <1>3
<1> QED
  BY <1>2, <1>4, OneSession

\* A project that stays declared keeps its role, so the sessions bound to it
\* stay within it; those of a removed one lose it or are cancelled.
LEMMA ReloadInv ==
  ASSUME SessionInv, NEW new \in Instances, Reload(new)
  PROVE  SessionInv'
<1> DEFINE removed == {p \in Projects : Declared(p) /\ new[p] = NoRole}
<1>1. /\ sessions' = [s \in Sids |-> IF sessions[s] = Gone THEN Gone
                                      ELSE After(sessions[s], removed)]
      /\ instance' = new /\ reloads' = reloads + 1 /\ reloads < MaxReloads
      /\ ~Mutates(new)
      /\ UNCHANGED <<booted, entry, opened, reborn>>
  BY DEF Reload, After
<1>2. instance \in Instances /\ reloads \in 0..MaxReloads
  BY DEF SessionInv, SessionTypeOK
<1>3. ASSUME NEW s \in Sids, sessions'[s] # Gone
      PROVE  /\ Good(sessions'[s]) /\ Owed(sessions'[s], new)
             /\ s \notin reborn => sessions'[s].token = opened[s].token
             /\ entry[s] = "live"
  <2> DEFINE value == sessions[s]
             after == After(value, removed)
  <2>1. value # Gone /\ sessions'[s] = after
    BY <1>1, <1>3
  <2>2. /\ Good(value) /\ Owed(value, instance) /\ entry[s] = "live"
        /\ s \notin reborn => value.token = opened[s].token
    BY <2>1 DEF SessionInv, SessionTypeOK, Good
  <2>3. removed \in SUBSET Projects
    OBVIOUS
  <2> HIDE DEF value, removed
  <2>4. /\ Good(after)
        /\ after.token = value.token
        /\ after.projects \subseteq value.projects
        /\ \A p \in after.projects : after.roles[p] = value.roles[p]
        /\ value.cancelled => after.cancelled
        /\ ~after.cancelled => after.projects \cap removed = {}
    BY <2>2, <2>3, AfterIsGood
  <2>5. after.projects \subseteq Projects
    BY <2>4 DEF Good, SessionRecords
  <2> HIDE DEF after
  <2>6. ASSUME ~after.cancelled, NEW p \in after.projects
        PROVE  new[p] # NoRole /\ after.roles[p] <= new[p]
    <3>1. instance[p] # NoRole /\ value.roles[p] <= instance[p]
      BY <2>2, <2>4, <2>6 DEF Owed
    <3>2. p \notin removed /\ p \in Projects
      BY <2>4, <2>5, <2>6
    <3>3. new[p] # NoRole
      BY <3>1, <3>2 DEF removed, Declared
    <3>4. new[p] = instance[p]
      BY <1>1, <3>1, <3>2, <3>3 DEF Mutates
    <3> QED
      BY <2>4, <2>6, <3>1, <3>3, <3>4
  <2>7. \A p \in after.projects : Covers(after.token, p, after.roles[p])
    BY <2>2, <2>4 DEF Owed
  <2> QED
    BY <2>1, <2>2, <2>4, <2>6, <2>7 DEF Owed
<1>4. reloads' \in 0..MaxReloads
  BY <1>1, <1>2
<1>5. SessionTypeOK'
  <2>1. sessions' \in [Sids -> SessionRecords \union {Gone}]
    <3>1. ASSUME NEW s \in Sids
          PROVE  sessions'[s] \in SessionRecords \union {Gone}
      BY <1>3 DEF Good
    <3> QED
      BY <1>1, <3>1
  <2>2. \A s \in Sids : sessions'[s] # Gone => Shape(sessions'[s])
    BY <1>3 DEF Good
  <2> QED
    BY <1>1, <1>2, <1>4, <2>1, <2>2 DEF SessionInv, SessionTypeOK
<1> QED
  BY <1>1, <1>3, <1>5 DEF SessionInv

LEMMA SessionNextInv == SessionInv /\ [SessionNext]_registryVars => SessionInv'
<1> SUFFICES ASSUME SessionInv, [SessionNext]_registryVars
             PROVE  SessionInv'
  OBVIOUS
<1>1. ASSUME NEW s \in Sids, NEW token \in Tokens \union {NoToken},
             NEW pin \in Projects \union {NoProject}, Open(s, token, pin)
      PROVE  SessionInv'
  BY <1>1, OpenInv
<1>2. ASSUME NEW s \in Sids, NEW as \in Roles \union {NoRole}, NEW p \in Projects,
             UseProject(s, p, as)
      PROVE  SessionInv'
  <2>1. Names("single", {p})
    BY DEF Names
  <2> QED
    BY <1>2, <2>1, BindInv DEF UseProject
<1>3. ASSUME NEW s \in Sids, NEW as \in Roles \union {NoRole}, NEW ps \in SUBSET Projects,
             UseProjects(s, ps, as)
      PROVE  SessionInv'
  <2>1. Names("multi", ps)
    BY DEF Names
  <2> QED
    BY <1>3, <2>1, BindInv DEF UseProjects
<1>4. ASSUME NEW s \in Sids, CallCancelled(s) \/ CallUnknown(s)
      PROVE  SessionInv'
  BY <1>4, SessionCallInv
<1>5. ASSUME NEW s \in Sids, Close(s)
      PROVE  SessionInv'
  BY <1>5, CloseInv
<1>6. ASSUME NEW new \in Instances, Reload(new)
      PROVE  SessionInv'
  BY <1>6, ReloadInv
<1>7. CASE UNCHANGED registryVars
  BY <1>7 DEF registryVars, SessionInv, SessionTypeOK, Owed, Covers
<1> QED
  BY <1>1, <1>2, <1>3, <1>4, <1>5, <1>6, <1>7 DEF SessionNext

(* ---- The theorems about sessions ------------------------------------------- *)

\* The registry, the transport's entries and the instances keep their types, and
\* every session in the registry its shape.
THEOREM SessionTypeCorrect == SessionSpec => []SessionTypeOK
<1>1. SessionInv => SessionTypeOK
  BY DEF SessionInv
<1> QED
  BY SessionInitInv, SessionNextInv, <1>1, PTL DEF SessionSpec

\* A session that is not cancelled is bound to declared projects only, through
\* any number of reloads.
THEOREM BoundIsDeclaredHolds == SessionSpec => []BoundIsDeclared
<1>1. SessionInv => BoundIsDeclared
  BY DEF SessionInv, Owed, BoundIsDeclared, Declared
<1> QED
  BY SessionInitInv, SessionNextInv, <1>1, PTL DEF SessionSpec

\* withEngine lets a call through only within the role its project declares at
\* that moment and within the cap of the session's token.
THEOREM ServedWithinCapsHolds == SessionSpec => []ServedWithinCaps
<1>1. SessionInv => ServedWithinCaps
  <2> SUFFICES ASSUME SessionInv, NEW s \in Sids, NEW p \in Projects, NEW need \in Roles,
                      Serves(s, p, need)
               PROVE  /\ Declared(p) /\ RoleSatisfies(instance[p], need)
                      /\ s \notin reborn /\ opened[s].token # NoToken =>
                           /\ resolveTokenCap(opened[s].token, p) # NoRole
                           /\ RoleSatisfies(resolveTokenCap(opened[s].token, p), need)
    BY DEF ServedWithinCaps
  <2> DEFINE value == sessions[s]
  <2>1. /\ value \in SessionRecords /\ Owed(value, instance)
        /\ s \notin reborn => value.token = opened[s].token
    BY DEF Serves, SessionInv, SessionTypeOK
  <2>2. /\ p \in value.projects /\ ~value.cancelled
        /\ value.roles[p] # NoRole /\ value.roles[p] >= need
    BY DEF Serves, RoleSatisfies
  <2> HIDE DEF value
  <2>3. value.roles[p] \in Roles
    BY <2>1, <2>2 DEF SessionRecords
  <2>4. instance[p] # NoRole /\ value.roles[p] <= instance[p]
    BY <2>1, <2>2 DEF Owed
  <2>5. instance[p] \in Roles
    BY <2>4 DEF SessionInv, SessionTypeOK, Instances
  <2>6. Declared(p) /\ RoleSatisfies(instance[p], need)
    BY <2>2, <2>3, <2>4, <2>5 DEF Declared, RoleSatisfies, Roles
  <2>7. ASSUME s \notin reborn, opened[s].token # NoToken
        PROVE  /\ resolveTokenCap(opened[s].token, p) # NoRole
               /\ RoleSatisfies(resolveTokenCap(opened[s].token, p), need)
    <3> DEFINE cap == resolveTokenCap(opened[s].token, p)
    <3>1. cap \in Roles /\ value.roles[p] <= cap
      BY <2>1, <2>2, <2>7 DEF Owed, Covers
    <3> HIDE DEF cap
    <3>2. cap # NoRole
      BY <3>1
    <3>3. cap >= need
      BY <2>2, <2>3, <3>1, SatisfiesUp
    <3> QED
      BY <3>2, <3>3 DEF cap, RoleSatisfies
  <2> QED
    BY <2>6, <2>7
<1> QED
  BY SessionInitInv, SessionNextInv, <1>1, PTL DEF SessionSpec

\* What a step may do to a session that is bound.
Shrinks(before, after) ==
  /\ after.mode = before.mode /\ after.source = before.source
  /\ after.projects \subseteq before.projects
  /\ \A p \in after.projects : after.roles[p] = before.roles[p]
  /\ before.cancelled => after.cancelled

\* A bound session is refused by bindSingle and bindMulti.
LEMMA BoundRefuses ==
  ASSUME NEW s \in Sids, sessions[s] # Gone, sessions[s].mode # "unbound",
         NEW mode, NEW ps, NEW as, NEW source
  PROVE  bind(created(s), mode, ps, as, source) = sessions[s]
BY DEF created, bind, MayBind

\* Nothing but a reload changes a bound session, and a reload only takes
\* projects from it or cancels it; it can never bind again.
THEOREM BindingOnlyShrinksHolds == SessionSpec => BindingOnlyShrinks
<1>1. ASSUME SessionInv, [SessionNext]_registryVars,
             NEW s \in Sids, sessions[s] # Gone, sessions'[s] # Gone, sessions[s].mode # "unbound"
      PROVE  Shrinks(sessions[s], sessions'[s])
  <2>1. /\ sessions \in [Sids -> SessionRecords \union {Gone}]
        /\ Good(sessions[s]) /\ entry[s] = "live"
    BY <1>1 DEF SessionInv, SessionTypeOK, Good
  <2>2. sessions'[s] = sessions[s] => Shrinks(sessions[s], sessions'[s])
    BY DEF Shrinks
  <2>3. ASSUME NEW t \in Sids, NEW token \in Tokens \union {NoToken},
               NEW pin \in Projects \union {NoProject}, Open(t, token, pin)
        PROVE  sessions'[s] = sessions[s]
    BY <2>1, <2>3 DEF Open
  <2>4. ASSUME NEW t \in Sids, NEW as \in Roles \union {NoRole}, NEW p \in Projects,
               UseProject(t, p, as)
        PROVE  sessions'[s] = sessions[s]
    <3>1. sessions' = [sessions EXCEPT ![t] = bind(created(t), "single", {p}, as, "client_tool")]
      BY <2>4 DEF UseProject
    <3>2. CASE t = s
      <4>1. bind(created(s), "single", {p}, as, "client_tool") = sessions[s]
        BY <1>1, BoundRefuses
      <4> QED
        BY <2>1, <3>1, <3>2, <4>1
    <3>3. CASE t # s
      BY <2>1, <3>1, <3>3
    <3> QED
      BY <3>2, <3>3
  <2>5. ASSUME NEW t \in Sids, NEW as \in Roles \union {NoRole}, NEW ps \in SUBSET Projects,
               UseProjects(t, ps, as)
        PROVE  sessions'[s] = sessions[s]
    <3>1. sessions' = [sessions EXCEPT ![t] = bind(created(t), "multi", ps, as, "client_tool")]
      BY <2>5 DEF UseProjects
    <3>2. CASE t = s
      <4>1. bind(created(s), "multi", ps, as, "client_tool") = sessions[s]
        BY <1>1, BoundRefuses
      <4> QED
        BY <2>1, <3>1, <3>2, <4>1
    <3>3. CASE t # s
      BY <2>1, <3>1, <3>3
    <3> QED
      BY <3>2, <3>3
  <2>6. ASSUME NEW t \in Sids, CallCancelled(t) \/ CallUnknown(t) \/ Close(t)
        PROVE  sessions'[s] = sessions[s]
    BY <1>1, <2>1, <2>6 DEF CallCancelled, CallUnknown, Close
  <2>7. ASSUME NEW new \in Instances, Reload(new)
        PROVE  Shrinks(sessions[s], sessions'[s])
    <3> DEFINE removed == {p \in Projects : Declared(p) /\ new[p] = NoRole}
    <3>1. sessions'[s] = After(sessions[s], removed)
      BY <1>1, <2>7 DEF Reload, After
    <3>2. removed \in SUBSET Projects
      OBVIOUS
    <3> HIDE DEF removed
    <3> QED
      BY <2>1, <3>1, <3>2, AfterIsGood DEF Shrinks
  <2>8. CASE UNCHANGED registryVars
    BY <2>2, <2>8 DEF registryVars
  <2> QED
    BY <1>1, <2>2, <2>3, <2>4, <2>5, <2>6, <2>7, <2>8 DEF SessionNext
<1>2. SessionInv /\ [SessionNext]_registryVars =>
        \A s \in Sids :
          sessions[s] # Gone /\ sessions'[s] # Gone /\ sessions[s].mode # "unbound" =>
            Shrinks(sessions[s], sessions'[s])
  BY <1>1
<1>3. SessionInv /\ [SessionNext]_registryVars =>
        [\A s \in Sids :
           sessions[s] # Gone /\ sessions'[s] # Gone /\ sessions[s].mode # "unbound" =>
             /\ sessions'[s].mode = sessions[s].mode
             /\ sessions'[s].source = sessions[s].source
             /\ sessions'[s].projects \subseteq sessions[s].projects
             /\ \A p \in sessions'[s].projects : sessions'[s].roles[p] = sessions[s].roles[p]
             /\ sessions[s].cancelled => sessions'[s].cancelled]_registryVars
  BY <1>2 DEF Shrinks
<1> QED
  BY SessionInitInv, SessionNextInv, <1>3, PTL DEF SessionSpec, BindingOnlyShrinks
=============================================================================
