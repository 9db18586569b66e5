-------------------------- MODULE EngineCtrlProofs --------------------------
(***************************************************************************)
(* IndInv is an invariant of the engine controller for every number of     *)
(* callers and calls and every choice of the delays that meets the         *)
(* assumptions; the safety properties and the starter interlock follow.    *)
(***************************************************************************)
EXTENDS EngineCtrlProps, TLAPS

USE DEF Ready, MoveChoke, MutexFree, Armed

-----------------------------------------------------------------------------
(* The choke.                                                              *)

\* The range of the time a reset takes.
LEMMA DueRange == 0 \in 0..ResetTime /\ ResetTime \in 0..ResetTime
BY DEF ResetTime

\* The choke starts as a choke.
LEMMA ChokeAtInitTyped == ChokeAtInit \in ChokeType
BY DueRange DEF ChokeAtInit, ChokeType

\* Setting a choke's controller and timer keeps it a choke.
LEMMA DriveTyped ==
  ASSUME NEW c \in ChokeType, NEW mode \in {"MOVING", "RESETTING"},
         NEW time \in 0..ResetTime
  PROVE  Drive(c, mode, time) \in ChokeType
<1>1. [c EXCEPT !.state = "IDLE", !.due = 0] \in ChokeType
  BY DueRange DEF ChokeType
<1>2. [c EXCEPT !.state = mode, !.armed = TRUE, !.due = time] \in ChokeType
  BY DEF ChokeType
<1>3. QED
  BY <1>1, <1>2 DEF Drive

\* The operations on the choke return a choke.
LEMMA ChokeTyped ==
  ASSUME NEW c \in ChokeType, NEW b \in BOOLEAN
  PROVE  /\ ChokeAtInit \in ChokeType
         /\ ResetPosition(c) \in ChokeType
         /\ MoveToPosition(c, b) \in ChokeType
         /\ ResetDone(c) \in ChokeType
         /\ Elapse(c) \in ChokeType
<1>1. ChokeAtInit \in ChokeType
  BY ChokeAtInitTyped
<1>2. ResetPosition(c) \in ChokeType
  <2>1. [c EXCEPT !.armed = FALSE] \in ChokeType
    BY DEF ChokeType
  <2>2. QED
    BY <2>1, DueRange, DriveTyped DEF ResetPosition
<1>3. MoveToPosition(c, b) \in ChokeType
  <2>1. Drive(c, "MOVING", 0) \in ChokeType
    BY DueRange, DriveTyped
  <2>2. ASSUME NEW d \in ChokeType, NEW s \in BOOLEAN
        PROVE  [d EXCEPT !.shut = s] \in ChokeType
    BY DEF ChokeType
  <2>3. [Drive(c, "MOVING", 0) EXCEPT !.shut = FALSE] \in ChokeType
    BY <2>1, <2>2
  <2>4. c.armed => [Drive(c, "MOVING", 0) EXCEPT !.shut = @] \in ChokeType
    <3>1. Drive(c, "MOVING", 0).shut \in BOOLEAN
      BY <2>1 DEF ChokeType
    <3>2. QED
      BY <2>1, <2>2, <3>1
  <2>5. QED
    BY <2>1, <2>2, <2>3, <2>4 DEF MoveToPosition
<1>4. ResetDone(c) \in ChokeType
  BY DEF ResetDone, ChokeType
<1>5. Elapse(c) \in ChokeType
  <2>1. (IF c.due = 0 THEN 0 ELSE c.due - 1) \in 0..ResetTime
    BY DEF ChokeType, ResetTime
  <2>2. ASSUME NEW t \in 0..ResetTime
        PROVE  [c EXCEPT !.due = t] \in ChokeType
    BY DEF ChokeType
  <2>3. QED
    BY <2>1, <2>2 DEF Elapse
<1>6. QED
  BY <1>1, <1>2, <1>3, <1>4, <1>5
-----------------------------------------------------------------------------
(* Facts of every state the invariant allows.                              *)

\* With the mutex free no caller is inside a critical section.
LEMMA NobodyInside ==
  ASSUME IndInv, MutexFree, NEW c \in Callers
  PROVE  pc[c] \notin {"commit", "kill", "post"}
BY CallersAssumption DEF IndInv, LockHeld

\* The relay is closed only in service.
LEMMA RelayInService == IndInv /\ relay => Ready
BY DEF IndInv, TypeOK, Stages, UnreadyIsQuiet, ShutIsSafe

\* A callback is under way only in service or while the controller shuts down.
LEMMA CallbackInService ==
  ASSUME IndInv, AtCallback
  PROVE  Ready \/ stage = "closing"
BY DEF IndInv, TypeOK, Stages, UnreadyIsQuiet, AtCallback

\* And every step of a start but the first is made in service.
LEMMA StepInService ==
  ASSUME IndInv, AtCallback, state = "STARTING", startSeq # "CHOKE_RESET"
  PROVE  Ready
BY CallbackInService, NobodyInside DEF IndInv, ShutIsSafe, AtCallback

-----------------------------------------------------------------------------
(* The inductive invariant, action by action: first the parts the action   *)
(* can disturb, then those that it does not touch or that hold unaided.    *)

\* engine_controller_init up to the choke keeps IndInv.
LEMMA InitBeginKeeps ==
  ASSUME IndInv, InitBegin
  PROVE  IndInv'
<1> USE DEF IndInv, InitBegin, OpenRelay, timers, callers, timerSide
<1>1. TypeOK'
  BY ChokeTyped DEF TypeOK, Disarmed, States, Stages
<1>2. /\ UnreadyIsQuiet' /\ ShutIsSafe' /\ LockHeld' /\ OwnerKnows' /\ CallbackHasTime'
      /\ HandlerSeesRest' /\ OneStepAhead' /\ LagBounded' /\ StartNeverStranded'
      /\ StarterGuarded' /\ CrankClock' /\ PulsesCounted' /\ EmergencyHolds'
  BY DEF UnreadyIsQuiet, ShutIsSafe, LockHeld, OwnerKnows, CallbackHasTime, HandlerSeesRest,
      OneStepAhead, LagBounded, StartNeverStranded, StarterGuarded, CrankClock,
      PulsesCounted, EmergencyHolds, Disarmed, StepPending
<1>3. QED
  BY <1>1, <1>2

\* The creation of the timers keeps IndInv.
LEMMA InitTimersKeeps ==
  ASSUME IndInv, InitTimers
  PROVE  IndInv'
<1> USE DEF IndInv, InitTimers, outputs, timers, callers, timerSide
<1>1. TypeOK'
  BY ChokeTyped DEF TypeOK, Disarmed, States, Stages
<1>2. /\ UnreadyIsQuiet' /\ ShutIsSafe' /\ LockHeld' /\ OwnerKnows' /\ CallbackHasTime'
      /\ HandlerSeesRest' /\ OneStepAhead' /\ LagBounded' /\ StartNeverStranded'
      /\ StarterGuarded' /\ CrankClock' /\ PulsesCounted' /\ EmergencyHolds'
  BY DEF UnreadyIsQuiet, ShutIsSafe, LockHeld, OwnerKnows, CallbackHasTime, HandlerSeesRest,
      OneStepAhead, LagBounded, StartNeverStranded, StarterGuarded, CrankClock,
      PulsesCounted, EmergencyHolds, Disarmed, StepPending
<1>3. QED
  BY <1>1, <1>2

\* The end of engine_controller_init keeps IndInv.
LEMMA InitDoneKeeps ==
  ASSUME IndInv, InitDone
  PROVE  IndInv'
<1> USE DEF IndInv, InitDone, outputs, timers, callers, timerSide
<1>1. TypeOK'
  BY ChokeTyped DEF TypeOK, Disarmed, States, Stages
<1>2. /\ UnreadyIsQuiet' /\ ShutIsSafe' /\ LockHeld' /\ OwnerKnows' /\ CallbackHasTime'
      /\ HandlerSeesRest' /\ OneStepAhead' /\ LagBounded' /\ StartNeverStranded'
      /\ StarterGuarded' /\ CrankClock' /\ PulsesCounted' /\ EmergencyHolds'
  BY DEF UnreadyIsQuiet, ShutIsSafe, LockHeld, OwnerKnows, CallbackHasTime, HandlerSeesRest,
      OneStepAhead, LagBounded, StartNeverStranded, StarterGuarded, CrankClock,
      PulsesCounted, EmergencyHolds, Disarmed, StepPending
<1>3. QED
  BY <1>1, <1>2

\* engine_controller_deinit, whatever call is under way, keeps IndInv.
LEMMA DeinitBeginKeeps ==
  ASSUME IndInv, DeinitBegin
  PROVE  IndInv'
<1> USE DEF IndInv, DeinitBegin, OpenRelay, callers, timerSide
<1>1. TypeOK'
  BY ChokeTyped DEF TypeOK, Disarmed, States, Stages
<1>2. ShutIsSafe'
  BY DEF TimerTaskYields, ShutIsSafe, LockHeld, OwnerKnows, TypeOK
<1>3. /\ UnreadyIsQuiet' /\ LockHeld' /\ OwnerKnows' /\ CallbackHasTime'
      /\ HandlerSeesRest' /\ OneStepAhead' /\ LagBounded' /\ StartNeverStranded'
      /\ StarterGuarded' /\ CrankClock' /\ PulsesCounted' /\ EmergencyHolds'
  BY DEF UnreadyIsQuiet, LockHeld, OwnerKnows, CallbackHasTime, HandlerSeesRest,
      OneStepAhead, LagBounded, StartNeverStranded, StarterGuarded, CrankClock,
      PulsesCounted, EmergencyHolds, Disarmed, StepPending
<1>4. QED
  BY <1>1, <1>2, <1>3

\* The deletion of the mutex keeps IndInv.
LEMMA DeinitEndKeeps ==
  ASSUME IndInv, DeinitEnd
  PROVE  IndInv'
<1> USE DEF IndInv, DeinitEnd, outputs, timers, callers, timerSide
<1>1. TypeOK'
  BY ChokeTyped DEF TypeOK, Disarmed, States, Stages
<1>2. /\ UnreadyIsQuiet' /\ ShutIsSafe' /\ LockHeld' /\ OwnerKnows' /\ CallbackHasTime'
      /\ HandlerSeesRest' /\ OneStepAhead' /\ LagBounded' /\ StartNeverStranded'
      /\ StarterGuarded' /\ CrankClock' /\ PulsesCounted' /\ EmergencyHolds'
  BY CallersAssumption DEF UnreadyIsQuiet, ShutIsSafe, LockHeld, OwnerKnows, CallbackHasTime,
                           HandlerSeesRest,
      OneStepAhead, LagBounded, StartNeverStranded, StarterGuarded, CrankClock,
      PulsesCounted, EmergencyHolds, Disarmed, StepPending
<1>3. QED
  BY <1>1, <1>2

\* A restart keeps IndInv.
LEMMA AbortKeeps ==
  ASSUME IndInv, Abort
  PROVE  IndInv'
<1> USE DEF IndInv, Abort, OpenRelay
<1>1. TypeOK'
  BY ChokeTyped, TimesAssumption, CallersAssumption DEF TypeOK, Disarmed, States, Stages,
         Events, Requests
<1>2. /\ UnreadyIsQuiet' /\ ShutIsSafe' /\ LockHeld' /\ OwnerKnows' /\ CallbackHasTime'
      /\ HandlerSeesRest' /\ OneStepAhead' /\ LagBounded' /\ StartNeverStranded'
      /\ StarterGuarded' /\ CrankClock' /\ PulsesCounted' /\ EmergencyHolds'
  BY CallersAssumption DEF UnreadyIsQuiet, ShutIsSafe, LockHeld, OwnerKnows, CallbackHasTime,
                           HandlerSeesRest,
      OneStepAhead, LagBounded, StartNeverStranded, StarterGuarded, CrankClock,
      PulsesCounted, EmergencyHolds, Disarmed, StepPending
<1>3. QED
  BY <1>1, <1>2

\* A task that enters the interface keeps IndInv.
LEMMA CallKeeps ==
  ASSUME NEW c \in Callers, NEW request \in Requests, IndInv, Call(c, request)
  PROVE  IndInv'
<1> USE DEF IndInv, Call, Initialized, Goto, controller, outputs, timers, timerSide
<1>1. TypeOK'
  BY TimesAssumption DEF TypeOK
<1>2. ShutIsSafe'
  BY DEF ShutIsSafe, TypeOK
<1>3. /\ UnreadyIsQuiet' /\ LockHeld' /\ OwnerKnows' /\ CallbackHasTime'
      /\ HandlerSeesRest' /\ OneStepAhead' /\ LagBounded' /\ StartNeverStranded'
      /\ StarterGuarded' /\ CrankClock' /\ PulsesCounted' /\ EmergencyHolds'
  BY DEF UnreadyIsQuiet, LockHeld, OwnerKnows, CallbackHasTime, HandlerSeesRest,
      OneStepAhead, LagBounded, StartNeverStranded, StarterGuarded, CrankClock,
      PulsesCounted, EmergencyHolds, Disarmed, StepPending, CrankLimit
<1>4. QED
  BY <1>1, <1>2, <1>3

\* A request that gives up waiting for ctrl_mutex keeps IndInv.
LEMMA LockTimeoutKeeps ==
  ASSUME NEW c \in Callers, IndInv, LockTimeout(c)
  PROVE  IndInv'
<1> USE DEF IndInv, LockTimeout, Goto, controller, outputs, timers, timerSide
<1>1. /\ TypeOK' /\ UnreadyIsQuiet' /\ ShutIsSafe' /\ LockHeld' /\ OwnerKnows' /\ CallbackHasTime'
      /\ HandlerSeesRest' /\ OneStepAhead' /\ LagBounded' /\ StartNeverStranded'
      /\ StarterGuarded' /\ CrankClock' /\ PulsesCounted' /\ EmergencyHolds'
  BY DEF TypeOK, UnreadyIsQuiet, ShutIsSafe, LockHeld, OwnerKnows, CallbackHasTime, HandlerSeesRest,
      OneStepAhead, LagBounded, StartNeverStranded, StarterGuarded, CrankClock,
      PulsesCounted, EmergencyHolds, States, Events, Disarmed, StepPending,
      CrankLimit
<1>2. QED
  BY <1>1

\* engine_start up to its first write keeps IndInv.
LEMMA StartCheckKeeps ==
  ASSUME NEW c \in Callers, IndInv, StartCheck(c)
  PROVE  IndInv'
<1> USE DEF IndInv, StartCheck, AtLock, Return, PostHolding, Hold, Goto, controller,
    outputs, timers, timerSide
<1>1. TypeOK'
  BY TimesAssumption DEF TypeOK, Events
<1>2. LockHeld'
  BY CallersAssumption DEF LockHeld, TypeOK
<1>3. OwnerKnows'
  BY DEF OwnerKnows, TypeOK
<1>4. EmergencyHolds'
  BY CallersAssumption DEF EmergencyHolds, TypeOK
<1>5. ShutIsSafe'
  BY DEF ShutIsSafe, TypeOK
<1>6. /\ UnreadyIsQuiet' /\ CallbackHasTime' /\ HandlerSeesRest' /\ OneStepAhead'
      /\ LagBounded' /\ StartNeverStranded' /\ StarterGuarded' /\ CrankClock'
      /\ PulsesCounted'
  BY DEF UnreadyIsQuiet, CallbackHasTime, HandlerSeesRest, OneStepAhead, LagBounded,
      StartNeverStranded, StarterGuarded, CrankClock, PulsesCounted,
      Disarmed, StepPending, CrankLimit
<1>7. QED
  BY <1>1, <1>2, <1>3, <1>4, <1>5, <1>6

\* engine_start after its checks, the refused timer included, keeps IndInv.
LEMMA StartCommitKeeps ==
  ASSUME NEW c \in Callers, IndInv, StartCommit(c)
  PROVE  IndInv'
<1> USE DEF IndInv, StartCommit, PostHolding, Hold, Goto, Return, timerSide
<1>1. TypeOK'
  BY TimesAssumption DEF TypeOK, States, Events, StartSteps
<1>2. LockHeld'
  BY CallersAssumption DEF LockHeld, TypeOK
<1>3. OwnerKnows'
  BY CallersAssumption, TimesAssumption, PostAssumption DEF OwnerKnows, TypeOK,
      LockHeld, Disarmed, StartSteps
<1>4. CallbackHasTime'
  BY TimesAssumption DEF CallbackHasTime, Disarmed, StartSteps
<1>5. StartNeverStranded'
  BY TimesAssumption DEF StartNeverStranded, StepPending, Disarmed, StartSteps
<1>6. StarterGuarded'
  BY DEF StarterGuarded, OwnerKnows
<1>7. CrankClock'
  BY DEF CrankClock, OwnerKnows, StarterGuarded
<1>8. PulsesCounted'
  BY TimesAssumption DEF PulsesCounted
<1>9. EmergencyHolds'
  BY DEF EmergencyHolds, TypeOK, LockHeld
<1>10. /\ UnreadyIsQuiet' /\ ShutIsSafe' /\ HandlerSeesRest' /\ OneStepAhead' /\ LagBounded'
  BY DEF UnreadyIsQuiet, ShutIsSafe, HandlerSeesRest, OneStepAhead, LagBounded, Disarmed
<1>11. QED
  BY <1>1, <1>2, <1>3, <1>4, <1>5, <1>6, <1>7, <1>8, <1>9, <1>10

\* engine_stop up to its first write keeps IndInv.
LEMMA StopCheckKeeps ==
  ASSUME NEW c \in Callers, IndInv, StopCheck(c)
  PROVE  IndInv'
<1> USE DEF IndInv, StopCheck, AtLock, Return, Hold, Goto, controller, outputs, timers,
    timerSide
<1>1. LockHeld'
  BY CallersAssumption DEF LockHeld, TypeOK
<1>2. OwnerKnows'
  BY DEF OwnerKnows, TypeOK
<1>3. EmergencyHolds'
  BY CallersAssumption DEF EmergencyHolds, TypeOK
<1>4. /\ TypeOK' /\ UnreadyIsQuiet' /\ ShutIsSafe' /\ CallbackHasTime' /\ HandlerSeesRest'
      /\ OneStepAhead' /\ LagBounded' /\ StartNeverStranded' /\ StarterGuarded'
      /\ CrankClock' /\ PulsesCounted'
  BY DEF TypeOK, UnreadyIsQuiet, ShutIsSafe, CallbackHasTime, HandlerSeesRest, OneStepAhead,
      LagBounded, StartNeverStranded, StarterGuarded, CrankClock, PulsesCounted, States, Events,
      Disarmed, StepPending, CrankLimit
<1>5. QED
  BY <1>1, <1>2, <1>3, <1>4

\* engine_stop(false) after its checks keeps IndInv.
LEMMA StopCommitKeeps ==
  ASSUME NEW c \in Callers, IndInv, StopCommit(c)
  PROVE  IndInv'
<1> USE DEF IndInv, StopCommit, OpenRelay, PostHolding, Hold, Goto, timerSide
<1>1. TypeOK'
  BY TimesAssumption DEF TypeOK, States, Events, StopSteps, Disarmed
<1>2. EmergencyHolds'
  BY DEF EmergencyHolds, LockHeld
<1>3. /\ UnreadyIsQuiet' /\ ShutIsSafe' /\ LockHeld' /\ OwnerKnows' /\ CallbackHasTime'
      /\ HandlerSeesRest' /\ OneStepAhead' /\ LagBounded' /\ StartNeverStranded'
      /\ StarterGuarded' /\ CrankClock' /\ PulsesCounted'
  BY DEF UnreadyIsQuiet, ShutIsSafe, LockHeld, OwnerKnows, CallbackHasTime, HandlerSeesRest,
      OneStepAhead, LagBounded, StartNeverStranded, StarterGuarded, CrankClock,
      PulsesCounted, Disarmed, StepPending, CrankLimit
<1>4. QED
  BY <1>1, <1>2, <1>3

\* engine_stop(true) up to its delay keeps IndInv.
LEMMA EmergencyCommitKeeps ==
  ASSUME NEW c \in Callers, IndInv, EmergencyCommit(c)
  PROVE  IndInv'
<1> USE DEF IndInv, EmergencyCommit, OpenRelay, Hold, Goto, timerSide
<1>1. TypeOK'
  BY TimesAssumption DEF TypeOK, States, Events, Disarmed
<1>2. EmergencyHolds'
  BY DEF EmergencyHolds, LockHeld
<1>3. /\ UnreadyIsQuiet' /\ ShutIsSafe' /\ LockHeld' /\ OwnerKnows' /\ CallbackHasTime'
      /\ HandlerSeesRest' /\ OneStepAhead' /\ LagBounded' /\ StartNeverStranded'
      /\ StarterGuarded' /\ CrankClock' /\ PulsesCounted'
  BY DEF UnreadyIsQuiet, ShutIsSafe, LockHeld, OwnerKnows, CallbackHasTime, HandlerSeesRest,
      OneStepAhead, LagBounded, StartNeverStranded, StarterGuarded, CrankClock,
      PulsesCounted, Disarmed, StepPending, CrankLimit
<1>4. QED
  BY <1>1, <1>2, <1>3

\* engine_stop(true) after its delay keeps IndInv.
LEMMA EmergencyFinishKeeps ==
  ASSUME NEW c \in Callers, IndInv, EmergencyFinish(c)
  PROVE  IndInv'
<1> USE DEF IndInv, EmergencyFinish, PostHolding, Hold, Goto, controller, timers,
    timerSide
<1>1. TypeOK'
  BY TimesAssumption, ChokeTyped DEF TypeOK, Events
<1>2. EmergencyHolds'
  BY DEF EmergencyHolds, TypeOK
<1>3. /\ UnreadyIsQuiet' /\ ShutIsSafe' /\ LockHeld' /\ OwnerKnows' /\ CallbackHasTime'
      /\ HandlerSeesRest' /\ OneStepAhead' /\ LagBounded' /\ StartNeverStranded'
      /\ StarterGuarded' /\ CrankClock' /\ PulsesCounted'
  BY DEF UnreadyIsQuiet, ShutIsSafe, LockHeld, OwnerKnows, CallbackHasTime, HandlerSeesRest,
      OneStepAhead, LagBounded, StartNeverStranded, StarterGuarded, CrankClock,
      PulsesCounted, Disarmed, StepPending, CrankLimit
<1>4. QED
  BY <1>1, <1>2, <1>3

\* Posting the event and giving the mutex back keeps IndInv.
LEMMA PostDoneKeeps ==
  ASSUME NEW c \in Callers, IndInv, PostDone(c)
  PROVE  IndInv'
<1> USE DEF IndInv, PostDone, Return, Goto, controller, outputs, timers, timerSide
<1>1. LockHeld'
  BY CallersAssumption DEF LockHeld, TypeOK
<1>2. OwnerKnows'
  BY DEF OwnerKnows, TypeOK
<1>3. EmergencyHolds'
  BY DEF EmergencyHolds, LockHeld
<1>4. /\ TypeOK' /\ UnreadyIsQuiet' /\ ShutIsSafe' /\ CallbackHasTime' /\ HandlerSeesRest'
      /\ OneStepAhead' /\ LagBounded' /\ StartNeverStranded' /\ StarterGuarded'
      /\ CrankClock' /\ PulsesCounted'
  BY DEF TypeOK, UnreadyIsQuiet, ShutIsSafe, CallbackHasTime, HandlerSeesRest, OneStepAhead,
      LagBounded, StartNeverStranded, StarterGuarded, CrankClock, PulsesCounted, States, Events,
      Disarmed, StepPending, CrankLimit
<1>5. QED
  BY <1>1, <1>2, <1>3, <1>4

\* The expiry of start_sequence_timer keeps IndInv.
LEMMA SequenceFireKeeps ==
  ASSUME IndInv, SequenceFire
  PROVE  IndInv'
<1> USE DEF IndInv, SequenceFire, controller, outputs, callers
<1>1. TypeOK'
  BY TimesAssumption DEF TypeOK
<1>2. CallbackHasTime'
  BY TimesAssumption DEF CallbackHasTime
<1>3. /\ UnreadyIsQuiet' /\ ShutIsSafe' /\ LockHeld' /\ OwnerKnows' /\ HandlerSeesRest'
      /\ OneStepAhead' /\ LagBounded' /\ StartNeverStranded' /\ StarterGuarded'
      /\ CrankClock' /\ PulsesCounted' /\ EmergencyHolds'
  BY DEF UnreadyIsQuiet, ShutIsSafe, LockHeld, OwnerKnows, HandlerSeesRest, OneStepAhead,
      LagBounded, StartNeverStranded, StarterGuarded, CrankClock, PulsesCounted,
      EmergencyHolds, Disarmed, StepPending, CrankLimit
<1>4. QED
  BY <1>1, <1>2, <1>3

\* A sequence callback that does not get the mutex keeps IndInv.
LEMMA SequenceGiveUpKeeps ==
  ASSUME IndInv, SequenceGiveUp
  PROVE  IndInv'
<1> USE DEF IndInv, SequenceGiveUp, controller, outputs, timers, callers
<1>1. StartNeverStranded'
  BY DEF StartNeverStranded, CallbackHasTime, StepPending
<1>2. StarterGuarded'
  BY RelayInService DEF StarterGuarded, CallbackHasTime, StepPending
<1>3. /\ TypeOK' /\ UnreadyIsQuiet' /\ ShutIsSafe' /\ LockHeld' /\ OwnerKnows' /\ CallbackHasTime'
      /\ HandlerSeesRest' /\ OneStepAhead' /\ LagBounded' /\ CrankClock'
      /\ PulsesCounted' /\ EmergencyHolds'
  BY DEF TypeOK, UnreadyIsQuiet, ShutIsSafe, LockHeld, OwnerKnows, CallbackHasTime, HandlerSeesRest,
      OneStepAhead, LagBounded, CrankClock, PulsesCounted, EmergencyHolds,
      States, Events, Disarmed, CrankLimit
<1>4. QED
  BY <1>1, <1>2, <1>3

\* The start steps CHOKE_RESET and CHOKE_CLOSE: each keeps IndInv.
LEMMA StartChokeKeeps ==
  ASSUME IndInv, StartChoke
  PROVE  IndInv'
<1> USE DEF IndInv, AtStart, AtCallback, LeaveCallback, StartTo, Rearm, outputs, callers
<1>1. choke' \in ChokeType
  BY ChokeTyped DEF StartChoke, TypeOK
<1>2. PICK next \in {"CHOKE_CLOSE", "WAKE_PULSE"} : StartTo(next)
  BY DEF StartChoke
<1>3. /\ AtCallback /\ state = "STARTING" /\ startSeq \in {"CHOKE_RESET", "CHOKE_CLOSE"}
      /\ UNCHANGED <<stage, state, stopSeq, attempts, outputs, runTimer, callers, rpm, event>>
  BY DEF StartChoke
<1>4. TypeOK'
  BY <1>1, <1>2, <1>3, TimesAssumption DEF TypeOK, StartSteps, Disarmed
<1>5. StartNeverStranded'
  BY <1>2, <1>3, TimesAssumption DEF StartNeverStranded, StepPending, Disarmed, StartSteps
<1>6. StarterGuarded' /\ CrankClock'
  BY <1>3 DEF StarterGuarded, CrankClock
<1>7. PulsesCounted'
  BY <1>2, <1>3 DEF PulsesCounted
<1>8. EmergencyHolds'
  BY <1>2, <1>3, CallersAssumption DEF EmergencyHolds, OwnerKnows
<1>9. UnreadyIsQuiet' /\ ShutIsSafe' /\ LockHeld'
  BY <1>2, <1>3 DEF UnreadyIsQuiet, ShutIsSafe, LockHeld
<1>10. OwnerKnows'
  BY <1>2, <1>3, CallersAssumption DEF OwnerKnows, LockHeld
<1>11. CallbackHasTime' /\ HandlerSeesRest' /\ LagBounded' /\ OneStepAhead'
  BY <1>2, <1>3 DEF CallbackHasTime, HandlerSeesRest, LagBounded, OneStepAhead
<1>12. QED
  BY <1>4, <1>5, <1>6, <1>7, <1>8, <1>9, <1>10, <1>11

\* The start step WAKE_PULSE, which closes the relay, keeps IndInv.
LEMMA StartWakePulseKeeps ==
  ASSUME IndInv, StartWakePulse
  PROVE  IndInv'
<1> USE DEF IndInv, StartWakePulse, StartTo, AtStart, AtCallback, LeaveCallback, Rearm,
    callers
<1> Ready
  BY StepInService
<1>1. TypeOK'
  BY TimesAssumption DEF TypeOK, StartSteps
<1>2. StartNeverStranded'
  BY TimesAssumption DEF StartNeverStranded, StepPending, Disarmed, StartSteps
<1>3. StarterGuarded'
  BY TimesAssumption DEF StarterGuarded, StepPending, Disarmed, StartSteps
<1>4. CrankClock'
  BY TimesAssumption DEF CrankClock, OneStepAhead, StartSteps
<1>5. PulsesCounted'
  BY TimesAssumption DEF PulsesCounted, TypeOK, UnreadyIsQuiet, ShutIsSafe
<1>6. EmergencyHolds'
  BY DEF EmergencyHolds, OwnerKnows
<1>7. /\ UnreadyIsQuiet' /\ ShutIsSafe' /\ LockHeld' /\ OwnerKnows' /\ CallbackHasTime'
      /\ HandlerSeesRest' /\ OneStepAhead' /\ LagBounded'
  BY DEF UnreadyIsQuiet, ShutIsSafe, LockHeld, OwnerKnows, CallbackHasTime, HandlerSeesRest,
      OneStepAhead, LagBounded, Disarmed
<1>8. QED
  BY <1>1, <1>2, <1>3, <1>4, <1>5, <1>6, <1>7

\* The start step CRANKING keeps IndInv.
LEMMA StartCrankingKeeps ==
  ASSUME IndInv, StartCranking
  PROVE  IndInv'
<1> USE DEF IndInv, StartCranking, StartTo, AtStart, AtCallback, LeaveCallback, Rearm,
    outputs, callers
<1> Ready
  BY StepInService
<1>1. TypeOK'
  BY TimesAssumption DEF TypeOK, StartSteps
<1>2. StartNeverStranded'
  BY TimesAssumption DEF StartNeverStranded, StepPending, Disarmed, StartSteps
<1>3. StarterGuarded'
  BY TimesAssumption DEF StarterGuarded, StepPending, Disarmed, StartSteps
<1>4. CrankClock'
  BY TimesAssumption DEF CrankClock, TypeOK, CrankLimit, StartSteps
<1>5. EmergencyHolds'
  BY DEF EmergencyHolds, OwnerKnows
<1>6. /\ UnreadyIsQuiet' /\ ShutIsSafe' /\ LockHeld' /\ OwnerKnows' /\ CallbackHasTime'
      /\ HandlerSeesRest' /\ OneStepAhead' /\ LagBounded' /\ PulsesCounted'
  BY DEF UnreadyIsQuiet, ShutIsSafe, LockHeld, OwnerKnows, CallbackHasTime, HandlerSeesRest,
      OneStepAhead, LagBounded, PulsesCounted, Disarmed
<1>7. QED
  BY <1>1, <1>2, <1>3, <1>4, <1>5, <1>6

\* The start step WAIT_RPM, which opens the relay and counts the attempt, keeps IndInv.
LEMMA StartWaitRpmKeeps ==
  ASSUME IndInv, StartWaitRpm
  PROVE  IndInv'
<1> USE DEF IndInv, StartWaitRpm, OpenRelay, StartTo, AtStart, AtCallback, LeaveCallback,
    Rearm, callers
<1>1. TypeOK'
  <2>1. attempts' \in Nat
    BY DEF TypeOK
  <2>2. /\ seqTimer' \in Nat \union {Disarmed}
        /\ startSeq' \in StartSteps
    BY TimesAssumption DEF TypeOK, StartSteps, Disarmed
  <2>3. relay' = FALSE /\ crankTime' = 0
    OBVIOUS
  <2>4. timerTask' = "idle" /\ cbWait' = 0 /\ owner' = owner
    OBVIOUS
  <2>5. UNCHANGED <<stage, state, stopSeq, kill, fuel, pulses, runTimer, choke, pc, op,
                    wait, calls, rpm, event>>
    OBVIOUS
  <2> HIDE DEF StartWaitRpm
  <2>6. QED
    BY <2>1, <2>2, <2>3, <2>4, <2>5 DEF TypeOK
<1>2. StartNeverStranded'
  BY TimesAssumption DEF StartNeverStranded, StepPending, Disarmed, StartSteps
<1>3. PulsesCounted'
  BY TimesAssumption DEF PulsesCounted, TypeOK
<1>4. EmergencyHolds'
  BY DEF EmergencyHolds, OwnerKnows
<1>5. /\ UnreadyIsQuiet' /\ ShutIsSafe' /\ LockHeld' /\ OwnerKnows' /\ CallbackHasTime'
      /\ HandlerSeesRest' /\ OneStepAhead' /\ LagBounded' /\ StarterGuarded'
      /\ CrankClock'
  BY DEF UnreadyIsQuiet, ShutIsSafe, LockHeld, OwnerKnows, CallbackHasTime, HandlerSeesRest,
      OneStepAhead, LagBounded, StarterGuarded, CrankClock, Disarmed,
      StepPending, CrankLimit
<1>6. QED
  BY <1>1, <1>2, <1>3, <1>4, <1>5

\* The start step RETRY_WAIT keeps IndInv.
LEMMA StartRetryWaitKeeps ==
  ASSUME IndInv, StartRetryWait
  PROVE  IndInv'
<1> USE DEF IndInv, StartRetryWait, StartTo, AtStart, AtCallback, LeaveCallback, Rearm,
    outputs, callers
<1>1. TypeOK'
  BY TimesAssumption DEF TypeOK, StartSteps
<1>2. StartNeverStranded'
  BY TimesAssumption DEF StartNeverStranded, StepPending, Disarmed, StartSteps
<1>3. CrankClock'
  BY DEF CrankClock, StarterGuarded
<1>4. EmergencyHolds'
  BY DEF EmergencyHolds, OwnerKnows
<1>5. /\ UnreadyIsQuiet' /\ ShutIsSafe' /\ LockHeld' /\ OwnerKnows' /\ CallbackHasTime'
      /\ HandlerSeesRest' /\ OneStepAhead' /\ LagBounded' /\ StarterGuarded'
      /\ PulsesCounted'
  BY DEF UnreadyIsQuiet, ShutIsSafe, LockHeld, OwnerKnows, CallbackHasTime, HandlerSeesRest,
      OneStepAhead, LagBounded, StarterGuarded, PulsesCounted, Disarmed,
      StepPending
<1>6. QED
  BY <1>1, <1>2, <1>3, <1>4, <1>5

\* The start step CHOKE_OPEN keeps IndInv.
LEMMA StartChokeOpenKeeps ==
  ASSUME IndInv, StartChokeOpen
  PROVE  IndInv'
<1> USE DEF IndInv, StartChokeOpen, StartTo, AtStart, AtCallback, LeaveCallback, Rearm,
    callers
<1>1. TypeOK'
  BY TimesAssumption, ChokeTyped DEF TypeOK, StartSteps, Disarmed
<1>2. StartNeverStranded'
  BY TimesAssumption DEF StartNeverStranded, StepPending, Disarmed, StartSteps
<1>3. CrankClock'
  BY DEF CrankClock, StarterGuarded
<1>4. EmergencyHolds'
  BY DEF EmergencyHolds, OwnerKnows
<1>5. /\ UnreadyIsQuiet' /\ ShutIsSafe' /\ LockHeld' /\ OwnerKnows' /\ CallbackHasTime'
      /\ HandlerSeesRest' /\ OneStepAhead' /\ LagBounded' /\ StarterGuarded'
      /\ PulsesCounted'
  BY DEF UnreadyIsQuiet, ShutIsSafe, LockHeld, OwnerKnows, CallbackHasTime, HandlerSeesRest,
      OneStepAhead, LagBounded, StarterGuarded, PulsesCounted, Disarmed,
      StepPending
<1>6. QED
  BY <1>1, <1>2, <1>3, <1>4, <1>5

\* The start step SUCCESS keeps IndInv.
LEMMA StartSuccessKeeps ==
  ASSUME IndInv, StartSuccess
  PROVE  IndInv'
<1> USE DEF IndInv, StartSuccess, AtStart, AtCallback, PostInCallback, outputs, callers
<1>1. TypeOK'
  BY TimesAssumption DEF TypeOK, States, Events
<1>2. LockHeld'
  BY CallersAssumption DEF LockHeld
<1>3. EmergencyHolds'
  BY DEF EmergencyHolds, OwnerKnows
<1>4. /\ UnreadyIsQuiet' /\ ShutIsSafe' /\ OwnerKnows' /\ CallbackHasTime' /\ HandlerSeesRest'
      /\ OneStepAhead' /\ LagBounded' /\ StartNeverStranded' /\ StarterGuarded'
      /\ CrankClock' /\ PulsesCounted'
  BY DEF UnreadyIsQuiet, ShutIsSafe, OwnerKnows, CallbackHasTime, HandlerSeesRest, OneStepAhead,
      LagBounded, StartNeverStranded, StarterGuarded, CrankClock, PulsesCounted, Disarmed,
      StepPending, CrankLimit
<1>5. QED
  BY <1>1, <1>2, <1>3, <1>4

\* The start step FAILED keeps IndInv.
LEMMA StartFailedKeeps ==
  ASSUME IndInv, StartFailed
  PROVE  IndInv'
<1> USE DEF IndInv, StartFailed, AtStart, AtCallback, PostInCallback, outputs, timers,
    callers
<1>1. TypeOK'
  <2>1. choke' \in ChokeType
    BY ChokeTyped DEF TypeOK
  <2>2. QED
    BY <2>1, TimesAssumption DEF TypeOK, States, Events
<1>2. LockHeld'
  BY CallersAssumption DEF LockHeld
<1>3. EmergencyHolds'
  BY DEF EmergencyHolds, OwnerKnows
<1>4. /\ UnreadyIsQuiet' /\ ShutIsSafe' /\ OwnerKnows' /\ CallbackHasTime' /\ HandlerSeesRest'
      /\ OneStepAhead' /\ LagBounded' /\ StartNeverStranded' /\ StarterGuarded'
      /\ CrankClock' /\ PulsesCounted'
  BY DEF UnreadyIsQuiet, ShutIsSafe, OwnerKnows, CallbackHasTime, HandlerSeesRest, OneStepAhead,
      LagBounded, StartNeverStranded, StarterGuarded, CrankClock, PulsesCounted, Disarmed,
      StepPending, CrankLimit
<1>5. QED
  BY <1>1, <1>2, <1>3, <1>4

\* The stop step CHOKE_RESET keeps IndInv.
LEMMA StopChokeResetKeeps ==
  ASSUME IndInv, StopChokeReset
  PROVE  IndInv'
<1> USE DEF IndInv, StopChokeReset, StopTo, AtStop, AtCallback, LeaveCallback, Rearm,
    outputs, callers
<1>1. TypeOK'
  BY ChokeTyped, TimesAssumption DEF TypeOK, StopSteps
<1>2. CrankClock'
  BY DEF CrankClock, StarterGuarded
<1>3. EmergencyHolds'
  BY CallersAssumption DEF EmergencyHolds
<1>4. /\ UnreadyIsQuiet' /\ ShutIsSafe' /\ LockHeld' /\ OwnerKnows' /\ CallbackHasTime'
      /\ HandlerSeesRest' /\ OneStepAhead' /\ LagBounded' /\ StartNeverStranded'
      /\ StarterGuarded' /\ PulsesCounted'
  BY DEF UnreadyIsQuiet, ShutIsSafe, LockHeld, OwnerKnows, CallbackHasTime, HandlerSeesRest,
      OneStepAhead, LagBounded, StartNeverStranded, StarterGuarded, PulsesCounted, Disarmed,
      StepPending
<1>5. QED
  BY <1>1, <1>2, <1>3, <1>4

\* The stop step KILL_IGNITION keeps IndInv.
LEMMA StopKillIgnitionKeeps ==
  ASSUME IndInv, StopKillIgnition
  PROVE  IndInv'
<1> USE DEF IndInv, StopKillIgnition, StopTo, AtStop, AtCallback, LeaveCallback, Rearm,
    callers
<1>1. TypeOK'
  BY TimesAssumption DEF TypeOK, StopSteps
<1>2. CrankClock'
  BY DEF CrankClock, StarterGuarded
<1>3. EmergencyHolds'
  BY CallersAssumption DEF EmergencyHolds
<1>4. /\ UnreadyIsQuiet' /\ ShutIsSafe' /\ LockHeld' /\ OwnerKnows' /\ CallbackHasTime'
      /\ HandlerSeesRest' /\ OneStepAhead' /\ LagBounded' /\ StartNeverStranded'
      /\ StarterGuarded' /\ PulsesCounted'
  BY DEF UnreadyIsQuiet, ShutIsSafe, LockHeld, OwnerKnows, CallbackHasTime, HandlerSeesRest,
      OneStepAhead, LagBounded, StartNeverStranded, StarterGuarded, PulsesCounted, Disarmed,
      StepPending
<1>5. QED
  BY <1>1, <1>2, <1>3, <1>4

\* The stop step FUEL_OFF keeps IndInv.
LEMMA StopFuelOffKeeps ==
  ASSUME IndInv, StopFuelOff
  PROVE  IndInv'
<1> USE DEF IndInv, StopFuelOff, StopTo, AtStop, AtCallback, LeaveCallback, Rearm, callers
<1>1. TypeOK'
  BY TimesAssumption DEF TypeOK, StopSteps, Disarmed
<1>2. CrankClock'
  BY DEF CrankClock, StarterGuarded
<1>3. EmergencyHolds'
  BY CallersAssumption DEF EmergencyHolds
<1>4. /\ UnreadyIsQuiet' /\ ShutIsSafe' /\ LockHeld' /\ OwnerKnows' /\ CallbackHasTime'
      /\ HandlerSeesRest' /\ OneStepAhead' /\ LagBounded' /\ StartNeverStranded'
      /\ StarterGuarded' /\ PulsesCounted'
  BY DEF UnreadyIsQuiet, ShutIsSafe, LockHeld, OwnerKnows, CallbackHasTime, HandlerSeesRest,
      OneStepAhead, LagBounded, StartNeverStranded, StarterGuarded, PulsesCounted, Disarmed,
      StepPending
<1>5. QED
  BY <1>1, <1>2, <1>3, <1>4

\* The stop step SUCCESS keeps IndInv.
LEMMA StopSuccessKeeps ==
  ASSUME IndInv, StopSuccess
  PROVE  IndInv'
<1> USE DEF IndInv, StopSuccess, AtStop, AtCallback, PostInCallback, outputs, callers
<1>1. TypeOK'
  BY TimesAssumption DEF TypeOK, States, Events
<1>2. LockHeld'
  BY CallersAssumption DEF LockHeld
<1>3. EmergencyHolds'
  BY CallersAssumption DEF EmergencyHolds
<1>4. /\ UnreadyIsQuiet' /\ ShutIsSafe' /\ OwnerKnows' /\ CallbackHasTime' /\ HandlerSeesRest'
      /\ OneStepAhead' /\ LagBounded' /\ StartNeverStranded' /\ StarterGuarded'
      /\ CrankClock' /\ PulsesCounted'
  BY DEF UnreadyIsQuiet, ShutIsSafe, OwnerKnows, CallbackHasTime, HandlerSeesRest, OneStepAhead,
      LagBounded, StartNeverStranded, StarterGuarded, CrankClock, PulsesCounted, Disarmed,
      StepPending, CrankLimit
<1>5. QED
  BY <1>1, <1>2, <1>3, <1>4

\* A callback that finds nothing to do keeps IndInv.
LEMMA SequenceIdleKeeps ==
  ASSUME IndInv, SequenceIdle
  PROVE  IndInv'
<1> USE DEF IndInv, SequenceIdle, AtCallback, LeaveCallback, controller, outputs, timers,
    callers
<1>1. /\ TypeOK' /\ UnreadyIsQuiet' /\ ShutIsSafe' /\ LockHeld' /\ OwnerKnows' /\ CallbackHasTime'
      /\ HandlerSeesRest' /\ OneStepAhead' /\ LagBounded' /\ StartNeverStranded'
      /\ StarterGuarded' /\ CrankClock' /\ PulsesCounted' /\ EmergencyHolds'
  BY DEF TypeOK, UnreadyIsQuiet, ShutIsSafe, LockHeld, OwnerKnows, CallbackHasTime, HandlerSeesRest,
      OneStepAhead, LagBounded, StartNeverStranded, StarterGuarded, CrankClock,
      PulsesCounted, EmergencyHolds, States, Events, Disarmed, StepPending,
      CrankLimit
<1>2. QED
  BY <1>1

\* The state test of engine_handle_rpm_change keeps IndInv.
LEMMA HandleRpmChangeKeeps ==
  ASSUME NEW r \in Rpms, IndInv, HandleRpmChange(r)
  PROVE  IndInv'
<1> USE DEF IndInv, HandleRpmChange, Linger, controller, outputs, timers, callers
<1>1. TypeOK'
  BY TimesAssumption DEF TypeOK, Events
<1>2. HandlerSeesRest'
  BY DEF HandlerSeesRest, StarterGuarded
<1>3. LagBounded'
  BY TimesAssumption DEF LagBounded
<1>4. CrankClock'
  BY DEF CrankClock, TypeOK, StarterGuarded, StepPending
<1>5. /\ UnreadyIsQuiet' /\ ShutIsSafe' /\ LockHeld' /\ OwnerKnows' /\ CallbackHasTime'
      /\ OneStepAhead' /\ StartNeverStranded' /\ StarterGuarded' /\ PulsesCounted'
      /\ EmergencyHolds'
  BY DEF UnreadyIsQuiet, ShutIsSafe, LockHeld, OwnerKnows, CallbackHasTime, OneStepAhead,
      StartNeverStranded, StarterGuarded, PulsesCounted, EmergencyHolds,
      Disarmed, StepPending
<1>6. QED
  BY <1>1, <1>2, <1>3, <1>4, <1>5

\* engine_handle_rpm_change recording a pull start, without the lock, keeps IndInv.
LEMMA RpmPullKeeps ==
  ASSUME IndInv, RpmPull
  PROVE  IndInv'
<1> USE DEF IndInv, RpmPull, Linger, outputs, callers
<1>1. TypeOK'
  BY TimesAssumption DEF TypeOK, States, Events
<1>2. LagBounded'
  BY TimesAssumption DEF LagBounded
<1>3. StarterGuarded'
  BY DEF StarterGuarded, HandlerSeesRest
<1>4. CrankClock'
  BY DEF CrankClock, HandlerSeesRest
<1>5. /\ UnreadyIsQuiet' /\ ShutIsSafe' /\ LockHeld' /\ OwnerKnows' /\ CallbackHasTime'
      /\ HandlerSeesRest' /\ OneStepAhead' /\ StartNeverStranded' /\ PulsesCounted'
      /\ EmergencyHolds'
  BY DEF UnreadyIsQuiet, ShutIsSafe, LockHeld, OwnerKnows, CallbackHasTime, HandlerSeesRest,
      OneStepAhead, StartNeverStranded, PulsesCounted, EmergencyHolds, Disarmed,
      StepPending
<1>6. QED
  BY <1>1, <1>2, <1>3, <1>4, <1>5

\* engine_handle_rpm_change recording a halt, without the lock, keeps IndInv.
LEMMA RpmHaltKeeps ==
  ASSUME IndInv, RpmHalt
  PROVE  IndInv'
<1> USE DEF IndInv, RpmHalt, Linger, outputs, callers
<1>1. TypeOK'
  BY TimesAssumption DEF TypeOK, States, Events
<1>2. LagBounded'
  BY TimesAssumption DEF LagBounded
<1>3. StarterGuarded'
  BY DEF StarterGuarded, HandlerSeesRest
<1>4. CrankClock'
  BY DEF CrankClock, HandlerSeesRest
<1>5. /\ UnreadyIsQuiet' /\ ShutIsSafe' /\ LockHeld' /\ OwnerKnows' /\ CallbackHasTime'
      /\ HandlerSeesRest' /\ OneStepAhead' /\ StartNeverStranded' /\ PulsesCounted'
      /\ EmergencyHolds'
  BY DEF UnreadyIsQuiet, ShutIsSafe, LockHeld, OwnerKnows, CallbackHasTime, HandlerSeesRest,
      OneStepAhead, StartNeverStranded, PulsesCounted, EmergencyHolds,
      Disarmed, StepPending
<1>6. QED
  BY <1>1, <1>2, <1>3, <1>4, <1>5

\* A callback of another module that takes a while keeps IndInv.
LEMMA OtherCallbackKeeps ==
  ASSUME IndInv, OtherCallback
  PROVE  IndInv'
<1> USE DEF IndInv, OtherCallback, controller, outputs, timers, callers
<1>1. TypeOK'
  BY TimesAssumption DEF TypeOK
<1>2. LagBounded'
  BY TimesAssumption DEF LagBounded
<1>3. CrankClock'
  BY DEF CrankClock, TypeOK, StarterGuarded, StepPending
<1>4. /\ UnreadyIsQuiet' /\ ShutIsSafe' /\ LockHeld' /\ OwnerKnows' /\ CallbackHasTime'
      /\ HandlerSeesRest' /\ OneStepAhead' /\ StartNeverStranded'
      /\ StarterGuarded' /\ PulsesCounted' /\ EmergencyHolds'
  BY DEF UnreadyIsQuiet, ShutIsSafe, LockHeld, OwnerKnows, CallbackHasTime, HandlerSeesRest,
      OneStepAhead, StartNeverStranded, StarterGuarded, PulsesCounted, EmergencyHolds, Disarmed,
      StepPending
<1>5. QED
  BY <1>1, <1>2, <1>3, <1>4

\* The end of such a callback, or of a post made with the mutex held, keeps IndInv.
LEMMA CallbackReturnsKeeps ==
  ASSUME IndInv, CallbackReturns
  PROVE  IndInv'
<1> USE DEF IndInv, CallbackReturns, controller, outputs, timers, callers
<1>1. LockHeld'
  BY CallersAssumption DEF LockHeld
<1>2. CrankClock'
  BY TimesAssumption DEF CrankClock, TypeOK, StartSteps
<1>3. EmergencyHolds'
  BY CallersAssumption DEF EmergencyHolds, LockHeld
<1>4. /\ TypeOK' /\ UnreadyIsQuiet' /\ ShutIsSafe' /\ OwnerKnows' /\ CallbackHasTime'
      /\ HandlerSeesRest' /\ OneStepAhead' /\ LagBounded' /\ StartNeverStranded'
      /\ StarterGuarded' /\ PulsesCounted'
  BY DEF TypeOK, UnreadyIsQuiet, ShutIsSafe, OwnerKnows, CallbackHasTime, HandlerSeesRest,
      OneStepAhead, LagBounded, StartNeverStranded, StarterGuarded, PulsesCounted, States,
      Events, Disarmed, StepPending
<1>5. QED
  BY <1>1, <1>2, <1>3, <1>4

\* The end of a choke reset keeps IndInv.
LEMMA ChokeDoneKeeps ==
  ASSUME IndInv, ChokeDone
  PROVE  IndInv'
<1> USE DEF IndInv, ChokeDone, ResetOver, controller, outputs, timers, callers, timerSide
<1>1. TypeOK'
  <2>1. choke' \in ChokeType
    BY ChokeTyped DEF TypeOK
  <2>2. QED
    BY <2>1 DEF TypeOK
<1>2. /\ UnreadyIsQuiet' /\ ShutIsSafe' /\ LockHeld' /\ OwnerKnows' /\ CallbackHasTime'
      /\ HandlerSeesRest' /\ OneStepAhead' /\ LagBounded' /\ StartNeverStranded'
      /\ StarterGuarded' /\ CrankClock' /\ PulsesCounted' /\ EmergencyHolds'
  BY DEF UnreadyIsQuiet, ShutIsSafe, LockHeld, OwnerKnows, CallbackHasTime, HandlerSeesRest,
      OneStepAhead, LagBounded, StartNeverStranded, StarterGuarded, CrankClock,
      PulsesCounted, EmergencyHolds, Disarmed, StepPending, CrankLimit
<1>3. QED
  BY <1>1, <1>2

\* A new speed published by the sensor manager keeps IndInv.
LEMMA SensorUpdateKeeps ==
  ASSUME NEW r \in Rpms, IndInv, SensorUpdate(r)
  PROVE  IndInv'
<1> USE DEF IndInv, SensorUpdate, controller, outputs, timers, callers, timerSide
<1>1. /\ TypeOK' /\ UnreadyIsQuiet' /\ ShutIsSafe' /\ LockHeld' /\ OwnerKnows' /\ CallbackHasTime'
      /\ HandlerSeesRest' /\ OneStepAhead' /\ LagBounded' /\ StartNeverStranded'
      /\ StarterGuarded' /\ CrankClock' /\ PulsesCounted' /\ EmergencyHolds'
  BY DEF TypeOK, UnreadyIsQuiet, ShutIsSafe, LockHeld, OwnerKnows, CallbackHasTime, HandlerSeesRest,
      OneStepAhead, LagBounded, StartNeverStranded, StarterGuarded, CrankClock,
      PulsesCounted, EmergencyHolds, States, Events, Disarmed, StepPending,
      CrankLimit
<1>2. QED
  BY <1>1

\* The passage of 100 ms keeps IndInv.
LEMMA TickKeeps ==
  ASSUME IndInv, Tick
  PROVE  IndInv'
<1> USE DEF IndInv, Tick, TimerTaskWaits, CallerWaits, controller
<1>1. TypeOK'
  <2>1. choke' \in ChokeType
    BY ChokeTyped DEF TypeOK
  <2>2. /\ seqTimer' \in Nat \union {Disarmed}
        /\ cbWait' \in Nat /\ crankTime' \in Nat
        /\ wait' \in [Callers -> Nat]
    BY DEF TypeOK, Disarmed
  <2>3. QED
    BY <2>1, <2>2 DEF TypeOK
<1>2. OwnerKnows'
  BY DEF OwnerKnows, TypeOK, Disarmed
<1>3. CallbackHasTime'
  BY DEF CallbackHasTime, TypeOK, OwnerKnows, LockHeld, Disarmed
<1>4. LagBounded'
  BY TimesAssumption DEF LagBounded, TypeOK
<1>5. CrankClock'
  <2> SUFFICES ASSUME relay'
               PROVE  CrankClock'
    BY DEF CrankClock
  <2>1. /\ crankTime \in Nat /\ seqTimer \in Nat \union {Disarmed} /\ cbWait \in Nat
        /\ TimerLag \in Nat
        /\ StartDelay["CRANKING"] \in Nat /\ StartDelay["WAIT_RPM"] \in Nat
    BY TimesAssumption DEF TypeOK, StartSteps
  <2>2. /\ crankTime' = crankTime + 1 /\ relay
        /\ UNCHANGED <<startSeq, timerTask>>
    OBVIOUS
  <2>3. CASE seqTimer > 0
    <3>1. seqTimer' = seqTimer - 1
      BY <2>3
    <3>2. timerTask = "busy" => cbWait' <= TimerLag
      BY <2>1 DEF LagBounded
    <3>3. QED
      BY <2>1, <2>2, <2>3, <3>1, <3>2 DEF CrankClock, Disarmed
  <2>4. CASE ~(seqTimer > 0)
    <3>1. timerTask = "busy" /\ cbWait > 0 /\ cbWait' = cbWait - 1
      BY <2>1, <2>2, <2>4, RelayInService
         DEF StarterGuarded, StepPending, LockHeld, OwnerKnows, TypeOK, Disarmed
    <3>2. seqTimer' = seqTimer
      BY <2>4
    <3>3. QED
      BY <2>1, <2>2, <2>4, <3>1, <3>2 DEF CrankClock, Disarmed
  <2>5. QED
    BY <2>3, <2>4
<1>6. /\ UnreadyIsQuiet' /\ ShutIsSafe' /\ LockHeld' /\ HandlerSeesRest' /\ OneStepAhead'
      /\ StartNeverStranded' /\ StarterGuarded' /\ PulsesCounted'
      /\ EmergencyHolds'
  BY DEF UnreadyIsQuiet, ShutIsSafe, LockHeld, HandlerSeesRest, OneStepAhead, StartNeverStranded,
      StarterGuarded, PulsesCounted, EmergencyHolds, Disarmed, StepPending
<1>7. QED
  BY <1>1, <1>2, <1>3, <1>4, <1>5, <1>6

\* The initial state satisfies the invariant.
LEMMA InitHolds == Init => IndInv
<1> SUFFICES ASSUME Init PROVE IndInv
  OBVIOUS
<1>1. TypeOK
  <2>1. choke \in ChokeType
    BY ChokeAtInitTyped DEF Init
  <2>2. /\ pc \in [Callers -> {"idle", "lock", "commit", "kill", "post"}]
        /\ op \in [Callers -> Requests] /\ wait \in [Callers -> Nat]
    BY DEF Init, Requests
  <2>3. calls \in Nat /\ rpm \in Rpms
    BY CallersAssumption DEF Init
  <2>4. QED
    BY <2>1, <2>2, <2>3 DEF Init, TypeOK, States, Stages, Events, Disarmed
<1>2. LockHeld /\ OwnerKnows /\ EmergencyHolds
  BY CallersAssumption DEF Init, LockHeld, OwnerKnows, EmergencyHolds
<1>3. /\ UnreadyIsQuiet /\ ShutIsSafe /\ CallbackHasTime /\ HandlerSeesRest
      /\ OneStepAhead /\ LagBounded
  BY DEF Init, UnreadyIsQuiet, ShutIsSafe, CallbackHasTime, HandlerSeesRest, OneStepAhead,
         LagBounded
<1>4. StartNeverStranded /\ StarterGuarded /\ CrankClock
  BY DEF Init, StartNeverStranded, StarterGuarded, CrankClock
<1>5. PulsesCounted
  BY TimesAssumption DEF Init, PulsesCounted
<1>6. QED
  BY <1>1, <1>2, <1>3, <1>4, <1>5 DEF IndInv

\* A step that changes no variable of the controller keeps the invariant.
LEMMA StutterKeeps ==
  ASSUME IndInv, UNCHANGED vars
  PROVE  IndInv'
BY DEF IndInv, vars, controller, outputs, timers, callers, timerSide, TypeOK,
       UnreadyIsQuiet, ShutIsSafe, LockHeld, OwnerKnows, CallbackHasTime, HandlerSeesRest,
       OneStepAhead, LagBounded, StartNeverStranded, StepPending, StarterGuarded, CrankClock,
       PulsesCounted, EmergencyHolds

\* Every step of the controller keeps the invariant.
LEMMA NextKeeps ==
  ASSUME IndInv, [Next]_vars
  PROVE  IndInv'
<1>1. CASE \/ InitBegin \/ InitTimers \/ InitDone \/ DeinitBegin \/ DeinitEnd \/ Abort
           \/ OtherCallback
  BY <1>1, InitBeginKeeps, InitTimersKeeps, InitDoneKeeps, DeinitBeginKeeps, DeinitEndKeeps,
     AbortKeeps, OtherCallbackKeeps
<1>2. ASSUME NEW c \in Callers, NEW request \in Requests, Call(c, request)
      PROVE  IndInv'
  BY <1>2, CallKeeps
<1>3. ASSUME NEW c \in Callers, CallerStep(c)
      PROVE  IndInv'
  BY <1>3, LockTimeoutKeeps, StartCheckKeeps, StartCommitKeeps, StopCheckKeeps,
     StopCommitKeeps, EmergencyCommitKeeps, EmergencyFinishKeeps, PostDoneKeeps
     DEF CallerStep
<1>4. CASE SequenceStep
  BY <1>4, StartChokeKeeps, StartWakePulseKeeps, StartCrankingKeeps, StartWaitRpmKeeps,
     StartRetryWaitKeeps, StartChokeOpenKeeps, StartSuccessKeeps, StartFailedKeeps,
     StopChokeResetKeeps, StopKillIgnitionKeeps, StopFuelOffKeeps, StopSuccessKeeps,
     SequenceIdleKeeps
     DEF SequenceStep
<1>5. CASE TimerTaskStep
  BY <1>4, <1>5, SequenceFireKeeps, SequenceGiveUpKeeps, RpmPullKeeps, RpmHaltKeeps,
     ChokeDoneKeeps, CallbackReturnsKeeps
     DEF TimerTaskStep
<1>6. ASSUME NEW r \in Rpms, HandleRpmChange(r) \/ SensorUpdate(r)
      PROVE  IndInv'
  BY <1>6, HandleRpmChangeKeeps, SensorUpdateKeeps
<1>7. CASE Tick
  BY <1>7, TickKeeps
<1>8. CASE UNCHANGED vars
  BY <1>8, StutterKeeps
<1>9. QED
  BY <1>1, <1>2, <1>3, <1>5, <1>6, <1>7, <1>8 DEF Next

-----------------------------------------------------------------------------
(* The theorems.                                                           *)

\* The inductive invariant holds in every reachable state.
THEOREM Invariance == Spec => []IndInv
<1>1. Init => IndInv
  BY InitHolds
<1>2. IndInv /\ [Next]_vars => IndInv'
  BY NextKeeps
<1>3. QED
  BY <1>1, <1>2, PTL DEF Spec

\* The variables of engine_ctrl.c keep their types.
THEOREM TypeCorrect == Spec => []TypeOK
<1>1. IndInv => TypeOK
  BY DEF IndInv
<1>2. QED
  BY <1>1, Invariance, PTL

\* The starter relay is closed only in a step that cranks and with the step that
\* opens it to come, whatever other tasks request and the RPM handler writes.
THEOREM StarterIsGuarded == Spec => []StarterGuarded
<1>1. IndInv => StarterGuarded
  BY DEF IndInv
<1>2. QED
  BY <1>1, Invariance, PTL

\* No engagement of the starter outlasts the wake pulse and the crank time.
THEOREM StarterIsBounded == Spec => []StarterBounded
<1>1. IndInv => StarterBounded
  <2> SUFFICES ASSUME IndInv, relay PROVE crankTime <= CrankLimit
    BY DEF StarterBounded
  <2>1. /\ crankTime \in Nat /\ seqTimer \in Nat \union {Disarmed}
        /\ cbWait \in Nat /\ TimerLag \in Nat
        /\ StartDelay["CRANKING"] \in Nat /\ StartDelay["WAIT_RPM"] \in Nat
    BY TimesAssumption DEF IndInv, TypeOK, StartSteps
  <2>2. QED
    BY <2>1 DEF IndInv, CrankClock, CrankLimit, Disarmed
<1>2. QED
  BY <1>1, Invariance, PTL

\* An accepted start request cranks at most MaxAttempts times.
THEOREM PulsesAreBounded == Spec => []PulsesBounded
<1>1. IndInv => PulsesBounded
  BY DEF IndInv, PulsesCounted, PulsesBounded
<1>2. QED
  BY <1>1, Invariance, PTL

\* A start in progress always has a next step that will be taken.
THEOREM StartIsNeverStranded == Spec => []StartNeverStranded
<1>1. IndInv => StartNeverStranded
  BY DEF IndInv
<1>2. QED
  BY <1>1, Invariance, PTL

\* Nobody disturbs the outputs during an emergency stop.
THEOREM EmergencyIsHeld == Spec => []EmergencyHolds
<1>1. IndInv => EmergencyHolds
  BY DEF IndInv
<1>2. QED
  BY <1>1, Invariance, PTL

\* Only the RPM handler and the end of a start make the engine run, and what stops the
\* timer ends the run with it.
LEMMA RunStep ==
  ASSUME IndInv, [Next]_vars, stage' \in {"timers", "open"}, state' = "RUNNING", ~runTimer'
  PROVE  state = "RUNNING" /\ ~runTimer
<1> USE DEF IndInv, TypeOK, controller, timers
<1>1. CASE InitBegin \/ InitTimers \/ InitDone \/ DeinitBegin \/ DeinitEnd \/ Abort
  BY <1>1 DEF InitBegin, InitTimers, InitDone, DeinitBegin, DeinitEnd, Abort
<1>2. ASSUME NEW c \in Callers, CallerStep(c) \/ \E request \in Requests : Call(c, request)
      PROVE  state = "RUNNING" /\ ~runTimer
  BY <1>2 DEF CallerStep, Call, LockTimeout, StartCheck, StartCommit, StopCheck, StopCommit,
              EmergencyCommit, EmergencyFinish, PostDone
<1>3. CASE SequenceStep
  BY <1>3 DEF SequenceStep, StartChoke, StartWakePulse, StartCranking, StartWaitRpm,
              StartRetryWait, StartChokeOpen, StartSuccess, StartFailed, StopChokeReset,
              StopKillIgnition, StopFuelOff, StopSuccess, SequenceIdle, AtStart, AtStop,
              AtCallback, UnreadyIsQuiet
<1>4. CASE RpmPull \/ RpmHalt
  BY <1>4 DEF RpmPull, RpmHalt
<1>5. CASE SequenceFire \/ SequenceGiveUp \/ ChokeDone \/ CallbackReturns \/ OtherCallback \/ Tick
  BY <1>5 DEF SequenceFire, SequenceGiveUp, ChokeDone, CallbackReturns, OtherCallback, Tick
<1>6. ASSUME NEW r \in Rpms, HandleRpmChange(r) \/ SensorUpdate(r)
      PROVE  state = "RUNNING" /\ ~runTimer
  BY <1>6 DEF HandleRpmChange, SensorUpdate
<1>7. CASE UNCHANGED vars
  BY <1>7 DEF vars
<1>8. QED
  BY <1>1, <1>2, <1>3, <1>4, <1>5, <1>6, <1>7 DEF Next, TimerTaskStep

\* Once the runtime timer exists no run begins, or comes to go on, without it.
THEOREM RunIsAlwaysTimed == Spec => RunIsTimed
<1>1. IndInv /\ [Next]_vars
        => [stage' \in {"timers", "open"} /\ state' = "RUNNING" /\ ~runTimer'
              => state = "RUNNING" /\ ~runTimer]_vars
  BY RunStep
<1>2. QED
  BY <1>1, Invariance, PTL DEF Spec, RunIsTimed

\* A step that leaves the relay and its history alone is a stutter of the interlock.
LEMMA OutputsKept ==
  ASSUME UNCHANGED <<relay, crankTime, pulses>>
  PROVE  [Starter!StarterNext]_(Starter!starterVars)
BY DEF Starter!starterVars

\* A step that opens the relay and keeps the count releases the starter.
LEMMA RelayOpened ==
  ASSUME OpenRelay, UNCHANGED pulses
  PROVE  [Starter!StarterNext]_(Starter!starterVars)
BY DEF OpenRelay, Starter!StarterNext, Starter!Release

\* Every step of the controller is a step of the starter interlock or a stutter.
LEMMA StarterStep ==
  ASSUME IndInv, IndInv', [Next]_vars
  PROVE  [Starter!StarterNext]_(Starter!starterVars)
<1> USE DEF outputs
<1>1. CASE InitBegin \/ InitTimers \/ InitDone \/ DeinitBegin \/ DeinitEnd \/ Abort
  BY <1>1, RelayOpened, OutputsKept
     DEF InitBegin, InitTimers, InitDone, DeinitBegin, DeinitEnd, Abort
<1>2. ASSUME NEW c \in Callers, NEW request \in Requests, Call(c, request)
      PROVE  UNCHANGED <<relay, crankTime, pulses>>
  BY <1>2 DEF Call
<1>3. ASSUME NEW c \in Callers, StartCommit(c)
      PROVE  [Starter!StarterNext]_(Starter!starterVars)
  <2>1. ~relay
    BY <1>3 DEF StartCommit, IndInv, OwnerKnows, StarterGuarded
  <2>2. UNCHANGED <<relay, crankTime>> /\ (pulses' = 0 \/ UNCHANGED pulses)
    BY <1>3 DEF StartCommit
  <2>3. QED
    BY <2>1, <2>2 DEF Starter!StarterNext, Starter!Request, Starter!starterVars
<1>4. ASSUME NEW c \in Callers, CallerStep(c)
      PROVE  [Starter!StarterNext]_(Starter!starterVars)
  <2>1. CASE StopCommit(c) \/ EmergencyCommit(c)
    BY <2>1, RelayOpened DEF StopCommit, EmergencyCommit
  <2>2. CASE LockTimeout(c) \/ StartCheck(c) \/ StopCheck(c) \/ EmergencyFinish(c)
             \/ PostDone(c)
    BY <2>2, OutputsKept DEF LockTimeout, StartCheck, StopCheck, EmergencyFinish, PostDone
  <2>3. QED
    BY <1>3, <1>4, <2>1, <2>2 DEF CallerStep
<1>5. CASE StartWakePulse
  <2>1. Ready /\ state = "STARTING" /\ startSeq = "WAKE_PULSE"
    BY <1>5, StepInService DEF StartWakePulse, AtStart
  <2>2. ~relay /\ pulses < MaxAttempts
    BY <2>1, TimesAssumption DEF IndInv, TypeOK, StarterGuarded, PulsesCounted
  <2>3. relay' = TRUE /\ crankTime' = 0 /\ pulses' = pulses + 1
    BY <1>5 DEF StartWakePulse
  <2>4. QED
    BY <2>2, <2>3 DEF Starter!StarterNext, Starter!Engage
<1>6. CASE SequenceStep
  <2>1. CASE StartWaitRpm
    BY <2>1, RelayOpened DEF StartWaitRpm
  <2>2. CASE \/ StartChoke \/ StartCranking \/ StartRetryWait \/ StartChokeOpen
             \/ StartSuccess \/ StartFailed \/ StopChokeReset \/ StopKillIgnition
             \/ StopFuelOff \/ StopSuccess \/ SequenceIdle
    BY <2>2, OutputsKept
       DEF StartChoke, StartCranking, StartRetryWait, StartChokeOpen, StartSuccess,
           StartFailed, StopChokeReset, StopKillIgnition, StopFuelOff, StopSuccess,
           SequenceIdle
  <2>3. QED
    BY <1>5, <1>6, <2>1, <2>2 DEF SequenceStep
<1>7. CASE TimerTaskStep
  <2>1. CASE SequenceFire \/ SequenceGiveUp \/ RpmPull \/ RpmHalt \/ ChokeDone
             \/ CallbackReturns
    BY <2>1, OutputsKept DEF SequenceFire, SequenceGiveUp, RpmPull, RpmHalt,
       ChokeDone, CallbackReturns
  <2>2. QED
    BY <1>6, <1>7, <2>1 DEF TimerTaskStep
<1>8. ASSUME NEW r \in Rpms, HandleRpmChange(r) \/ SensorUpdate(r)
      PROVE  UNCHANGED <<relay, crankTime, pulses>>
  BY <1>8 DEF HandleRpmChange, SensorUpdate
<1>9. CASE Tick
  <2>1. CASE ~relay
    BY <1>9, <2>1, OutputsKept DEF Tick
  <2>2. CASE relay
    <3>1. relay' = TRUE /\ crankTime' = crankTime + 1 /\ pulses' = pulses
      BY <1>9, <2>2 DEF Tick
    <3>2. /\ crankTime \in Nat /\ seqTimer' \in Nat \union {Disarmed}
          /\ cbWait' \in Nat /\ TimerLag \in Nat
          /\ StartDelay["CRANKING"] \in Nat /\ StartDelay["WAIT_RPM"] \in Nat
      BY TimesAssumption DEF IndInv, TypeOK, StartSteps
    <3>3. crankTime < CrankLimit
      BY <3>1, <3>2 DEF IndInv, CrankClock, CrankLimit, Disarmed
    <3>4. QED
      BY <2>2, <3>1, <3>3 DEF Starter!StarterNext, Starter!Crank
  <2>3. QED
    BY <2>1, <2>2 DEF IndInv, TypeOK
<1>10. CASE UNCHANGED vars
  BY <1>10, OutputsKept DEF vars
<1>11. QED
  BY <1>1, <1>2, <1>4, <1>7, <1>8, <1>9, <1>10, OutputsKept DEF Next, OtherCallback

\* Seen through the relay, the controller implements the starter interlock.
THEOREM StarterRefinement == Spec => StarterImplemented
<1>1. Init => Starter!StarterInit
  BY DEF Init, Starter!StarterInit
<1>2. IndInv /\ IndInv' /\ [Next]_vars => [Starter!StarterNext]_(Starter!starterVars)
  BY StarterStep
<1>3. QED
  BY <1>1, <1>2, Invariance, PTL DEF Spec, StarterImplemented, Starter!StarterSpec

-----------------------------------------------------------------------------
(* The ignition, with polite callers.                                      *)

\* The initial state satisfies the invariant.
LEMMA KillStarts == Init => KillInv
  BY DEF Init, KillInv, StopsUndisturbed, StopGoesOn, KillAccounted, KillIsTransient

\* A call goes on.
LEMMA CallsKeepKill ==
  ASSUME Polite, IndInv, KillInv, NEW c \in Callers,
         CallerStep(c) \/ \E request \in Requests : Call(c, request)
  PROVE  KillInv'
<1> USE CallersAssumption, TimesAssumption DEF KillInv, Polite
<1>1. CASE \E request \in Requests : Call(c, request)
  BY <1>1 DEF Call, Goto, controller, outputs, timers, timerSide, IndInv, TypeOK, LockHeld,
              StopsUndisturbed, StopGoesOn, KillAccounted, KillIsTransient, StepPending
<1>2. CASE LockTimeout(c) \/ PostDone(c)
  BY <1>2 DEF LockTimeout, PostDone, Return, Goto, controller, outputs, timers, timerSide, IndInv,
              TypeOK, StopsUndisturbed, StopGoesOn, KillAccounted, KillIsTransient, StepPending
<1>3. CASE StartCheck(c) \/ StopCheck(c)
  BY <1>3 DEF StartCheck, StopCheck, AtLock, Return, Hold, PostHolding, Goto, controller, outputs,
              timers, timerSide, IndInv, TypeOK, StopsUndisturbed, StopGoesOn, KillAccounted,
              KillIsTransient, StepPending
<1>4. CASE StartCommit(c)
  BY <1>4 DEF StartCommit, Return, Hold, PostHolding, Goto, timerSide, IndInv, TypeOK,
              StopsUndisturbed, StopGoesOn, KillAccounted, KillIsTransient, StepPending
<1>5. CASE StopCommit(c)
  <2>1. /\ pc[c] = "commit" /\ state' = "STOPPING" /\ stopSeq' = "CHOKE_RESET"
        /\ seqTimer' = Armed(StopDelay["CHOKE_RESET"])
        /\ pc'[c] = "post" /\ wait'[c] = PostWait
        /\ UNCHANGED <<stage, kill, timerTask, cbWait>>
    BY <1>5 DEF StopCommit, Hold, PostHolding, Goto, timerSide, IndInv, TypeOK
  <2>2. \A d \in Callers : d = c
    OBVIOUS
  <2>3. StopDelay["CHOKE_RESET"] \in Nat /\ StopDelay["CHOKE_RESET"] > 0
    BY DEF StopSteps
  <2>4. StopsUndisturbed'
    BY <2>1, <2>2, <2>3 DEF StopsUndisturbed, Disarmed
  <2>5. Ready => StepPending'
    BY <2>1, <2>3 DEF StepPending, Disarmed
  <2>6. StopGoesOn'
    <3>1. Ready => timerTask # "post"
      BY <2>1, CallersAssumption DEF IndInv, LockHeld
    <3>2. QED
      BY <2>1, <2>3, <2>5, <3>1 DEF StopGoesOn, StopSteps, Disarmed
  <2>7. KillAccounted' /\ KillIsTransient'
    BY <2>1, <2>2, <2>5 DEF KillAccounted, KillIsTransient, StopSteps
  <2>8. QED
    BY <2>4, <2>6, <2>7
<1>6. CASE EmergencyCommit(c)
  BY <1>6 DEF EmergencyCommit, Hold, Goto, timerSide, IndInv, TypeOK, LockHeld, UnreadyIsQuiet,
              ShutIsSafe,
              StopsUndisturbed, StopGoesOn, KillAccounted, KillIsTransient, StepPending
<1>7. CASE EmergencyFinish(c)
  BY <1>7 DEF EmergencyFinish, Hold, PostHolding, Goto, controller, timers, timerSide, IndInv,
              TypeOK, StopsUndisturbed, StopGoesOn, KillAccounted, KillIsTransient, StepPending
<1>8. QED
  BY <1>1, <1>2, <1>3, <1>4, <1>5, <1>6, <1>7 DEF CallerStep

\* A sequence step is made.
LEMMA SequenceKeepsKill ==
  ASSUME IndInv, KillInv, SequenceStep
  PROVE  KillInv'
<1> USE CallersAssumption, TimesAssumption DEF KillInv
<1>1. CASE StartChoke \/ StartWakePulse \/ StartCranking \/ StartWaitRpm \/ StartRetryWait
           \/ StartChokeOpen
  <2>1. /\ state = "STARTING" /\ owner = NoOne /\ timerTask' = "idle"
        /\ UNCHANGED <<stage, state, stopSeq, kill, pc, op, wait>>
    BY <1>1 DEF StartChoke, StartWakePulse, StartCranking, StartWaitRpm, StartRetryWait,
                StartChokeOpen, AtStart, AtCallback, StartTo, LeaveCallback, outputs, callers
  <2>2. QED
    BY <2>1 DEF StopsUndisturbed, StopGoesOn, KillAccounted, KillIsTransient
<1>2. CASE StartSuccess \/ StartFailed
  <2>1. /\ state = "STARTING" /\ owner = NoOne /\ timerTask' = "post"
        /\ state' \in {"RUNNING", "STOPPED"}
        /\ UNCHANGED <<stage, stopSeq, kill, pc, op, wait>>
    BY <1>2 DEF StartSuccess, StartFailed, AtStart, AtCallback, PostInCallback, outputs, callers
  <2>2. QED
    BY <2>1 DEF StopsUndisturbed, StopGoesOn, KillAccounted, KillIsTransient
<1>3. CASE StopChokeReset \/ StopKillIgnition \/ StopFuelOff
  <2>1. /\ state = "STOPPING" /\ AtCallback /\ timerTask' = "idle"
        /\ UNCHANGED <<stage, state, pc, op, wait>>
        /\ stopSeq' \in StopSteps /\ (Ready => seqTimer' # Disarmed)
        /\ kill' => stopSeq' \in {"KILL_IGNITION", "FUEL_OFF"}
    BY <1>3 DEF StopChokeReset, StopKillIgnition, StopFuelOff, AtStop, AtCallback, StopTo,
                Rearm, LeaveCallback, outputs, callers, StopSteps, Disarmed
  <2>2. \A c \in Callers : pc[c] \notin {"commit", "kill", "post"}
    BY <2>1, NobodyInside DEF AtCallback
  <2>3. ~Ready => StopChokeReset /\ ~kill'
    <3>1. ~Ready => stopSeq = "CHOKE_RESET"
      BY <2>1, <2>2, CallbackInService DEF StopGoesOn, AtCallback
    <3>2. QED
      BY <1>3, <2>2, <3>1 DEF StopChokeReset, StopKillIgnition, StopFuelOff, AtStop, outputs,
                              KillAccounted
  <2>4. QED
    BY <2>1, <2>2, <2>3 DEF StopsUndisturbed, StopGoesOn, KillAccounted, KillIsTransient,
                            StepPending
<1>4. CASE StopSuccess
  <2>1. /\ stopSeq = "SUCCESS" /\ state' = "STOPPED" /\ stopSeq' = "IDLE"
        /\ UNCHANGED <<stage, kill, pc, op, wait>>
    BY <1>4 DEF StopSuccess, AtStop, outputs, callers
  <2>2. QED
    BY <2>1 DEF StopsUndisturbed, StopGoesOn, KillAccounted, KillIsTransient
<1>5. CASE SequenceIdle
  <2>1. /\ state # "STOPPING" /\ timerTask' = "idle"
        /\ UNCHANGED <<stage, state, stopSeq, kill, pc, op, wait>>
    BY <1>5 DEF SequenceIdle, LeaveCallback, controller, outputs, callers
  <2>2. QED
    BY <2>1 DEF StopsUndisturbed, StopGoesOn, KillAccounted, KillIsTransient
<1>6. QED
  BY <1>1, <1>2, <1>3, <1>4, <1>5 DEF SequenceStep

\* Every step with polite callers keeps the invariant.
LEMMA NextKeepsKill ==
  ASSUME Polite, IndInv, KillInv, [Next]_vars
  PROVE  KillInv'
<1> USE CallersAssumption, TimesAssumption DEF KillInv
<1>1. CASE InitBegin \/ InitTimers \/ InitDone
  BY <1>1 DEF InitBegin, InitTimers, InitDone, outputs, timers, callers, timerSide, IndInv,
              UnreadyIsQuiet, StopsUndisturbed, StopGoesOn, KillAccounted, KillIsTransient
<1>11. CASE DeinitBegin
  <2>1. /\ Ready /\ TimerTaskYields /\ stage' = "closing" /\ ~kill'
        /\ UNCHANGED <<state, stopSeq, pc, op, wait, timerTask>>
    BY <1>11 DEF DeinitBegin, callers, timerSide
  <2>2. ASSUME timerTask = "sequence", state = "STOPPING"
        PROVE  stopSeq = "CHOKE_RESET" \/ \E c \in Callers : pc[c] = "commit"
    <3>1. owner \in Callers /\ pc[owner] \in {"commit", "kill", "post"}
      BY <2>1, <2>2 DEF TimerTaskYields, IndInv, TypeOK, LockHeld
    <3>2. QED
      BY <2>1, <2>2, <3>1 DEF StopsUndisturbed
  <2>3. QED
    BY <2>1, <2>2 DEF StopsUndisturbed, StopGoesOn, KillAccounted, KillIsTransient
<1>12. CASE DeinitEnd \/ Abort
  BY <1>12 DEF DeinitEnd, Abort, OpenRelay, outputs, timers, callers, timerSide, IndInv, ShutIsSafe,
               StopsUndisturbed, StopGoesOn, KillAccounted, KillIsTransient
<1>2. ASSUME NEW c \in Callers, CallerStep(c) \/ \E request \in Requests : Call(c, request)
      PROVE  KillInv'
  BY <1>2, CallsKeepKill
<1>3. CASE SequenceStep
  BY <1>3, SequenceKeepsKill
<1>4. CASE SequenceFire
  BY <1>4 DEF SequenceFire, controller, outputs, callers, IndInv, TypeOK, ShutIsSafe, Disarmed,
              StopsUndisturbed, StopGoesOn, KillAccounted, KillIsTransient, StepPending
<1>5. CASE SequenceGiveUp
  BY <1>5 DEF SequenceGiveUp, controller, outputs, timers, callers,
              StopsUndisturbed, StopGoesOn, KillAccounted, KillIsTransient, StepPending
<1>6. CASE RpmPull \/ RpmHalt
  <2>1. /\ timerTask \in {"pull", "halt"} /\ timerTask' \in {"idle", "busy"}
        /\ state' \in {"RUNNING", "STOPPED"} /\ UNCHANGED <<stage, stopSeq, kill, pc, op, wait>>
    BY <1>6 DEF RpmPull, RpmHalt, Linger, outputs, callers
  <2>2. QED
    BY <2>1 DEF StopsUndisturbed, StopGoesOn, KillAccounted, KillIsTransient
<1>7. CASE ChokeDone \/ CallbackReturns \/ OtherCallback
  <2>1. /\ timerTask # "sequence" /\ timerTask' \in {"idle", "busy"}
        /\ UNCHANGED <<stage, state, stopSeq, kill, seqTimer, pc, op, wait>>
    BY <1>7 DEF ChokeDone, CallbackReturns, OtherCallback, controller, outputs, timers, callers,
                timerSide
  <2>2. QED
    BY <2>1 DEF StopsUndisturbed, StopGoesOn, KillAccounted, KillIsTransient, StepPending
<1>8. ASSUME NEW r \in Rpms, HandleRpmChange(r) \/ SensorUpdate(r)
      PROVE  KillInv'
  <2>1. /\ timerTask = "idle" /\ timerTask' \in {"idle", "busy", "pull", "halt"}
        /\ timerTask' \in {"pull", "halt"} => state # "STOPPING"
        /\ UNCHANGED <<stage, state, stopSeq, kill, seqTimer, pc, op, wait>>
    BY <1>8 DEF HandleRpmChange, SensorUpdate, Linger, controller, outputs, timers, callers,
                timerSide
  <2>2. QED
    BY <2>1 DEF StopsUndisturbed, StopGoesOn, KillAccounted, KillIsTransient, StepPending
<1>9. CASE Tick
  <2>1. /\ TimerTaskWaits /\ \A c \in Callers : CallerWaits(c)
        /\ seqTimer' = IF seqTimer > 0 THEN seqTimer - 1 ELSE seqTimer
        /\ cbWait' = IF cbWait > 0 THEN cbWait - 1 ELSE 0
        /\ \A c \in Callers : wait'[c] = IF wait[c] > 0 THEN wait[c] - 1 ELSE 0
        /\ UNCHANGED <<stage, state, stopSeq, kill, pc, op, owner, timerTask>>
    BY <1>9 DEF Tick, controller
  <2>2. /\ seqTimer \in Nat \union {-1} /\ \A c \in Callers : wait[c] \in Nat
        /\ owner \in Callers \union {NoOne, TimerTask}
    BY DEF IndInv, TypeOK, Disarmed
  <2>3. StopsUndisturbed'
    BY <2>1, <2>2 DEF StopsUndisturbed, CallerWaits, Disarmed
  <2>4. StopGoesOn'
    <3>1. ASSUME Ready, state = "STOPPING", timerTask = "sequence", seqTimer = Disarmed
          PROVE  FALSE
      <4>1. owner \in Callers /\ pc[owner] \in {"commit", "kill", "post"}
        BY <2>1, <2>2, <3>1 DEF TimerTaskWaits, IndInv, LockHeld
      <4>2. pc[owner] = "post" /\ wait[owner] > 0
        BY <2>1, <3>1, <4>1 DEF CallerWaits, StopsUndisturbed
      <4>3. QED
        BY <2>2, <3>1, <4>1, <4>2 DEF StopsUndisturbed
    <3>2. (seqTimer' = Disarmed) = (seqTimer = Disarmed)
      BY <2>1, <2>2 DEF Disarmed
    <3>3. QED
      BY <2>1, <3>1, <3>2 DEF StopGoesOn, StepPending
  <2>5. KillAccounted'
    BY <2>1 DEF KillAccounted
  <2>6. KillIsTransient'
    BY <2>1, <2>2 DEF KillIsTransient, StepPending, Disarmed
  <2>7. QED
    BY <2>3, <2>4, <2>5, <2>6
<1>10. CASE UNCHANGED vars
  BY <1>10 DEF vars, controller, outputs, timers, callers, timerSide,
               StopsUndisturbed, StopGoesOn, KillAccounted, KillIsTransient, StepPending
<1>13. QED
  BY <1>1, <1>2, <1>3, <1>4, <1>5, <1>6, <1>7, <1>8, <1>9, <1>10, <1>11,
     <1>12 DEF Next, TimerTaskStep

\* With polite callers KillInv is an invariant.
THEOREM KillInvariance == Polite /\ Spec => []KillInv
<1>1. Init => KillInv
  BY KillStarts
<1>2. Polite /\ IndInv /\ KillInv /\ [Next]_vars => KillInv'
  BY NextKeepsKill
<1>3. SUFFICES ASSUME Polite PROVE Spec => []KillInv
  OBVIOUS
<1>4. QED
  BY <1>1, <1>2, <1>3, Invariance, PTL DEF Spec

\* One task that never starts a stopping engine: the ignition is grounded only while a step that
\* releases it is to come, or for the two seconds of an emergency stop.
THEOREM KillIsAlwaysTransient == Polite /\ Spec => []KillIsTransient
<1>1. KillInv => KillIsTransient
  BY DEF KillInv
<1>2. QED
  BY <1>1, KillInvariance, PTL

\* Under the same condition the starter never turns an engine whose ignition is grounded.
THEOREM NeverCrankedKilled == Polite /\ Spec => []NoCrankWhileKilled
<1>1. IndInv /\ KillInv => NoCrankWhileKilled
  BY DEF IndInv, KillInv, StarterGuarded, KillIsTransient, EmergencyHolds, NoCrankWhileKilled
<1>2. QED
  BY <1>1, Invariance, KillInvariance, PTL

\* The only step that opens the fuel valve follows a successful test of the speed.
LEMMA FuelStep ==
  ASSUME IndInv, KillInv, [Next]_vars, ~fuel, fuel'
  PROVE  ~relay /\ ~kill /\ state = "STARTING"
<1>1. StartChokeOpen
  BY DEF IndInv, TypeOK, Next, CallerStep, TimerTaskStep, SequenceStep, vars, outputs,
         InitBegin, InitTimers, InitDone, DeinitBegin, DeinitEnd, Abort, Call, LockTimeout,
         StartCheck, StartCommit,
         StopCheck, StopCommit, EmergencyCommit, EmergencyFinish, PostDone, SequenceFire,
         SequenceGiveUp, StartChoke, StartWakePulse, StartCranking, StartWaitRpm, StartRetryWait,
         StartSuccess, StartFailed, StopChokeReset, StopKillIgnition, StopFuelOff, StopSuccess,
         SequenceIdle, RpmPull, RpmHalt, ChokeDone, CallbackReturns, OtherCallback,
         HandleRpmChange, SensorUpdate, Tick
<1>2. state = "STARTING" /\ startSeq = "CHOKE_OPEN" /\ owner = NoOne
  BY <1>1 DEF StartChokeOpen, AtStart, AtCallback
<1>3. ~relay
  BY <1>2 DEF IndInv, StarterGuarded
<1>4. ~kill
  BY <1>1, <1>2, NobodyInside
     DEF StartChokeOpen, AtStart, AtCallback, KillInv, KillIsTransient
<1>5. QED
  BY <1>2, <1>3, <1>4

\* And the fuel valve is opened only with the starter released and the ignition free.
THEOREM FuelOpensLate == Polite /\ Spec => FuelOpensAfterStart
<1>1. IndInv /\ KillInv /\ [Next]_vars
        => [~fuel /\ fuel' => ~relay /\ ~kill /\ state = "STARTING"]_vars
  BY FuelStep
<1>2. QED
  BY <1>1, Invariance, KillInvariance, PTL DEF Spec, FuelOpensAfterStart

-----------------------------------------------------------------------------
(* The time a start takes.                                                 *)

\* Every step costs some time, and so does an attempt.
LEMMA CostsTime ==
  /\ \A s \in StartSteps : Cost(s) \in Nat /\ StartDelay[s] \in Nat /\ StartDelay[s] > 0
                           /\ Cost(s) = StartDelay[s] + TimerLag + CallbackWait
  /\ Cranking \in Nat /\ Attempt \in Nat /\ Ending \in Nat
  /\ Ending >= Cost("CHOKE_OPEN") + Cost("SUCCESS") /\ Ending >= Cost("FAILED")
<1>1. TimerLag \in Nat /\ CallbackWait \in Nat
  BY TimesAssumption
<1>2. ASSUME NEW s \in StartSteps PROVE StartDelay[s] \in Nat /\ StartDelay[s] > 0
  BY TimesAssumption
<1>3. ASSUME NEW s \in StartSteps PROVE Cost(s) \in Nat
  BY <1>1, <1>2 DEF Cost
<1>4. /\ Cost("RETRY_WAIT") \in Nat /\ Cost("CHOKE_RESET") \in Nat
      /\ Cost("CHOKE_CLOSE") \in Nat /\ Cost("WAKE_PULSE") \in Nat /\ Cost("CRANKING") \in Nat
      /\ Cost("WAIT_RPM") \in Nat /\ Cost("CHOKE_OPEN") \in Nat /\ Cost("SUCCESS") \in Nat
      /\ Cost("FAILED") \in Nat
  BY <1>3 DEF StartSteps
<1>5. Cranking \in Nat
  BY <1>4 DEF Cranking
<1>6. Attempt \in Nat
  BY <1>4, <1>5 DEF Attempt
<1>7. /\ Ending \in Nat /\ Ending >= Cost("CHOKE_OPEN") + Cost("SUCCESS")
      /\ Ending >= Cost("FAILED")
  BY <1>4 DEF Ending
<1>8. QED
  BY <1>2, <1>3, <1>5, <1>6, <1>7 DEF Cost

\* The attempts that remain after the next one are one less.
LEMMA OneAttemptLess ==
  ASSUME NEW n \in Nat, n + 1 < MaxAttempts
  PROVE  (MaxAttempts - 1 - n) * Attempt = Attempt + (MaxAttempts - 1 - (n + 1)) * Attempt
<1>1. Attempt \in Nat /\ MaxAttempts \in Nat
  BY CostsTime, TimesAssumption
<1>2. \A k \in Nat : (k + 1) * Attempt = Attempt + k * Attempt
  BY <1>1
<1>3. /\ MaxAttempts - 1 - (n + 1) \in Nat
      /\ MaxAttempts - 1 - n = (MaxAttempts - 1 - (n + 1)) + 1
  BY <1>1
<1>4. QED
  BY <1>2, <1>3

LEMMA AttemptsCost ==
  ASSUME NEW n \in Nat, n < MaxAttempts
  PROVE  (MaxAttempts - 1 - n) * Attempt \in Nat
<1>1. Attempt \in Nat /\ MaxAttempts - 1 - n \in Nat
  BY CostsTime, TimesAssumption
<1>2. \A a, b \in Nat : a * b \in Nat
  OBVIOUS
<1>3. QED
  BY <1>1, <1>2

\* What the rest of a start costs at a step covers the step that follows and its own rest.
LEMMA StepsCovered ==
  ASSUME NEW n \in Nat, n < MaxAttempts
  PROVE  /\ \A s \in StartSteps : Rest(s, n) \in Nat
         /\ Rest("FAILED", n + 1) = 0
         /\ Rest("RETRY_WAIT", n) = Cost("CHOKE_RESET") + Rest("CHOKE_RESET", n)
         /\ Rest("CHOKE_RESET", n) = Cost("CHOKE_CLOSE") + Rest("CHOKE_CLOSE", n)
         /\ Rest("CHOKE_CLOSE", n) = Cost("WAKE_PULSE") + Rest("WAKE_PULSE", n)
         /\ Rest("WAKE_PULSE", n) = Cost("CRANKING") + Rest("CRANKING", n)
         /\ Rest("CRANKING", n) = Cost("WAIT_RPM") + Rest("WAIT_RPM", n)
         /\ Rest("WAIT_RPM", n) >= Cost("CHOKE_OPEN") + Rest("CHOKE_OPEN", n)
         /\ Rest("WAIT_RPM", n) >= Cost("FAILED")
         /\ n + 1 < MaxAttempts =>
              Rest("WAIT_RPM", n) = Cost("RETRY_WAIT") + Rest("RETRY_WAIT", n + 1)
         /\ Rest("CHOKE_OPEN", n) = Cost("SUCCESS") + Rest("SUCCESS", n)
<1> DEFINE a == (MaxAttempts - 1 - n) * Attempt
           b == (MaxAttempts - 1 - (n + 1)) * Attempt
<1>1. a \in Nat /\ (n + 1 < MaxAttempts => b \in Nat /\ a = Attempt + b)
  BY AttemptsCost, OneAttemptLess
<1>2. /\ Cost("RETRY_WAIT") \in Nat /\ Cost("CHOKE_RESET") \in Nat
      /\ Cost("CHOKE_CLOSE") \in Nat /\ Cost("WAKE_PULSE") \in Nat /\ Cost("CRANKING") \in Nat
      /\ Cost("WAIT_RPM") \in Nat /\ Cost("CHOKE_OPEN") \in Nat /\ Cost("SUCCESS") \in Nat
      /\ Cost("FAILED") \in Nat
  BY CostsTime DEF StartSteps
<1>3. Cranking \in Nat /\ Ending \in Nat /\ Ending >= Cost("CHOKE_OPEN") + Cost("SUCCESS")
      /\ Ending >= Cost("FAILED")
  BY CostsTime
<1>4. /\ Cranking = Cost("CHOKE_CLOSE") + Cost("WAKE_PULSE") + Cost("CRANKING") + Cost("WAIT_RPM")
      /\ Attempt = Cost("RETRY_WAIT") + Cost("CHOKE_RESET") + Cranking
  BY DEF Cranking, Attempt
<1>5. /\ Rest("RETRY_WAIT", n) = Cost("CHOKE_RESET") + Cranking + Ending + a
      /\ Rest("RETRY_WAIT", n + 1) = Cost("CHOKE_RESET") + Cranking + Ending + b
      /\ Rest("CHOKE_RESET", n) = Cranking + Ending + a
      /\ Rest("CHOKE_CLOSE", n)
           = Cost("WAKE_PULSE") + Cost("CRANKING") + Cost("WAIT_RPM") + Ending + a
      /\ Rest("WAKE_PULSE", n) = Cost("CRANKING") + Cost("WAIT_RPM") + Ending + a
      /\ Rest("CRANKING", n) = Cost("WAIT_RPM") + Ending + a
      /\ Rest("WAIT_RPM", n) = Ending + a
      /\ Rest("CHOKE_OPEN", n) = Cost("SUCCESS") + 0
      /\ Rest("SUCCESS", n) = 0 + 0
      /\ Rest("FAILED", n) = 0 + 0 /\ Rest("FAILED", n + 1) = 0 + 0
  BY DEF Rest, After
<1> HIDE DEF a, b
<1>6. \A s \in StartSteps : Rest(s, n) \in Nat
  BY <1>1, <1>2, <1>3, <1>5 DEF StartSteps
<1>7. QED
  BY <1>1, <1>2, <1>3, <1>4, <1>5, <1>6

\* The time to the next step is a number.
LEMMA NextStepTyped == IndInv => NextStepWithin \in Nat
  BY TimesAssumption DEF IndInv, TypeOK, NextStepWithin

\* While a step is sure to come, a unit of time is one less to the next step, unless its
\* callback is kept waiting beside a timer that has run out.
LEMMA TickSpends ==
  ASSUME IndInv, Tick, StepPending, timerTask # "post", ~(seqTimer = 0 /\ timerTask = "sequence")
  PROVE  NextStepWithin' \in Nat /\ NextStepWithin' < NextStepWithin
<1>1. /\ seqTimer' = IF seqTimer > 0 THEN seqTimer - 1 ELSE seqTimer
      /\ cbWait' = IF cbWait > 0 THEN cbWait - 1 ELSE 0
      /\ timerTask' = timerTask /\ TimerTaskWaits
  BY DEF Tick
<1>2. /\ cbWait \in Nat /\ seqTimer \in Nat \union {Disarmed} /\ TimerLag \in Nat
      /\ CallbackWait \in Nat /\ (timerTask = "busy" => cbWait <= TimerLag)
  BY TimesAssumption DEF IndInv, TypeOK, LagBounded
<1>3. CASE seqTimer = Disarmed
  <2>1. timerTask = "sequence" /\ cbWait > 0
    BY <1>1, <1>3 DEF StepPending, TimerTaskWaits
  <2>2. seqTimer' = Disarmed /\ cbWait' = cbWait - 1
    BY <1>1, <1>3, <2>1 DEF Disarmed
  <2>3. QED
    BY <1>2, <1>3, <2>1, <2>2 DEF NextStepWithin
<1>4. CASE seqTimer = 0
  <2>1. timerTask = "busy" /\ cbWait > 0
    BY <1>1, <1>4 DEF TimerTaskWaits
  <2>2. seqTimer' = 0 /\ cbWait' = cbWait - 1 /\ timerTask' = "busy"
    BY <1>1, <1>4, <2>1
  <2>3. QED
    BY <1>2, <1>4, <2>1, <2>2 DEF NextStepWithin, Disarmed
<1>5. CASE seqTimer > 0
  <2>1. seqTimer \in Nat /\ seqTimer' = seqTimer - 1
    BY <1>1, <1>2, <1>5 DEF Disarmed
  <2>2. cbWait' \in Nat /\ (timerTask = "busy" => cbWait' <= TimerLag)
    BY <1>1, <1>2
  <2>3. QED
    BY <1>1, <1>2, <1>5, <2>1, <2>2 DEF NextStepWithin, Disarmed
<1>6. QED
  BY <1>2, <1>3, <1>4, <1>5

\* Nor do the other steps of the esp_timer task put it off.
LEMMA TimerTaskSpends ==
  ASSUME IndInv, state \in {"STARTING", "STOPPING"}, StepPending, timerTask # "post",
         timerTask = "sequence" /\ seqTimer = Disarmed => cbWait > 0,
         \/ SequenceFire \/ SequenceGiveUp \/ OtherCallback \/ CallbackReturns \/ ChokeDone
         \/ \E r \in Rpms : HandleRpmChange(r)
  PROVE  NextStepWithin' \in 0..NextStepWithin
<1>1. /\ cbWait \in Nat /\ seqTimer \in Nat \union {Disarmed} /\ TimerLag \in Nat
      /\ CallbackWait \in Nat
  BY TimesAssumption DEF IndInv, TypeOK
<1>2. NextStepWithin \in Nat
  BY NextStepTyped
<1>3. CASE SequenceFire
  <2>1. /\ timerTask = "idle" /\ seqTimer = 0 /\ seqTimer' = Disarmed
        /\ cbWait' = CallbackWait
    BY <1>3 DEF SequenceFire
  <2>2. QED
    BY <1>1, <2>1 DEF NextStepWithin, Disarmed
<1>4. CASE SequenceGiveUp
  <2>1. /\ timerTask = "sequence" /\ cbWait = 0 /\ timerTask' = "idle"
        /\ UNCHANGED <<seqTimer, cbWait>>
    BY <1>4 DEF SequenceGiveUp, timers
  <2>2. seqTimer # Disarmed
    BY <2>1
  <2>3. QED
    BY <1>1, <1>2, <2>1, <2>2 DEF NextStepWithin
<1>5. CASE OtherCallback
  <2>1. /\ timerTask = "idle" /\ seqTimer # 0 /\ UNCHANGED seqTimer
    BY <1>5 DEF OtherCallback, timers
  <2>2. seqTimer # Disarmed /\ seqTimer > 0
    BY <1>1, <2>1 DEF StepPending
  <2>3. QED
    BY <1>1, <1>2, <2>1, <2>2 DEF NextStepWithin
<1>6. CASE CallbackReturns
  <2>1. /\ timerTask = "busy" /\ timerTask' = "idle" /\ UNCHANGED seqTimer
    BY <1>6 DEF CallbackReturns, timers
  <2>2. seqTimer # Disarmed
    BY <2>1 DEF StepPending
  <2>3. QED
    BY <1>1, <1>2, <2>1, <2>2 DEF NextStepWithin
<1>7. CASE ChokeDone
  <2>1. UNCHANGED <<seqTimer, timerTask, cbWait>>
    BY <1>7 DEF ChokeDone, timers, timerSide
  <2>2. QED
    BY <1>2, <2>1 DEF NextStepWithin
<1>8. CASE \E r \in Rpms : HandleRpmChange(r)
  <2>1. /\ timerTask = "idle" /\ Linger /\ UNCHANGED seqTimer
    BY <1>8 DEF HandleRpmChange, timers
  <2>2. seqTimer # Disarmed
    BY <2>1 DEF StepPending
  <2>3. CASE seqTimer = 0
    <3>1. timerTask' = "idle"
      BY <2>1, <2>3 DEF Linger
    <3>2. QED
      BY <1>1, <1>2, <2>1, <2>3, <3>1 DEF NextStepWithin, Disarmed
  <2>4. CASE seqTimer # 0
    <3>1. seqTimer \in Nat /\ seqTimer > 0 /\ seqTimer' = seqTimer
      BY <1>1, <2>1, <2>2, <2>4
    <3>2. NextStepWithin' = NextStepWithin
      BY <2>2, <3>1 DEF NextStepWithin
    <3>3. QED
      BY <1>2, <3>2
  <2>5. QED
    BY <2>3, <2>4
<1>9. QED
  BY <1>3, <1>4, <1>5, <1>6, <1>7, <1>8

\* The time to the next step and what follows are natural numbers while a start is under way.
LEMMA TimeLeftTyped ==
  ASSUME IndInv, Ready, state = "STARTING"
  PROVE  /\ startSeq \in StartSteps /\ attempts \in Nat
         /\ startSeq # "FAILED" => attempts < MaxAttempts
         /\ NextStepWithin \in Nat /\ Rest(startSeq, attempts) \in Nat /\ TimeLeft \in Nat
<1>1. startSeq \in StartSteps /\ attempts \in Nat /\ (startSeq # "FAILED" => attempts < MaxAttempts)
  BY DEF IndInv, TypeOK, StartNeverStranded, PulsesCounted
<1>2. Rest(startSeq, attempts) \in Nat
  <2>1. CASE startSeq = "FAILED"
    BY <2>1 DEF Rest, After
  <2>2. CASE startSeq # "FAILED"
    BY <1>1, <2>2, StepsCovered
  <2>3. QED
    BY <2>1, <2>2
<1>3. NextStepWithin \in Nat
  BY NextStepTyped
<1>4. QED
  BY <1>1, <1>2, <1>3 DEF TimeLeft

\* A step of the sequence whose cost is covered leaves no more time than there was.
LEMMA StepPays ==
  ASSUME IndInv, Ready, NEW s \in StartSteps, NEW t \in StartSteps, AtStart(s), StartTo(t),
         Rest(t, attempts') \in Nat, Rest(s, attempts) >= Cost(t) + Rest(t, attempts')
  PROVE  TimeLeft' \in 0..TimeLeft
<1>1. /\ state = "STARTING" /\ startSeq = s /\ timerTask = "sequence"
      /\ startSeq' = t /\ timerTask' = "idle" /\ cbWait' = 0
      /\ seqTimer' = IF seqTimer = Disarmed THEN StartDelay[t] ELSE seqTimer
  BY DEF AtStart, AtCallback, StartTo, LeaveCallback, Rearm
<1>2. /\ cbWait \in Nat /\ seqTimer \in Nat \union {Disarmed} /\ TimerLag \in Nat
      /\ CallbackWait \in Nat
  BY TimesAssumption DEF IndInv, TypeOK
<1>3. /\ NextStepWithin \in Nat /\ Rest(s, attempts) \in Nat
      /\ TimeLeft = NextStepWithin + Rest(s, attempts)
  BY <1>1, TimeLeftTyped DEF TimeLeft
<1>4. Cost(t) \in Nat /\ StartDelay[t] \in Nat /\ StartDelay[t] > 0
      /\ Cost(t) = StartDelay[t] + TimerLag + CallbackWait
  BY CostsTime
<1>5. TimeLeft' = NextStepWithin' + Rest(t, attempts')
  BY <1>1 DEF TimeLeft
<1>6. CASE seqTimer = Disarmed
  <2>1. NextStepWithin' = StartDelay[t] + CallbackWait + TimerLag
    BY <1>1, <1>4, <1>6 DEF NextStepWithin, Disarmed
  <2>2. QED
    BY <1>2, <1>3, <1>4, <1>5, <2>1
<1>7. CASE seqTimer # Disarmed
  <2>1. NextStepWithin' = NextStepWithin
    BY <1>1, <1>7 DEF NextStepWithin
  <2>2. QED
    BY <1>3, <1>4, <1>5, <2>1
<1>8. QED
  BY <1>6, <1>7

\* Each step of the start sequence that goes on with the start.
LEMMA StartStepPays ==
  ASSUME IndInv, Ready, state' = "STARTING",
         StartChoke \/ StartWakePulse \/ StartCranking \/ StartWaitRpm \/ StartRetryWait
           \/ StartChokeOpen
  PROVE  state = "STARTING" /\ TimeLeft' \in 0..TimeLeft
<1>1. state = "STARTING"
  BY DEF StartChoke, StartWakePulse, StartCranking, StartWaitRpm, StartRetryWait,
         StartChokeOpen, AtStart
<1> SUFFICES TimeLeft' \in 0..TimeLeft
  BY <1>1
<1>2. /\ startSeq \in StartSteps /\ attempts \in Nat
      /\ startSeq # "FAILED" => attempts < MaxAttempts
  BY <1>1, TimeLeftTyped
<1>3. ASSUME NEW s \in StartSteps \ {"FAILED"}, NEW t \in StartSteps,
             AtStart(s), StartTo(t), attempts' = attempts,
             Rest(s, attempts) >= Cost(t) + Rest(t, attempts)
      PROVE  TimeLeft' \in 0..TimeLeft
  <2>1. startSeq = s
    BY <1>3 DEF AtStart
  <2>2. Rest(t, attempts) \in Nat
    BY <1>2, <1>3, <2>1, StepsCovered
  <2>3. QED
    BY <1>3, <2>2, StepPays
<1>4. ASSUME NEW x \in StartSteps \ {"FAILED"}, AtStart(x)
      PROVE  startSeq = x /\ attempts < MaxAttempts
  BY <1>2, <1>4 DEF AtStart
<1>5. \A x \in StartSteps : Cost(x) \in Nat
  BY CostsTime
<1>6. CASE StartChoke
  <2>1. attempts' = attempts
    BY <1>6 DEF StartChoke
  <2>2. CASE AtStart("CHOKE_RESET") /\ StartTo("CHOKE_CLOSE")
    <3>1. "CHOKE_RESET" \in StartSteps \ {"FAILED"} /\ "CHOKE_CLOSE" \in StartSteps
      BY DEF StartSteps
    <3>2. /\ Rest("CHOKE_RESET", attempts) = Cost("CHOKE_CLOSE") + Rest("CHOKE_CLOSE", attempts)
          /\ Rest("CHOKE_RESET", attempts) \in Nat
      BY <1>2, <1>4, <2>2, <3>1, StepsCovered
    <3>3. QED
      BY <1>3, <2>1, <2>2, <3>1, <3>2
  <2>3. CASE AtStart("CHOKE_CLOSE") /\ StartTo("WAKE_PULSE")
    <3>1. "CHOKE_CLOSE" \in StartSteps \ {"FAILED"} /\ "WAKE_PULSE" \in StartSteps
      BY DEF StartSteps
    <3>2. /\ Rest("CHOKE_CLOSE", attempts) = Cost("WAKE_PULSE") + Rest("WAKE_PULSE", attempts)
          /\ Rest("CHOKE_CLOSE", attempts) \in Nat
      BY <1>2, <1>4, <2>3, <3>1, StepsCovered
    <3>3. QED
      BY <1>3, <2>1, <2>3, <3>1, <3>2
  <2>4. QED
    BY <1>6, <2>2, <2>3 DEF StartChoke
<1>7. CASE StartWakePulse
  <2>1. AtStart("WAKE_PULSE") /\ StartTo("CRANKING") /\ attempts' = attempts
    BY <1>7 DEF StartWakePulse
  <2>2. "WAKE_PULSE" \in StartSteps \ {"FAILED"} /\ "CRANKING" \in StartSteps
    BY DEF StartSteps
  <2>3. /\ Rest("WAKE_PULSE", attempts) = Cost("CRANKING") + Rest("CRANKING", attempts)
        /\ Rest("WAKE_PULSE", attempts) \in Nat
    BY <1>2, <1>4, <2>1, <2>2, StepsCovered
  <2>4. QED
    BY <1>3, <2>1, <2>2, <2>3
<1>8. CASE StartCranking
  <2>1. AtStart("CRANKING") /\ StartTo("WAIT_RPM") /\ attempts' = attempts
    BY <1>8 DEF StartCranking
  <2>2. "CRANKING" \in StartSteps \ {"FAILED"} /\ "WAIT_RPM" \in StartSteps
    BY DEF StartSteps
  <2>3. /\ Rest("CRANKING", attempts) = Cost("WAIT_RPM") + Rest("WAIT_RPM", attempts)
        /\ Rest("CRANKING", attempts) \in Nat
    BY <1>2, <1>4, <2>1, <2>2, StepsCovered
  <2>4. QED
    BY <1>3, <2>1, <2>2, <2>3
<1>9. CASE StartWaitRpm
  <2>1. AtStart("WAIT_RPM")
    BY <1>9 DEF StartWaitRpm
  <2>2. "WAIT_RPM" \in StartSteps \ {"FAILED"} /\ "CHOKE_OPEN" \in StartSteps
        /\ "FAILED" \in StartSteps /\ "RETRY_WAIT" \in StartSteps
    BY DEF StartSteps
  <2>3. attempts < MaxAttempts
    BY <1>4, <2>1, <2>2
  <2>4. CASE StartTo("CHOKE_OPEN") /\ attempts' = attempts
    <3>1. Rest("WAIT_RPM", attempts) >= Cost("CHOKE_OPEN") + Rest("CHOKE_OPEN", attempts)
      BY <1>2, <2>3, StepsCovered
    <3>2. QED
      BY <1>3, <2>1, <2>2, <2>4, <3>1
  <2>5. CASE StartTo("FAILED") /\ attempts' = attempts + 1
    <3>1. /\ Rest("WAIT_RPM", attempts) >= Cost("FAILED")
          /\ Rest("FAILED", attempts + 1) = 0
      BY <1>2, <2>3, StepsCovered
    <3>2. /\ Rest("FAILED", attempts') \in Nat
          /\ Rest("WAIT_RPM", attempts) >= Cost("FAILED") + Rest("FAILED", attempts')
      BY <1>5, <2>2, <2>5, <3>1
    <3>3. QED
      BY <2>1, <2>2, <2>5, <3>2, StepPays
  <2>6. CASE StartTo("RETRY_WAIT") /\ attempts' = attempts + 1 /\ attempts + 1 < MaxAttempts
    <3>1. Rest("WAIT_RPM", attempts) = Cost("RETRY_WAIT") + Rest("RETRY_WAIT", attempts + 1)
      BY <1>2, <2>3, <2>6, StepsCovered
    <3>2. Rest("RETRY_WAIT", attempts + 1) \in Nat /\ Rest("WAIT_RPM", attempts) \in Nat
      BY <1>2, <2>2, <2>3, <2>6, StepsCovered
    <3>3. /\ Rest("RETRY_WAIT", attempts') \in Nat
          /\ Rest("WAIT_RPM", attempts) >= Cost("RETRY_WAIT") + Rest("RETRY_WAIT", attempts')
      BY <2>6, <3>1, <3>2
    <3>4. QED
      BY <2>1, <2>2, <2>6, <3>3, StepPays
  <2>7. \/ StartTo("CHOKE_OPEN") /\ attempts' = attempts
        \/ attempts' = attempts + 1
             /\ StartTo(IF attempts + 1 >= MaxAttempts THEN "FAILED" ELSE "RETRY_WAIT")
    BY <1>9 DEF StartWaitRpm
  <2>8. attempts + 1 >= MaxAttempts \/ attempts + 1 < MaxAttempts
    BY <1>2, TimesAssumption
  <2>9. attempts + 1 < MaxAttempts => ~(attempts + 1 >= MaxAttempts)
    BY <1>2, TimesAssumption
  <2>10. QED
    BY <2>4, <2>5, <2>6, <2>7, <2>8, <2>9
<1>10. CASE StartRetryWait
  <2>1. AtStart("RETRY_WAIT") /\ StartTo("CHOKE_RESET") /\ attempts' = attempts
    BY <1>10 DEF StartRetryWait
  <2>2. "RETRY_WAIT" \in StartSteps \ {"FAILED"} /\ "CHOKE_RESET" \in StartSteps
    BY DEF StartSteps
  <2>3. /\ Rest("RETRY_WAIT", attempts) = Cost("CHOKE_RESET") + Rest("CHOKE_RESET", attempts)
        /\ Rest("RETRY_WAIT", attempts) \in Nat
    BY <1>2, <1>4, <2>1, <2>2, StepsCovered
  <2>4. QED
    BY <1>3, <2>1, <2>2, <2>3
<1>11. CASE StartChokeOpen
  <2>1. AtStart("CHOKE_OPEN") /\ StartTo("SUCCESS") /\ attempts' = attempts
    BY <1>11 DEF StartChokeOpen
  <2>2. "CHOKE_OPEN" \in StartSteps \ {"FAILED"} /\ "SUCCESS" \in StartSteps
    BY DEF StartSteps
  <2>3. /\ Rest("CHOKE_OPEN", attempts) = Cost("SUCCESS") + Rest("SUCCESS", attempts)
        /\ Rest("CHOKE_OPEN", attempts) \in Nat
    BY <1>2, <1>4, <2>1, <2>2, StepsCovered
  <2>4. QED
    BY <1>3, <2>1, <2>2, <2>3
<1>12. QED
  BY <1>1, <1>6, <1>7, <1>8, <1>9, <1>10, <1>11

\* A unit of time goes by for the start as well: whoever keeps the mutex from its callback
\* is not still at it when the timer has run out.
LEMMA TickPays ==
  ASSUME IndInv, Tick, Ready', state' = "STARTING"
  PROVE  state = "STARTING" /\ TimeLeft' \in 0..(TimeLeft - 1)
<1>1. /\ Ready /\ state = "STARTING" /\ startSeq' = startSeq /\ attempts' = attempts
      /\ TimerTaskWaits /\ \A c \in Callers : CallerWaits(c)
  BY DEF Tick, controller
<1>2. wait \in [Callers -> Nat] /\ owner \in Callers \union {NoOne, TimerTask}
  BY DEF IndInv, TypeOK
<1>3. /\ Rest(startSeq, attempts) \in Nat /\ NextStepWithin \in Nat
      /\ TimeLeft = NextStepWithin + Rest(startSeq, attempts)
      /\ TimeLeft' = NextStepWithin' + Rest(startSeq, attempts)
  BY <1>1, TimeLeftTyped DEF TimeLeft
<1>4. timerTask # "post" /\ StepPending
  BY <1>1 DEF IndInv, OwnerKnows, StartNeverStranded
<1>5. ~(seqTimer = 0 /\ timerTask = "sequence")
  <2>1. SUFFICES ASSUME seqTimer = 0, timerTask = "sequence" PROVE FALSE
    OBVIOUS
  <2>2. owner # NoOne /\ owner # TimerTask
    BY <1>1, <2>1 DEF TimerTaskWaits, IndInv, LockHeld
  <2>3. PICK c \in Callers : owner = c
    BY <1>2, <2>2
  <2>4. pc[c] = "post"
    BY <1>1, <2>3 DEF IndInv, LockHeld, OwnerKnows, CallerWaits
  <2>5. wait[c] <= 0 /\ wait[c] > 0
    BY <1>1, <2>1, <2>4 DEF IndInv, OwnerKnows, CallerWaits, Disarmed
  <2>6. wait[c] \in Nat
    BY <1>2
  <2>7. QED
    BY <2>5, <2>6
<1>6. NextStepWithin' \in Nat /\ NextStepWithin' < NextStepWithin
  BY <1>1, <1>4, <1>5, TickSpends
<1>7. QED
  BY <1>1, <1>3, <1>6

\* The other steps of the esp_timer task: what they spend is counted in the time left.
LEMMA TimerTaskPays ==
  ASSUME IndInv, Ready, state = "STARTING", UNCHANGED controller,
         \/ SequenceFire \/ SequenceGiveUp \/ OtherCallback \/ CallbackReturns \/ ChokeDone
         \/ \E r \in Rpms : HandleRpmChange(r)
  PROVE  TimeLeft' \in 0..TimeLeft
<1>1. /\ Rest(startSeq, attempts) \in Nat /\ NextStepWithin \in Nat
      /\ TimeLeft = NextStepWithin + Rest(startSeq, attempts)
      /\ TimeLeft' = NextStepWithin' + Rest(startSeq, attempts)
  BY TimeLeftTyped DEF TimeLeft, controller
<1>2. /\ timerTask # "post" /\ StepPending
      /\ timerTask = "sequence" /\ seqTimer = Disarmed => cbWait > 0
  BY DEF IndInv, OwnerKnows, StartNeverStranded, CallbackHasTime
<1>3. NextStepWithin' \in 0..NextStepWithin
  BY <1>2, TimerTaskSpends
<1>4. QED
  BY <1>1, <1>3

\* What leaves the controller, the sequence timer and the esp_timer task alone leaves the
\* time left as it is.
LEMMA TimeLeftKept ==
  ASSUME IndInv, Ready', state' = "STARTING", UNCHANGED <<controller, seqTimer, timerSide>>
  PROVE  state = "STARTING" /\ TimeLeft' \in 0..TimeLeft
<1>1. Ready /\ state = "STARTING" /\ TimeLeft' = TimeLeft
  BY DEF controller, timerSide, TimeLeft, NextStepWithin
<1>2. TimeLeft \in Nat
  BY <1>1, TimeLeftTyped
<1>3. QED
  BY <1>1, <1>2

\* The calls: only one that finds the engine neither running nor starting starts it.
LEMMA CallPays ==
  ASSUME IndInv, Ready', state' = "STARTING", NEW c \in Callers, CallerStep(c)
  PROVE  TimeLeft' \in 0..(IF state # "STARTING" THEN StartLimit ELSE TimeLeft)
<1>1. CASE LockTimeout(c) \/ StartCheck(c) \/ StopCheck(c) \/ EmergencyFinish(c) \/ PostDone(c)
  <2>1. UNCHANGED <<controller, seqTimer, timerSide>>
    BY <1>1 DEF LockTimeout, StartCheck, StopCheck, EmergencyFinish, PostDone, timers
  <2>2. QED
    BY <2>1, TimeLeftKept
<1>2. CASE StopCommit(c) \/ EmergencyCommit(c)
  BY <1>2 DEF StopCommit, EmergencyCommit
<1>3. CASE StartCommit(c)
  <2>1. state # "STARTING"
    BY <1>3 DEF StartCommit, IndInv, OwnerKnows
  <2>2. /\ startSeq' = "CHOKE_RESET" /\ attempts' = 0
        /\ seqTimer' = StartDelay["CHOKE_RESET"]
    BY <1>3 DEF StartCommit
  <2>3. /\ Cost("CHOKE_RESET") \in Nat
        /\ StartDelay["CHOKE_RESET"] \in Nat /\ StartDelay["CHOKE_RESET"] > 0
        /\ Cost("CHOKE_RESET") = StartDelay["CHOKE_RESET"] + TimerLag + CallbackWait
        /\ TimerLag \in Nat /\ CallbackWait \in Nat
    BY CostsTime, TimesAssumption DEF StartSteps
  <2>4. NextStepWithin' = Cost("CHOKE_RESET")
    BY <2>2, <2>3 DEF NextStepWithin, Disarmed
  <2>5. Rest("CHOKE_RESET", 0) \in Nat
    BY StepsCovered, TimesAssumption DEF StartSteps
  <2>6. TimeLeft' = StartLimit /\ StartLimit \in Nat
    BY <2>2, <2>3, <2>4, <2>5 DEF TimeLeft, StartLimit
  <2>7. QED
    BY <2>1, <2>6
<1>4. QED
  BY <1>1, <1>2, <1>3 DEF CallerStep

LEMMA StartPays ==
  ASSUME IndInv, [Next]_vars, Ready', state' = "STARTING"
  PROVE  TimeLeft' \in 0..(IF state # "STARTING" THEN StartLimit
                           ELSE IF Tick THEN TimeLeft - 1 ELSE TimeLeft)
<1>1. CASE Tick
  BY <1>1, TickPays
<1>2. CASE ~Tick
  <2>1. SUFFICES TimeLeft' \in 0..(IF state # "STARTING" THEN StartLimit ELSE TimeLeft)
    BY <1>2
  <2>2. CASE UNCHANGED vars
    BY <2>2, TimeLeftKept DEF vars, timers
  <2>3. ASSUME NEW c \in Callers, CallerStep(c)
        PROVE  TimeLeft' \in 0..(IF state # "STARTING" THEN StartLimit ELSE TimeLeft)
    BY <2>3, CallPays
  <2>4. ASSUME NEW c \in Callers, NEW request \in Requests, Call(c, request)
        PROVE  TimeLeft' \in 0..(IF state # "STARTING" THEN StartLimit ELSE TimeLeft)
    BY <2>4, TimeLeftKept DEF Call, timers
  <2>5. ASSUME NEW r \in Rpms, SensorUpdate(r)
        PROVE  TimeLeft' \in 0..(IF state # "STARTING" THEN StartLimit ELSE TimeLeft)
    BY <2>5, TimeLeftKept DEF SensorUpdate, timers
  <2>6. CASE \/ InitBegin \/ InitTimers \/ InitDone \/ DeinitBegin \/ DeinitEnd \/ Abort
             \/ RpmPull \/ RpmHalt
    BY <2>6 DEF InitBegin, InitTimers, InitDone, DeinitBegin, DeinitEnd, Abort, RpmPull, RpmHalt,
                IndInv, UnreadyIsQuiet
  <2>7. CASE \/ SequenceFire \/ SequenceGiveUp \/ OtherCallback \/ CallbackReturns \/ ChokeDone
             \/ \E r \in Rpms : HandleRpmChange(r)
    <3>1. UNCHANGED controller
      BY <2>7 DEF SequenceFire, SequenceGiveUp, OtherCallback, CallbackReturns, ChokeDone,
                  HandleRpmChange
    <3>2. Ready /\ state = "STARTING"
      BY <3>1 DEF controller
    <3>3. QED
      BY <2>7, <3>1, <3>2, TimerTaskPays
  <2>8. CASE SequenceStep
    <3>1. CASE StartChoke \/ StartWakePulse \/ StartCranking \/ StartWaitRpm \/ StartRetryWait
                 \/ StartChokeOpen
      <4>1. Ready' = Ready
        BY <3>1 DEF StartChoke, StartWakePulse, StartCranking, StartWaitRpm, StartRetryWait,
                    StartChokeOpen
      <4>2. QED
        BY <3>1, <4>1, StartStepPays
    <3>2. CASE StartSuccess \/ StartFailed \/ StopChokeReset \/ StopKillIgnition \/ StopFuelOff
                 \/ StopSuccess \/ SequenceIdle
      BY <3>2 DEF StartSuccess, StartFailed, StopChokeReset, StopKillIgnition, StopFuelOff,
                  StopSuccess, SequenceIdle, AtStop, controller
    <3>3. QED
      BY <2>8, <3>1, <3>2 DEF SequenceStep
  <2>9. QED
    BY <1>2, <2>2, <2>3, <2>4, <2>5, <2>6, <2>7, <2>8 DEF Next, TimerTaskStep
<1>3. QED
  BY <1>1, <1>2

\* A start request is over within StartLimit, for every number of callers and attempts and
\* every choice of the delays, the lag and the waits.
THEOREM StartsInTime == Spec => StartInTime
<1>1. IndInv /\ [Next]_vars
        => [Ready' /\ state' = "STARTING" =>
              TimeLeft' \in 0..(IF state # "STARTING" THEN StartLimit
                                ELSE IF Tick THEN TimeLeft - 1 ELSE TimeLeft)]_vars
  BY StartPays
<1>2. QED
  BY <1>1, Invariance, PTL DEF Spec, StartInTime

-----------------------------------------------------------------------------
(* The time a stop takes, with polite callers.                             *)

\* Each step costs what its successor has left, and the first one the whole limit.
LEMMA StopStepsCovered ==
  /\ \A s \in StopSteps : /\ StopCost(s) \in Nat /\ StopDelay[s] \in Nat /\ StopDelay[s] > 0
                          /\ StopCost(s) = StopDelay[s] + TimerLag + CallbackWait
                          /\ StopRest(s) \in Nat
  /\ StopRest("CHOKE_RESET") = StopCost("KILL_IGNITION") + StopRest("KILL_IGNITION")
  /\ StopRest("KILL_IGNITION") = StopCost("FUEL_OFF") + StopRest("FUEL_OFF")
  /\ StopRest("FUEL_OFF") = StopCost("SUCCESS") + StopRest("SUCCESS")
<1>1. \A s \in StopSteps : StopDelay[s] \in Nat /\ StopDelay[s] > 0
  BY TimesAssumption
<1>2. TimerLag \in Nat /\ CallbackWait \in Nat
  BY TimesAssumption
<1>3. \A s \in StopSteps : StopCost(s) \in Nat
  BY <1>1, <1>2 DEF StopCost
<1>4. /\ StopCost("KILL_IGNITION") \in Nat /\ StopCost("FUEL_OFF") \in Nat
      /\ StopCost("SUCCESS") \in Nat
  BY <1>3 DEF StopSteps
<1>5. /\ StopRest("CHOKE_RESET")
           = StopCost("KILL_IGNITION") + StopCost("FUEL_OFF") + StopCost("SUCCESS")
      /\ StopRest("KILL_IGNITION") = StopCost("FUEL_OFF") + StopCost("SUCCESS")
      /\ StopRest("FUEL_OFF") = StopCost("SUCCESS") /\ StopRest("SUCCESS") = 0
  BY DEF StopRest
<1>6. QED
  BY <1>1, <1>3, <1>4, <1>5 DEF StopCost, StopSteps

\* The time to the next step and what follows are natural numbers while a stop is under way.
LEMMA StopTimeLeftTyped ==
  ASSUME IndInv, KillInv, Ready, state = "STOPPING"
  PROVE  /\ stopSeq \in StopSteps /\ StepPending
         /\ NextStepWithin \in Nat /\ StopRest(stopSeq) \in Nat
         /\ StopTimeLeft = NextStepWithin + StopRest(stopSeq) /\ StopTimeLeft \in Nat
<1>1. stopSeq \in StopSteps /\ StepPending
  BY DEF KillInv, StopGoesOn
<1>2. NextStepWithin \in Nat /\ StopRest(stopSeq) \in Nat
  BY <1>1, NextStepTyped, StopStepsCovered
<1>3. QED
  BY <1>1, <1>2 DEF StopTimeLeft

\* A step of the stop whose cost is covered leaves no more time than there was.
LEMMA StopStepPays ==
  ASSUME IndInv, KillInv, Ready, NEW s \in StopSteps, NEW t \in StopSteps, AtStop(s), StopTo(t),
         StopRest(s) = StopCost(t) + StopRest(t)
  PROVE  StopTimeLeft' \in 0..StopTimeLeft
<1>1. /\ state = "STOPPING" /\ stopSeq = s /\ timerTask = "sequence"
      /\ stopSeq' = t /\ timerTask' = "idle" /\ cbWait' = 0
      /\ seqTimer' = IF seqTimer = Disarmed THEN StopDelay[t] ELSE seqTimer
  BY DEF AtStop, AtCallback, StopTo, LeaveCallback, Rearm
<1>2. cbWait \in Nat /\ TimerLag \in Nat /\ CallbackWait \in Nat
  BY TimesAssumption DEF IndInv, TypeOK
<1>3. NextStepWithin \in Nat /\ StopRest(s) \in Nat /\ StopTimeLeft = NextStepWithin + StopRest(s)
  BY <1>1, StopTimeLeftTyped
<1>4. /\ StopCost(t) \in Nat /\ StopDelay[t] \in Nat /\ StopDelay[t] > 0 /\ StopRest(t) \in Nat
      /\ StopCost(t) = StopDelay[t] + TimerLag + CallbackWait
  BY StopStepsCovered
<1>5. StopTimeLeft' = NextStepWithin' + StopRest(t)
  BY <1>1 DEF StopTimeLeft
<1>6. CASE seqTimer = Disarmed
  <2>1. NextStepWithin' = StopDelay[t] + CallbackWait + TimerLag
    BY <1>1, <1>4, <1>6 DEF NextStepWithin, Disarmed
  <2>2. QED
    BY <1>2, <1>3, <1>4, <1>5, <2>1
<1>7. CASE seqTimer # Disarmed
  <2>1. NextStepWithin' = NextStepWithin
    BY <1>1, <1>7 DEF NextStepWithin
  <2>2. QED
    BY <1>3, <1>4, <1>5, <2>1
<1>8. QED
  BY <1>6, <1>7

\* Of the steps of both sequences only three leave a stop under way.
LEMMA StopSequencePays ==
  ASSUME IndInv, KillInv, SequenceStep, Ready', state' = "STOPPING"
  PROVE  state = "STOPPING" /\ StopTimeLeft' \in 0..StopTimeLeft
<1>1. \/ StopChokeReset \/ StopKillIgnition \/ StopFuelOff
  BY DEF SequenceStep, StartChoke, StartWakePulse, StartCranking, StartWaitRpm, StartRetryWait,
         StartChokeOpen, StartSuccess, StartFailed, StopSuccess, SequenceIdle, AtStart, controller
<1>2. Ready /\ state = "STOPPING"
  BY <1>1 DEF StopChokeReset, StopKillIgnition, StopFuelOff, AtStop
<1>3. CASE StopChokeReset
  BY <1>2, <1>3, StopStepPays, StopStepsCovered DEF StopChokeReset, StopSteps
<1>4. CASE StopKillIgnition
  BY <1>2, <1>4, StopStepPays, StopStepsCovered DEF StopKillIgnition, StopSteps
<1>5. CASE StopFuelOff
  BY <1>2, <1>5, StopStepPays, StopStepsCovered DEF StopFuelOff, StopSteps
<1>6. QED
  BY <1>1, <1>2, <1>3, <1>4, <1>5

\* A unit of time goes by for the stop as well.
LEMMA StopTickPays ==
  ASSUME IndInv, KillInv, Tick, Ready', state' = "STOPPING"
  PROVE  StopTimeLeft' \in 0..(StopTimeLeft - 1)
<1>1. /\ Ready /\ state = "STOPPING" /\ stopSeq' = stopSeq
      /\ TimerTaskWaits /\ \A c \in Callers : CallerWaits(c)
  BY DEF Tick, controller
<1>2. wait \in [Callers -> Nat] /\ owner \in Callers \union {NoOne, TimerTask}
  BY DEF IndInv, TypeOK
<1>3. timerTask # "post" /\ StepPending
  BY <1>1 DEF KillInv, StopGoesOn
<1>4. ~(seqTimer = 0 /\ timerTask = "sequence")
  <2>1. SUFFICES ASSUME seqTimer = 0, timerTask = "sequence" PROVE FALSE
    OBVIOUS
  <2>2. owner # NoOne /\ owner # TimerTask
    BY <1>1, <2>1 DEF TimerTaskWaits, IndInv, LockHeld
  <2>3. PICK c \in Callers : owner = c
    BY <1>2, <2>2
  <2>4. pc[c] = "post"
    BY <1>1, <2>3 DEF IndInv, LockHeld, KillInv, StopsUndisturbed, CallerWaits
  <2>5. wait[c] <= 0 /\ wait[c] > 0
    BY <1>1, <2>1, <2>4 DEF KillInv, StopsUndisturbed, CallerWaits, Disarmed
  <2>6. wait[c] \in Nat
    BY <1>2
  <2>7. QED
    BY <2>5, <2>6
<1>5. NextStepWithin' \in Nat /\ NextStepWithin' < NextStepWithin
  BY <1>3, <1>4, TickSpends
<1>6. /\ StopRest(stopSeq) \in Nat /\ NextStepWithin \in Nat
      /\ StopTimeLeft = NextStepWithin + StopRest(stopSeq)
      /\ StopTimeLeft' = NextStepWithin' + StopRest(stopSeq)
  BY <1>1, StopTimeLeftTyped DEF StopTimeLeft
<1>7. QED
  BY <1>5, <1>6

\* What leaves the controller, the sequence timer and the esp_timer task alone.
LEMMA StopTimeLeftKept ==
  ASSUME IndInv, KillInv, Ready', state' = "STOPPING", UNCHANGED <<controller, seqTimer, timerSide>>
  PROVE  StopTimeLeft' \in 0..StopTimeLeft
<1>1. Ready /\ state = "STOPPING" /\ StopTimeLeft' = StopTimeLeft
  BY DEF controller, timerSide, StopTimeLeft, NextStepWithin
<1>2. QED
  BY <1>1, StopTimeLeftTyped

\* The calls: only a stop begins a stop, and it begins anew.
LEMMA StopCallPays ==
  ASSUME IndInv, KillInv, Ready', state' = "STOPPING", NEW c \in Callers, CallerStep(c)
  PROVE  StopTimeLeft' \in 0..(IF StopCommit(c) THEN StopLimit ELSE StopTimeLeft)
<1>1. CASE ~StopCommit(c)
  <2>1. LockTimeout(c) \/ StartCheck(c) \/ StopCheck(c) \/ EmergencyFinish(c) \/ PostDone(c)
    BY <1>1 DEF CallerStep, StartCommit, EmergencyCommit
  <2>2. UNCHANGED <<controller, seqTimer, timerSide>>
    BY <2>1 DEF LockTimeout, StartCheck, StopCheck, EmergencyFinish, PostDone, timers
  <2>3. QED
    BY <1>1, <2>2, StopTimeLeftKept
<1>2. CASE StopCommit(c)
  <2>1. stopSeq' = "CHOKE_RESET" /\ seqTimer' = StopDelay["CHOKE_RESET"]
    BY <1>2 DEF StopCommit
  <2>2. /\ StopCost("CHOKE_RESET") \in Nat /\ StopRest("CHOKE_RESET") \in Nat
        /\ StopDelay["CHOKE_RESET"] \in Nat /\ StopDelay["CHOKE_RESET"] > 0
        /\ StopCost("CHOKE_RESET") = StopDelay["CHOKE_RESET"] + TimerLag + CallbackWait
        /\ TimerLag \in Nat /\ CallbackWait \in Nat
    BY StopStepsCovered, TimesAssumption DEF StopSteps
  <2>3. NextStepWithin' = StopCost("CHOKE_RESET")
    BY <2>1, <2>2 DEF NextStepWithin, Disarmed
  <2>4. StopTimeLeft' = StopLimit /\ StopLimit \in Nat
    BY <2>1, <2>2, <2>3 DEF StopTimeLeft, StopLimit
  <2>5. QED
    BY <1>2, <2>4
<1>3. QED
  BY <1>1, <1>2

\* Every step that leaves a stop under way.
LEMMA StopPays ==
  ASSUME IndInv, KillInv, [Next]_vars, Ready', state' = "STOPPING"
  PROVE  StopTimeLeft' \in 0..(IF \E c \in Callers : StopCommit(c) THEN StopLimit
                               ELSE IF Tick THEN StopTimeLeft - 1 ELSE StopTimeLeft)
<1>1. CASE \E c \in Callers : StopCommit(c)
  <2>1. PICK c \in Callers : StopCommit(c)
    BY <1>1
  <2>2. StopTimeLeft' \in 0..StopLimit
    BY <2>1, StopCallPays DEF CallerStep
  <2>3. QED
    BY <1>1, <2>2
<1>2. CASE ~(\E c \in Callers : StopCommit(c)) /\ Tick
  <2>1. StopTimeLeft' \in 0..(StopTimeLeft - 1)
    BY <1>2, StopTickPays
  <2>2. QED
    BY <1>2, <2>1
<1>3. CASE ~(\E c \in Callers : StopCommit(c)) /\ ~Tick
  <2>1. SUFFICES StopTimeLeft' \in 0..StopTimeLeft
    BY <1>3
  <2>2. CASE UNCHANGED vars
    BY <2>2, StopTimeLeftKept DEF vars, timers
  <2>3. ASSUME NEW c \in Callers, CallerStep(c)
        PROVE  StopTimeLeft' \in 0..StopTimeLeft
    <3>1. ~StopCommit(c)
      BY <1>3
    <3>2. QED
      BY <2>3, <3>1, StopCallPays
  <2>4. ASSUME NEW c \in Callers, NEW request \in Requests, Call(c, request)
        PROVE  StopTimeLeft' \in 0..StopTimeLeft
    BY <2>4, StopTimeLeftKept DEF Call, timers
  <2>5. ASSUME NEW r \in Rpms, SensorUpdate(r)
        PROVE  StopTimeLeft' \in 0..StopTimeLeft
    BY <2>5, StopTimeLeftKept DEF SensorUpdate, timers
  <2>6. CASE \/ InitBegin \/ InitTimers \/ InitDone \/ DeinitBegin \/ DeinitEnd \/ Abort
             \/ RpmPull \/ RpmHalt
    BY <2>6 DEF InitBegin, InitTimers, InitDone, DeinitBegin, DeinitEnd, Abort, RpmPull, RpmHalt,
                IndInv, UnreadyIsQuiet
  <2>7. CASE \/ SequenceFire \/ SequenceGiveUp \/ OtherCallback \/ CallbackReturns \/ ChokeDone
             \/ \E r \in Rpms : HandleRpmChange(r)
    <3>1. UNCHANGED controller
      BY <2>7 DEF SequenceFire, SequenceGiveUp, OtherCallback, CallbackReturns, ChokeDone,
                  HandleRpmChange
    <3>2. Ready /\ state = "STOPPING"
      BY <3>1 DEF controller
    <3>3. NextStepWithin' \in 0..NextStepWithin
      BY <2>7, <3>2, TimerTaskSpends DEF KillInv, StopGoesOn
    <3>4. /\ StopRest(stopSeq) \in Nat /\ NextStepWithin \in Nat
          /\ StopTimeLeft = NextStepWithin + StopRest(stopSeq)
          /\ StopTimeLeft' = NextStepWithin' + StopRest(stopSeq)
      BY <3>1, <3>2, StopTimeLeftTyped DEF StopTimeLeft, controller
    <3>5. QED
      BY <3>3, <3>4
  <2>8. CASE SequenceStep
    BY <2>8, StopSequencePays
  <2>9. QED
    BY <1>3, <2>2, <2>3, <2>4, <2>5, <2>6, <2>7, <2>8 DEF Next, TimerTaskStep
<1>4. QED
  BY <1>1, <1>2, <1>3

\* With polite callers the engine is at rest within StopLimit of the last request to stop it.
THEOREM StopsInTime == Polite /\ Spec => StopInTime
<1>1. IndInv /\ KillInv /\ [Next]_vars
        => [Ready' /\ state' = "STOPPING" =>
              StopTimeLeft' \in 0..(IF \E c \in Callers : StopCommit(c) THEN StopLimit
                                    ELSE IF Tick THEN StopTimeLeft - 1 ELSE StopTimeLeft)]_vars
  BY StopPays
<1>2. SUFFICES ASSUME Polite PROVE Spec => StopInTime
  OBVIOUS
<1>3. Spec => []KillInv
  BY <1>2, KillInvariance
<1>4. QED
  BY <1>1, <1>3, Invariance, PTL DEF Spec, StopInTime
=============================================================================
