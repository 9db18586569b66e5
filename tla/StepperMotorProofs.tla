-------------------------- MODULE StepperMotorProofs --------------------------
(***************************************************************************)
(* Theorems about the stepper motor, for any number of tasks, any targets  *)
(* and step counts, and every number of steps per revolution from 181 to   *)
(* 359.                                                                    *)
(***************************************************************************)
EXTENDS StepperMotorProps, TLAPS

-----------------------------------------------------------------------------
(* Conversions.                                                            *)

\* Within one degree of zero, one step leads to the degree on its side, wherever
\* it starts: both conversions truncate.
LEMMA StepFromZero ==
  ASSUME NEW p \in -1..1, NEW d \in {"CW", "CCW"}
  PROVE  After(p, 1, d) = IF d = "CW" THEN 1 ELSE -1
<1>1. StepsPerRev \in Int /\ 180 < StepsPerRev /\ StepsPerRev < 360
  BY RevolutionAssumption
<1>2. DegreesToSteps(p) = 0
  <2>1. p * StepsPerRev \in {-StepsPerRev, 0, StepsPerRev}
    BY <1>1
  <2>2. QED
    BY <1>1, <2>1 DEF DegreesToSteps, TruncDiv, Degrees
<1>3. StepsToDegrees(1) = 1 /\ StepsToDegrees(-1) = -1
  BY <1>1 DEF StepsToDegrees, TruncDiv, Degrees
<1>4. QED
  BY <1>2, <1>3 DEF After

\* A number of steps from a position leads to a position.
LEMMA AfterTyped ==
  ASSUME NEW p \in Int, NEW n \in Int, NEW d \in {"CW", "CCW"}
  PROVE  After(p, n, d) \in Int
<1>1. ASSUME NEW a \in Int, NEW b \in Int, b > 0 PROVE TruncDiv(a, b) \in Int
  BY <1>1 DEF TruncDiv
<1>2. StepsPerRev \in Int /\ StepsPerRev > 0
  BY RevolutionAssumption
<1>3. DegreesToSteps(p) \in Int
  BY <1>1, <1>2 DEF DegreesToSteps, Degrees
<1>4. ASSUME NEW s \in Int PROVE StepsToDegrees(s) \in Int
  BY <1>1, <1>2 DEF StepsToDegrees, Degrees
<1>5. QED
  BY <1>3, <1>4 DEF After

-----------------------------------------------------------------------------
(* The type invariant and the confinement of the position.                 *)

\* A request sets the motor up within its types.
LEMMA SetUpTyped ==
  ASSUME TypeOK, SetReset \/ SetMove
  PROVE  target' \in Int /\ direction' \in {"CW", "CCW"}
<1>1. CASE SetReset
  BY <1>1 DEF SetReset
<1>2. CASE SetMove
  <2>1. ASSUME NEW p \in Targets, SetPosition(p)
        PROVE  target' \in Int /\ direction' \in {"CW", "CCW"}
    BY <2>1, StepperAssumption DEF SetPosition
  <2>2. ASSUME NEW n \in StepCounts, NEW d \in {"CW", "CCW"}, SetSteps(n, d)
        PROVE  target' \in Int /\ direction' \in {"CW", "CCW"}
    BY <2>2, StepperAssumption, AfterTyped DEF SetSteps, TypeOK
  <2>3. QED
    BY <1>2, <2>1, <2>2 DEF SetMove
<1>3. QED
  BY <1>1, <1>2

\* Every step keeps IndInv.
LEMMA StepKeeps == IndInv /\ [Next]_vars => IndInv'
<1> SUFFICES ASSUME IndInv, [Next]_vars PROVE IndInv'
  OBVIOUS
<1> USE StepperAssumption
        DEF IndInv, TypeOK, ExtraUnderway, StuckNearZero, motor, history, calls
<1>1. CASE TimerReset
  BY <1>1, SetUpTyped DEF TimerReset, InTimerTask, DriveFrom, Count, Leave
<1>2. CASE TimerMove
  BY <1>2, SetUpTyped DEF TimerMove, InTimerTask, DriveFrom, Count, Leave
<1>3. ASSUME NEW c \in Tasks, TaskReset(c) PROVE IndInv'
  BY <1>3 DEF TaskReset, TakeMutex
<1>4. ASSUME NEW c \in Tasks, TaskMove(c) PROVE IndInv'
  BY <1>4, SetUpTyped DEF TaskMove, TakeMutex
<1>5. ASSUME NEW c \in Tasks, TaskStop(c) PROVE IndInv'
  BY <1>5 DEF TaskStop, TakeMutex
<1>6. ASSUME NEW c \in Tasks, TaskStep(c) PROVE IndInv'
  <2>1. CASE TaskPrepareReset(c)
    BY <2>1, SetUpTyped DEF TaskPrepareReset, Count
  <2>2. CASE TaskArm(c)
    BY <2>2 DEF TaskArm, Leave
  <2>3. CASE TaskRest(c)
    BY <2>3 DEF TaskRest
  <2>4. QED
    BY <1>6, <2>1, <2>2, <2>3 DEF TaskStep
<1>7. CASE Deinit
  BY <1>7 DEF Deinit
<1>8. CASE Reinit
  <2>1. position' \in -1..1 /\ position' \in Int /\ target' \in Int
    BY <1>8 DEF Reinit
  <2>2. UNCHANGED <<armed, extra, callback, owner, pc, arg, atLimit>>
    BY <1>8 DEF Reinit
  <2>3. QED
    BY <1>8, <2>1, <2>2, ZenonT(30) DEF Reinit
<1>9. CASE Callback
  <2>1. CASE CallbackEnter \/ CallbackTarget
    BY <2>1 DEF CallbackEnter, CallbackTarget
  <2>2. CASE CallbackLimit
    BY <2>2 DEF CallbackLimit, Enough
  <2>3. CASE CallbackStopTimer
    <3>1. callback' \in {"arrived", "homed"} /\ (callback' = "arrived" => callback = "arrive")
      BY <2>3 DEF CallbackStopTimer
    <3>2. UNCHANGED <<ready, motor, extra, coils, calls, history>> /\ armed' = FALSE
      BY <2>3, Zenon DEF CallbackStopTimer
    <3>3. ExtraUnderway'
      BY <3>1, <3>2
    <3>4. StuckNearZero'
      BY <3>2
    <3>5. TypeOK'
      <4>1. /\ ready' = ready /\ state' = state /\ position' = position /\ target' = target
            /\ direction' = direction /\ homed' = homed /\ extra' = extra /\ coils' = coils
            /\ owner' = owner /\ pc' = pc /\ arg' = arg /\ armed' \in BOOLEAN
            /\ atLimit' = atLimit /\ shut' = shut /\ cut' = cut
        BY <3>2
      <4>2. QED
        BY <3>1, <4>1
    <3>6. QED
      BY <3>3, <3>4, <3>5, Zenon
  <2>4. CASE CallbackIdle
    <3>1. callback' \in {"none", "zero"} /\ (callback' = "none" => callback = "arrived")
      BY <2>4 DEF CallbackIdle
    <3>2. ExtraUnderway' /\ StuckNearZero'
      BY <2>4, <3>1 DEF CallbackIdle
    <3>3. shut' \in BOOLEAN
      BY <2>4 DEF CallbackIdle
    <3>4. TypeOK'
      <4>1. /\ ready' = ready /\ state' = "IDLE" /\ position' = position /\ target' = target
            /\ direction' = direction /\ homed' = homed /\ armed' = armed /\ extra' = extra
            /\ coils' = FALSE /\ owner' = owner /\ pc' = pc /\ arg' = arg
            /\ atLimit' = atLimit /\ cut' = cut
        BY <2>4 DEF CallbackIdle
      <4>2. QED
        BY <3>1, <3>3, <4>1
    <3>5. QED
      BY <3>2, <3>4, Zenon
  <2>5. CASE CallbackZero
    <3>1. position' = 0 /\ position' \in -1..1 /\ position' \in Int
      BY <2>5 DEF CallbackZero
    <3>2. extra' \in 0..ExtraSteps /\ atLimit' \in 0..ExtraSteps /\ extra' < ExtraSteps
      BY <2>5 DEF CallbackZero
    <3>3. ExtraUnderway'
      BY <3>2
    <3>4. QED
      BY <2>5, <3>1, <3>2, <3>3, ZenonT(30) DEF CallbackZero
  <2>6. CASE CallbackStep
    <3>1. position' \in -1..1
      BY <2>6, StepFromZero DEF CallbackStep
    <3>2. QED
      BY <2>6, <3>1 DEF CallbackStep
  <2>7. QED
    BY <1>9, <2>1, <2>2, <2>3, <2>4, <2>5, <2>6 DEF Callback
<1>10. CASE UNCHANGED vars
  BY <1>10 DEF vars
<1>11. QED
  BY <1>1, <1>2, <1>3, <1>4, <1>5, <1>6, <1>7, <1>8, <1>9, <1>10 DEF Next

\* The types are kept, and the position estimate never leaves -1..1.
THEOREM StepperInvariance == Spec => []IndInv
<1>1. Init => IndInv
  <2>1. ASSUME Init PROVE StuckNearZero
    BY <2>1 DEF Init, StuckNearZero
  <2>2. ASSUME Init PROVE ExtraUnderway
    BY <2>2, StepperAssumption DEF Init, ExtraUnderway
  <2>3. ASSUME Init PROVE TypeOK
    <3>1. extra \in 0..ExtraSteps /\ atLimit \in 0..ExtraSteps
      BY <2>3, StepperAssumption DEF Init
    <3>2. owner \in Tasks \union {NoOne} /\ pc = "none" /\ arg = "MOVING"
      BY <2>3 DEF Init
    <3>3. position \in Int /\ target \in Int
      BY <2>3 DEF Init
    <3>4. QED
      BY <2>3, <3>1, <3>2, <3>3, Zenon DEF Init, TypeOK
  <2>4. QED
    BY <2>1, <2>2, <2>3 DEF IndInv
<1>2. QED
  BY <1>1, StepKeeps, PTL DEF Spec

\* The type invariant of the stepper motor.
THEOREM StepperTypeCorrect == Spec => []TypeOK
<1>1. IndInv => TypeOK
  BY DEF IndInv
<1>2. QED
  BY <1>1, StepperInvariance, PTL

\* A defect: at 181 to 359 steps per revolution the estimate of the position never leaves
\* the degree about zero, so that no move further than that ever arrives.
THEOREM PositionIsStuck == Spec => []StuckNearZero
<1>1. IndInv => StuckNearZero
  BY DEF IndInv
<1>2. QED
  BY <1>1, StepperInvariance, PTL

-----------------------------------------------------------------------------
(* The timer runs while it must.                                           *)

\* Every step keeps DrivenInv.
LEMMA StepKeepsDriven == TypeOK /\ DrivenInv /\ [Next]_vars => DrivenInv'
<1> SUFFICES ASSUME TypeOK, DrivenInv, [Next]_vars PROVE DrivenInv'
  OBVIOUS
<1> USE DEF DrivenInv, motor, calls
<1>1. CASE TimerReset \/ TimerMove
  BY <1>1 DEF TimerReset, TimerMove, DriveFrom
<1>2. ASSUME NEW c \in Tasks, TaskReset(c) \/ TaskMove(c) \/ TaskStop(c)
      PROVE  DrivenInv'
  BY <1>2, StepperAssumption DEF TaskReset, TaskMove, TaskStop, TakeMutex
<1>3. ASSUME NEW c \in Tasks, TaskStep(c) PROVE DrivenInv'
  BY <1>3, StepperAssumption DEF TaskStep, TaskPrepareReset, TaskArm, TaskRest
<1>4. CASE Deinit \/ Reinit
  BY <1>4 DEF Deinit, Reinit
<1>5. CASE CallbackStopTimer
  BY <1>5 DEF CallbackStopTimer
<1>6. CASE CallbackIdle
  BY <1>6 DEF CallbackIdle
<1>7. CASE CallbackEnter \/ CallbackTarget \/ CallbackLimit \/ CallbackZero \/ CallbackStep
  BY <1>7 DEF CallbackEnter, CallbackTarget, CallbackLimit, CallbackZero, CallbackStep
<1>8. CASE UNCHANGED vars
  BY <1>8 DEF vars
<1>9. QED
  BY <1>1, <1>2, <1>3, <1>4, <1>5, <1>6, <1>7, <1>8 DEF Next, Callback

\* Between calls and callbacks, a motor that is not IDLE has its timer running.
THEOREM MotorIsDriven == Spec => []Driven
<1>1. Init => DrivenInv
  BY DEF Init, DrivenInv
<1>2. DrivenInv => Driven
  BY DEF DrivenInv, Driven
<1>3. QED
  BY <1>1, <1>2, StepKeepsDriven, StepperTypeCorrect, PTL DEF Spec

-----------------------------------------------------------------------------
(* Resets go all the way.                                                  *)

\* Every step keeps the count of extra steps what the reset under way has made.
LEMMA StepKeepsFull == IndInv /\ FullInv /\ [Next]_vars => FullInv'
<1> SUFFICES ASSUME IndInv, FullInv, [Next]_vars PROVE FullInv'
  OBVIOUS
<1>0. TypeOK /\ ExtraUnderway
  BY DEF IndInv
<1> USE <1>0, StepperAssumption DEF TypeOK, FullInv, motor, calls, history
<1>1. CASE TimerReset \/ TimerMove
  <2>1. /\ owner = NoOne /\ callback = "none" /\ armed' = TRUE
        /\ UNCHANGED <<ready, extra, callback, owner, pc, arg, cut>>
        /\ state' = "IDLE" \/ ~armed \/ state = "MOVING"
        /\ state' = "MOVING" => ~armed
        /\ atLimit' = atLimit \/ (atLimit' = 0 /\ (~armed \/ state = "MOVING"))
    BY <1>1 DEF TimerReset, TimerMove, InTimerTask, DriveFrom, Count
  <2>2. QED
    BY <2>1
<1>2. ASSUME NEW c \in Tasks, TaskReset(c) \/ TaskMove(c) \/ TaskStop(c)
      PROVE  FullInv'
  BY <1>2 DEF TaskReset, TaskMove, TaskStop, TakeMutex
<1>3. ASSUME NEW c \in Tasks, TaskStep(c) PROVE FullInv'
  <2>1. CASE TaskPrepareReset(c)
    BY <2>1 DEF TaskPrepareReset, Count
  <2>2. CASE TaskArm(c)
    BY <2>2 DEF TaskArm
  <2>3. CASE TaskRest(c)
    BY <2>3 DEF TaskRest
  <2>4. QED
    BY <1>3, <2>1, <2>2, <2>3 DEF TaskStep
<1>4. CASE Deinit \/ Reinit
  BY <1>4 DEF Deinit, Reinit
<1>5. CASE CallbackLimit
  <2>1. CASE extra' = extra
    BY <1>5, <2>1 DEF CallbackLimit
  <2>2. CASE state = "RESETTING" /\ extra' = extra + 1
    <3>1. /\ callback = "limit" /\ callback' \in {"home", "step"}
          /\ callback' = "home" => extra' >= ExtraSteps
          /\ UNCHANGED <<ready, state, armed, owner, pc, arg, cut>>
      BY <1>5, <2>2 DEF CallbackLimit, Enough
    <3>2. extra < ExtraSteps
      BY <3>1 DEF ExtraUnderway
    <3>3. ~cut => extra' <= atLimit'
      BY <1>5, <2>2, <3>1, <3>2 DEF CallbackLimit
    <3>4. QED
      BY <2>2, <3>1, <3>3
  <2>3. QED
    BY <1>5, <2>1, <2>2 DEF CallbackLimit
<1>6. CASE CallbackStopTimer \/ CallbackIdle \/ CallbackZero
  BY <1>6 DEF CallbackStopTimer, CallbackIdle, CallbackZero
<1>7. CASE CallbackEnter \/ CallbackTarget \/ CallbackStep
  BY <1>7 DEF CallbackEnter, CallbackTarget, CallbackStep
<1>8. CASE UNCHANGED vars
  BY <1>8 DEF vars
<1>9. QED
  BY <1>1, <1>2, <1>3, <1>4, <1>5, <1>6, <1>7, <1>8 DEF Next, Callback

\* A reset that completes has made all of its extra steps, unless one was cut short before.
THEOREM ResetsGoFull == Spec => []ResetGoesFull
<1>1. Init => FullInv
  BY StepperAssumption DEF Init, FullInv
<1>2. TypeOK /\ FullInv => ResetGoesFull
  BY StepperAssumption DEF TypeOK, FullInv, ResetGoesFull
<1>3. QED
  BY <1>1, <1>2, StepKeepsFull, StepperInvariance, StepperTypeCorrect, PTL DEF Spec

-----------------------------------------------------------------------------
(* Resets come to an end.                                                  *)

\* Every step keeps a reset turning towards the stop.
LEMMA StepKeepsDirection == ResetDirection /\ [Next]_vars => ResetDirection'
<1> SUFFICES ASSUME ResetDirection, [Next]_vars PROVE ResetDirection'
  OBVIOUS
<1> USE DEF ResetDirection, motor
<1>1. CASE TimerReset
  BY <1>1 DEF TimerReset, SetReset
<1>2. CASE TimerMove
  BY <1>2 DEF TimerMove, DriveFrom
<1>3. ASSUME NEW c \in Tasks, TaskReset(c) \/ TaskMove(c) \/ TaskStop(c) \/ TaskStep(c)
      PROVE  ResetDirection'
  BY <1>3 DEF TaskReset, TaskMove, TaskStop, TaskStep, TaskPrepareReset, TaskArm, TaskRest, SetReset
<1>4. CASE Deinit \/ Reinit
  BY <1>4 DEF Deinit, Reinit
<1>5. CASE Callback
  BY <1>5 DEF Callback, CallbackEnter, CallbackTarget, CallbackLimit, CallbackStopTimer,
              CallbackIdle, CallbackZero, CallbackStep
<1>6. CASE UNCHANGED vars
  BY <1>6 DEF vars
<1>7. QED
  BY <1>1, <1>2, <1>3, <1>4, <1>5, <1>6 DEF Next

\* What is left of a reset is never more than ResetLimit.
ResetBounded == ResetLeft \in 0..ResetLimit

LEMMA ResetLeftBounded == IndInv => ResetBounded
<1> SUFFICES ASSUME IndInv PROVE ResetBounded
  OBVIOUS
<1> DEFINE rest == 4 * (ExtraSteps - extra)
           stage == CASE callback = "none" -> 4 [] callback = "target" -> 3
                      [] callback = "limit" -> 2 [] OTHER -> 5
           back == IF position <= 0 THEN 0 ELSE IF callback = "step" THEN 4 ELSE 8
<1>1. extra \in Nat /\ extra <= ExtraSteps /\ ExtraSteps \in Nat /\ ExtraSteps >= 1
  BY StepperAssumption DEF IndInv, TypeOK
<1>2. rest \in Nat /\ rest <= 4 * ExtraSteps
  BY <1>1
<1>3. CASE callback \in {"arrived", "homed", "arrive", "home", "zero"}
  BY <1>1, <1>3 DEF ResetBounded, ResetLeft, ResetLimit
<1>4. CASE callback \in {"none", "target", "limit"}
  <2>1. stage \in 0..5 /\ back \in 0..8 /\ stage + back <= 12
    BY <1>4
  <2>2. ResetLeft = rest + stage + back
    BY <1>4 DEF ResetLeft
  <2> HIDE DEF rest, stage, back
  <2>3. QED
    BY <1>1, <1>2, <2>1, <2>2 DEF ResetBounded, ResetLimit
<1>5. CASE callback = "step"
  <2>1. stage \in 0..5 /\ back \in 0..8 /\ stage + back <= 12
    BY <1>5
  <2>2. ResetLeft = rest + stage + back
    BY <1>5 DEF ResetLeft
  <2> HIDE DEF rest, stage, back
  <2>3. QED
    BY <1>1, <1>2, <2>1, <2>2 DEF ResetBounded, ResetLimit
<1>6. QED
  BY <1>3, <1>4, <1>5 DEF IndInv, TypeOK

\* Every statement of the step callback takes one off what is left of a reset.
LEMMA CallbackAdvances ==
  ASSUME IndInv, ResetDirection, Callback, state = "RESETTING", state' = "RESETTING"
  PROVE  ResetLeft' <= ResetLeft - 1
<1>1. /\ extra \in 0..ExtraSteps /\ ExtraSteps \in Nat /\ ExtraSteps >= 1
      /\ position \in -1..1 /\ direction = "CCW"
  BY StepperAssumption DEF IndInv, TypeOK, StuckNearZero, ResetDirection
<1> USE DEF ResetLeft, motor
<1>2. CASE CallbackEnter
  BY <1>1, <1>2 DEF CallbackEnter
<1>3. CASE CallbackTarget
  <2>1. callback = "target" /\ callback' = "limit" /\ extra' = extra /\ position' = position
    BY <1>3 DEF CallbackTarget
  <2>2. QED
    BY <1>1, <2>1
<1>4. CASE CallbackLimit
  <2>1. callback = "limit" /\ position' = position
    BY <1>4 DEF CallbackLimit
  <2>2. CASE position <= 0
    <3>1. extra < ExtraSteps
      BY <2>1 DEF IndInv, ExtraUnderway
    <3>2. extra' = extra + 1 /\ callback' = IF Enough(extra + 1) THEN "home" ELSE "step"
      BY <1>1, <1>4, <2>2 DEF CallbackLimit
    <3>3. QED
      BY <1>1, <2>1, <2>2, <3>1, <3>2
  <2>3. CASE position > 0
    <3>1. extra' = extra /\ callback' = "step"
      BY <1>1, <1>4, <2>3 DEF CallbackLimit
    <3>2. QED
      BY <1>1, <2>1, <2>3, <3>1
  <2>4. QED
    BY <1>1, <2>2, <2>3
<1>5. CASE CallbackStopTimer
  BY <1>5 DEF CallbackStopTimer
<1>6. CASE CallbackIdle
  BY <1>6 DEF CallbackIdle
<1>7. CASE CallbackZero
  <2>1. callback = "zero" /\ callback' = "none" /\ extra' = 0 /\ position' = 0
    BY <1>7 DEF CallbackZero
  <2>2. QED
    BY <1>1, <2>1
<1>8. CASE CallbackStep
  <2>1. position' = -1
    BY <1>1, <1>8, StepFromZero DEF CallbackStep
  <2>2. callback = "step" /\ callback' = "none" /\ extra' = extra
    BY <1>8 DEF CallbackStep
  <2>3. QED
    BY <1>1, <2>1, <2>2
<1>9. QED
  BY <1>2, <1>3, <1>4, <1>5, <1>6, <1>7, <1>8 DEF Callback

\* A call leaves what is left of a reset as it is, or the motor is not resetting after it.
LEMMA CallsSpare ==
  ASSUME [Next]_vars, ~Callback, state' = "RESETTING"
  PROVE  ResetLeft' = ResetLeft
<1>1. UNCHANGED <<position, extra, callback>>
  <2>1. CASE TimerReset \/ TimerMove
    BY <2>1 DEF TimerReset, TimerMove
  <2>2. ASSUME NEW c \in Tasks, TaskReset(c) \/ TaskMove(c) \/ TaskStop(c) \/ TaskStep(c)
        PROVE  UNCHANGED <<position, extra, callback>>
    BY <2>2 DEF TaskReset, TaskMove, TaskStop, TaskStep, TaskPrepareReset, TaskArm, TaskRest, motor
  <2>3. CASE Deinit \/ Reinit
    BY <2>3 DEF Deinit, Reinit, motor
  <2>4. CASE UNCHANGED vars
    BY <2>4 DEF vars, motor
  <2>5. QED
    BY <2>1, <2>2, <2>3, <2>4 DEF Next
<1>2. QED
  BY <1>1 DEF ResetLeft

\* A reset is never further from its end than ResetLimit statements of the step callback,
\* and each of them brings it nearer, whatever the other tasks call meanwhile: it rests on
\* the confinement of the position, without which one turn back could take any time.
THEOREM ResetsAdvance == Spec => ResetAdvances
<1> DEFINE Inv == IndInv /\ ResetDirection
           Step == state' = "RESETTING" /\ ready' =>
                     ResetLeft' \in 0..(IF state # "RESETTING" THEN ResetLimit
                                        ELSE IF Callback THEN ResetLeft - 1 ELSE ResetLeft)
<1>1. Init => ResetDirection
  BY DEF Init, ResetDirection
<1>2. Inv /\ IndInv' /\ [Next]_vars => Step
  <2> SUFFICES ASSUME Inv, IndInv', [Next]_vars, state' = "RESETTING"
               PROVE  ResetLeft' \in 0..(IF state # "RESETTING" THEN ResetLimit
                                         ELSE IF Callback THEN ResetLeft - 1 ELSE ResetLeft)
    OBVIOUS
  <2>0. ResetBounded /\ ResetBounded'
    BY ResetLeftBounded, PTL
  <2>1. ResetLeft \in 0..ResetLimit /\ ResetLeft' \in 0..ResetLimit
    BY <2>0 DEF ResetBounded, ResetLimit
  <2>2. ResetLimit \in Nat
    BY StepperAssumption DEF ResetLimit
  <2>3. CASE state # "RESETTING"
    BY <2>1, <2>3
  <2>4. CASE state = "RESETTING" /\ Callback
    <3>1. ResetLeft' <= ResetLeft - 1
      BY <2>4, CallbackAdvances
    <3>2. QED
      BY <2>1, <2>2, <2>4, <3>1
  <2>5. CASE state = "RESETTING" /\ ~Callback
    <3>1. ResetLeft' = ResetLeft
      BY <2>5, CallsSpare
    <3>2. QED
      BY <2>1, <2>2, <2>5, <3>1
  <2>6. QED
    BY <2>3, <2>4, <2>5
<1>3. [Next]_vars /\ Step => [Step]_vars
  OBVIOUS
<1>4. QED
  BY <1>1, <1>2, <1>3, StepKeepsDirection, StepperInvariance, PTL DEF Spec, ResetAdvances

-----------------------------------------------------------------------------
(* The choke of EngineCtrl.                                                *)

\* ThrottleInv holds of a motor just initialised.
LEMMA ThrottleInit == Init => ThrottleInv
BY DEF Init, ThrottleInv

\* Every step of a motor used as the choke keeps ThrottleInv.
LEMMA StepKeepsThrottle ==
  ASSUME AsThrottle, IndInv, ThrottleInv, [Next]_vars
  PROVE  ThrottleInv'
<1> USE DEF ThrottleInv, AsThrottle, motor, history, calls
<1>1. CASE TimerReset
  BY <1>1 DEF TimerReset, InTimerTask, DriveFrom, Count, Leave, SetReset, IndInv, TypeOK
<1>2. CASE TimerMove
  <2>1. PICK p \in Targets : SetPosition(p)
    BY <1>2 DEF TimerMove, SetMove
  <2>2. /\ target' = p /\ p \in Nat \ {1} /\ p # position
        /\ position' = position /\ owner' = owner /\ callback' = "none" /\ ready' = ready
        /\ armed' = TRUE /\ ready /\ state' \in {"IDLE", "MOVING"}
    BY <1>2, <2>1 DEF TimerMove, InTimerTask, DriveFrom, SetPosition
  <2>3. QED
    BY <2>2
<1>3. CASE Deinit \/ Reinit
  BY <1>3 DEF Deinit, Reinit
<1>4. CASE CallbackEnter
  BY <1>4 DEF CallbackEnter
<1>5. CASE CallbackTarget
  BY <1>5 DEF CallbackTarget
<1>6. CASE CallbackLimit
  BY <1>6 DEF CallbackLimit
<1>7. CASE CallbackStopTimer
  BY <1>7 DEF CallbackStopTimer
<1>8. CASE CallbackIdle
  BY <1>8 DEF CallbackIdle
<1>9. CASE CallbackZero
  BY <1>9 DEF CallbackZero
<1>10. CASE CallbackStep
  <2>1. position' \in {-1, 1}
    BY <1>10, StepFromZero DEF CallbackStep, IndInv, TypeOK, StuckNearZero
  <2>2. /\ ready /\ callback = "step" /\ callback' = "none"
        /\ UNCHANGED <<ready, state, target, armed, owner>>
    BY <1>10 DEF CallbackStep
  <2>3. state = "MOVING" => position' # target
    BY <2>1
  <2>4. armed
    BY <2>2
  <2>5. QED
    BY <2>2, <2>3, <2>4
<1>11. CASE UNCHANGED vars
  BY <1>11 DEF vars
<1>12. QED
  BY <1>1, <1>2, <1>3, <1>4, <1>5, <1>6, <1>7, <1>8, <1>9, <1>10, <1>11
     DEF Next, Callback

\* Every step is a step of the choke or leaves what is seen of it alone.
LEMMA ThrottleStep ==
  ASSUME AsThrottle, IndInv, ThrottleInv, [Next]_vars
  PROVE  Throttle!ChokeNext \/ ThrottleState' = ThrottleState
<1> USE DEF ThrottleInv, AsThrottle, motor, history, calls
<1>1. CASE TimerReset
  <2>1. ThrottleState = [state |-> state, armed |-> armed, shut |-> shut,
                         due |-> IF state = "RESETTING" THEN 1 ELSE 0]
    BY <1>1 DEF TimerReset, InTimerTask, ThrottleState, IndInv, TypeOK
  <2>2. ThrottleState' = [state |-> state', armed |-> TRUE, shut |-> shut,
                          due |-> IF state' = "RESETTING" THEN 1 ELSE 0]
    BY <1>1 DEF TimerReset, InTimerTask, DriveFrom, Leave, ThrottleState, IndInv, TypeOK
  <2>3. state' = IF armed /\ state # "MOVING" THEN "IDLE" ELSE "RESETTING"
    BY <1>1 DEF TimerReset, DriveFrom
  <2>4. ThrottleState' = Throttle!ResetPosition(ThrottleState)
    BY <2>1, <2>2, <2>3 DEF Throttle!ResetPosition, Throttle!Drive, Throttle!ResetTime, IndInv, TypeOK
  <2>5. QED
    BY <2>4 DEF Throttle!ChokeNext, Throttle!Reset
<1>2. CASE TimerMove
  <2>1. PICK p \in Targets : SetPosition(p)
    BY <1>2 DEF TimerMove, SetMove
  <2>2. ThrottleState = [state |-> state, armed |-> armed, shut |-> shut,
                         due |-> IF state = "RESETTING" THEN 1 ELSE 0]
    BY <1>2 DEF TimerMove, InTimerTask, ThrottleState, IndInv, TypeOK
  <2>3. ThrottleState' = [state |-> IF armed THEN "IDLE" ELSE "MOVING", armed |-> TRUE,
                          shut |-> shut /\ armed, due |-> 0]
    BY <1>2 DEF TimerMove, InTimerTask, DriveFrom, Leave, ThrottleState, IndInv, TypeOK
  <2>4. state # "MOVING" /\ p # position
    BY <2>1 DEF SetPosition
  <2>5. CASE state = "IDLE" /\ shut /\ armed
    BY <2>2, <2>3, <2>5
  <2>6. CASE ~(state = "IDLE" /\ shut /\ armed)
    <3>1. ThrottleState' = Throttle!MoveToPosition(ThrottleState, FALSE)
      BY <2>2, <2>3, <2>4, <2>6 DEF Throttle!MoveToPosition, Throttle!Drive, IndInv, TypeOK
    <3>2. QED
      BY <3>1 DEF Throttle!ChokeNext, Throttle!Move
  <2>7. QED
    BY <2>5, <2>6
<1>3. CASE Deinit
  <2>1. ThrottleState' = Throttle!ChokeAtInit
    BY <1>3 DEF Deinit, ThrottleState, Throttle!ChokeAtInit
  <2>2. QED
    BY <2>1 DEF Throttle!ChokeNext, Throttle!Renew
<1>4. CASE Reinit
  <2>1. ThrottleState' = ThrottleState
    BY <1>4 DEF Reinit, ThrottleState
  <2>2. QED
    BY <2>1
<1>5. CASE CallbackEnter \/ CallbackTarget \/ CallbackZero \/ CallbackStep
  <2>1. ThrottleState' = ThrottleState
    BY <1>5 DEF CallbackEnter, CallbackTarget, CallbackZero, CallbackStep, ThrottleState
  <2>2. QED
    BY <2>1
<1>6. CASE CallbackLimit
  <2>1. ready /\ callback = "limit"
    BY <1>6 DEF CallbackLimit, IndInv, TypeOK
  <2>2. CASE callback' = "step"
    BY <1>6, <2>1, <2>2 DEF CallbackLimit, ThrottleState
  <2>3. CASE callback' = "home"
    <3>1. state = "RESETTING"
      BY <1>6, <2>3 DEF CallbackLimit
    <3>2. ThrottleState' = Throttle!Elapse(ThrottleState)
      BY <1>6, <2>1, <2>3, <3>1 DEF CallbackLimit, ThrottleState, Throttle!Elapse
    <3>3. QED
      BY <3>2 DEF Throttle!ChokeNext, Throttle!Pass
  <2>4. QED
    BY <1>6, <2>2, <2>3 DEF CallbackLimit
<1>7. CASE CallbackStopTimer
  BY <1>7 DEF CallbackStopTimer, ThrottleState, IndInv, TypeOK
<1>8. CASE CallbackIdle
  <2>1. /\ ready /\ state = "RESETTING" /\ ~armed /\ callback = "homed"
        /\ state' = "IDLE" /\ shut' = TRUE /\ callback' = "zero" /\ armed' = armed /\ ready' = ready
    BY <1>8 DEF CallbackIdle
  <2>2. Throttle!ResetOver(ThrottleState)
    BY <2>1 DEF ThrottleState, Throttle!ResetOver
  <2>3. /\ ThrottleState = [state |-> "RESETTING", armed |-> TRUE, shut |-> shut, due |-> 0]
        /\ ThrottleState' = [state |-> "IDLE", armed |-> FALSE, shut |-> TRUE, due |-> 0]
    BY <2>1 DEF ThrottleState, IndInv, TypeOK
  <2>4. ThrottleState' = Throttle!ResetDone(ThrottleState)
    BY <2>3 DEF Throttle!ResetDone
  <2>5. QED
    BY <2>2, <2>4 DEF Throttle!ChokeNext, Throttle!Finish
<1>9. CASE UNCHANGED vars
  BY <1>9 DEF vars, ThrottleState
<1>10. QED
  BY <1>1, <1>2, <1>3, <1>4, <1>5, <1>6, <1>7, <1>8, <1>9 DEF Next, Callback

\* The motor, used as the engine controller uses it from its sequence, implements the
\* choke that EngineCtrl is built on.
THEOREM ThrottleRefinement == AsThrottle /\ Spec => ChokeImplemented
<1>1. Init => ThrottleState = Throttle!ChokeAtInit
  BY DEF Init, ThrottleState, Throttle!ChokeAtInit
<1>2. AsThrottle /\ IndInv /\ ThrottleInv /\ [Next]_vars => ThrottleInv'
  BY StepKeepsThrottle
<1>3. AsThrottle /\ IndInv /\ ThrottleInv /\ [Next]_vars
        => [Throttle!ChokeNext]_ThrottleState
  BY ThrottleStep
<1>4. SUFFICES ASSUME AsThrottle PROVE Spec => ChokeImplemented
  OBVIOUS
<1>5. QED
  BY <1>1, <1>2, <1>3, <1>4, StepperInvariance, ThrottleInit, PTL
     DEF Spec, ChokeImplemented, Throttle!ChokeSpec
=============================================================================
