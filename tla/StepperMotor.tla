---------------------------- MODULE StepperMotor ----------------------------
(***************************************************************************)
(* The choke's stepper motor of main/engine/stepper_motor.c.               *)
(*                                                                         *)
(* The step callback runs in the esp_timer task and takes no lock.  The    *)
(* interface takes motor_mutex; it is called by the sequence callback, in  *)
(* the esp_timer task itself and so never in the middle of the step        *)
(* callback, and by other tasks, whose statements interleave with those of *)
(* the step callback.  No holder of the mutex waits, so its time-out of a  *)
(* second never expires.  Positions are in degrees and the conversions to  *)
(* steps truncate, as in C.  The coil pattern is reduced to "some coil is  *)
(* energised"; the step period does not matter and set_speed is left out.  *)
(***************************************************************************)
EXTENDS Integers

CONSTANTS
  Tasks,       \* tasks other than the esp_timer task that call the interface
  Operations,  \* the operations in use: a subset of OperationKinds
  Targets,     \* positions asked for
  StepCounts,  \* numbers of steps asked for
  StepsPerRev, \* STEPPER_STEPS_PER_REVOLUTION
  MinPosition, \* STEPPER_MIN_POSITION
  MaxPosition, \* STEPPER_MAX_POSITION
  ExtraSteps,  \* STEPPER_RESET_EXTRA_STEPS
  NoOne        \* the owner of a free mutex

OperationKinds == {"reset", "position", "steps", "stop", "deinit"}
Degrees == 360

ASSUME StepperAssumption ==
  /\ NoOne \notin Tasks
  /\ Operations \subseteq OperationKinds
  /\ Targets \subseteq Int /\ StepCounts \subseteq Nat \ {0}
  /\ MinPosition = 0 /\ MaxPosition \in Nat
  /\ ExtraSteps \in Nat \ {0}

\* Fewer steps than degrees: one step is more than one degree and less than two.
ASSUME RevolutionAssumption == StepsPerRev \in 181..359

VARIABLES
  ready,    \* g_stepper_initialized
  state, position, target, direction, homed,  \* the fields of g_stepper
  armed,    \* step_timer runs
  extra,    \* the static reset_extra_steps of the callback
  coils,    \* a coil is energised
  callback, \* what the step callback is about to do
  owner,    \* the task that holds motor_mutex
  pc, arg,  \* its place in its call, and the mode the call drives the motor in
  atLimit,  \* history: what extra would be if every reset from rest counted afresh
  shut,     \* history: the last thing done was a complete reset
  cut       \* history: a reset may have been cut short since the last complete one

motor   == <<state, position, target, direction, homed>>
history == <<atLimit, shut, cut>>
calls   == <<owner, pc, arg>>
vars    == <<ready, motor, armed, extra, coils, callback, calls, history>>

TypeOK ==
  /\ ready \in BOOLEAN
  /\ state \in {"IDLE", "MOVING", "RESETTING"}
  /\ position \in Int /\ target \in Int
  /\ direction \in {"CW", "CCW"}
  /\ homed \in BOOLEAN /\ armed \in BOOLEAN
  /\ extra \in 0..ExtraSteps
  /\ coils \in BOOLEAN
  /\ callback \in {"none", "target", "limit", "step", "arrive", "arrived", "home", "homed", "zero"}
  /\ owner \in Tasks \union {NoOne}
  /\ pc \in {"none", "prepare", "arm", "rest"}
  /\ arg \in {"MOVING", "RESETTING"}
  /\ atLimit \in 0..ExtraSteps /\ shut \in BOOLEAN /\ cut \in BOOLEAN

Init ==
  /\ ready = TRUE
  /\ state = "IDLE" /\ position = 0 /\ target = 0 /\ direction = "CW" /\ homed = FALSE
  /\ armed = FALSE /\ extra = 0 /\ coils = FALSE /\ callback = "none"
  /\ owner = NoOne /\ pc = "none" /\ arg = "MOVING"
  /\ atLimit = 0 /\ shut = TRUE /\ cut = FALSE

-----------------------------------------------------------------------------
(* Conversions.                                                            *)

TruncDiv(a, b) == IF a >= 0 THEN a \div b ELSE -((-a) \div b)

DegreesToSteps(d) == TruncDiv(d * StepsPerRev, Degrees)
StepsToDegrees(s) == TruncDiv(s * Degrees, StepsPerRev)

\* The position after n steps in direction d.
After(p, n, d) == StepsToDegrees(DegreesToSteps(p) + (IF d = "CW" THEN n ELSE -n))

-----------------------------------------------------------------------------
(* What a call asks for.  Each sets the motor up and leaves to its caller  *)
(* how it goes on to arm the timer.                                        *)

\* A faulty variant of the next definition: the motor goes on the way it went.
SetResetSameWay == target' = 0 /\ UNCHANGED direction

SetReset == target' = 0 /\ direction' = "CCW"

\* stepper_motor_move_to_position: refused while moving, nothing to do on the spot.
SetPosition(p) ==
  /\ "position" \in Operations /\ state # "MOVING"
  /\ p \in MinPosition..MaxPosition /\ p # position
  /\ target' = p /\ direction' = IF p > position THEN "CW" ELSE "CCW"

\* stepper_motor_move_steps.
SetSteps(n, d) ==
  /\ "steps" \in Operations /\ state # "MOVING"
  /\ After(position, n, d) \in MinPosition..MaxPosition
  /\ target' = After(position, n, d) /\ direction' = d

SetMove == \/ \E p \in Targets : SetPosition(p)
           \/ \E n \in StepCounts, d \in {"CW", "CCW"} : SetSteps(n, d)

\* History: a reset that finds the timer stopped counts afresh, and a move that
\* starts leaves the shut position.
Count(isArmed, mode) == atLimit' = IF mode = "RESETTING" /\ ~isArmed THEN 0 ELSE atLimit
Leave(isArmed, mode) == shut' = (shut /\ (isArmed \/ mode = "RESETTING"))

-----------------------------------------------------------------------------
(* Calls by the esp_timer task, between two callbacks.                     *)

InTimerTask == ready /\ callback = "none" /\ owner = NoOne

\* esp_timer_start_periodic is refused when the timer is armed.
DriveFrom(isArmed, mode) ==
  /\ state' = IF isArmed THEN "IDLE" ELSE mode
  /\ armed' = TRUE
  /\ Count(isArmed, mode) /\ Leave(isArmed, mode)

\* A faulty variant of the next action: a reset that does not stop a move first.
TimerResetNoStop ==
  /\ InTimerTask /\ "reset" \in Operations
  /\ SetReset /\ DriveFrom(armed, "RESETTING")
  /\ UNCHANGED <<ready, position, homed, extra, coils, callback, calls, cut>>

TimerReset ==
  /\ InTimerTask /\ "reset" \in Operations
  /\ SetReset /\ DriveFrom(armed /\ state # "MOVING", "RESETTING")
  /\ UNCHANGED <<ready, position, homed, extra, coils, callback, calls, cut>>

TimerMove ==
  /\ InTimerTask
  /\ SetMove /\ DriveFrom(armed, "MOVING")
  /\ UNCHANGED <<ready, position, homed, extra, coils, callback, calls, cut>>

-----------------------------------------------------------------------------
(* Faulty variants.  Each is an action or helper with one plausible        *)
(* mistake; none is part of Next.  Put in the place of the original, each  *)
(* breaks a property of StepperMotorProps, which shows what it guards.     *)

\* A stop that leaves the state as it is.
TaskRestStateLeft(c) ==
  /\ owner = c /\ pc = "rest"
  /\ owner' = NoOne /\ pc' = "none"
  /\ UNCHANGED <<ready, motor, armed, extra, coils, callback, arg, history>>

\* One extra step too few.
EnoughEarly(n) == n + 1 >= ExtraSteps

\* The end of a move or a reset leaves the state as it is.
CallbackIdleStateLeft ==
  /\ \/ callback = "arrived" /\ callback' = "none" /\ UNCHANGED shut
     \/ callback = "homed" /\ callback' = "zero" /\ shut' = TRUE
  /\ coils' = FALSE
  /\ UNCHANGED <<ready, motor, armed, extra, calls, atLimit, cut>>

-----------------------------------------------------------------------------
(* Calls by other tasks, statement by statement.                           *)

TakeMutex(c) == ready /\ owner = NoOne /\ owner' = c

\* stepper_motor_reset_position up to esp_timer_stop.
TaskReset(c) ==
  /\ "reset" \in Operations /\ TakeMutex(c)
  /\ armed' = (armed /\ state # "MOVING")
  /\ pc' = "prepare" /\ arg' = "RESETTING"
  /\ UNCHANGED <<ready, motor, extra, coils, callback, history>>

TaskPrepareReset(c) ==
  /\ owner = c /\ pc = "prepare"
  /\ SetReset /\ state' = "RESETTING" /\ Count(armed, "RESETTING")
  /\ pc' = "arm"
  /\ UNCHANGED <<ready, position, homed, armed, extra, coils, callback, owner, arg, shut, cut>>

\* The moves up to the state change.
TaskMove(c) ==
  /\ TakeMutex(c) /\ SetMove
  /\ state' = "MOVING" /\ cut' = (cut \/ armed)
  /\ pc' = "arm" /\ arg' = "MOVING"
  /\ UNCHANGED <<ready, position, homed, armed, extra, coils, callback, atLimit, shut>>

TaskArm(c) ==
  /\ owner = c /\ pc = "arm"
  /\ armed' = TRUE
  /\ state' = IF armed THEN "IDLE" ELSE state
  /\ Leave(armed, arg)
  /\ owner' = NoOne /\ pc' = "none"
  /\ UNCHANGED <<ready, position, target, direction, homed, extra, coils, callback, arg, atLimit, cut>>

\* stepper_motor_stop up to the coils.
TaskStop(c) ==
  /\ "stop" \in Operations /\ TakeMutex(c)
  /\ armed' = FALSE /\ coils' = FALSE /\ cut' = TRUE
  /\ pc' = "rest"
  /\ UNCHANGED <<ready, motor, extra, callback, arg, atLimit, shut>>

TaskRest(c) ==
  /\ owner = c /\ pc = "rest"
  /\ state' = "IDLE"
  /\ owner' = NoOne /\ pc' = "none"
  /\ UNCHANGED <<ready, position, target, direction, homed, armed, extra, coils, callback,
                 arg, history>>

\* stepper_motor_deinit and stepper_motor_init, by the main task, which shares its
\* core with the esp_timer task and yields to it.  reset_extra_steps is static and
\* keeps its value.
Deinit ==
  /\ "deinit" \in Operations /\ ready /\ owner = NoOne /\ callback = "none"
  /\ ready' = FALSE /\ armed' = FALSE /\ coils' = FALSE /\ cut' = TRUE
  /\ UNCHANGED <<motor, extra, callback, calls, atLimit, shut>>

Reinit ==
  /\ ~ready /\ callback = "none"
  /\ ready' = TRUE /\ coils' = FALSE
  /\ state' = "IDLE" /\ position' = 0 /\ target' = 0 /\ direction' = "CW"
  /\ homed' = FALSE
  /\ shut' = TRUE /\ UNCHANGED <<atLimit, cut>>
  /\ UNCHANGED <<armed, extra, callback, calls>>

-----------------------------------------------------------------------------
(* stepper_timer_callback.  It reads the state three times.                *)

CallbackEnter ==
  /\ armed /\ ready /\ callback = "none" /\ state # "IDLE"
  /\ callback' = "target"
  /\ UNCHANGED <<ready, motor, armed, extra, coils, calls, history>>

\* Has a move come to its target?
CallbackTarget ==
  /\ callback = "target"
  /\ callback' = IF state = "MOVING" /\ position = target THEN "arrive" ELSE "limit"
  /\ UNCHANGED <<ready, motor, armed, extra, coils, calls, history>>

Enough(n) == n >= ExtraSteps

\* Is this a reset at the limit, and how far along?
CallbackLimit ==
  /\ callback = "limit"
  /\ \/ /\ state = "RESETTING" /\ position <= 0
        /\ extra' = extra + 1
        /\ atLimit' = IF atLimit < ExtraSteps THEN atLimit + 1 ELSE atLimit
        /\ callback' = IF Enough(extra + 1) THEN "home" ELSE "step"
     \/ /\ state # "RESETTING" \/ position > 0
        /\ callback' = "step" /\ UNCHANGED <<extra, atLimit>>
  /\ UNCHANGED <<ready, motor, armed, coils, calls, shut, cut>>

\* The end of a move, and of a reset: first the timer is stopped.
CallbackStopTimer ==
  /\ \/ callback = "arrive" /\ callback' = "arrived"
     \/ callback = "home" /\ callback' = "homed"
  /\ armed' = FALSE
  /\ UNCHANGED <<ready, motor, extra, coils, calls, history>>

\* Then the coils are switched off and the state follows.
CallbackIdle ==
  /\ \/ callback = "arrived" /\ callback' = "none" /\ UNCHANGED shut
     \/ callback = "homed" /\ callback' = "zero" /\ shut' = TRUE
  /\ coils' = FALSE /\ state' = "IDLE"
  /\ UNCHANGED <<ready, position, target, direction, homed, armed, extra, calls, atLimit, cut>>

\* The end of a reset is the origin of positions.
CallbackZero ==
  /\ callback = "zero"
  /\ position' = 0 /\ homed' = TRUE /\ extra' = 0 /\ atLimit' = 0 /\ cut' = FALSE
  /\ callback' = "none"
  /\ UNCHANGED <<ready, state, target, direction, armed, coils, calls, shut>>

\* stepper_single_step.
CallbackStep ==
  /\ callback = "step"
  /\ position' = After(position, 1, direction)
  /\ coils' = TRUE
  /\ callback' = "none"
  /\ UNCHANGED <<ready, state, target, direction, homed, armed, extra, calls, history>>

Callback ==
  \/ CallbackEnter \/ CallbackTarget \/ CallbackLimit \/ CallbackStopTimer
  \/ CallbackIdle \/ CallbackZero \/ CallbackStep

TaskStep(c) == TaskPrepareReset(c) \/ TaskArm(c) \/ TaskRest(c)

Next ==
  \/ TimerReset \/ TimerMove
  \/ \E c \in Tasks : TaskReset(c) \/ TaskMove(c) \/ TaskStop(c) \/ TaskStep(c)
  \/ Deinit \/ Reinit
  \/ Callback

Spec == Init /\ [][Next]_vars

\* An armed timer is served and a call goes on; nobody has to call.
FairSpec == Spec /\ WF_vars(Callback) /\ \A c \in Tasks : WF_vars(TaskStep(c))
=============================================================================
