-------------------------- MODULE StepperMotorProps --------------------------
(***************************************************************************)
(* What the stepper motor must guarantee, stated over StepperMotor.        *)
(***************************************************************************)
EXTENDS StepperMotor

\* Between calls and callbacks a motor that is not IDLE has its timer running:
\* no interleaving of a call with the end of a move or a reset leaves it waiting
\* for callbacks that never come.
Driven == ready /\ owner = NoOne /\ callback = "none" /\ state # "IDLE" => armed

\* A reset ends: in a homed motor, or refused.
ResetSettles == state = "RESETTING" ~> state # "RESETTING" \/ ~ready

\* How many statements of the step callback are left of a reset: four for each step, the
\* extra steps, and one more step when the position estimate is above zero.
ResetLeft ==
  CASE callback \in {"arrived", "homed"} -> 1
    [] callback \in {"arrive", "home"} -> 2
    [] callback = "zero" -> 4 * ExtraSteps + 5
    [] OTHER ->
         4 * (ExtraSteps - extra)
           + (CASE callback = "none" -> 4 [] callback = "target" -> 3
                [] callback = "limit" -> 2 [] OTHER -> 5)
           + (IF position <= 0 THEN 0 ELSE IF callback = "step" THEN 4 ELSE 8)

ResetLimit == 4 * ExtraSteps + 12

\* Every statement of the step callback brings a reset nearer to its end and no call takes
\* it back, whatever move, stop or reset of another task it has met and wherever the
\* static count stood: within ResetLimit statements the motor is homed.
ResetAdvances ==
  [][state' = "RESETTING" /\ ready' =>
       ResetLeft' \in 0..(IF state # "RESETTING" THEN ResetLimit
                          ELSE IF Callback THEN ResetLeft - 1 ELSE ResetLeft)]_vars

\* A reset that completes has pressed against the stop for all of its extra steps,
\* so that the limit is reached, unless a stop, a deinit or another task's move cut
\* an earlier one short: the static count of extra steps is then left half-way.
ResetGoesFull == callback = "home" /\ ~cut => atLimit = ExtraSteps

\* As the engine controller uses it, the motor is the choke of EngineCtrl: a move
\* never completes, a reset takes its time, an armed timer refuses every request.
ThrottleState ==
  [state |-> IF ready THEN state ELSE "IDLE",
   armed |-> armed \/ callback = "homed",
   shut  |-> ~ready \/ shut,
   due   |-> IF ready /\ state = "RESETTING" /\ callback \notin {"home", "homed"} THEN 1 ELSE 0]

Throttle == INSTANCE ChokeBehaviour WITH choke <- ThrottleState

ChokeImplemented == Throttle!ChokeSpec

-----------------------------------------------------------------------------
(* The inductive invariants behind them.                                   *)

\* Not a promise but a defect of the conversions, on which a reset's length depends: as
\* both truncate, one step from a degree leads back to that degree, and the estimate of
\* the position never gets beyond it however far the motor has turned.  No move to
\* a target further away ends by arriving, the 90 degrees of the open choke included.
StuckNearZero == position \in -1..1

\* The count of extra steps is full only from the last one to its reset.
ExtraUnderway == callback \notin {"home", "homed", "zero"} => extra < ExtraSteps

IndInv == TypeOK /\ ExtraUnderway /\ StuckNearZero

\* A reset turns towards the stop.
ResetDirection == state = "RESETTING" => direction = "CCW"

\* A motor that is not driven is in the hands of a call or of a callback.
DrivenInv ==
  ready /\ state # "IDLE" /\ ~armed
    => owner # NoOne \/ callback \in {"arrived", "homed"}

\* Unless a reset was cut short the static count is no more than what the reset under
\* way has made, so that a count left from earlier can not stand for steps of its own.
\* A reset whose call has not armed the timer yet may have begun to count.
FullInv ==
  /\ owner # NoOne /\ pc = "prepare" => arg = "RESETTING"
  /\ (~cut \/ callback = "zero") /\ state = "RESETTING" /\ ~armed =>
       \/ callback \in {"arrived", "homed"}
       \/ owner # NoOne /\ pc = "arm" /\ arg = "RESETTING"
       \/ owner # NoOne /\ pc = "rest" /\ callback \in {"none", "zero"}
  /\ ~ready => cut /\ callback = "none"
  /\ callback = "home" => extra >= ExtraSteps
  /\ ~cut /\ callback \in {"arrive", "arrived"} => extra = 0
  /\ ~cut /\ callback \notin {"homed", "zero"} =>
       /\ extra <= atLimit
       /\ extra > 0 => /\ state # "MOVING"
                       /\ armed \/ (owner # NoOne /\ pc = "arm" /\ arg = "RESETTING")

\* The engine controller's use of the motor from the esp_timer task: no other task,
\* no counted steps, no stop, and no target within a degree of zero but zero.
AsThrottle ==
  /\ Tasks = {} /\ StepCounts = {} /\ Targets \subseteq Nat \ {1}
  /\ Operations \subseteq {"reset", "position", "deinit"}

ThrottleInv ==
  /\ owner = NoOne /\ callback \notin {"arrive", "arrived"}
  /\ ~ready => ~armed /\ callback = "none"
  /\ ready /\ state # "IDLE" => (armed <=> callback # "homed")
  /\ state = "MOVING" => target \in Nat \ {1} /\ position # target
  /\ callback \in {"home", "homed"} => state = "RESETTING"
  /\ callback \in {"target", "limit", "step"} => armed
  /\ callback = "homed" => ~armed
  /\ callback = "zero" => state = "IDLE" /\ ~armed
  /\ ready /\ state = "IDLE" /\ shut /\ ~armed /\ callback = "none" => position = 0

=============================================================================
