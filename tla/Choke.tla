-------------------------------- MODULE Choke --------------------------------
(***************************************************************************)
(* The choke actuator as the engine controller sees it: the controller     *)
(* state of stepper_motor.c, with the position reduced to "exactly at      *)
(* zero" (shut) or not, and the reset run reduced to its duration.         *)
(*                                                                         *)
(* Three facts of StepperMotor, the detailed model, justify the reduction: *)
(* with 200 steps per revolution the position estimate stays within        *)
(* {-1, 0, 1}, so a move to 90 degrees (and a move to 0 that starts off    *)
(* zero) never completes; a reset takes 50 periods of 2 ms when it starts  *)
(* at or below zero and 51 when it starts above; a timer that is already   *)
(* armed refuses to be armed again.                                        *)
(***************************************************************************)
EXTENDS Integers

\* The duration of a reset in units of 100 ms (50 or 51 periods of 2 ms).
ResetTime == 1

ChokeType == [state : {"IDLE", "MOVING", "RESETTING"}, armed : BOOLEAN,
              shut : BOOLEAN, due : 0..ResetTime]

ChokeAtInit == [state |-> "IDLE", armed |-> FALSE, shut |-> TRUE, due |-> 0]

\* esp_timer_start_periodic on the step timer: refused when it is armed
\* already, and the caller then falls back to IDLE.
Drive(c, mode, time) ==
  IF c.armed THEN [c EXCEPT !.state = "IDLE", !.due = 0]
             ELSE [c EXCEPT !.state = mode, !.armed = TRUE, !.due = time]

ResetPosition(c) ==
  Drive(IF c.state = "MOVING" THEN [c EXCEPT !.armed = FALSE] ELSE c,
        "RESETTING", ResetTime)

\* A move to 0 from rest at 0 and any move while MOVING change nothing; a reset
\* is off zero after its first step.
MoveToPosition(c, toShut) ==
  IF c.state = "MOVING" \/ (toShut /\ c.shut /\ c.state = "IDLE") THEN c
  ELSE [Drive(c, "MOVING", 0) EXCEPT !.shut = IF c.armed THEN @ ELSE FALSE]

ResetOver(c) == c.state = "RESETTING" /\ c.due = 0

ResetDone(c) == [state |-> "IDLE", armed |-> FALSE, shut |-> TRUE, due |-> c.due]

Elapse(c) == [c EXCEPT !.due = IF @ = 0 THEN 0 ELSE @ - 1]

\* A reset that started at zero takes exactly ResetTime, so it is over before
\* any one-shot timer that was armed later for the same delay.
OnTheDot(c) == ResetOver(c) /\ c.shut
=============================================================================
