---------------------------- MODULE MCStepperMotor ----------------------------
(***************************************************************************)
(* StepperMotor for TLC.                                                   *)
(***************************************************************************)
EXTENDS StepperMotorProps

CONSTANT t1
=============================================================================
