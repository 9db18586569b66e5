---------------------------- MODULE ChokeBehaviour ----------------------------
(***************************************************************************)
(* The choke that EngineCtrl drives, as a specification of its own: the    *)
(* operators of Choke in any order, and time.  StepperMotor implements it  *)
(* when it is used as the engine controller uses it.                       *)
(***************************************************************************)
EXTENDS Choke

VARIABLE choke

Reset  == choke' = ResetPosition(choke)
Move   == \E toShut \in BOOLEAN : choke' = MoveToPosition(choke, toShut)
Pass   == choke' = Elapse(choke)
Finish == ResetOver(choke) /\ choke' = ResetDone(choke)
Renew  == choke' = ChokeAtInit

ChokeNext == Reset \/ Move \/ Pass \/ Finish \/ Renew

ChokeSpec == choke = ChokeAtInit /\ [][ChokeNext]_choke
=============================================================================
