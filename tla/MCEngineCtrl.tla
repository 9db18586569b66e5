---------------------------- MODULE MCEngineCtrl ----------------------------
(***************************************************************************)
(* EngineCtrl for TLC.  Delays are scaled down but keep their order: 100 ms *)
(* is 1 unit, as in the code; the long delays are 2 to 5.                  *)
(***************************************************************************)
EXTENDS EngineCtrlProps, TLC

CONSTANTS c1, c2

MCStartDelay ==
  [s \in StartSteps |->
     CASE s \in {"CHOKE_RESET", "FAILED"} -> 1
       [] s \in {"CRANKING", "WAKE_PULSE", "CHOKE_OPEN"} -> 2
       [] s \in {"CHOKE_CLOSE", "SUCCESS", "WAIT_RPM"} -> 3
       [] s = "RETRY_WAIT" -> 4]

MCStopDelay ==
  [s \in StopSteps |->
     CASE s = "CHOKE_RESET" -> 1 [] s = "FUEL_OFF" -> 3 [] OTHER -> 2]

Symmetry == Permutations({c1, c2})
=============================================================================
