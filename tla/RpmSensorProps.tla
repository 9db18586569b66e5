---------------------------- MODULE RpmSensorProps ----------------------------
(***************************************************************************)
(* What the measurement of the speed must guarantee, stated over           *)
(* RpmSensor.                                                              *)
(***************************************************************************)
EXTENDS RpmSensor

\* A running engine is declared stopped only when it was measured slow, or when more than
\* one sample in the filter was falsified by a pulse in the wrong moment: one is forgiven.
StopsForCause ==
  [][engine = "RUNNING" /\ engine' = "STOPPED" =>
       LET n == Len(filter)
       IN \/ \E i \in 1..n : ~filter[i].lost /\ filter[i].rpm * (n - 1) < n * Threshold
          \/ Quantify(1..n, LAMBDA i : filter[i].lost) > 1]_vars

\* An engine that has come to rest is noticed, although the controller is told only of
\* values that the filter changes, unless it was declared running too late for that or
\* turned so fast that the mean of one such sample and zeros is not below the threshold.
StopNoticed ==
  <>[](sampling /\ ~turning) => []<>(engine # "RUNNING" \/ deaf)
=============================================================================
