---------------------------- MODULE OnenetMqttProps ----------------------------
(***************************************************************************)
(* What the OneNet client must guarantee, stated over OnenetMqtt.          *)
(***************************************************************************)
EXTENDS OnenetMqtt, WifiManagerProps

\* Accepted messages keep their distance and their number per second, also when the
\* clock wraps.
ThrottleSpaced ==
  [][accepted' > accepted => gap >= Interval /\ accepted < MaxPerSec]_vars
-----------------------------------------------------------------------------
(* The inductive invariant.                                                *)

\* As long as the interval is not over, the time since the last accepted message is what
\* the wrapping clock makes of it.
GapMeasured == gap < Interval => Elapsed(clock, throttle.last_time) = gap

\* The count of this second is no lower than what was accepted in it.
CountCovers ==
  IF throttle.last_sec = clock \div Second THEN accepted <= throttle.count_per_sec
                                           ELSE accepted = 0

MqttInv == MqttTypeOK /\ GapMeasured /\ CountCovers
IndInv  == WifiInv /\ MqttInv
=============================================================================
