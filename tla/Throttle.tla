------------------------------- MODULE Throttle -------------------------------
(***************************************************************************)
(* check_and_update_throttle of main/cloud/onenet_mqtt.c: a message is     *)
(* accepted when at least Interval milliseconds have passed since the last *)
(* accepted one and fewer than MaxPerSec were accepted in this second of   *)
(* the clock.  The clock is a 32-bit count of milliseconds and wraps.      *)
(***************************************************************************)
EXTENDS Integers

CONSTANTS
  Wrap,      \* the clock counts modulo 2^32
  Second,    \* milliseconds in a second
  Interval,  \* 80 for all messages, 150 for reported properties
  MaxPerSec  \* 12 and 5

ASSUME ThrottleAssumption ==
  /\ Wrap \in Nat /\ Second \in Nat \ {0} /\ MaxPerSec \in Nat
  /\ Interval \in Nat \ {0} /\ Interval < Wrap

\* throttle_controller_t
Controllers == [last_time : 0..(Wrap - 1), count_per_sec : Nat, last_sec : Nat]

\* now - last in unsigned arithmetic.
Elapsed(now, last) == IF now >= last THEN now - last ELSE now - last + Wrap

\* A faulty variant of the next definition: it compares the times
\* themselves, and their sum wraps.
TooEarlyAbsolute(c, now) == now < (c.last_time + Interval) % Wrap

TooEarly(c, now) == Elapsed(now, c.last_time) < Interval

\* The count starts again in another second.
ThisSecond(c, now) ==
  IF now \div Second = c.last_sec THEN c
  ELSE [c EXCEPT !.count_per_sec = 0, !.last_sec = now \div Second]

Accepts(c, now) == ~TooEarly(c, now) /\ ThisSecond(c, now).count_per_sec < MaxPerSec

\* The controller afterwards.
Throttled(c, now) ==
  IF TooEarly(c, now) THEN c
  ELSE IF Accepts(c, now)
       THEN [ThisSecond(c, now) EXCEPT !.last_time = now, !.count_per_sec = @ + 1]
       ELSE ThisSecond(c, now)
=============================================================================
