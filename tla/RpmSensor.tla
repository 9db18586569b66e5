------------------------------ MODULE RpmSensor ------------------------------
(***************************************************************************)
(* How the speed of the engine is measured (main/sensors/sensor_mgr.c) and *)
(* how the engine controller learns of it (engine_handle_rpm_change of     *)
(* main/engine/engine_ctrl.c).                                             *)
(*                                                                         *)
(* An interrupt sums up the intervals between pulses.  Twice a second the  *)
(* sampling timer turns them into a speed, filters it by the mean of the   *)
(* last samples, and tells the engine controller when the two differ.  The *)
(* interrupt takes no lock and comes between any two steps of the timer.   *)
(* The average of the intervals is the speed they mean, in revolutions,    *)
(* and 0 is none.                                                          *)
(***************************************************************************)
EXTENDS Integers, Sequences, FiniteSetsExt

CONSTANTS
  Samples,   \* SENSOR_FILTER_SAMPLES
  Threshold, \* config.engine_on_rpm_threshold
  Timeout,   \* RPM_PULSE_TIMEOUT_MS, in calculations
  Speeds     \* the speeds at which the engine may turn

ASSUME SensorAssumption ==
  /\ Samples \in Nat \ {0} /\ Threshold \in Nat \ {0} /\ Timeout \in Nat \ {0}
  /\ IsFiniteSet(Speeds) /\ \A s \in Speeds : s \in Nat /\ Samples <= s

VARIABLES
  sampling, \* sampling_enabled, and the timer is armed
  pulsed,   \* last_pulse_time > 0
  age,      \* calculations since last_pulse_time
  speed,    \* what pulse_period_sum over valid_pulse_count means
  skewed,   \* an interval is in the sum and not in the count
  step,     \* where the calculation is
  ahead,    \* a pulse has come since the calculation read the time
  raw,      \* rpm in the calculation
  lost,     \* history: a pulse that came in between has falsified raw
  filter,   \* the samples of the filter, each with its history
  fast,     \* g_smartjet.sensors.rpm is above the threshold
  engine,   \* current_state of the engine controller; WARMING is the end of STARTING
  turning,  \* whether the engine turns
  deaf      \* history: a stall from here is one that no told value will show

pulses == <<pulsed, age, speed, skewed, ahead>>
vars == <<sampling, pulses, step, raw, lost, filter, fast, engine, turning, deaf>>

Levels == Speeds \cup {0}

TypeOK ==
  /\ sampling \in BOOLEAN /\ pulsed \in BOOLEAN /\ skewed \in BOOLEAN /\ ahead \in BOOLEAN
  /\ age \in 0..Timeout /\ speed \in Levels /\ raw \in Levels /\ lost \in BOOLEAN
  /\ step \in {"idle", "read", "update", "reset", "tell"}
  /\ filter \in Seq([rpm : Levels, lost : BOOLEAN]) /\ Len(filter) <= Samples
  /\ fast \in BOOLEAN
  /\ engine \in {"STOPPED", "STARTING", "WARMING", "RUNNING", "STOPPING"}
  /\ turning \in BOOLEAN /\ deaf \in BOOLEAN

\* sensor_manager_init
Init ==
  /\ sampling = FALSE /\ pulsed = FALSE /\ age = 0 /\ speed = 0 /\ skewed = FALSE
  /\ step = "idle" /\ ahead = FALSE /\ raw = 0 /\ lost = FALSE
  /\ filter = <<>> /\ fast = FALSE
  /\ engine = "STOPPED" /\ turning = FALSE /\ deaf = FALSE

-----------------------------------------------------------------------------
(* sensor_filter_update.                                                   *)

\* A faulty variant of the next definition: samples of a silent engine are left out.
PushedPositive(f, r, l) ==
  LET g == IF r = 0 /\ f # <<>> THEN f ELSE Append(f, [rpm |-> r, lost |-> l])
  IN IF Len(g) > Samples THEN Tail(g) ELSE g

Pushed(f, r, l) ==
  LET g == Append(f, [rpm |-> r, lost |-> l])
  IN IF Len(g) > Samples THEN Tail(g) ELSE g

\* The loop over the samples.
Total(f) ==
  LET sum[i \in 0..Len(f)] == IF i = 0 THEN 0 ELSE sum[i - 1] + f[i].rpm
  IN sum[Len(f)]

Filtered(f) == Total(f) \div Len(f)

-----------------------------------------------------------------------------
(* rpm_gpio_isr_handler.                                                   *)

\* The first pulse has no interval before it.  A pulse between the two resets leaves its
\* interval in the sum alone.
Pulse ==
  /\ turning
  /\ pulsed' = TRUE /\ age' = 0
  /\ speed' \in IF pulsed THEN Speeds ELSE {speed}
  /\ ahead' = (step = "read")
  /\ skewed' = (skewed \/ (step = "reset" /\ pulsed))
  /\ UNCHANGED <<sampling, step, raw, lost, filter, fast, engine, turning, deaf>>

\* The engine catches or stalls.
Turn ==
  /\ turning' = ~turning
  /\ UNCHANGED <<sampling, pulses, step, raw, lost, filter, fast, engine, deaf>>

-----------------------------------------------------------------------------
(* sensor_update_rpm_calculation in the sampling timer.                    *)

\* Half a second has passed and the time is read.
Calculate ==
  /\ sampling /\ step = "idle" /\ step' = "read"
  /\ age' = IF age < Timeout THEN age + 1 ELSE age
  /\ ahead' = FALSE
  /\ UNCHANGED <<sampling, pulsed, speed, skewed, raw, lost, filter, fast, engine, turning, deaf>>

\* The speed.  A pulse later than the time read makes the time since it negative, which
\* is a long one without a sign; a skewed sum means a lower speed.
ReadPulses ==
  /\ step = "read" /\ step' = "update"
  /\ raw' \in IF ~pulsed \/ ahead \/ age >= Timeout THEN {0}
              ELSE IF skewed THEN {s \in Levels : s <= speed} ELSE {speed}
  /\ lost' = (pulsed /\ (ahead \/ skewed))
  /\ UNCHANGED <<sampling, pulses, filter, fast, engine, turning, deaf>>

\* The mean falls from such a sample, the last one before zeros, to none at once: it is
\* never told below the threshold.  Debouncing lets 12000 through, five times 1800 is less.
TooFast(r) == r >= Samples * Threshold

\* The filter takes the sample; the sum is reset, and then the count.
Update ==
  /\ step = "update" /\ step' = "reset"
  /\ filter' = Pushed(filter, raw, lost)
  /\ speed' = 0 /\ skewed' = FALSE
  /\ deaf' = (TooFast(raw) \/ (deaf /\ raw = 0))
  /\ UNCHANGED <<sampling, pulsed, age, ahead, raw, lost, fast, engine, turning>>

\* valid_pulse_count is reset, and with it what the interrupt has added.
Reset ==
  /\ step = "reset" /\ step' = "tell"
  /\ speed' = 0
  /\ UNCHANGED <<sampling, pulsed, age, skewed, ahead, raw, lost, filter, fast, engine, turning, deaf>>

\* engine_handle_rpm_change.
EngineAfter(r) ==
  CASE engine = "STOPPED" /\ r > Threshold -> "RUNNING"
    [] engine = "RUNNING" /\ r < Threshold -> "STOPPED"
    [] OTHER -> engine

\* A faulty variant of the next action: the controller is told the speed not filtered.
TellRaw ==
  /\ step = "tell" /\ step' = "idle"
  /\ engine' = IF raw # Filtered(filter) THEN EngineAfter(raw) ELSE engine
  /\ fast' \in {fast, Filtered(filter) > Threshold}
  /\ raw' = 0 /\ lost' = FALSE
  /\ UNCHANGED <<sampling, pulses, filter, turning, deaf>>

\* The engine controller is told when the filter changes the value, and the value is
\* published unless system_mutex is taken too long.
Tell ==
  /\ step = "tell" /\ step' = "idle"
  /\ engine' = IF raw # Filtered(filter) THEN EngineAfter(Filtered(filter)) ELSE engine
  /\ fast' \in {fast, Filtered(filter) > Threshold}
  /\ raw' = 0 /\ lost' = FALSE
  /\ UNCHANGED <<sampling, pulses, filter, turning, deaf>>

-----------------------------------------------------------------------------
(* The interface and the engine controller.                                *)

\* sensor_manager_start_sampling and sensor_manager_stop_sampling.
StartSampling ==
  /\ ~sampling /\ sampling' = TRUE
  /\ UNCHANGED <<pulses, step, raw, lost, filter, fast, engine, turning, deaf>>

StopSampling ==
  /\ sampling /\ sampling' = FALSE
  /\ UNCHANGED <<pulses, step, raw, lost, filter, fast, engine, turning, deaf>>

\* A start, whose crank ends when the published speed is above the threshold.
StartEngine ==
  /\ engine = "STOPPED" /\ engine' = "STARTING"
  /\ UNCHANGED <<sampling, pulses, step, raw, lost, filter, fast, turning, deaf>>

CrankEnds ==
  /\ engine = "STARTING" /\ fast /\ engine' = "WARMING"
  /\ UNCHANGED <<sampling, pulses, step, raw, lost, filter, fast, turning, deaf>>

\* Warmed up, in the same task as the sampling: RUNNING is set without another look at
\* the speed.  With an empty filter nobody will be told of a stall before.
WarmedUp ==
  /\ engine = "WARMING" /\ step = "idle" /\ engine' = "RUNNING"
  /\ deaf' = (deaf \/ Filtered(Pushed(filter, 0, FALSE)) = 0)
  /\ UNCHANGED <<sampling, pulses, step, raw, lost, filter, fast, turning>>

\* A stop, and the end of a stop or of a start that failed.
StopEngine ==
  /\ engine \in {"STARTING", "WARMING", "RUNNING"} /\ engine' = "STOPPING"
  /\ UNCHANGED <<sampling, pulses, step, raw, lost, filter, fast, turning, deaf>>

StopEnds ==
  /\ engine \in {"STARTING", "STOPPING"} /\ engine' = "STOPPED"
  /\ UNCHANGED <<sampling, pulses, step, raw, lost, filter, fast, turning, deaf>>

Timer == Calculate \/ ReadPulses \/ Update \/ Reset \/ Tell

Next ==
  \/ Timer \/ Pulse \/ Turn \/ StartSampling \/ StopSampling
  \/ StartEngine \/ CrankEnds \/ WarmedUp \/ StopEngine \/ StopEnds

\* The timer goes on as long as sampling is on.
Spec == Init /\ [][Next]_vars /\ WF_vars(Timer)
=============================================================================
