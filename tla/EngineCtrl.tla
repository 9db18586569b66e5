------------------------------ MODULE EngineCtrl ------------------------------
(***************************************************************************)
(* The engine controller of main/engine/engine_ctrl.c: the start and stop  *)
(* sequences, the starter relay, kill and fuel outputs, the control mutex, *)
(* the one-shot sequence timer, and the RPM handler that takes no lock.    *)
(*                                                                         *)
(* Two kinds of process act.  Callers are the tasks that call              *)
(* engine_start, engine_stop or engine_emergency_stop; each call takes     *)
(* ctrl_mutex and waits for it at most LockWait.  The esp_timer task runs  *)
(* the sequence callback, the RPM handler (called by the sensor sampling   *)
(* timer) and the choke's step callback one after the other, never two at  *)
(* a time; it waits for the mutex at most CallbackWait.  The main task     *)
(* initialises the controller and shuts it down while both kinds run.      *)
(*                                                                         *)
(* Time is discrete, in units of 100 ms, the code's shortest delay.  Code  *)
(* that does not wait takes no time: Tick is disabled while a step of it   *)
(* is pending.  The check of current_state and the writes that follow it   *)
(* are separate steps wherever a handler without the lock can come between.*)
(***************************************************************************)
EXTENDS Choke

CONSTANTS
  Callers,       \* tasks that call the public interface
  MaxCalls,      \* how many calls they make altogether (bounds the model)
  Rpms,          \* the speed classes the sensors report
  PoliteCallers, \* TRUE: no call of engine_start is made while STOPPING
  MaxAttempts,   \* ENGINE_MAX_START_ATTEMPTS
  StartDelay,    \* the delay before each step of the start sequence
  StopDelay,     \* the delay before each step of the stop sequence
  KillDuration,  \* ENGINE_STOP_KILL_DURATION_MS
  LockWait,      \* how long a caller waits for ctrl_mutex
  CallbackWait,  \* how long the sequence callback waits for ctrl_mutex
  PostWait,      \* how long event_system_post may block on a full queue
  TimerLag,      \* how long other callbacks may keep the esp_timer task
  NoOne,         \* the owner of a free mutex
  TimerTask      \* the owner of the mutex when the sequence callback has it

StartSteps == {"CHOKE_RESET", "CHOKE_CLOSE", "WAKE_PULSE", "CRANKING", "WAIT_RPM",
               "CHOKE_OPEN", "SUCCESS", "FAILED", "RETRY_WAIT"}
StopSteps  == {"CHOKE_RESET", "KILL_IGNITION", "FUEL_OFF", "SUCCESS"}
States     == {"STOPPED", "STARTING", "RUNNING", "STOPPING"}
Stages     == {"none", "setup", "timers", "open", "closing", "closed"}
Requests   == {"start", "stop", "emergency"}
Events     == {"NONE", "START_REQUEST", "STARTED", "STOP_REQUEST", "STOPPED"}

\* Speeds are told apart by the two thresholds of the configuration:
\* engine_on_rpm_threshold and rpm_alarm_threshold, the first below the second.
RpmClasses == {"below", "at", "above", "over"}
Turning    == {"above", "over"}     \* rpm > engine_on_rpm_threshold

Disarmed == -1

ASSUME CallersAssumption ==
  /\ NoOne \notin Callers /\ TimerTask \notin Callers /\ NoOne # TimerTask
  /\ MaxCalls \in Nat
  /\ PoliteCallers \in BOOLEAN
  /\ Rpms \subseteq RpmClasses /\ "below" \in Rpms

ASSUME TimesAssumption ==
  /\ MaxAttempts \in Nat \ {0}
  /\ StartDelay \in [StartSteps -> Nat \ {0}]
  /\ StopDelay \in [StopSteps -> Nat \ {0}]
  /\ KillDuration \in Nat \ {0} /\ LockWait \in Nat \ {0}
  /\ CallbackWait \in Nat \ {0} /\ PostWait \in Nat \ {0}
  /\ TimerLag \in Nat

\* Both are 100 ms: engine_start has posted its event when its timer fires.
ASSUME PostAssumption == PostWait <= StartDelay["CHOKE_RESET"]

VARIABLES
  stage,      \* how far initialisation and shutdown have come
  state,      \* current_state (ENGINE_STATE_FAULT is never assigned)
  startSeq,   \* start_sequence, "IDLE" or one of StartSteps
  stopSeq,    \* stop_sequence, "IDLE" or one of StopSteps
  attempts,   \* start_attempts
  relay,      \* GPIO_ENGINE_STARTER_RELAY
  kill,       \* GPIO_ENGINE_KILL_OUTPUT
  fuel,       \* GPIO_FUEL_SOLENOID
  seqTimer,   \* time to the sequence callback, or Disarmed
  runTimer,   \* the one-second runtime timer is armed
  choke,      \* the stepper motor controller
  owner,      \* who holds ctrl_mutex
  pc, op,     \* each caller's place in its call, and the call
  wait,       \* time left to what a caller waits for
  calls,      \* calls still to be made
  timerTask,  \* what the esp_timer task is in the middle of
  cbWait,     \* time left to what the esp_timer task waits for
  rpm,        \* g_smartjet.sensors.rpm
  event,      \* the last event given to event_system_post
  crankTime,  \* history: how long the relay has been closed
  pulses      \* history: relay pulses since the last accepted start

controller == <<stage, state, startSeq, stopSeq, attempts>>
outputs    == <<relay, kill, fuel, crankTime, pulses>>
timers     == <<seqTimer, runTimer>>
callers    == <<pc, op, wait, calls>>
timerSide  == <<timerTask, cbWait>>
vars == <<controller, outputs, timers, choke, owner, callers, timerSide, rpm, event>>

\* g_engine_initialized is set from the end of engine_controller_init to the end of
\* engine_controller_deinit; the two timers exist from stage "timers" until
\* engine_controller_deinit deletes them first thing; the mutex is gone once "closed".
Initialized == stage \in {"open", "closing"}
Ready       == stage = "open"

TypeOK ==
  /\ stage \in Stages
  /\ state \in States
  /\ startSeq \in StartSteps \union {"IDLE"}
  /\ stopSeq \in StopSteps \union {"IDLE"}
  /\ attempts \in Nat
  /\ relay \in BOOLEAN /\ kill \in BOOLEAN /\ fuel \in BOOLEAN
  /\ seqTimer \in Nat \union {Disarmed}
  /\ runTimer \in BOOLEAN
  /\ choke \in ChokeType
  /\ owner \in Callers \union {NoOne, TimerTask}
  /\ pc \in [Callers -> {"idle", "lock", "commit", "kill", "post"}]
  /\ op \in [Callers -> Requests]
  /\ wait \in [Callers -> Nat]
  /\ calls \in Nat
  /\ timerTask \in {"idle", "sequence", "post", "pull", "halt", "busy"}
  /\ cbWait \in Nat
  /\ rpm \in Rpms
  /\ event \in Events
  /\ crankTime \in Nat /\ pulses \in Nat

Init ==
  /\ stage = "none"
  /\ state = "STOPPED" /\ startSeq = "IDLE" /\ stopSeq = "IDLE" /\ attempts = 0
  /\ relay = FALSE /\ kill = FALSE /\ fuel = FALSE
  /\ seqTimer = Disarmed /\ runTimer = FALSE
  /\ choke = ChokeAtInit
  /\ owner = NoOne
  /\ pc = [c \in Callers |-> "idle"] /\ op = [c \in Callers |-> "stop"]
  /\ wait = [c \in Callers |-> 0] /\ calls = MaxCalls
  /\ timerTask = "idle" /\ cbWait = 0
  /\ rpm = "below" /\ event = "NONE"
  /\ crankTime = 0 /\ pulses = 0

-----------------------------------------------------------------------------
(* Pieces the actions are built from.                                      *)

OpenRelay == relay' = FALSE /\ crankTime' = 0

Goto(c, place, time) ==
  /\ pc' = [pc EXCEPT ![c] = place]
  /\ wait' = [wait EXCEPT ![c] = time]

\* A take of ctrl_mutex succeeds; one that waits when the mutex is deleted is
\* woken by nobody.
MutexFree == owner = NoOne /\ stage # "closed"

\* The end of a call: the mutex is given back and the caller returns.  With the mutex
\* deleted the give is a failed assertion (see Abort).
Return(c) == stage # "closed" /\ Goto(c, "idle", 0) /\ owner' = NoOne

\* The stepper motor takes orders while it is initialised.
MoveChoke(moved) == choke' = IF Ready THEN moved ELSE choke

\* A call goes on with the mutex held.
Hold(c, place, time) == Goto(c, place, time) /\ owner' = c

\* A faulty variant of the next definition (see Faulty variants below): the event
\* is posted with a longer wait.
PostHoldingLong(c, e) == Hold(c, "post", PostWait + LockWait) /\ event' = e

\* Both ways of ending a start or stop request: event_system_post may block
\* for PostWait on a full event queue, and the mutex is held meanwhile.
PostHolding(c, e) == Hold(c, "post", PostWait) /\ event' = e

AtLock(c, request) == pc[c] = "lock" /\ op[c] = request /\ MutexFree

\* The callback takes the mutex, and with it makes one step and gives it back, or
\* makes the step and goes on to event_system_post.
AtCallback == timerTask = "sequence" /\ MutexFree

LeaveCallback == timerTask' = "idle" /\ cbWait' = 0 /\ UNCHANGED owner

PostInCallback(e) ==
  /\ event' = e
  /\ timerTask' = "post" /\ cbWait' = PostWait /\ owner' = TimerTask

\* A callback outside the sequence goes on for a while.  One that starts when the
\* sequence timer has expired had the earlier alarm and counts as part of the lag
\* before it.
Linger == IF seqTimer = 0 THEN timerTask' = "idle" /\ UNCHANGED cbWait
          ELSE timerTask' = "busy" /\ cbWait' = TimerLag

\* esp_timer_start_once at the end of a step; an armed timer keeps its time, and one
\* that is deleted is not armed.
Rearm(delay) == seqTimer' = IF Ready /\ seqTimer = Disarmed THEN delay ELSE seqTimer

\* The same for a timer that is not armed or has just been stopped.
Armed(delay) == IF Ready THEN delay ELSE Disarmed

StartTo(step) == startSeq' = step /\ Rearm(StartDelay[step]) /\ LeaveCallback

AtStart(step) == AtCallback /\ state = "STARTING" /\ startSeq = step

StopTo(step) == stopSeq' = step /\ Rearm(StopDelay[step]) /\ LeaveCallback

AtStop(step) == AtCallback /\ state = "STOPPING" /\ stopSeq = step

\* The main task shares a core with the esp_timer task, which has the higher priority:
\* it runs only while a callback waits or none is under way.
TimerTaskYields ==
  /\ timerTask \notin {"pull", "halt"}
  /\ timerTask = "sequence" => ~MutexFree

-----------------------------------------------------------------------------
(* Faulty variants.  Each is an action or helper below with one plausible  *)
(* mistake; none is part of Next.  Put in the place of the original, each  *)
(* breaks a property of EngineCtrlProps, which shows what it guards.       *)

\* A stop that leaves the relay to the stop sequence.
StopCommitRelayLeft(c) ==
  /\ pc[c] = "commit" /\ op[c] = "stop"
  /\ state' = "STOPPING" /\ stopSeq' = "CHOKE_RESET"
  /\ seqTimer' = Armed(StopDelay["CHOKE_RESET"]) /\ runTimer' = FALSE
  /\ PostHolding(c, "STOP_REQUEST")
  /\ UNCHANGED <<stage, startSeq, attempts, outputs, choke, op, calls, timerSide, rpm>>

\* An emergency stop that does not cancel the sequence timer.
EmergencyCommitTimerLeft(c) ==
  /\ pc[c] = "commit" /\ op[c] = "emergency"
  /\ state' = "STOPPED" /\ stopSeq' = "IDLE"
  /\ OpenRelay /\ kill' = TRUE /\ fuel' = FALSE
  /\ runTimer' = FALSE
  /\ Hold(c, "kill", KillDuration)
  /\ UNCHANGED <<stage, startSeq, attempts, pulses, seqTimer, choke, op, calls,
                 timerSide, rpm, event>>

\* An emergency stop that does not release the ignition.
EmergencyFinishKilled(c) ==
  /\ pc[c] = "kill" /\ wait[c] = 0
  /\ MoveChoke(ResetPosition(choke))
  /\ PostHolding(c, "STOP_REQUEST")
  /\ UNCHANGED <<controller, outputs, timers, op, calls, timerSide, rpm>>

\* A shutdown that leaves the starter relay as it is.
DeinitRelayLeft ==
  /\ Ready /\ TimerTaskYields
  /\ stage' = "closing"
  /\ seqTimer' = Disarmed /\ runTimer' = FALSE
  /\ kill' = FALSE /\ fuel' = FALSE /\ choke' = ChokeAtInit
  /\ UNCHANGED <<state, startSeq, stopSeq, attempts, relay, crankTime, pulses, owner, callers,
                 timerSide, rpm, event>>

\* The RPM test with the parts that can go wrong: when the relay is opened, and
\* the number of attempts allowed.
WaitRpm(opens, last) ==
  /\ AtStart("WAIT_RPM")
  /\ IF opens THEN OpenRelay ELSE UNCHANGED <<relay, crankTime>>
  /\ IF rpm \in Turning
     THEN StartTo("CHOKE_OPEN") /\ UNCHANGED attempts
     ELSE /\ attempts' = attempts + 1
          /\ StartTo(IF attempts + 1 >= last THEN "FAILED" ELSE "RETRY_WAIT")
  /\ UNCHANGED <<stage, state, stopSeq, kill, fuel, pulses, runTimer, choke, callers,
                 rpm, event>>

WaitRpmOpenOnSuccess == WaitRpm(rpm \in Turning, MaxAttempts)
WaitRpmOpenOnFailure == WaitRpm(rpm \notin Turning, MaxAttempts)
WaitRpmOneTooMany    == WaitRpm(TRUE, MaxAttempts + 1)

\* A start request that begins anew what is already under way.
StartCheckAgain(c) ==
  /\ AtLock(c, "start")
  /\ \/ state = "RUNNING" /\ Return(c) /\ UNCHANGED event
     \/ state # "RUNNING" /\ Hold(c, "commit", 0) /\ UNCHANGED event
  /\ UNCHANGED <<controller, outputs, timers, choke, op, calls, timerSide, rpm>>

\* A stop that does not stop the sequence timer before it starts it.
StopCommitTimerLeft(c) ==
  /\ pc[c] = "commit" /\ op[c] = "stop"
  /\ state' = "STOPPING" /\ stopSeq' = "CHOKE_RESET"
  /\ OpenRelay
  /\ Rearm(StopDelay["CHOKE_RESET"]) /\ runTimer' = FALSE
  /\ PostHolding(c, "STOP_REQUEST")
  /\ UNCHANGED <<stage, startSeq, attempts, kill, fuel, pulses, choke, op, calls, timerSide, rpm>>

\* A retry that forgets to arm the timer for the next attempt.
RetryNotRearmed ==
  /\ AtStart("RETRY_WAIT")
  /\ startSeq' = "CHOKE_RESET"
  /\ LeaveCallback
  /\ UNCHANGED <<stage, state, stopSeq, attempts, outputs, timers, choke, callers,
                 rpm, event>>

\* A stop step that forgets to arm the timer for the next one.
KillIgnitionNotRearmed ==
  /\ AtStop("KILL_IGNITION")
  /\ kill' = TRUE /\ stopSeq' = "FUEL_OFF"
  /\ LeaveCallback
  /\ UNCHANGED <<stage, state, startSeq, attempts, relay, fuel, crankTime, pulses,
                 timers, choke, callers, rpm, event>>

\* A fuel step that does not end the grounding of the ignition.
FuelOffKilled ==
  /\ AtStop("FUEL_OFF")
  /\ fuel' = FALSE
  /\ StopTo("SUCCESS")
  /\ UNCHANGED <<stage, state, startSeq, attempts, relay, kill, crankTime, pulses,
                 runTimer, choke, callers, rpm, event>>

\* A pull start that does not start the runtime timer.
RpmPullUntimed ==
  /\ timerTask = "pull"
  /\ state' = "RUNNING" /\ event' = "STARTED" /\ Linger
  /\ UNCHANGED <<stage, startSeq, stopSeq, attempts, outputs, timers, choke, owner, callers, rpm>>

-----------------------------------------------------------------------------
(* Initialisation and shutdown, by the main task, while the other tasks     *)
(* are running.                                                            *)

\* engine_controller_init up to the outputs and the choke.
InitBegin ==
  /\ stage = "none" /\ TimerTaskYields
  /\ stage' = "setup"
  /\ state' = "STOPPED" /\ startSeq' = "IDLE" /\ stopSeq' = "IDLE"
  /\ OpenRelay /\ kill' = FALSE /\ fuel' = FALSE
  /\ choke' = ChokeAtInit
  /\ UNCHANGED <<attempts, pulses, timers, owner, callers, timerSide, rpm, event>>

\* The two timers are created.  When the choke or a timer cannot be, initialisation
\* ends here and the controller stays out of service.
InitTimers ==
  /\ stage = "setup" /\ TimerTaskYields
  /\ stage' = "timers"
  /\ UNCHANGED <<state, startSeq, stopSeq, attempts, outputs, timers, choke, owner, callers,
                 timerSide, rpm, event>>

InitDone ==
  /\ stage = "timers" /\ TimerTaskYields
  /\ stage' = "open"
  /\ UNCHANGED <<state, startSeq, stopSeq, attempts, outputs, timers, choke, owner, callers,
                 timerSide, rpm, event>>

\* engine_controller_deinit waits for nobody: the timers are deleted and the outputs
\* set whatever call is under way.
DeinitBegin ==
  /\ Ready /\ TimerTaskYields
  /\ stage' = "closing"
  /\ seqTimer' = Disarmed /\ runTimer' = FALSE
  /\ OpenRelay /\ kill' = FALSE /\ fuel' = FALSE
  /\ choke' = ChokeAtInit
  /\ UNCHANGED <<state, startSeq, stopSeq, attempts, pulses, owner, callers, timerSide,
                 rpm, event>>

\* The mutex is deleted, whoever holds it, and the flag cleared.
DeinitEnd ==
  /\ stage = "closing" /\ TimerTaskYields
  /\ stage' = "closed"
  /\ owner' = NoOne
  /\ UNCHANGED <<state, startSeq, stopSeq, attempts, outputs, timers, choke, callers, timerSide,
                 rpm, event>>

\* A task that was inside the interface, or the callback, gives or takes the deleted
\* mutex: the assertion in FreeRTOS fails and the device restarts.
Abort ==
  /\ stage = "closed"
  /\ timerTask \in {"sequence", "post"} \/ \E c \in Callers : pc[c] # "idle"
  /\ stage' = "none"
  /\ state' = "STOPPED" /\ startSeq' = "IDLE" /\ stopSeq' = "IDLE" /\ attempts' = 0
  /\ OpenRelay /\ kill' = FALSE /\ fuel' = FALSE
  /\ seqTimer' = Disarmed /\ runTimer' = FALSE
  /\ choke' = ChokeAtInit
  /\ owner' = NoOne
  /\ pc' = [c \in Callers |-> "idle"] /\ op' = [c \in Callers |-> "stop"]
  /\ wait' = [c \in Callers |-> 0]
  /\ timerTask' = "idle" /\ cbWait' = 0
  /\ rpm' = "below" /\ event' = "NONE"
  /\ UNCHANGED <<calls, pulses>>

-----------------------------------------------------------------------------
(* Callers.                                                                *)

\* A task enters the interface; before initialisation it is turned away.
Call(c, request) ==
  /\ pc[c] = "idle" /\ Initialized /\ calls > 0
  /\ PoliteCallers => ~(request = "start" /\ state = "STOPPING")
  /\ calls' = calls - 1
  /\ op' = [op EXCEPT ![c] = request]
  /\ Goto(c, "lock", LockWait)
  /\ UNCHANGED <<controller, outputs, timers, choke, owner, timerSide, rpm, event>>

\* ESP_ERR_TIMEOUT: the request is dropped.
LockTimeout(c) ==
  /\ pc[c] = "lock" /\ ~MutexFree /\ wait[c] = 0
  /\ Goto(c, "idle", 0)
  /\ UNCHANGED <<controller, outputs, timers, choke, owner, op, calls, timerSide,
                 rpm, event>>

\* engine_start up to the first write: the state test and the safety check,
\* whose inputs (oil, battery voltage, temperature) may give either answer.
StartCheck(c) ==
  /\ AtLock(c, "start")
  /\ \/ /\ state \in {"RUNNING", "STARTING"}
        /\ Return(c) /\ UNCHANGED event
     \/ /\ state \notin {"RUNNING", "STARTING"}
        /\ PostHolding(c, "START_REQUEST")            \* not can_start
     \/ /\ state \notin {"RUNNING", "STARTING"}
        /\ Hold(c, "commit", 0) /\ UNCHANGED event    \* can_start
  /\ UNCHANGED <<controller, outputs, timers, choke, op, calls, timerSide, rpm>>

\* The rest of engine_start.  esp_timer_start_once fails on an armed timer, or a
\* deleted one.
StartCommit(c) ==
  /\ pc[c] = "commit" /\ op[c] = "start"
  /\ attempts' = 0
  /\ \/ /\ Ready /\ seqTimer = Disarmed
        /\ state' = "STARTING" /\ startSeq' = "CHOKE_RESET"
        /\ seqTimer' = StartDelay["CHOKE_RESET"]
        /\ pulses' = 0
        /\ PostHolding(c, "START_REQUEST")
     \/ /\ ~Ready \/ seqTimer # Disarmed
        /\ state' = "STOPPED" /\ startSeq' = "IDLE"
        /\ Return(c)
        /\ UNCHANGED <<seqTimer, pulses, event>>
  /\ UNCHANGED <<stage, stopSeq, relay, kill, fuel, crankTime, runTimer, choke, op,
                 calls, timerSide, rpm>>

\* engine_stop up to the first write.
StopCheck(c) ==
  /\ AtLock(c, "stop") \/ AtLock(c, "emergency")
  /\ IF state = "STOPPED" THEN Return(c) ELSE Hold(c, "commit", 0)
  /\ UNCHANGED <<controller, outputs, timers, choke, op, calls, timerSide, rpm, event>>

\* The rest of engine_stop(false): the stop sequence starts from its first step.
StopCommit(c) ==
  /\ pc[c] = "commit" /\ op[c] = "stop"
  /\ state' = "STOPPING" /\ stopSeq' = "CHOKE_RESET"
  /\ OpenRelay
  /\ seqTimer' = Armed(StopDelay["CHOKE_RESET"]) /\ runTimer' = FALSE
  /\ PostHolding(c, "STOP_REQUEST")
  /\ UNCHANGED <<stage, startSeq, attempts, kill, fuel, pulses, choke, op, calls,
                 timerSide, rpm>>

\* engine_stop(true) up to vTaskDelay, which is taken with the mutex held.
EmergencyCommit(c) ==
  /\ pc[c] = "commit" /\ op[c] = "emergency"
  /\ state' = "STOPPED" /\ stopSeq' = "IDLE"
  /\ OpenRelay /\ kill' = TRUE /\ fuel' = FALSE
  /\ seqTimer' = Disarmed /\ runTimer' = FALSE
  /\ Hold(c, "kill", KillDuration)
  /\ UNCHANGED <<stage, startSeq, attempts, pulses, choke, op, calls, timerSide, rpm,
                 event>>

\* engine_stop(true) after vTaskDelay.
EmergencyFinish(c) ==
  /\ pc[c] = "kill" /\ wait[c] = 0
  /\ kill' = FALSE
  /\ MoveChoke(ResetPosition(choke))
  /\ PostHolding(c, "STOP_REQUEST")
  /\ UNCHANGED <<controller, relay, fuel, crankTime, pulses, timers, op, calls,
                 timerSide, rpm>>

\* event_system_post has queued or dropped the event; the mutex is given back.
PostDone(c) ==
  /\ pc[c] = "post"
  /\ Return(c)
  /\ UNCHANGED <<controller, outputs, timers, choke, op, calls, timerSide, rpm, event>>

-----------------------------------------------------------------------------
(* The esp_timer task: engine_start_sequence_handler and the steps.        *)

SequenceFire ==
  /\ timerTask = "idle" /\ seqTimer = 0 /\ ~OnTheDot(choke)
  /\ seqTimer' = Disarmed
  /\ timerTask' = "sequence" /\ cbWait' = CallbackWait
  /\ UNCHANGED <<controller, outputs, runTimer, choke, owner, callers, rpm, event>>

\* The mutex was not free in time: the callback returns and nothing is armed.
SequenceGiveUp ==
  /\ timerTask = "sequence" /\ ~MutexFree /\ cbWait = 0
  /\ timerTask' = "idle"
  /\ UNCHANGED <<controller, outputs, timers, choke, owner, callers, cbWait, rpm, event>>

StartChoke ==
  /\ \/ AtStart("CHOKE_RESET") /\ MoveChoke(ResetPosition(choke)) /\ StartTo("CHOKE_CLOSE")
     \/ AtStart("CHOKE_CLOSE") /\ MoveChoke(MoveToPosition(choke, TRUE))
                               /\ StartTo("WAKE_PULSE")
  /\ UNCHANGED <<stage, state, stopSeq, attempts, outputs, runTimer, callers, rpm, event>>

StartWakePulse ==
  /\ AtStart("WAKE_PULSE")
  /\ relay' = TRUE /\ crankTime' = 0 /\ pulses' = pulses + 1
  /\ StartTo("CRANKING")
  /\ UNCHANGED <<stage, state, stopSeq, attempts, kill, fuel, runTimer, choke, callers,
                 rpm, event>>

StartCranking ==
  /\ AtStart("CRANKING")
  /\ StartTo("WAIT_RPM")
  /\ UNCHANGED <<stage, state, stopSeq, attempts, outputs, runTimer, choke, callers,
                 rpm, event>>

StartWaitRpm ==
  /\ AtStart("WAIT_RPM")
  /\ OpenRelay
  /\ \/ /\ rpm \in Turning
        /\ StartTo("CHOKE_OPEN") /\ UNCHANGED attempts
     \/ /\ rpm \notin Turning
        /\ attempts' = attempts + 1
        /\ StartTo(IF attempts + 1 >= MaxAttempts THEN "FAILED" ELSE "RETRY_WAIT")
  /\ UNCHANGED <<stage, state, stopSeq, kill, fuel, pulses, runTimer, choke, callers,
                 rpm, event>>

StartRetryWait ==
  /\ AtStart("RETRY_WAIT")
  /\ StartTo("CHOKE_RESET")
  /\ UNCHANGED <<stage, state, stopSeq, attempts, outputs, runTimer, choke, callers,
                 rpm, event>>

StartChokeOpen ==
  /\ AtStart("CHOKE_OPEN")
  /\ MoveChoke(MoveToPosition(choke, FALSE))
  /\ fuel' = TRUE
  /\ StartTo("SUCCESS")
  /\ UNCHANGED <<stage, state, stopSeq, attempts, relay, kill, crankTime, pulses,
                 runTimer, callers, rpm, event>>

StartSuccess ==
  /\ AtStart("SUCCESS")
  /\ state' = "RUNNING" /\ startSeq' = "IDLE"
  /\ runTimer' = (Ready \/ runTimer)
  /\ PostInCallback("STARTED")
  /\ UNCHANGED <<stage, stopSeq, attempts, outputs, seqTimer, choke, callers, rpm>>

StartFailed ==
  /\ AtStart("FAILED")
  /\ state' = "STOPPED" /\ startSeq' = "IDLE"
  /\ MoveChoke(ResetPosition(choke))
  /\ PostInCallback("START_REQUEST")
  /\ UNCHANGED <<stage, stopSeq, attempts, outputs, timers, callers, rpm>>

StopChokeReset ==
  /\ AtStop("CHOKE_RESET")
  /\ MoveChoke(ResetPosition(choke))
  /\ StopTo("KILL_IGNITION")
  /\ UNCHANGED <<stage, state, startSeq, attempts, outputs, runTimer, callers, rpm, event>>

StopKillIgnition ==
  /\ AtStop("KILL_IGNITION")
  /\ kill' = TRUE
  /\ StopTo("FUEL_OFF")
  /\ UNCHANGED <<stage, state, startSeq, attempts, relay, fuel, crankTime, pulses,
                 runTimer, choke, callers, rpm, event>>

StopFuelOff ==
  /\ AtStop("FUEL_OFF")
  /\ kill' = FALSE /\ fuel' = FALSE
  /\ StopTo("SUCCESS")
  /\ UNCHANGED <<stage, state, startSeq, attempts, relay, crankTime, pulses, runTimer,
                 choke, callers, rpm, event>>

StopSuccess ==
  /\ AtStop("SUCCESS")
  /\ state' = "STOPPED" /\ stopSeq' = "IDLE"
  /\ runTimer' = FALSE
  /\ PostInCallback("STOPPED")
  /\ UNCHANGED <<stage, startSeq, attempts, outputs, seqTimer, choke, callers, rpm>>

\* The callback finds neither STARTING nor STOPPING.
SequenceIdle ==
  /\ AtCallback /\ state \in {"STOPPED", "RUNNING"}
  /\ LeaveCallback
  /\ UNCHANGED <<controller, outputs, timers, choke, callers, rpm, event>>

SequenceStep ==
  \/ StartChoke \/ StartWakePulse \/ StartCranking \/ StartWaitRpm \/ StartRetryWait
  \/ StartChokeOpen \/ StartSuccess \/ StartFailed
  \/ StopChokeReset \/ StopKillIgnition \/ StopFuelOff \/ StopSuccess
  \/ SequenceIdle

-----------------------------------------------------------------------------
(* The esp_timer task: the RPM handler and the choke.                      *)

\* engine_handle_rpm_change(r) up to its first write.  It takes no lock, and
\* reports overspeed with EVENT_ENGINE_STARTED.
HandleRpmChange(r) ==
  /\ timerTask = "idle"
  /\ \/ /\ state = "STOPPED" /\ r \in Turning
        /\ timerTask' = "pull" /\ UNCHANGED <<cbWait, event>>
     \/ /\ state = "RUNNING" /\ r = "below"
        /\ timerTask' = "halt" /\ UNCHANGED <<cbWait, event>>
     \/ /\ state # "STOPPED" /\ r = "over"
        /\ event' = "STARTED" /\ Linger
  /\ UNCHANGED <<controller, outputs, timers, choke, owner, callers, rpm>>

\* A manual pull start; the runtime timer may not exist yet, or any more.
RpmPull ==
  /\ timerTask = "pull"
  /\ state' = "RUNNING"
  /\ runTimer' = (stage \in {"timers", "open"} \/ runTimer)
  /\ event' = "STARTED"
  /\ Linger
  /\ UNCHANGED <<stage, startSeq, stopSeq, attempts, outputs, seqTimer, choke, owner,
                 callers, rpm>>

RpmHalt ==
  /\ timerTask = "halt"
  /\ state' = "STOPPED"
  /\ runTimer' = FALSE
  /\ event' = "STOPPED"
  /\ Linger
  /\ UNCHANGED <<stage, startSeq, stopSeq, attempts, outputs, seqTimer, choke, owner,
                 callers, rpm>>

\* Callbacks of other modules (the sensors' sampling, the memory check, the
\* events they post) keep the esp_timer task from its timers, and it comes back.
OtherCallback ==
  /\ timerTask = "idle" /\ seqTimer # 0 /\ TimerLag > 0
  /\ timerTask' = "busy" /\ cbWait' = TimerLag
  /\ UNCHANGED <<controller, outputs, timers, choke, owner, callers, rpm, event>>

CallbackReturns ==
  /\ \/ timerTask = "busy" /\ UNCHANGED owner
     \/ timerTask = "post" /\ stage # "closed" /\ owner' = NoOne
  /\ timerTask' = "idle" /\ cbWait' = 0
  /\ UNCHANGED <<controller, outputs, timers, choke, callers, rpm, event>>

ChokeDone ==
  /\ timerTask = "idle" /\ ResetOver(choke)
  /\ choke' = ResetDone(choke)
  /\ UNCHANGED <<controller, outputs, timers, owner, callers, timerSide, rpm, event>>

\* The sensor manager publishes the speed that StartWaitRpm reads.
SensorUpdate(r) ==
  /\ timerTask = "idle"
  /\ rpm' = r
  /\ UNCHANGED <<controller, outputs, timers, choke, owner, callers, timerSide, event>>

-----------------------------------------------------------------------------
(* Time.                                                                   *)

TimerTaskWaits ==
  \/ timerTask = "idle" /\ seqTimer # 0 /\ ~ResetOver(choke)
  \/ timerTask = "sequence" /\ ~MutexFree /\ cbWait > 0
  \/ timerTask \in {"post", "busy"} /\ cbWait > 0

CallerWaits(c) ==
  \/ pc[c] = "idle"
  \/ pc[c] = "lock" /\ ~MutexFree /\ wait[c] > 0
  \/ pc[c] \in {"kill", "post"} /\ wait[c] > 0

Tick ==
  /\ TimerTaskWaits /\ \A c \in Callers : CallerWaits(c)
  /\ seqTimer' = IF seqTimer > 0 THEN seqTimer - 1 ELSE seqTimer
  /\ cbWait' = IF cbWait > 0 THEN cbWait - 1 ELSE 0
  /\ wait' = [c \in Callers |-> IF wait[c] > 0 THEN wait[c] - 1 ELSE 0]
  /\ choke' = Elapse(choke)
  /\ crankTime' = IF relay THEN crankTime + 1 ELSE crankTime
  /\ UNCHANGED <<controller, relay, kill, fuel, pulses, runTimer, owner, pc, op, calls,
                 timerTask, rpm, event>>

CallerStep(c) ==
  \/ LockTimeout(c) \/ StartCheck(c) \/ StartCommit(c) \/ StopCheck(c) \/ StopCommit(c)
  \/ EmergencyCommit(c) \/ EmergencyFinish(c) \/ PostDone(c)

TimerTaskStep ==
  \/ SequenceFire \/ SequenceGiveUp \/ SequenceStep \/ RpmPull \/ RpmHalt \/ ChokeDone
  \/ CallbackReturns

Next ==
  \/ InitBegin \/ InitTimers \/ InitDone \/ DeinitBegin \/ DeinitEnd \/ Abort
  \/ \E c \in Callers : CallerStep(c) \/ \E request \in Requests : Call(c, request)
  \/ TimerTaskStep \/ OtherCallback
  \/ \E r \in Rpms : HandleRpmChange(r) \/ SensorUpdate(r)
  \/ Tick

Spec == Init /\ [][Next]_vars

\* Tasks and timers run: the esp_timer task has the highest priority but one of
\* the system and serves its timers in the order of their alarms, a task inside a
\* call is not suspended, and time passes however often the speed changes (the
\* sensors report at most twice a second).  Nobody has to make a call, and speeds
\* and shutdown are the environment's choice.
Fairness == /\ SF_vars(Tick) /\ SF_vars(SequenceFire) /\ SF_vars(ChokeDone)
            /\ WF_vars(TimerTaskStep) /\ WF_vars(Abort)
            /\ \A c \in Callers : WF_vars(CallerStep(c))

FairSpec == Spec /\ Fairness
=============================================================================
