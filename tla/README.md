# SmartJet V2 firmware: TLA+ specifications, model checking and proofs

The firmware (`src/main`, C on ESP-IDF with FreeRTOS, two cores) controls a small
jet-boat engine: it starts the engine through a relay and a stepper-driven choke, stops
it by grounding the ignition, watches speed and battery, and talks to a cloud service.
`src/legacy` holds version 1, one Arduino sketch that does much of the same and that
`src/main` replaces. This directory models the control logic of both in TLA+, checks
the models with TLC on small instances and proves the main results for all values of the
constants with TLAPS.

Paths below are relative to `src/main`, except for those that begin with `legacy` or `docs`.

## 1. Inventory

### 1.1 Who runs

| process | where | runs |
|---|---|---|
| main task | core 0, `main.c` | initialisation, monitor loop, shutdown |
| `esp_timer` task | core 0, priority 22 | every `esp_timer` callback, one after the other: the engine sequence, the one-second run timer, the step callback of the choke, the sampling of the sensors and with it the RPM handler, the memory check, the OTA check, the WiFi timers |
| event handler task | core 1, priority 15 | the handlers of the event system |
| application tasks | `system/task_manager.c` | engine control, sensors, communication, display and so on |
| interrupt | | RPM pulses |

That all timer callbacks share one task is what orders most of the system: two callbacks
never interleave, and any of them delays all the others.

### 1.2 Components

| component | state it keeps | operations | talks to | what is hard | what makes it correct |
|---|---|---|---|---|---|
| engine controller `engine/engine_ctrl.c` | engine state, place in the start or stop sequence, attempts, three outputs (starter relay, ignition kill, fuel), two timers, `ctrl_mutex` | init, deinit, `engine_start`, `engine_stop`, `engine_emergency_stop`, sequence callback, runtime callback, `engine_handle_rpm_change` | choke (calls), event system (posts, blocking up to 100 ms with the mutex held), sensors (speed read and handler called) | the RPM handler takes no lock; every step depends on a one-shot timer that the previous one arms; callbacks give up on the mutex after 100 ms; an emergency stop sleeps two seconds with the mutex; the shutdown takes no mutex and deletes it under its holder | a starter that is released in time, in every interleaving; a bounded number of cranks; a sequence that always goes on; no cranking with grounded ignition; ignition and fuel that follow the engine's state |
| stepper motor `engine/stepper_motor.c` | state, position, target, direction, step timer, `static` count of extra steps | init, deinit, move to position, move steps, reset, stop, step callback | called by the engine controller from the timer task and from callers' tasks | the callback reads the state several times without the mutex; arming an armed timer fails; truncating conversions at each step | a motor that is to turn has its timer; resets end; moves arrive (they do not, see 3.1) |
| event system `utils/event_system.c` | queue, handler table, `handler_mutex`, running flag, handler task | init, cleanup, post, register, unregister, enable, handler task | everyone posts; its boot handler writes the system state | task created before the running flag; table changed while it is walked; full queue; cleanup deletes the task where it stands | each accepted event to exactly the handlers registered for it, once; the queue is served |
| application `main.c` | system state, shutdown flag | start of all modules in order, boot event, monitor loop, shutdown in order | all | order of initialisation and clean-up | normal operation is reached and kept; nothing is used after its clean-up |
| system manager `system/sys_manager.c` | task registry, heartbeats, watchdog, health | register, unregister, heartbeat, checks in timers, OTA gate | tasks, event system | stale task handles; event data on the stack; watchdog fed by nobody | a dead task is noticed, a live one is not; no use of dead handles |
| task manager `system/task_manager.c` | task table, handles | start all with roll-back, stop all with forced deletion | system manager, all tasks | tasks that exit by themselves during a stop | each task ends or is deleted once |
| sensor manager `sensors/sensor_mgr.c` | pulse sums shared with the interrupt, filter | interrupt, sampling callback, alarms | engine controller (RPM handler), event system | reset of sums racing with the interrupt; notification only on unsettled filter | no lost pulses; a change of speed reaches the engine controller |
| OTA manager `ota/ota_manager.c` | update state, version | check (timer or remote), download, switch of the boot partition | flash, network, system manager | runs minutes inside a timer callback; check-then-set of the state; reset between switch and version | one update at a time; a failed one can be retried; version and partition agree |
| WiFi manager `cloud/wifi_manager.c` | connection state, retries | connect, disconnect, events, configuration mode and its time-out | event loop, event system | retry limit; time-outs racing with success | the state agrees with the connection; reconnects |
| MQTT client `cloud/onenet_mqtt.c` | connection, message throttle | publish, command handling | event system, engine events | throttle drops commands | accepted commands are posted once; throttle limits as configured |
| configuration `config/config_mgr.c` | parameters, statistics | load, save, backup | flash | reset between two writes | what is loaded was saved together |
| NVS storage `config/nvs_storage.c` | open handle | get, set | flash | thin wrapper, its init has no caller | |
| battery gauge `battery/bq40z50.c` | last readings | register reads | I2C | failed init leaves resources behind | |
| display `display/st7789_driver.c` | none that matters | drawing | SPI | pure output | |
| version 1 `legacy/sketch_jun13a12.ino` | engine sequence, commanded and measured state, WiFi and MQTT state, update in progress, version and state in flash | loop, MQTT callback, update task, restarts of six kinds | OneNet platform, update server | the update task and the loop share the MQTT client and both run its callback; commands cross sequences; power fails between the steps of an update; shortages that last | a pressed button is released; every sequence ends; never goes back to an older version; is never off line for good; asks the server for every update asked for |

The hazards of this code, each at its line and with the properties that cover it or the
reason why none does yet, are in `PROJECT.json`.

### 1.3 What the code says about its use

* `engine_start` and `engine_stop` have no callers in the repository besides the
  declared interface; `engine_emergency_stop` is a call of `engine_stop(true)`.
  The models therefore let any task call them at any time. The same goes for the
  interface of the WiFi manager and for `sensor_manager_start_sampling`, which nothing calls.
* `shutdown_requested` is set by `task_manager_stop` only, that is during a shutdown;
  the request itself is left to the environment.
* `event_system_register_handler` is called by the initialisation only. The table
  operations are public, and modelled for one task that uses them at any time.
* The bodies of the tasks in `system/task_manager.c` are still to be written. What they
  share (register, heartbeat, look at the shutdown flag, delay, unregister) is complete and
  is what the model has; what goes wrong in a body is that it never returns.

## 2. Modules

| module | models | extends / instantiates |
|---|---|---|
| `Choke` | the choke as the engine controller sees it: operators on a record | |
| `ChokeBehaviour` | the same as a specification | `Choke` |
| `StarterInterlock` | abstract: what is promised of the starter motor | |
| `EngineCtrl` | `engine_ctrl.c`: calls, sequences, mutex, timers, RPM handler, time | `Choke` |
| `StepperMotor` | `stepper_motor.c`, callback and tasks statement by statement | |
| `EventSystem` | `event_system.c` with the part of `main.c` that starts, uses and stops it | |
| `TaskMonitor` | `task_manager.c` and `sys_manager.c` with the start and shutdown by `main.c` | |
| `RpmSensor` | the speed in `sensor_mgr.c` and the handler side of `engine_ctrl.c` | |
| `WifiManager` | `wifi_manager.c` over the station driver | |
| `Throttle` | the throttle of `onenet_mqtt.c`: operators on its record | |
| `OnenetMqtt` | `onenet_mqtt.c` over the connection that `WifiManager` keeps | `WifiManager`, `Throttle` |
| `ConfigStore` | `config_mgr.c` over flash, write by write | |
| `OtaManager` | `ota_manager.c` over the updater and the server | |
| `FirmwareUpdate` | abstract: what is promised of the firmware and the record of its version | |
| `Persistence` | both on one processor that starts, shuts down, restarts and loses power | `ConfigStore`, `OtaManager` |
| `LegacyEngine` | version 1: engine sequence and the commands of both tasks, with its properties | |
| `LegacyCloud` | version 1: WiFi, MQTT, update task, restarts, with its properties | |
| `...Props` | the properties of a module, and its inductive invariant where there is a proof | the module |
| `...Proofs` | proofs | the `Props` module, `TLAPS` |
| `MC...` | instances for TLC | the `Props` module |

The component modules contain, each before the definition it varies, *faulty variants*:
definitions with one plausible mistake. They are not part of `Next`; each shows, put in the
place of what it varies, that a property can fail. Each module's `TypeOK` is a part of its inductive
invariant and proved with it.

### 2.1 Engine controller

*State.* `state`, `startSeq`, `stopSeq`, `attempts` are the fields of
`engine_controller_t`; `relay`, `kill`, `fuel` the three GPIO outputs; `seqTimer` the time
left on the one-shot sequence timer; `owner` who has `ctrl_mutex`; `pc`, `op`, `wait` a
caller's place in its call; `timerTask`, `cbWait` what the `esp_timer` task is in the middle
of. Fields that the code writes and never reads (`start_requested`, `stop_requested`,
`emergency_stop`, `manual_pull_detected`, `last_trigger`, the start counters) are left out.
`crankTime` and `pulses` are history variables. `stage` is how far initialisation and shutdown
have come.

*Initialisation and shutdown* belong to the main task and exclude nobody. The RPM handler acts at
every stage, since it asks neither for the flag nor for the mutex: it may set RUNNING between
`InitBegin` (state and outputs) and `InitTimers` (the runtime timer), and after the shutdown.
Calls are turned away until `InitDone` sets the flag. `DeinitBegin` deletes the timers and sets the outputs
whatever call or callback is under way, `DeinitEnd` deletes the mutex, whoever has it; tasks inside a
call go on in between, find timers that are not there and a choke that takes no orders, and may still
write outputs. Giving or taking the deleted mutex is a failed assertion in FreeRTOS and a restart
(`Abort`). The one thing the main task can not come between is a callback that does not wait: both
run on one core and the `esp_timer` task has the higher priority (`TimerTaskYields`).

*Atomicity.* One action per stretch of code between two points where another process can
get in and matter. A call enters (`Call`), takes the mutex and tests the state
(`StartCheck`, `StopCheck`), writes (`StartCommit`, `StopCommit`, `EmergencyCommit`) and
posts its event with the mutex held (`PostDone` ends it). Test and write are separate since
the RPM handler writes `current_state` without the mutex; its own test (`HandleRpmChange`)
and writes (`RpmPull`, `RpmHalt`) are separate for the same reason. A sequence step is one
action that takes the mutex, makes the step, arms the timer and gives the mutex back. Only
the RPM handler could come in between, and it runs in the same task.

*Time.* Discrete, 100 ms a unit. Code that does not wait takes no time: `Tick` needs every
process to wait for something. `TimerLag` is how long other callbacks may keep the timer
task when a timer expires. A callback that begins when the sequence timer has already
expired was due earlier and counts as part of the lag before (`Linger`). The choke's reset
of 100 ms and the shortest delay of the sequence are equal, which is why `OnTheDot` states
which of the two timers goes first.

*The choke* is a record with the operators of `Choke`. That these are right is not assumed:
`StepperMotor` implements `ChokeBehaviour`, which is made of them (checked by
`stepper_engine`, proved as `ThrottleRefinement`). The reset at the end of an emergency stop
is the one call that comes from another task than the timer task; statement-level races of
such a call are what `stepper_api` looks at.

### 2.2 Stepper motor

Calls by the timer task are atomic: callbacks do not interleave. Calls by other tasks
are split at each statement that the step callback can see (timer stopped, state
set, timer armed), and so is the callback (`CallbackEnter` to `CallbackStep`), which
reads the state three times. `extra` is the function-static counter and survives `Deinit`.
Positions are whole degrees and conversions truncate as in C: with 200 steps per revolution
one step from 0 leads to 1 degree, and one step from 1 degree to 1 degree again.
`set_speed`, which changes only the period, and failed creations in `init` are left out.

### 2.3 Event system

`main` is the place of `app_main`, `task` the place of the handler task, `index` its place in
the table. Posters wait for a place in the queue and drop the event when there is none
(`PostDrop`); registrars take `handler_mutex` (`ChangeBegin`) and give it back with the change
(`ChangeEnd`), so that the table changes while the task waits for the mutex. The task looks
at the running flag (`TaskLoop`), receives, takes the mutex or skips the event, and calls the
handlers one by one (`TaskCall`). Waits may time out whenever what they wait for is absent.
`CleanupDelete` deletes the task wherever it is, as the code does; a registrar in the middle
of a change at that point is left out.

### 2.4 Tasks and their monitoring

A tick of `TaskMonitor` is a second, and within a second everything that is due happens in
any order: shorter periods count as one second. `loc` is the place of each task in the loop
all of them share; taking `task_monitor_mutex` and using it are two steps (`TakeMutex`, then
`RegisterTask`, `TaskHeartbeat`, `UnregisterTask`), so that a task can be deleted in between
with the mutex held. A heartbeat may give up (`HeartbeatMissed`) whenever somebody else has
the mutex. `monitored`, `alive`, `measured` and `silent` are the registry, `handles` the
handles in `task_definitions`, which a task that deletes itself leaves behind.
`CheckTasksHealth` asks FreeRTOS for the state of each handle; of a task that is gone the
answer is arbitrary, since its control block is freed. `Evaluate` judges the health from the
flags of the last check and from the memory, `EvaluateMissed` from the memory alone.
The task watchdog is modelled as configured: every registered task is subscribed and nobody
feeds it (`unfed`, `WatchdogBarks`), so that with panics on a run of the system ends after the
time-out; `panics` is chosen at the start, since the code goes on when the watchdog cannot be
configured. The last step of a shutdown takes a mutex that has been deleted and ends in an
assertion, which is a restart.

### 2.5 Speed

An interrupt (`Pulse`) comes between any two steps of the calculation in the sampling timer:
the time is read (`Calculate`), the speed computed (`ReadPulses`), filtered and the sum reset
(`Update`), the count reset (`Reset`), the engine controller told (`Tell`). `speed` is what sum
over count means; `skewed` says that an interval is in the sum and not in the count, `ahead`
that a pulse has come after the time was read, which makes the unsigned time since it huge.
Each sample in the filter keeps as a history whether one of these falsified it. The engine
controller is there with the states that decide what a speed means; its sequence in full is
`EngineCtrl`.

### 2.6 Network

`WifiManager` separates the station driver (`driver`), the events it has posted (`events`) and
what the manager believes (`state`). Handling a lost connection is two steps
(`HandleDisconnected`, `Decide`), between which a call or a timer can come. All eight calls of
the interface can come at any time. `DriverConnect` is what `esp_wifi_connect` says: external,
from how the code uses it. It may fail on a station that is idle (a name that is empty, no memory):
`wifi_manager_connect` then goes to ERROR, while the retry and `wifi_manager_start` ignore the
answer. `refused` records such a retry.
`OnenetMqtt` adds the client's life cycle and the throttle with a clock that wraps as the
32-bit milliseconds do. A message is reduced to whether the throttle lets it through.

### 2.7 What is kept in flash

An operation of the configuration manager is a list of writes (`todo`); any write may fail,
and power may fail between any two (`Restart`). Saves of settings give up at a failure,
`save_all` and `factory_reset` go on. `settings` tells whether what is stored is whole, partial
or a mixture of two. Statistics carry the factory reset they were counted after, so that ones
that come back from a place which was not erased can be told. `OtaManager` follows one check
through its attempts: the partition is switched (`Install`) before the version is noted
(`Note`). Its state is shared with calls of `ota_manager_deinit` during a shutdown, and an
update under way goes on over it. Assumption: an image offered as version v reports v.
`FirmwareUpdate` says what all of this amounts to: of the steps of a check, its attempts, a shutdown
and a restart, all but four leave offered, booting and recorded version as they are, and of these
four none makes the device older or notes what does not boot.

### 2.8 Version 1

Two independent parts: what the engine part reads of the cloud is that a command comes, at any
time, and that the device restarts, at any time, and `LegacyEngine` lets both happen whenever they
like. This allows more than the sketch does (commands without a connection, too), so that what
always holds of the model holds of the sketch.

`LegacyEngine` is the sequence that presses the start button, and the commands that begin one.
Commands are handled by `mqttCallback`, which runs in the loop and also in the update task, for
`publishSyncAndWait` calls `mqttClient.loop` while it waits for a report to go out. Hence two tasks test and
write `engCtrl` without a lock: a handler is split at every statement the other task can see (`at`),
and the two stores of `engCtrl = {...}` may come in either order. The steps of the sequence, the
judgement and the detection of manual starts and stops are split likewise. One assumption on time: the
few statements between the test for a sequence and the last store are over before a step that has
just begun has run its 100 ms or more, as tasks of one priority take turns every millisecond
(`StepElapses`). A restart takes the saved state over unless the speed measured during setup shows a running engine.

`LegacyCloud` has the loop and the update task with the flags they share, and everything that
restarts the device: WiFi lost for 15 minutes, failed connections in a row, a command, an update,
and a crash at any moment. Shortages (stack, memory, signal, clock, token) come and go (`Vary`):
`canDial` and `canAsk` say whether `connectMQTT` and the check for updates get past them. The version in flash may
be absent (`record = 0`): `updateFirmwareVersion` writes nothing then, since its default is the
running version, and `safeOTAUpdate` takes the device for version 1. The branch of the loop that
opens the configuration portal after 60 minutes without WiFi can not be reached, because of the
restart after 15.

## 3. Runs

| run | asks | instance |
|---|---|---|
| `engine_core` | is the starter safe, and a start over in time and never stranded, whoever calls whatever whenever? | two callers (symmetric), three calls, all speed classes that differ |
| `engine_polite` | with one caller that never starts a stopping engine: do starts and stops end, stops in time, and do kill, fuel and starter exclude each other? | one caller, three calls |
| `stepper_api` | does any interleaving of the whole interface with the step callback lose the drive or a reset? | timer task and one more, targets 0, 1, 90, counted steps 1 and 60 |
| `stepper_engine` | does the motor implement the choke of `EngineCtrl`? | calls of the sequence, and shutdown |
| `event_dispatch` | is every event given to exactly its handlers, and is the queue served? | two posters, one registrar, queue of one |
| `platform` | is a dead task noticed and a live one not, and is nobody monitored who is gone? | a fast task, a slow one, the event task; one of them may hang; watchdog on or off |
| `network` | does the WiFi state agree with the connection, does waiting end, does the throttle hold across the wrap? | three calls, two retries, two events in flight |
| `sensor` | is an engine declared stopped for a cause, and is a stall noticed? | filter of three; a slow, a fast and a very fast speed |
| `persistence` | what survives power failures between any two writes, and is that what `FirmwareUpdate` promises? | two versions, one factory reset, two attempts |
| `legacy_engine` | is the start button released and does every sequence end, whatever two tasks store into it? | both commands, both tasks, restarts |
| `legacy_cloud` | does it come back on line, ask the server when requested to, never go back? | three versions, two failures in a row |
| `kill_stuck` | violated: grounded ignition is released | one caller, two calls |

### 3.1 What they show

*Engine.* The starter relay is closed only inside the two cranking steps of a start whose
next step is sure to come; it opens within wake pulse, crank time and two lags; a request
cranks at most `ENGINE_MAX_START_ATTEMPTS` times; for the two seconds of an emergency stop the
relay stays open, the fuel shut and no step is to come, and the ignition stays grounded as long as the
controller is in service (a shutdown releases it half-way, line 141); once the runtime timer exists
no run begins or goes on without it; a start is over, one way or the other, within
`StartLimit`, which with the delays of the code is 39.8 seconds and 19 lags of the `esp_timer` task
(three attempts, two pauses). All that with calls at any moment, with
the RPM handler writing between test and write of a call, and with callbacks that give up on
the mutex. It depends on one number: `event_system_post` blocks at most as long (100 ms) as
the delay of the first step (100 ms), stated as `PostAssumption`. With a longer block the
start sequence can be stranded (`PostHoldingLong`).

That kill, fuel and starter exclude each other, and that stops end, within `StopLimit` (4.0 seconds
and four lags) of the last request, holds only if nobody starts
an engine that is stopping. `kill_stuck` shows what happens otherwise: `engine_start` refuses
only in RUNNING and STARTING, fails to arm the armed timer and sets STOPPED, and the stop
sequence is dropped with the ignition grounded.

*Choke.* No interleaving strands a motor that is to turn. Resets go all the way and end, within
`ResetLimit` statements of the step callback, four to a step, whatever others call meanwhile. What does
not work is a move: the conversions between degrees and steps truncate both ways, so that the position
never gets beyond one degree, and a move meant to arrive there (`stepper_motor.c:363-367`), in a range
of 0 to 180 (`stepper_motor.h:16-17`), runs until something stops it. The choke is opened to 90
degrees by such a move (`engine_ctrl.h:26`). No run passes this off as a guarantee; that it is so for
every resolution from 181 to 359 steps is the theorem `PositionIsStuck`.

*Events.* The table is walked and changed correctly under the mutex, each event reaches
its handlers once and a task that runs serves the queue.

*Tasks.* A monitored task that has not beaten for the time limit is marked dead within one
second more, whatever the others do with the mutex (missed heartbeats included), and one that
beats is not. The exceptions are in the properties: after the mutex has been deleted, or with
a task deleted while it held the mutex, nothing is noticed any more. Nobody is monitored who
is gone, except the event handler task and what `task_manager_stop` has killed; what it kills
are the tasks whose period is longer than its wait, and tasks that hang.

*Speed.* It takes a slow sample, or more than one falsified sample, to stop a running engine;
one falsified sample the filter forgives. A stall is noticed although the controller is told
only of speeds which the filter changes, with two exceptions that `deaf` records: RUNNING was
set after the filter had settled on nothing, or the last sample was at least five times the
threshold (9000 of at most 12000 revolutions a minute), so that the mean falls from above the
threshold to nothing at once.

*Network.* The manager never believes in a connection that is gone and whose loss is not on
its way; a device that waits to reconnect has something to wait for, and the waiting ends, with one
exception: a retry refused by the driver, whose answer the callback ignores
(`wifi_manager.c:572-579`), leaves it in RECONNECTING for good with nothing armed.
Accepted messages keep their distance and their number per second across the wrap of the clock.

*Flash.* The version noted is never ahead of the firmware that boots, so that an interrupted
update is done twice rather than never, and is noted for no firmware but the one that boots. A
factory reset that erased everything lets no old
statistics come back; a restart loses what was counted after the last save at most.

*Version 1.* A pressed button has its release still to come and every sequence ends, although the
update task may store a sequence over the one whose steps the loop is taking: it
then begins anew or goes on as the other one. The reported state makes no such promise: a command
between the judgement and the end of a sequence (4275, 4276), or within one, sets it and begins nothing.
Once a version is stored the firmware is never replaced by an older one unless
somebody resets the record; a device that has stored none (new, or cut off before 3463 in its first
update) takes itself for version 1 and accepts an older one. If WiFi stays, or stays away, and
shortages end, the device is on line again and again; while they last it is not, and does not restart either. A
request makes the update task ask the server unless WiFi, memory or signal fail it at the check,
which drops it (3661-3681).

*Observed, and not stated as findings,* because no document contradicts them or because
nothing in the repository can reach them yet:

* Engine: an overspeed is reported with `EVENT_ENGINE_STARTED` (`engine_ctrl.c:620-628`); an
  engine that stalls leaves the fuel valve open (600-617), and `engine_stop` then returns
  early; each minute adds the whole run to the running hours (539).
* Choke: a reset that meets a reset falls back to IDLE with its timer armed, and from then on
  every request is refused (`stepper_motor.c:289`); the position can be -1.
* Engine, shutdown: it is not synchronised with anything (2.1); a task that is inside a call ends in an
  assertion. The RPM handler goes on after it and may set RUNNING without a timer, as it may during the
  initialisation.
* Events: the handler task may look at the running flag before it is set and end
  (`event_system.c:161`, 437); the boot event, posted after NORMAL has been set, sets
  INITIALIZING again (`main.c:274`); the clean-up deletes the task wherever it stands.
* Tasks: the heartbeat does not feed the watchdog the task is subscribed to
  (`sys_manager.c:329`); a slot that is used again shows an unmeasured stack as low; the memory
  alone decides the health while the mutex is busy.
* Speed: nothing starts the sampling; a pulse after the reading of the time gives a zero.
* WiFi: `wifi_manager_disconnect` leaves the reconnect timer armed; nothing sets
  `auto_reconnect` again after it.
* MQTT: a token expires after 24 hours and `g_force_token_refresh` is read by nobody; a start
  after a stop returns success and starts nothing.
* Flash: the saved system parameters are never loaded, and a shutdown overwrites them with the
  defaults; a save of the device settings that is cut leaves a mixture that loads as good;
  `factory_reset` reports success when erasures have failed; `reset_stats` resets only the copy
  in flash.
* Update: it runs in the `esp_timer` task and stalls every timer of the system, the engine's
  included; FAILED is left only by a restart.
* Version 1: the MQTT callback is set only when WiFi is up in `setup`, so that a device that
  boots without it stays deaf until the next restart (`legacy/sketch_jun13a12.ino:2855`); a command that crosses a
  sequence is lost (1445); a reply with desired properties saves the state before it (2289).

### 3.2 Bounds, and why they are enough

* `MaxCalls = 3` (engine, WiFi): two calls that overlap and a third that meets what they
  leave. Starts and stops are the same operations whatever went before, except for `state`,
  sequences and timers, which three calls take through all their combinations.
* Delays are scaled so that their order and the coincidences of the code are kept: equal
  delays stay equal (post, first step, reset of the choke: 1 unit), longer ones are 2 to 5.
  The proofs do not depend on them.
* `MaxAttempts = 2` gives a first, a last and a retried attempt.
* `ExtraSteps = 4` instead of 50. The count is compared with its limit only.
* `Rpms` are classes by the two thresholds. `engine_polite` needs one on each side of the
  first; overspeed changes no state but the event.
* `QueueSize = 1` makes the queue full with two posters; `MaxHandlers = 3` makes the table
  full with one registration beyond the two defaults; one change of the table suffices to
  shift what the task walks if the mutex did not protect it. `MaxPosts = 2`, one event behind
  another and a boot event.
* `platform`: `StopWait < SlowPeriod < DeadAfter` as in the code (2 < 5 < 30 seconds); three tasks reach
  every class of health; one hanging task besides the slow one that is killed.
* `network`: `MaxRetries = 2` gives a retry with another left and the last one; two events
  in flight are a connection and its loss; a clock of two seconds of three milliseconds wraps
  in the middle of everything the throttle remembers, and the interval is shorter than a second
  as in the code.
* `sensor`: three samples instead of five, so that one and two falsified ones differ; one speed
  on each side of the threshold and one of at least `Samples` times the threshold.
* `persistence`: one factory reset tells before from after; two versions and two attempts
  give an update, its retry and its failure.
* `legacy_engine`: nothing is bounded. `legacy_cloud`: `MaxVersion = 3` gives an update behind an
  update and a reset to either side; two of each kind of attempt are a first and a last.
* `CHECK_DEADLOCK FALSE` in the event system only: after a clean-up the system has stopped.

### 3.3 Fairness, and why the code justifies it

* `WF(TimerTaskStep)`, `SF(SequenceFire)`, `SF(ChokeDone)`: the `esp_timer` task has the
  highest priority but one and serves expired timers by the time of their alarms. Strong
  fairness, since other callbacks may run in between any number of times.
* `WF(CallerStep(c))`: a task inside a call goes on; its waits have time-outs. `WF(Abort)`: a failed
  assertion restarts the device.
* `SF(Tick)`: time passes.
* Stepper: an armed timer is served and a call goes on. Event system: each task that can go on
  does. Nobody has to call, post, change the table or ask for a shutdown, and speeds are
  arbitrary.
* Speed: `WF(Timer)`, the sampling goes on while it is on. Pulses need not come.
* WiFi: a connection that is tried succeeds or fails (`Station`), posted events are handled
  and decided upon (`Handle`), an armed reconnect timer fires (`Reconnect`).
* Version 1, engine: a task finishes the statements it has begun. `SF(StepElapses)`,
  `SF(HandleEngineFSM)`: time passes, and each pass of the loop calls `handleEngineFSM` after it has handled at
  most one message and one change of speed.
* Version 1, cloud: time passes, setup ends, the loop and the update task run. `SF(BeginDial)`: the loop
  comes to the connection again and again, also in the hour that the update task sleeps between
  two rounds. That a connection is possible at all is no fairness but a premise of `Recovers`: WiFi in the end
  stays or stays away (`SteadyWifi`; one that comes and goes for ever may do so before each attempt), and
  the shortages in which `connectMQTT` returns early end (`<>[]canDial`).

The tasks' monitoring and the flash have safety properties only and need no fairness. Sequence
steps of the engine and moves by the motor get no other fairness: that they happen
is what `StartSettles`, `StopSettles` and `ResetSettles` say.

## 4. Proofs

Checked by TLAPS for every number of callers, calls, tasks, versions, retries and events, and
all delays, periods, lags and intervals that the named assumptions of the modules allow:
`CallersAssumption`, `TimesAssumption`, `PostAssumption` (`EngineCtrl`), `StepperAssumption`,
`RevolutionAssumption` (`StepperMotor`), `EventAssumption` (`EventSystem`), `MonitorAssumption`
(`TaskMonitor`), `WifiAssumption` (`WifiManager`), `ThrottleAssumption` (`Throttle`),
`StartsAssumption` (`OnenetMqtt`), `ConfigAssumption` (`ConfigStore`), `OtaAssumption`
(`OtaManager`), `CommandsAssumption` (`LegacyEngine`) and `CloudAssumption` (`LegacyCloud`). TLC
evaluates each of them on the instances of section 3. Each inductive invariant was checked by
TLC on those instances before it was proved.

### 4.1 `EngineCtrlProofs`

`Invariance: Spec => []IndInv`. `IndInv` adds to the properties what makes them inductive:

* `LockHeld`, `UnreadyIsQuiet`, `ShutIsSafe`: the mutex belongs to the process whose place says so until
  it is deleted; before initialisation is over only the RPM handler writes; after the timers are
  deleted nothing cranks, and a callback that still waits finds no step of a start but the first.
* `OwnerKnows`: who has the mutex can rely on it that nobody else starts the engine; a start
  it has committed is at its first step and its timer is no shorter than the wait that is
  left. This is where `PostAssumption` is needed.
* `CallbackHasTime`: a callback of a start in progress has time left to wait for the mutex,
  so it does not give up; with `OwnerKnows` this gives `StartNeverStranded`.
* `OneStepAhead`: a callback in flight beside an armed timer can only be one that a new
  start has overtaken, so it runs the first step and never a cranking one.
* `HandlerSeesRest`: while the relay is closed the RPM handler is not about to write.
* `CrankClock`, `LagBounded`: crank time gone plus time left stays below the limit of the
  step to come. This strengthens `StarterBounded`.
* `PulsesCounted`: cranks made = attempts over, plus one within an attempt past its
  wake pulse. This strengthens `PulsesBounded`.

From it follow `TypeCorrect`, `StarterIsGuarded`, `StarterIsBounded`, `PulsesAreBounded`,
`StartIsNeverStranded`, `EmergencyIsHeld`, `RunIsAlwaysTimed`, and `StarterRefinement`: every
step of `Spec` maps to a step of `StarterInterlock` or a stutter.

The ignition depends on who calls. A second caller, or a start while the engine stops, can
take the stop's steps away (that is what `kill_stuck` shows), so its theorems assume `Polite`:
one task calls, it never starts an engine that is stopping, and the stop's first delay is no
shorter than the wait for posting its event (both are 100 ms in the code). `KillInvariance:
Polite /\ Spec => []KillInv` adds to `IndInv`

* `StopsUndisturbed`: no start is on its way to a stopping engine, and the caller that began
  the stop is done waiting by the time the timer fires;
* `StopGoesOn`: a stop has a next step to come, in the timer or in a callback that still has
  time to get the mutex;
* `KillAccounted`: the last step finds the ignition released, and an RPM handler between its
  test and its write finds it grounded by an emergency stop at most.

From it follow `KillIsAlwaysTransient`, `NeverCrankedKilled` and `FuelOpensLate`.

`StartsInTime` and `StopsInTime` prove what can be proved of "it ends": a bound in time, as an action
property. `TimeLeft` is the time to the next step (`NextStepWithin`: what is left on the timer, the
lag, and the wait of the callback for the mutex) and `Rest`, the cost of every step that can still
come, further attempts included. That a step costs no more than it takes off `Rest` is arithmetic
(`StepsCovered`, `StopStepsCovered`). That `NextStepWithin` goes down with each tick (`TickSpends`)
is not: a tick must not pass while the callback waits beside a timer that has run out, and that it can not is
`OwnerKnows` (for stops `StopsUndisturbed`): who keeps the mutex from the callback has posted by
then. That no other step puts it up (`TimerTaskSpends`) needs `CallbackHasTime` and
`StartNeverStranded`: a callback that gives up, and a lag that begins anew, happen only beside an
armed timer. That time passes at all is fairness and stays with `StartSettles` and `StopSettles`.

### 4.2 `StepperMotorProofs`

`StepperInvariance` (`IndInv`: types, the extra steps are not full between callbacks, the
position in -1..1), `PositionIsStuck`, the defect of 3.1, for every resolution between 181 and 359 steps,
`MotorIsDriven` (through `DrivenInv`: a motor that is not driven is in the hands of a call or
of a callback), `ResetsGoFull` (through `FullInv`: unless a reset was cut short, the static count
of extra steps is no more than what the reset under way has made, and a motor in RESETTING has
its timer armed or in the hands of the call that arms or rests it), `ResetsAdvance`, and `ThrottleRefinement`: under `AsThrottle`, the use the sequences make of the
motor, `Spec` implements `ChokeBehaviour` (through `ThrottleInv`).

`ResetsAdvance` bounds a reset: `ResetLeft` counts the statements left from where the callback,
the extra steps and the position are; each statement takes one off (`CallbackAdvances`) and no
call adds any (`CallsSpare`). Behind it are `StepFromZero` (a step towards the stop ends at -1,
so that the motor steps back from above zero once at most), `ExtraUnderway` and
`ResetDirection`. The bound counts steps of the timer: that an armed timer goes on is
fairness and stays with `ResetSettles`, and that it is armed is `MotorIsDriven`.

### 4.3 `EventSystemProofs`

`EventInvariance` (`IndInv`: types; `Locked`, the mutex belongs to the registrar in the middle of
a change or to the task walking the table; `InitAlone`, during the initialisation nobody else
uses the table; `TableSound`; `DispatchExact`). `TableSound` needs lemmas on the three table
operations (`RegisterSound`, `UnregisterSound` with `RemoveAtMoves`, `EnableSound`), and in turn
makes the search for a handler exact (`FindHandler`): with no duplicates there is one
place to find. `DispatchIsExact` follows from `Locked`: whoever changes the table has the mutex,
so the task is not walking it. The handlers called are recorded with their places in the
table, so that a shift of the table under the walk would show.

### 4.4 `TaskMonitorProofs`

`MonitorInvariance` (`IndInv`), from which follow `DeathsAlwaysNoticed`, `NobodyIsPhantom`,
`SilenceAlwaysShows` and `OnlyLaggardsAreKilled`. What makes the properties inductive:

* `PromptLeave`: one tick after a request to stop, a task that is neither slow nor hung is in
  its last round, for its time does not grow again; after two it is gone. This, with `StopWait`
  at least two and `StartUndisturbed` (no task is created during a stop), is why the stop finds
  only slow and hung tasks to delete.
* `MutexHeld`: whoever is inside register, heartbeat or unregister has the mutex. It follows
  that a mutex whose holder was deleted (`MutexLost`) is lost for good, which is why that is the
  only exception in `DeathsNoticed`.
* `SilentFound`: a task that counts as alive has been silent for a second too long at most,
  and only until this second's check. This strengthens `DeathsNoticed`.
* `StrangersUnknown`: a task that is to be created is not monitored.

### 4.5 `OnenetMqttProofs`

`NetworkInvariance` is about `WifiManager` and `OnenetMqtt` together. On the WiFi side
`LastEventTrue` (the last event posted tells what the driver is: this is what a late event of an
earlier connection can not break), `OffIsHalted` and `UndecidedIsDown` give
`ConnectedIsAlwaysTrue` and `ReconnectingAlwaysWaits`, the latter with the refused retry as its exception. On the side of the throttle `GapMeasured`
(the wrapping difference is the time since the last message for as long as it matters, which
needs the interval to be shorter than the clock) and `CountCovers` (the count of this second is
never too low) give `ThrottleIsSpaced`.

### 4.6 `PersistenceProofs`

`PersistenceInvariance` joins two invariants that do not meet. For the updates, `UpdateLeadsUp`
orders noted, installed, found and offered version in every step of an update, whatever is cut;
`RecordStaysBehind` is its first part; no run checks it apart, since what implements
`FirmwareUpdate` can not break it. For the configuration, `OneOperation` and `LoadIsLast` say
what can be in the list of writes at once, `KeptIsStored` that what a save made safe is in the
main copy until a reset erases it, and `StatsAreRecent` that everywhere statistics are of the time
since the last reset: during a reset each copy is erased or its erasure is still to come, or has
failed. `ResetReallyForgets` and `StatsAlwaysSurvive` follow.

`UpdateRefinement`: `Spec` implements `FirmwareUpdate`, its `boots` being `installed` and its `record`
being `noted`. Steps that matter are `Release`, `Install`, `Note` and the loss of the flash; that
`Install` replaces by something no older and `Note` notes what boots is `UpdateLeadsUp`.

### 4.7 `LegacyProofs`

`EngineInvariance`, from which `ButtonIsReleased`: `LoopInBranch` is what the loop relies on between
two of its statements, and `BeforeOverwrite` what can not have happened yet while the update task may still overwrite the
action: the loop has begun a sequence of its own at most and taken no more than its first step, so
that a pressed button is in a step that both sequences have. The assumption on time of 2.8 is
needed here.

`CloudInvariance`, from which `NeverDowngraded`: `VersionsInOrder` orders recorded, running and
offered version in every state of the update task of a device that has a version stored.

### 4.8 `RpmSensorProofs`

`SensorInvariant` (types; `SampleIsLast`: between the filter and the controller the last sample is the
value just measured). `StopsForACause` needs a fact about the filter's mean, a sum over any
number of samples, that is, induction over data. The library's induction theorems can not be
used, but `SetInduction` states induction with the predicate as a set and follows from
`NatLessThanWellFounded` and `WFMin`; with it `SumsExist` and `TotalIsSum` give the recursive
function `Total` its equations. `OneSampleIsForgiven` is then the heart of it: in a filter of n
samples, if all but one are at least n/(n-1) of the threshold, the mean is not below it. `FewLost`
turns "not more than one falsified" into "all but one are good" through the cardinality of the set
of falsified samples.

### 4.9 Model-checked only

* Liveness (`StartSettles`, `StopSettles`, `ResetSettles`, `QueueServed`, `StopNoticed`,
  `ReconnectEnds`, `SequenceEnds`, `Recovers`, `RequestServed`) is beyond the prover. All other properties of the runs
  are proved.
* `kill_stuck` is a counterexample found by TLC.

## 5. Plan

Done, with proofs of all safety properties: the engine controller with its choke and starter
interlock, the stepper motor, the event system, the monitoring of tasks, the speed, network, flash,
version 1.

Next:

1. What can be proved of the wait to reconnect (`ReconnectEnds`), as a bound that never goes up, as
   was done for starts, stops and resets of the choke.
2. Each accepted event is handed over at most once, as an invariant over queue and posters that
   counts, which would make `DispatchExact` a statement about events rather than about walks.
3. `RpmSensor` in front of the whole `EngineCtrl` instead of its states alone. The
   product is out of TLC's reach at the bounds of either, so it needs smaller ones of both.

## 6. Not modelled, and why

* Display, battery gauge: input and output without control of interest. The NVS wrapper
  `config/nvs_storage.c` has an `init` that nothing calls, so that all its functions return errors.
* Engine controller: fields that are written and never read, the running hours.
* Stepper motor: `set_speed`, which changes the period only.
* System manager: `sys_manager_set_state`, the OTA gate and the self check, which nothing calls or
  whose results nothing keeps. The life of the warning event's data (`sys_manager.c:112`) would
  need a model of the stack; the only handler does not read it.
* Sensor manager: analog and digital inputs and the generator frequency, which are published and
  decide nothing.
* MQTT client: token generation, JSON, replies and reports, which are formatting; of a command,
  that the throttle takes it and the event is posted.
* Configuration manager: the WiFi settings, kept like the device settings and read by nobody.
* Version 1: portal, LED, statistics, reports, token generation, data backup.
* Failed creations in `init` are modelled where state is left behind that later calls use
  (`CreateFails`) and left out elsewhere.
* Logging and formatting everywhere.
