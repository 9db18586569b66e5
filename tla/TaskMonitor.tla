----------------------------- MODULE TaskMonitor -----------------------------
(***************************************************************************)
(* The tasks of main/system/task_manager.c, their monitoring in            *)
(* main/system/sys_manager.c, and the start and shutdown that app_main     *)
(* makes of both.                                                          *)
(*                                                                         *)
(* A step of the clock is a second.  Within a second everything that is    *)
(* due happens, in any order; shorter periods count as one second.  The    *)
(* bodies of the tasks are still to be written (they are TODO comments),   *)
(* so what may go wrong in them is that a task hangs there, or in an event *)
(* handler.  Nobody waits with task_monitor_mutex held, so a wait for it   *)
(* ends unless its holder has been deleted; a heartbeat waits for 10 ms    *)
(* only and may give up whenever another holds it.                         *)
(*                                                                         *)
(* shutdown_requested is set by task_manager_stop alone, which app_main    *)
(* calls only when it is set: the first call of a shutdown has to come     *)
(* from another user of the interface.                                     *)
(***************************************************************************)
EXTENDS Integers, FiniteSets

CONSTANTS
  Workers,    \* the tasks of task_definitions
  Slow,       \* those with a period longer than the wait of task_manager_stop
  Handler,    \* the event handler task
  NoOne,      \* the owner of a free mutex
  SlowPeriod, \* the period of a slow task in seconds: 5
  DeadAfter,  \* silence that makes a task dead: 30 seconds
  StopWait,   \* how long task_manager_stop waits: 2 seconds
  WdtTimeout, \* WDT_TIMEOUT_SECONDS
  MemoryLevels, \* the states of the memory that occur: a subset of Health
  MaxHung     \* how many tasks may hang (bounds the model)

\* system_health_t
GOOD == 1
WARNING == 2
CRITICAL == 3
EMERGENCY == 4
Health == GOOD..EMERGENCY

Tasks   == Workers \union {Handler}
Callers == {"main", "other"}   \* of task_manager_stop

ASSUME MonitorAssumption ==
  /\ Handler \notin Workers /\ NoOne \notin Tasks /\ Slow \subseteq Workers
  /\ IsFiniteSet(Workers)
  /\ StopWait \in Nat \ {0, 1} /\ SlowPeriod \in Nat /\ SlowPeriod > StopWait
  /\ DeadAfter \in Nat /\ DeadAfter > SlowPeriod
  /\ WdtTimeout \in Nat \ {0} /\ MaxHung \in Nat
  /\ MemoryLevels \subseteq Health

VARIABLES
  panics,    \* init_watchdog could make the watchdog reset the system
  loc,       \* where each task is
  due,       \* the seconds until its next heartbeat
  hung,      \* the tasks that never go on
  owner,     \* the task that holds task_monitor_mutex
  usable,    \* task_monitor_mutex is there
  handles,   \* the tasks with a handle in task_definitions
  monitored, \* the tasks in monitored_tasks
  alive,     \* those with is_alive
  measured,  \* those whose stack_remaining has been read
  silent,    \* the seconds since the last heartbeat noted, up to DeadAfter + 2
  unfed,     \* the seconds since the task reset the watchdog, up to WdtTimeout + 1
  safety,    \* where safety_check_callback is in this second
  health,    \* sys_mgr.health_status
  shutdown,  \* g_smartjet.shutdown_requested
  started,   \* task_mgr.initialized
  main,      \* where app_main is
  stopping   \* the seconds each caller of task_manager_stop has left to wait, or -1

tasks    == <<loc, due, hung>>
mutex    == <<owner, usable>>
registry == <<monitored, alive, measured, silent, unfed>>
check    == <<safety, health>>
manager  == <<handles, shutdown, started, main, stopping>>
vars     == <<panics, tasks, mutex, registry, check, manager>>

Exists(t) == loc[t] \notin {"none", "gone"}

TypeOK ==
  /\ panics \in BOOLEAN
  /\ loc \in [Tasks -> {"none", "register", "beat", "look", "leave",
                        "registering", "beating", "leaving", "gone"}]
  /\ due \in [Tasks -> 0..SlowPeriod] /\ hung \subseteq Tasks
  /\ owner \in Tasks \union {NoOne} /\ usable \in BOOLEAN
  /\ handles \subseteq Workers
  /\ monitored \subseteq Tasks /\ alive \subseteq monitored /\ measured \subseteq monitored
  /\ silent \in [Tasks -> 0..(DeadAfter + 2)] /\ unfed \in [Tasks -> 0..(WdtTimeout + 1)]
  /\ safety \in {"due", "evaluate", "done", "missed"} /\ health \in Health
  /\ shutdown \in BOOLEAN /\ started \in BOOLEAN
  /\ main \in {"start", "run", "stop", "cleanup", "ended"}
  /\ stopping \in [Callers -> -1..StopWait]

\* app_main up to task_manager_start: sys_manager_init, then event_system_init,
\* which creates the event handler task and registers it.  The task may have found
\* event_system_running still false and have left by then.
Init ==
  /\ panics \in BOOLEAN
  /\ loc \in {[t \in Tasks |-> IF t = Handler THEN p ELSE "none"] : p \in {"beat", "gone"}}
  /\ due = [t \in Tasks |-> 0] /\ hung = {}
  /\ owner = NoOne /\ usable = TRUE
  /\ monitored = {Handler} /\ alive = {Handler} /\ measured = {}
  /\ silent = [t \in Tasks |-> 0] /\ unfed = [t \in Tasks |-> 0]
  /\ safety = "done" /\ health = GOOD
  /\ handles = {} /\ shutdown = FALSE /\ started = FALSE
  /\ main = "start" /\ stopping = [c \in Callers |-> -1]

\* The same after a restart.
Reboot ==
  /\ panics' \in BOOLEAN
  /\ loc' \in {[t \in Tasks |-> IF t = Handler THEN p ELSE "none"] : p \in {"beat", "gone"}}
  /\ due' = [t \in Tasks |-> 0] /\ hung' = {}
  /\ owner' = NoOne /\ usable' = TRUE
  /\ monitored' = {Handler} /\ alive' = {Handler} /\ measured' = {}
  /\ silent' = [t \in Tasks |-> 0] /\ unfed' = [t \in Tasks |-> 0]
  /\ safety' = "done" /\ health' = GOOD
  /\ handles' = {} /\ shutdown' = FALSE /\ started' = FALSE
  /\ main' = "start" /\ stopping' = [c \in Callers |-> -1]

-----------------------------------------------------------------------------
(* The bodies of the tasks.                                                *)

Goes(t, from, to) == t \notin hung /\ loc[t] = from /\ loc' = [loc EXCEPT ![t] = to]

\* xSemaphoreTake(task_monitor_mutex) of register, heartbeat and unregister.
TakeMutex(t) ==
  /\ usable /\ owner = NoOne /\ due[t] = 0 /\ owner' = t
  /\ \/ Goes(t, "register", "registering")
     \/ Goes(t, "beat", "beating")
     \/ Goes(t, "leave", "leaving")
  /\ UNCHANGED <<panics, due, hung, usable, registry, check, manager>>

\* sys_manager_register_task.  The slot's stack_remaining is still zero.
RegisterTask(t) ==
  /\ Goes(t, "registering", "beat")
  /\ monitored' = monitored \union {t} /\ alive' = alive \union {t}
  /\ silent' = [silent EXCEPT ![t] = 0] /\ unfed' = [unfed EXCEPT ![t] = 0]
  /\ owner' = NoOne
  /\ UNCHANGED <<panics, due, hung, usable, measured, check, manager>>

\* sys_manager_task_heartbeat.  It leaves the task watchdog alone.
TaskHeartbeat(t) ==
  /\ Goes(t, "beating", "look")
  /\ alive' = alive \union ({t} \intersect monitored)
  /\ silent' = [silent EXCEPT ![t] = 0]
  /\ owner' = NoOne
  /\ UNCHANGED <<panics, due, hung, usable, monitored, measured, unfed, check, manager>>

HeartbeatMissed(t) ==
  /\ owner # NoOne /\ due[t] = 0
  /\ Goes(t, "beat", "look")
  /\ UNCHANGED <<panics, due, hung, mutex, registry, check, manager>>

\* The rest of the loop: on a shutdown a worker goes to unregister itself and the
\* event handler task just deletes itself, otherwise it waits for its next turn.
Look(t) ==
  /\ \/ /\ ~shutdown /\ Goes(t, "look", "beat")
        /\ due' = [due EXCEPT ![t] = IF t \in Slow THEN SlowPeriod ELSE 1]
     \/ /\ shutdown /\ Goes(t, "look", IF t = Handler THEN "gone" ELSE "leave")
        /\ UNCHANGED due
  /\ UNCHANGED <<panics, hung, mutex, registry, check, manager>>

\* A faulty variant of the next action: the task leaves without unregistering.
LeaveMonitored(t) ==
  /\ Goes(t, "leaving", "gone")
  /\ owner' = NoOne
  /\ UNCHANGED <<panics, due, hung, usable, registry, check, manager>>

\* sys_manager_unregister_task, then vTaskDelete(NULL).
UnregisterTask(t) ==
  /\ Goes(t, "leaving", "gone")
  /\ monitored' = monitored \ {t} /\ alive' = alive \ {t} /\ measured' = measured \ {t}
  /\ silent' = [silent EXCEPT ![t] = 0] /\ unfed' = [unfed EXCEPT ![t] = 0]
  /\ owner' = NoOne
  /\ UNCHANGED <<panics, due, hung, usable, check, manager>>

\* Something in the body of a task, or in an event handler, never returns.
Hang(t) ==
  /\ Cardinality(hung) < MaxHung
  /\ loc[t] = "look" /\ hung' = hung \union {t}
  /\ UNCHANGED <<panics, loc, due, mutex, registry, check, manager>>

TaskStep(t) ==
  \/ TakeMutex(t) \/ RegisterTask(t) \/ TaskHeartbeat(t) \/ HeartbeatMissed(t)
  \/ Look(t) \/ UnregisterTask(t)

-----------------------------------------------------------------------------
(* The timers of the system manager, in the esp_timer task.                *)

Worst(a, b) == IF a < b THEN b ELSE a

\* A faulty variant of the next definition: a task that exists counts as alive.
FoundDeadDeleted(deleted) == deleted

\* The tasks that sys_manager_check_tasks_health finds dead.
FoundDead(deleted) == deleted \union {t \in monitored \ deleted : silent[t] > DeadAfter}

\* sys_manager_check_tasks_health.  What eTaskGetState says of a task that is gone is
\* arbitrary, for its control block has been freed.  The wait for the mutex times
\* out only when its holder has been deleted.
CheckTasksHealth ==
  /\ safety = "due" /\ usable /\ safety' = "evaluate"
  /\ \/ /\ owner = NoOne
        /\ \E deleted \in SUBSET {t \in monitored : ~Exists(t)} :
             /\ alive' = alive \ FoundDead(deleted)
             /\ measured' = measured \union (monitored \ deleted)
     \/ /\ owner # NoOne /\ ~Exists(owner)
        /\ UNCHANGED <<alive, measured>>
  /\ UNCHANGED <<panics, tasks, mutex, monitored, silent, unfed, health, manager>>

\* A faulty variant of the next definition: one dead task is not yet a reason.
TasksHealthLenient ==
  LET dead == monitored \ alive
  IN  IF Cardinality(dead) > 2 THEN EMERGENCY
      ELSE IF Cardinality(dead) > 1 THEN CRITICAL
      ELSE IF monitored # measured THEN WARNING ELSE GOOD

\* A slot whose stack has not been read yet counts as low on stack.
TasksHealth ==
  LET dead == monitored \ alive
      low  == monitored \ measured
  IN  CASE Cardinality(dead) > 2 -> EMERGENCY
        [] Cardinality(dead) <= 2 /\ (dead # {} \/ Cardinality(low) > 3) -> CRITICAL
        [] dead = {} /\ low # {} /\ Cardinality(low) <= 3 -> WARNING
        [] OTHER -> GOOD

\* evaluate_system_health.  It waits 10 ms for the mutex, and without it judges by
\* the memory alone.
Evaluate ==
  /\ safety = "evaluate" /\ owner = NoOne
  /\ \E memory \in MemoryLevels : health' = Worst(memory, TasksHealth)
  /\ safety' = "done"
  /\ UNCHANGED <<panics, tasks, mutex, registry, manager>>

EvaluateMissed ==
  /\ safety = "evaluate" /\ owner # NoOne
  /\ health' \in MemoryLevels
  /\ safety' = "missed"
  /\ UNCHANGED <<panics, tasks, mutex, registry, manager>>

\* memory_check_callback restarts the system when cleaning up has not helped; the
\* cleaning up has no effect on what is modelled here.
MemoryRestart == EMERGENCY \in MemoryLevels /\ usable /\ Reboot

-----------------------------------------------------------------------------
(* Start and shutdown.                                                     *)

\* task_manager_start creates one task after the other.
CreateTask(t) ==
  /\ main = "start" /\ loc[t] = "none"
  /\ loc' = [loc EXCEPT ![t] = "register"]
  /\ handles' = handles \union {t}
  /\ UNCHANGED <<panics, due, hung, mutex, registry, check, shutdown, started, main, stopping>>

\* When one cannot be created, app_main restarts the system.
CreateFails == main = "start" /\ handles # Workers /\ Reboot

StartDone ==
  /\ main = "start" /\ handles = Workers
  /\ started' = TRUE /\ main' = "run"
  /\ UNCHANGED <<panics, tasks, mutex, registry, check, handles, shutdown, stopping>>

\* app_main sees the request and deinitialises the other modules.
MainLeaves ==
  /\ main = "run" /\ shutdown /\ main' = "stop"
  /\ UNCHANGED <<panics, tasks, mutex, registry, check, handles, shutdown, started, stopping>>

\* A faulty variant of the next action: a shorter wait.
StopHasty(c) ==
  /\ stopping[c] = -1 /\ started
  /\ IF c = "main" THEN main = "stop" ELSE main \in {"run", "stop"}
  /\ shutdown' = TRUE /\ stopping' = [stopping EXCEPT ![c] = StopWait - 2]
  /\ UNCHANGED <<panics, tasks, mutex, registry, check, handles, started, main>>

\* task_manager_stop up to the wait.
StopBegin(c) ==
  /\ stopping[c] = -1 /\ started
  /\ IF c = "main" THEN main = "stop" ELSE main \in {"run", "stop"}
  /\ shutdown' = TRUE /\ stopping' = [stopping EXCEPT ![c] = StopWait]
  /\ UNCHANGED <<panics, tasks, mutex, registry, check, handles, started, main>>

\* Nothing to stop for app_main any more.
StopNothing ==
  /\ main = "stop" /\ stopping["main"] = -1 /\ ~started
  /\ main' = "cleanup"
  /\ UNCHANGED <<panics, tasks, mutex, registry, check, handles, shutdown, started, stopping>>

AfterStop(c) == main' = IF c = "main" THEN "cleanup" ELSE main

\* The rest of task_manager_stop: vTaskDelete through every handle, whether the task
\* is still there or has deleted itself.
StopDelete(c) ==
  /\ stopping[c] = 0
  /\ loc' = [t \in Tasks |-> IF t \in handles THEN "gone" ELSE loc[t]]
  /\ handles' = {} /\ started' = FALSE /\ stopping' = [stopping EXCEPT ![c] = -1]
  /\ AfterStop(c)
  /\ UNCHANGED <<panics, due, hung, mutex, registry, check, shutdown>>

\* sys_manager_cleanup.
SysManagerCleanup ==
  /\ main = "cleanup"
  /\ usable' = FALSE /\ owner' = NoOne /\ health' = GOOD /\ safety' = "done"
  /\ main' = "ended"
  /\ UNCHANGED <<panics, tasks, registry, handles, shutdown, started, stopping>>

\* event_system_cleanup unregisters the event handler task, and taking a mutex that
\* is not there is an assertion failure.
EventSystemCleanup == main = "ended" /\ Reboot

-----------------------------------------------------------------------------
(* Time.                                                                   *)

\* The watchdog expires for a subscribed task, that is a monitored one.
WatchdogBarks ==
  /\ panics /\ \E t \in monitored : unfed[t] > WdtTimeout
  /\ Reboot

\* Nothing is left to do in this second.
Quiet ==
  /\ \A t \in Tasks \ hung : Exists(t) => loc[t] = "beat" /\ due[t] > 0
  /\ safety \in {"done", "missed"} /\ main \in {"run", "stop"}
  /\ \A c \in Callers : stopping[c] # 0
  /\ panics => \A t \in monitored : unfed[t] <= WdtTimeout

Tick ==
  /\ Quiet
  /\ due' = [t \in Tasks |-> IF due[t] > 0 THEN due[t] - 1 ELSE 0]
  /\ silent' = [t \in Tasks |->
                  IF t \in monitored /\ silent[t] < DeadAfter + 2 THEN silent[t] + 1 ELSE silent[t]]
  /\ unfed' = [t \in Tasks |->
                  IF panics /\ t \in monitored /\ unfed[t] <= WdtTimeout THEN unfed[t] + 1 ELSE unfed[t]]
  /\ stopping' = [c \in Callers |-> IF stopping[c] > 0 THEN stopping[c] - 1 ELSE stopping[c]]
  /\ safety' = "due"
  /\ UNCHANGED <<panics, loc, hung, mutex, monitored, alive, measured, health,
                 handles, shutdown, started, main>>

MainStep ==
  \/ \E t \in Workers : CreateTask(t)
  \/ StartDone \/ MainLeaves \/ StopNothing \/ SysManagerCleanup \/ EventSystemCleanup
  \/ StopBegin("main") \/ \E c \in Callers : StopDelete(c)

Next ==
  \/ \E t \in Tasks : TaskStep(t) \/ Hang(t)
  \/ CheckTasksHealth \/ Evaluate \/ EvaluateMissed \/ MemoryRestart
  \/ CreateFails \/ MainStep \/ StopBegin("other")
  \/ WatchdogBarks \/ Tick

Spec == Init /\ [][Next]_vars
=============================================================================
