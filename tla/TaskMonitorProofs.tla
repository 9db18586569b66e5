--------------------------- MODULE TaskMonitorProofs ---------------------------
(***************************************************************************)
(* Theorems about the monitoring and the stopping of tasks, for any number *)
(* of tasks and all periods and waits that the assumptions allow.          *)
(***************************************************************************)
EXTENDS TaskMonitorProps, FiniteSetTheorems, TLAPS

Places == {"none", "register", "beat", "look", "leave", "registering", "beating", "leaving", "gone"}

-----------------------------------------------------------------------------
(* What is used throughout.                                                *)

\* The constants are numbers, and the event handler is none of the workers.
LEMMA Numbers ==
  /\ StopWait \in Nat /\ StopWait >= 2 /\ SlowPeriod \in Nat /\ SlowPeriod > StopWait
  /\ DeadAfter \in Nat /\ DeadAfter > 0 /\ WdtTimeout \in Nat /\ WdtTimeout > 0
  /\ Handler \in Tasks /\ Handler \notin Workers /\ Workers \subseteq Tasks
  /\ Slow \subseteq Workers /\ NoOne \notin Tasks /\ MemoryLevels \subseteq 1..4
<1>1. Handler \in Tasks /\ Workers \subseteq Tasks
  BY DEF Tasks
<1>2. MemoryLevels \subseteq 1..4
  BY MonitorAssumption DEF Health, GOOD, EMERGENCY
<1>3. QED
  BY <1>1, <1>2, MonitorAssumption

\* A task that moves.
LEMMA Moves ==
  ASSUME TypeOK, NEW t \in Tasks, NEW from, NEW to \in Places, Goes(t, from, to)
  PROVE  /\ loc[t] = from /\ loc'[t] = to /\ t \notin hung
         /\ \A u \in Tasks : u # t => loc'[u] = loc[u]
         /\ loc' \in [Tasks -> Places]
  BY DEF Goes, TypeOK, Places

\* There are finitely many tasks.
LEMMA TasksFinite ==
  ASSUME NEW S, S \subseteq Tasks
  PROVE  IsFiniteSet(S) /\ Cardinality(S) \in Nat
<1>1. IsFiniteSet(Tasks)
  BY MonitorAssumption, FS_Union, FS_Singleton DEF Tasks
<1>2. IsFiniteSet(S)
  BY <1>1, FS_Subset
<1>3. QED
  BY <1>2, FS_CardinalityType

\* A dead task is reason enough.
LEMMA DeadShow ==
  ASSUME TypeOK, monitored \ alive # {}
  PROVE  TasksHealth \in 3..4
<1> DEFINE dead == monitored \ alive
           low  == monitored \ measured
<1>1. Cardinality(dead) \in Nat
  BY TasksFinite DEF TypeOK
<1>2. CASE Cardinality(dead) > 2
  BY <1>1, <1>2 DEF TasksHealth, EMERGENCY
<1>3. CASE Cardinality(dead) <= 2
  BY <1>1, <1>3 DEF TasksHealth, CRITICAL
<1>4. QED
  BY <1>1, <1>2, <1>3

LEMMA HealthTyped ==
  ASSUME TypeOK
  PROVE  TasksHealth \in 1..4
<1> DEFINE dead == monitored \ alive
           low  == monitored \ measured
<1>1. CASE dead # {}
  BY <1>1, DeadShow
<1>2. CASE dead = {}
  <2>1. Cardinality(dead) = 0 /\ Cardinality(low) \in Nat
    BY <1>2, FS_EmptySet, TasksFinite DEF TypeOK
  <2>2. CASE Cardinality(low) > 3
    BY <1>2, <2>1, <2>2 DEF TasksHealth, CRITICAL
  <2>3. CASE low # {} /\ Cardinality(low) <= 3
    BY <1>2, <2>1, <2>3 DEF TasksHealth, WARNING
  <2>4. CASE low = {}
    <3>1. Cardinality(low) = 0
      BY <2>4, FS_EmptySet
    <3>2. QED
      BY <1>2, <2>1, <2>4, <3>1 DEF TasksHealth, GOOD
  <2>5. QED
    BY <2>1, <2>2, <2>3, <2>4
<1>3. QED
  BY <1>1, <1>2

\* A step is one of these.
LEMMA StepCases ==
  ASSUME [Next]_vars
  PROVE  \/ \E t \in Tasks : TakeMutex(t)
         \/ \E t \in Tasks : RegisterTask(t)
         \/ \E t \in Tasks : TaskHeartbeat(t)
         \/ \E t \in Tasks : HeartbeatMissed(t)
         \/ \E t \in Tasks : Look(t)
         \/ \E t \in Tasks : UnregisterTask(t)
         \/ \E t \in Tasks : Hang(t)
         \/ CheckTasksHealth
         \/ Evaluate
         \/ EvaluateMissed
         \/ \E t \in Workers : CreateTask(t)
         \/ StartDone \/ MainLeaves \/ StopNothing
         \/ SysManagerCleanup
         \/ \E c \in Callers : StopBegin(c)
         \/ \E c \in Callers : StopDelete(c)
         \/ Tick
         \/ Reboot
         \/ UNCHANGED vars
  BY DEF Next, TaskStep, MainStep, MemoryRestart, CreateFails, EventSystemCleanup,
         WatchdogBarks, Callers

-----------------------------------------------------------------------------
(* A start of the system.                                                  *)

\* What a start or a restart makes of everything.
Fresh ==
  /\ panics \in BOOLEAN
  /\ loc \in {[t \in Tasks |-> IF t = Handler THEN p ELSE "none"] : p \in {"beat", "gone"}}
  /\ due = [t \in Tasks |-> 0] /\ hung = {}
  /\ owner = NoOne /\ usable = TRUE
  /\ monitored = {Handler} /\ alive = {Handler} /\ measured = {}
  /\ silent = [t \in Tasks |-> 0] /\ unfed = [t \in Tasks |-> 0]
  /\ safety = "done" /\ health = 1
  /\ handles = {} /\ shutdown = FALSE /\ started = FALSE
  /\ main = "start" /\ stopping = [c \in Callers |-> -1]

LEMMA FreshSound ==
  ASSUME Fresh
  PROVE  IndInv
<1> USE Numbers
<1>1. /\ loc \in [Tasks -> Places] /\ loc[Handler] # "none"
      /\ \A t \in Tasks : loc[t] \in {"none", "beat", "gone"}
      /\ \A t \in Tasks \ {Handler} : loc[t] = "none"
  BY DEF Fresh, Places
<1>2. /\ due \in [Tasks -> 0..SlowPeriod] /\ \A t \in Tasks : due[t] = 0
      /\ silent \in [Tasks -> 0..(DeadAfter + 2)] /\ \A t \in Tasks : silent[t] = 0
      /\ unfed \in [Tasks -> 0..(WdtTimeout + 1)]
      /\ stopping \in [Callers -> -1..StopWait] /\ \A c \in Callers : stopping[c] = -1
  BY DEF Fresh
<1>3. TypeOK
  <2>1. /\ hung \subseteq Tasks /\ owner \in Tasks \union {NoOne}
        /\ handles \subseteq Workers /\ monitored \subseteq Tasks /\ alive \subseteq monitored
        /\ measured \subseteq monitored
    BY DEF Fresh
  <2>2. health \in Health
    BY DEF Fresh, Health, GOOD, EMERGENCY
  <2>3. /\ panics \in BOOLEAN /\ usable \in BOOLEAN /\ shutdown \in BOOLEAN /\ started \in BOOLEAN
    BY DEF Fresh
  <2>4. /\ safety \in {"due", "evaluate", "done", "missed"}
        /\ main \in {"start", "run", "stop", "cleanup", "ended"}
    BY DEF Fresh
  <2>5. QED
    BY <1>1, <1>2, <2>1, <2>2, <2>3, <2>4 DEF TypeOK, Places
<1>4. StartUndisturbed /\ PromptLeave
  BY <1>2 DEF Fresh, StartUndisturbed, PromptLeave
<1>5. MutexHeld /\ StrangersUnknown
  BY <1>1 DEF Fresh, MutexHeld, StrangersUnknown
<1>6. SilentFound /\ DeathsNoticed /\ NoPhantom /\ SilenceShows
  BY <1>2 DEF Fresh, SilentFound, DeathsNoticed, NoPhantom, SilenceShows
<1>7. QED
  BY <1>3, <1>4, <1>5, <1>6 DEF IndInv

-----------------------------------------------------------------------------
(* Types.                                                                  *)

LEMMA TypeKept ==
  ASSUME TypeOK, [Next]_vars, ~Reboot
  PROVE  TypeOK'
<1> USE Numbers
<1>1. CASE \E t \in Tasks : TakeMutex(t)
  <2>1. PICK t \in Tasks : TakeMutex(t)
    BY <1>1
  <2>2. loc' \in [Tasks -> Places]
    BY <2>1, Moves DEF TakeMutex, Places
  <2>3. QED
    BY <2>1, <2>2 DEF TakeMutex, TypeOK, Places, registry, check, manager
<1>2. CASE \E t \in Tasks : RegisterTask(t)
  <2>1. PICK t \in Tasks : RegisterTask(t)
    BY <1>2
  <2>2. loc' \in [Tasks -> Places]
    BY <2>1, Moves DEF RegisterTask, Places
  <2>3. silent' \in [Tasks -> 0..(DeadAfter + 2)] /\ unfed' \in [Tasks -> 0..(WdtTimeout + 1)]
    BY <2>1 DEF RegisterTask, TypeOK
  <2>4. monitored' \subseteq Tasks /\ alive' \subseteq monitored' /\ measured' \subseteq monitored'
    BY <2>1 DEF RegisterTask, TypeOK
  <2>5. QED
    BY <2>1, <2>2, <2>3, <2>4 DEF RegisterTask, TypeOK, Places, check, manager
<1>3. CASE \E t \in Tasks : TaskHeartbeat(t)
  <2>1. PICK t \in Tasks : TaskHeartbeat(t)
    BY <1>3
  <2>2. loc' \in [Tasks -> Places]
    BY <2>1, Moves DEF TaskHeartbeat, Places
  <2>3. silent' \in [Tasks -> 0..(DeadAfter + 2)]
    BY <2>1 DEF TaskHeartbeat, TypeOK
  <2>4. alive' \subseteq monitored
    BY <2>1 DEF TaskHeartbeat, TypeOK
  <2>5. QED
    BY <2>1, <2>2, <2>3, <2>4 DEF TaskHeartbeat, TypeOK, Places, check, manager
<1>4. CASE \E t \in Tasks : HeartbeatMissed(t)
  <2>1. PICK t \in Tasks : HeartbeatMissed(t)
    BY <1>4
  <2>2. loc' \in [Tasks -> Places]
    BY <2>1, Moves DEF HeartbeatMissed, Places
  <2>3. QED
    BY <2>1, <2>2 DEF HeartbeatMissed, TypeOK, Places, mutex, registry, check, manager
<1>5. CASE \E t \in Tasks : Look(t)
  <2>1. PICK t \in Tasks : Look(t)
    BY <1>5
  <2>2. loc' \in [Tasks -> Places]
    BY <2>1, Moves DEF Look, Places
  <2>3. due' \in [Tasks -> 0..SlowPeriod]
    BY <2>1 DEF Look, TypeOK
  <2>4. QED
    BY <2>1, <2>2, <2>3 DEF Look, TypeOK, Places, mutex, registry, check, manager
<1>6. CASE \E t \in Tasks : UnregisterTask(t)
  <2>1. PICK t \in Tasks : UnregisterTask(t)
    BY <1>6
  <2>2. loc' \in [Tasks -> Places]
    BY <2>1, Moves DEF UnregisterTask, Places
  <2>3. silent' \in [Tasks -> 0..(DeadAfter + 2)] /\ unfed' \in [Tasks -> 0..(WdtTimeout + 1)]
    BY <2>1 DEF UnregisterTask, TypeOK
  <2>4. monitored' \subseteq Tasks /\ alive' \subseteq monitored' /\ measured' \subseteq monitored'
    BY <2>1 DEF UnregisterTask, TypeOK
  <2>5. QED
    BY <2>1, <2>2, <2>3, <2>4 DEF UnregisterTask, TypeOK, Places, check, manager
<1>7. CASE \E t \in Tasks : Hang(t)
  BY <1>7 DEF Hang, TypeOK, mutex, registry, check, manager
<1>8. CASE CheckTasksHealth
  <2>1. alive' \subseteq monitored /\ measured' \subseteq monitored
    BY <1>8 DEF CheckTasksHealth, TypeOK
  <2>2. QED
    BY <1>8, <2>1 DEF CheckTasksHealth, TypeOK, tasks, mutex, manager
<1>9. CASE Evaluate \/ EvaluateMissed
  <2>1. health' \in 1..4
    BY <1>9, HealthTyped DEF Evaluate, EvaluateMissed, Worst
  <2>2. safety' \in {"done", "missed"}
    BY <1>9 DEF Evaluate, EvaluateMissed
  <2>3. QED
    BY <1>9, <2>1, <2>2
    DEF Evaluate, EvaluateMissed, TypeOK, Health, GOOD, EMERGENCY, tasks, mutex, registry, manager
<1>10. CASE \E t \in Workers : CreateTask(t)
  BY <1>10 DEF CreateTask, TypeOK, mutex, registry, check
<1>11. CASE StartDone \/ MainLeaves \/ StopNothing
  BY <1>11 DEF StartDone, MainLeaves, StopNothing, TypeOK, tasks, mutex, registry, check
<1>12. CASE SysManagerCleanup
  <2>1. /\ usable' = FALSE /\ owner' = NoOne /\ safety' = "done" /\ main' = "ended"
        /\ UNCHANGED <<panics, tasks, registry, handles, shutdown, started, stopping>>
    BY <1>12 DEF SysManagerCleanup
  <2>2. health' \in Health
    BY <1>12 DEF SysManagerCleanup, Health, GOOD, EMERGENCY
  <2>3. QED
    BY <2>1, <2>2 DEF TypeOK, tasks, registry
<1>13. CASE \E c \in Callers : StopBegin(c)
  BY <1>13 DEF StopBegin, TypeOK, tasks, mutex, registry, check
<1>14. CASE \E c \in Callers : StopDelete(c)
  <2>1. PICK c \in Callers : StopDelete(c)
    BY <1>14
  <2>2. loc' \in [Tasks -> Places]
    BY <2>1 DEF StopDelete, TypeOK, Places
  <2>3. stopping' \in [Callers -> -1..StopWait]
    BY <2>1 DEF StopDelete, TypeOK
  <2>4. main' \in {"cleanup", main}
    BY <2>1 DEF StopDelete, AfterStop
  <2>5. QED
    BY <2>1, <2>2, <2>3, <2>4 DEF StopDelete, TypeOK, Places, mutex, registry, check
<1>15. CASE Tick
  <2>1. due' \in [Tasks -> 0..SlowPeriod]
    BY <1>15 DEF Tick, TypeOK
  <2>2. silent' \in [Tasks -> 0..(DeadAfter + 2)]
    BY <1>15 DEF Tick, TypeOK
  <2>3. unfed' \in [Tasks -> 0..(WdtTimeout + 1)]
    BY <1>15 DEF Tick, TypeOK
  <2>4. stopping' \in [Callers -> -1..StopWait]
    BY <1>15 DEF Tick, TypeOK
  <2>5. QED
    BY <1>15, <2>1, <2>2, <2>3, <2>4 DEF Tick, TypeOK, mutex
<1>16. CASE UNCHANGED vars
  BY <1>16 DEF vars, tasks, mutex, registry, check, manager, TypeOK
<1>17. QED
  BY <1>1, <1>2, <1>3, <1>4, <1>5, <1>6, <1>7, <1>8, <1>9, <1>10, <1>11, <1>12, <1>13, <1>14,
     <1>15, <1>16, StepCases

-----------------------------------------------------------------------------
(* The start and the stop.                                                 *)

LEMMA StartKept ==
  ASSUME TypeOK, StartUndisturbed, [Next]_vars, ~Reboot
  PROVE  StartUndisturbed'
<1> USE Numbers DEF StartUndisturbed, TypeOK
<1>1. CASE UNCHANGED <<shutdown, started, main, stopping>>
  BY <1>1
<1>2. CASE StartDone \/ MainLeaves \/ StopNothing \/ SysManagerCleanup
  BY <1>2 DEF StartDone, MainLeaves, StopNothing, SysManagerCleanup
<1>3. CASE \E c \in Callers : StopBegin(c)
  <2>1. main # "start" /\ main' = main /\ shutdown' = TRUE
    BY <1>3 DEF StopBegin
  <2>2. QED
    BY <2>1
<1>4. CASE \E c \in Callers : StopDelete(c)
  <2>1. PICK c \in Callers : StopDelete(c)
    BY <1>4
  <2>2. /\ started' = FALSE /\ shutdown' = shutdown /\ main' \in {"cleanup", main}
        /\ \A d \in Callers : stopping'[d] \in {stopping[d], -1}
        /\ stopping[c] # -1
    BY <2>1 DEF StopDelete, AfterStop
  <2>3. QED
    BY <2>2
<1>5. CASE Tick
  <2>1. /\ UNCHANGED <<shutdown, started, main>>
        /\ \A c \in Callers : stopping'[c] # -1 => stopping[c] # -1
    BY <1>5 DEF Tick
  <2>2. QED
    BY <2>1
<1>6. QED
  BY <1>1, <1>2, <1>3, <1>4, <1>5, StepCases
  DEF vars, manager, TakeMutex, RegisterTask, TaskHeartbeat, HeartbeatMissed, Look, UnregisterTask,
      Hang, CheckTasksHealth, Evaluate, EvaluateMissed, CreateTask

\* A prompt task does not come back, and its time does not grow any more.
LEMMA PromptKept ==
  ASSUME TypeOK, StartUndisturbed, PromptLeave, [Next]_vars, ~Reboot
  PROVE  PromptLeave'
<1> USE Numbers
<1>1. CASE /\ \A t \in Tasks : Exists(t)' => Exists(t)
           /\ hung \subseteq hung' /\ UNCHANGED <<due, stopping>>
  BY <1>1 DEF PromptLeave, Prompt
<1>2. CASE \E t \in Tasks : Look(t)
  <2>1. PICK t \in Tasks : Look(t)
    BY <1>2
  <2>2. \A u \in Tasks : Exists(u)' => Exists(u)
    BY <2>1, Moves DEF Look, Exists, Places
  <2>3. hung' = hung /\ UNCHANGED <<stopping, shutdown>>
    BY <2>1 DEF Look, manager
  <2>4. CASE shutdown
    <3>1. due' = due
      BY <2>1, <2>4 DEF Look
    <3>2. QED
      BY <1>1, <2>2, <2>3, <3>1
  <2>5. CASE ~shutdown
    <3>1. \A c \in Callers : stopping'[c] = -1
      BY <2>3, <2>5 DEF StartUndisturbed
    <3>2. \A u \in Tasks \ Slow : due'[u] <= 1
      BY <2>1, <2>5 DEF Look, PromptLeave, TypeOK
    <3>3. QED
      BY <3>1, <3>2 DEF PromptLeave
  <2>6. QED
    BY <2>4, <2>5 DEF TypeOK
<1>3. CASE \E t \in Workers : CreateTask(t)
  <2>1. PICK t \in Workers : CreateTask(t)
    BY <1>3
  <2>2. UNCHANGED <<due, stopping>> /\ \A c \in Callers : stopping[c] = -1
    BY <2>1 DEF CreateTask, StartUndisturbed
  <2>3. QED
    BY <2>2 DEF PromptLeave
<1>4. CASE \E c \in Callers : StopBegin(c)
  <2>1. PICK c \in Callers : StopBegin(c)
    BY <1>4
  <2>2. /\ UNCHANGED <<loc, due, hung>> /\ stopping'[c] = StopWait
        /\ \A d \in Callers : d # c => stopping'[d] = stopping[d]
    BY <2>1 DEF StopBegin, tasks, TypeOK
  <2>3. QED
    BY <2>2 DEF PromptLeave, Prompt, Exists
<1>5. CASE \E c \in Callers : StopDelete(c)
  <2>1. PICK c \in Callers : StopDelete(c)
    BY <1>5
  <2>2. UNCHANGED <<due, hung>> /\ \A t \in Tasks : Exists(t)' => Exists(t)
    BY <2>1 DEF StopDelete, Exists
  <2>3. \A d \in Callers : stopping'[d] \in {stopping[d], -1}
    BY <2>1 DEF StopDelete, TypeOK
  <2>4. QED
    BY <2>2, <2>3 DEF PromptLeave, Prompt
<1>6. CASE Tick
  <2>1. /\ UNCHANGED <<loc, hung>> /\ Quiet
        /\ \A t \in Tasks : due'[t] = IF due[t] > 0 THEN due[t] - 1 ELSE 0
        /\ \A c \in Callers : stopping'[c] = IF stopping[c] > 0 THEN stopping[c] - 1 ELSE stopping[c]
    BY <1>6 DEF Tick
  <2>2. \A t \in Tasks : due[t] \in Nat
    BY DEF TypeOK
  <2>3. \A c \in Callers : stopping[c] \in Int /\ stopping[c] >= -1 /\ stopping[c] <= StopWait
    BY DEF TypeOK
  <2>4. \A t \in Tasks \ Slow : due'[t] = 0
    BY <2>1, <2>2 DEF PromptLeave
  <2>5. ASSUME NEW c \in Callers, stopping'[c] # -1, stopping'[c] < StopWait - 1, NEW t \in Prompt
        PROVE  ~Exists(t)
    <3>1. stopping[c] > 0 /\ stopping[c] < StopWait
      BY <2>1, <2>3, <2>5 DEF Quiet
    <3>2. Exists(t) => due[t] = 0
      BY <2>5, <3>1 DEF PromptLeave
    <3>3. Exists(t) => due[t] > 0
      BY <2>1, <2>5 DEF Quiet, Prompt
    <3>4. QED
      BY <3>2, <3>3
  <2>6. QED
    BY <2>1, <2>4, <2>5 DEF PromptLeave, Prompt, Exists
<1>7. CASE \E t \in Tasks : \/ TakeMutex(t) \/ RegisterTask(t) \/ TaskHeartbeat(t)
                            \/ HeartbeatMissed(t) \/ UnregisterTask(t)
  <2>1. PICK t \in Tasks : \/ TakeMutex(t) \/ RegisterTask(t) \/ TaskHeartbeat(t)
                           \/ HeartbeatMissed(t) \/ UnregisterTask(t)
    BY <1>7
  <2>2. \A u \in Tasks : Exists(u)' => Exists(u)
    BY <2>1, Moves DEF TakeMutex, RegisterTask, TaskHeartbeat, HeartbeatMissed, UnregisterTask,
                       Exists, Places
  <2>3. UNCHANGED <<due, hung, stopping>>
    BY <2>1 DEF TakeMutex, RegisterTask, TaskHeartbeat, HeartbeatMissed, UnregisterTask, manager
  <2>4. QED
    BY <1>1, <2>2, <2>3
<1>8. CASE \/ \E t \in Tasks : Hang(t)
           \/ CheckTasksHealth \/ Evaluate \/ EvaluateMissed
           \/ StartDone \/ MainLeaves \/ StopNothing \/ SysManagerCleanup \/ UNCHANGED vars
  <2>1. loc' = loc /\ hung \subseteq hung' /\ UNCHANGED <<due, stopping>>
    BY <1>8 DEF Hang, CheckTasksHealth, Evaluate, EvaluateMissed, StartDone, MainLeaves, StopNothing,
                SysManagerCleanup, vars, tasks, manager
  <2>2. QED
    BY <1>1, <2>1 DEF Exists
<1>9. QED
  BY <1>2, <1>3, <1>4, <1>5, <1>6, <1>7, <1>8, StepCases

-----------------------------------------------------------------------------
(* The mutex.                                                              *)

\* Who comes in takes the mutex, and who goes out gives it back.
LEMMA MutexKept ==
  ASSUME TypeOK, MutexHeld, [Next]_vars, ~Reboot
  PROVE  MutexHeld' /\ (MutexLost => MutexLost')
<1> USE Numbers
<1> DEFINE Inside(t) == loc[t] \in {"registering", "beating", "leaving"}
<1>1. CASE \E t \in Tasks : TakeMutex(t)
  <2>1. PICK t \in Tasks : TakeMutex(t)
    BY <1>1
  <2>2. loc'[t] # "none" /\ \A u \in Tasks : u # t => loc'[u] = loc[u]
    BY <2>1, Moves DEF TakeMutex, Places
  <2>3. usable /\ owner = NoOne /\ owner' = t /\ usable' = usable
    BY <2>1 DEF TakeMutex
  <2>4. \A u \in Tasks : ~Inside(u)
    BY <2>3 DEF MutexHeld
  <2>5. QED
    BY <2>2, <2>3, <2>4 DEF MutexHeld, MutexLost
<1>2. CASE \E t \in Tasks : RegisterTask(t) \/ TaskHeartbeat(t) \/ UnregisterTask(t)
  <2>1. PICK t \in Tasks : RegisterTask(t) \/ TaskHeartbeat(t) \/ UnregisterTask(t)
    BY <1>2
  <2>2. /\ Inside(t) /\ loc'[t] \in {"beat", "look", "gone"}
        /\ \A u \in Tasks : u # t => loc'[u] = loc[u]
    BY <2>1, Moves DEF RegisterTask, TaskHeartbeat, UnregisterTask, Places
  <2>3. owner' = NoOne /\ usable' = usable
    BY <2>1 DEF RegisterTask, TaskHeartbeat, UnregisterTask
  <2>4. usable => \A u \in Tasks : Inside(u) => u = t
    BY <2>2 DEF MutexHeld
  <2>5. MutexLost => ~usable
    BY <2>2 DEF MutexHeld, MutexLost, Exists
  <2>6. QED
    BY <2>2, <2>3, <2>4, <2>5 DEF MutexHeld, MutexLost
<1>3. CASE \E t \in Tasks : HeartbeatMissed(t) \/ Look(t)
  <2>1. PICK t \in Tasks : HeartbeatMissed(t) \/ Look(t)
    BY <1>3
  <2>2. \A u \in Tasks : /\ Inside(u)' => Inside(u)
                         /\ ~Exists(u) => ~Exists(u)'
                         /\ loc'[u] = "none" => loc[u] = "none"
    BY <2>1, Moves DEF HeartbeatMissed, Look, Places, Exists
  <2>3. UNCHANGED <<owner, usable>>
    BY <2>1 DEF HeartbeatMissed, Look, mutex
  <2>4. QED
    BY <2>2, <2>3 DEF MutexHeld, MutexLost, TypeOK
<1>4. CASE \E t \in Workers : CreateTask(t)
  <2>1. PICK t \in Workers : CreateTask(t)
    BY <1>4
  <2>2. UNCHANGED <<owner, usable>> /\ loc[t] = "none" /\ loc' = [loc EXCEPT ![t] = "register"]
    BY <2>1 DEF CreateTask, mutex
  <2>3. \A u \in Tasks : (Inside(u)' => Inside(u)) /\ (loc'[u] = "none" => loc[u] = "none")
    BY <2>2 DEF TypeOK
  <2>4. MutexHeld'
    BY <2>2, <2>3 DEF MutexHeld, TypeOK
  <2>5. QED
    BY <2>2, <2>4 DEF MutexHeld, MutexLost, Exists, TypeOK
<1>5. CASE \E c \in Callers : StopDelete(c)
  <2>1. PICK c \in Callers : StopDelete(c)
    BY <1>5
  <2>2. \A u \in Tasks : /\ Inside(u)' => Inside(u)
                         /\ ~Exists(u) => ~Exists(u)'
                         /\ loc'[u] = "none" => loc[u] = "none"
    BY <2>1 DEF StopDelete, Exists
  <2>3. UNCHANGED <<owner, usable>>
    BY <2>1 DEF StopDelete, mutex
  <2>4. QED
    BY <2>2, <2>3 DEF MutexHeld, MutexLost, TypeOK
<1>6. CASE SysManagerCleanup
  BY <1>6 DEF SysManagerCleanup, MutexHeld, MutexLost
<1>7. CASE UNCHANGED <<loc, owner, usable>>
  BY <1>7 DEF MutexHeld, MutexLost, Exists
<1>8. QED
  BY <1>1, <1>2, <1>3, <1>4, <1>5, <1>6, <1>7, StepCases
  DEF vars, tasks, mutex, Hang, CheckTasksHealth, Evaluate, EvaluateMissed, StartDone, MainLeaves,
      StopNothing, StopBegin, Tick

-----------------------------------------------------------------------------
(* The registry.                                                           *)

LEMMA StrangersKept ==
  ASSUME TypeOK, StrangersUnknown, [Next]_vars, ~Reboot
  PROVE  StrangersUnknown'
<1> USE Numbers
<1>1. CASE \E t \in Tasks : RegisterTask(t)
  <2>1. PICK t \in Tasks : RegisterTask(t)
    BY <1>1
  <2>2. loc'[t] = "beat" /\ \A u \in Tasks : u # t => loc'[u] = loc[u]
    BY <2>1, Moves DEF RegisterTask, Places
  <2>3. monitored' = monitored \union {t}
    BY <2>1 DEF RegisterTask
  <2>4. QED
    BY <2>2, <2>3 DEF StrangersUnknown
<1>2. CASE \E t \in Tasks : \/ TakeMutex(t) \/ TaskHeartbeat(t) \/ HeartbeatMissed(t)
                            \/ Look(t) \/ UnregisterTask(t)
  <2>1. PICK t \in Tasks : \/ TakeMutex(t) \/ TaskHeartbeat(t) \/ HeartbeatMissed(t)
                           \/ Look(t) \/ UnregisterTask(t)
    BY <1>2
  <2>2. loc'[t] # "none" /\ \A u \in Tasks : u # t => loc'[u] = loc[u]
    BY <2>1, Moves DEF TakeMutex, TaskHeartbeat, HeartbeatMissed, Look, UnregisterTask, Places
  <2>3. monitored' \subseteq monitored
    BY <2>1 DEF TakeMutex, TaskHeartbeat, HeartbeatMissed, Look, UnregisterTask, registry
  <2>4. QED
    BY <2>2, <2>3 DEF StrangersUnknown
<1>3. CASE \E t \in Workers : CreateTask(t)
  BY <1>3 DEF CreateTask, StrangersUnknown, TypeOK, registry
<1>4. CASE \E c \in Callers : StopDelete(c)
  BY <1>4 DEF StopDelete, StrangersUnknown, registry
<1>5. CASE UNCHANGED <<loc, monitored>>
  BY <1>5 DEF StrangersUnknown
<1>6. QED
  BY <1>1, <1>2, <1>3, <1>4, <1>5, StepCases
  DEF vars, tasks, registry, Hang, CheckTasksHealth, Evaluate, EvaluateMissed, StartDone,
      MainLeaves, StopNothing, StopBegin, SysManagerCleanup, Tick

\* What a step that leaves the clock and the check alone does to the silent tasks.
LEMMA SilenceKept ==
  ASSUME TypeOK, SilentFound, DeathsNoticed, MutexLost => MutexLost',
         \A t \in monitored' :
            \/ silent'[t] = 0 /\ t \in alive'
            \/ /\ t \in monitored /\ silent'[t] = silent[t] /\ (t \in alive' <=> t \in alive)
               /\ Exists(t)' => Exists(t),
         safety' = safety
  PROVE  SilentFound' /\ DeathsNoticed'
<1> USE Numbers
<1>1. SilentFound'
  BY DEF SilentFound
<1>2. DeathsNoticed'
  BY DEF DeathsNoticed, MutexLost
<1>3. QED
  BY <1>1, <1>2

\* A check finds who is silent, a heartbeat ends the silence, and time goes on only
\* after the check.
LEMMA DeathsKept ==
  ASSUME TypeOK, StrangersUnknown, MutexHeld, SilentFound, DeathsNoticed, [Next]_vars, ~Reboot
  PROVE  SilentFound' /\ DeathsNoticed'
<1> USE Numbers
<1>0. MutexLost => MutexLost'
  BY MutexKept
<1>1. CASE \E t \in Tasks : RegisterTask(t) \/ TaskHeartbeat(t)
  <2>1. PICK t \in Tasks : RegisterTask(t) \/ TaskHeartbeat(t)
    BY <1>1
  <2>2. \A u \in Tasks : Exists(u)' => Exists(u)
    BY <2>1, Moves DEF RegisterTask, TaskHeartbeat, Places, Exists
  <2>3. /\ silent'[t] = 0 /\ \A u \in Tasks : u # t => silent'[u] = silent[u]
        /\ monitored' \subseteq Tasks /\ safety' = safety
        /\ t \in monitored' => t \in alive'
        /\ \A u \in Tasks : u # t => (u \in alive' <=> u \in alive)
        /\ \A u \in monitored' : u # t => u \in monitored
    BY <2>1 DEF RegisterTask, TaskHeartbeat, TypeOK, check
  <2>4. QED
    BY <1>0, <2>2, <2>3, SilenceKept
<1>2. CASE \E t \in Tasks : UnregisterTask(t)
  <2>1. PICK t \in Tasks : UnregisterTask(t)
    BY <1>2
  <2>2. \A u \in Tasks : Exists(u)' => Exists(u)
    BY <2>1, Moves DEF UnregisterTask, Places, Exists
  <2>3. /\ \A u \in Tasks : u # t => silent'[u] = silent[u]
        /\ monitored' = monitored \ {t} /\ alive' = alive \ {t} /\ safety' = safety
    BY <2>1 DEF UnregisterTask, TypeOK, check
  <2>4. QED
    BY <1>0, <2>2, <2>3, SilenceKept DEF TypeOK
<1>3. CASE \E t \in Tasks : TakeMutex(t) \/ HeartbeatMissed(t) \/ Look(t) \/ Hang(t)
  <2>1. PICK t \in Tasks : TakeMutex(t) \/ HeartbeatMissed(t) \/ Look(t) \/ Hang(t)
    BY <1>3
  <2>2. \A u \in Tasks : Exists(u)' => Exists(u)
    BY <2>1, Moves DEF TakeMutex, HeartbeatMissed, Look, Hang, Places, Exists
  <2>3. UNCHANGED <<silent, monitored, alive, safety>>
    BY <2>1 DEF TakeMutex, HeartbeatMissed, Look, Hang, registry, check
  <2>4. QED
    BY <1>0, <2>2, <2>3, SilenceKept DEF TypeOK
<1>4. CASE \E t \in Workers : CreateTask(t)
  <2>1. PICK t \in Workers : CreateTask(t)
    BY <1>4
  <2>2. t \notin monitored /\ \A u \in Tasks : u # t /\ Exists(u)' => Exists(u)
    BY <2>1 DEF CreateTask, StrangersUnknown, Exists, TypeOK
  <2>3. UNCHANGED <<silent, monitored, alive, safety>>
    BY <2>1 DEF CreateTask, registry, check
  <2>4. QED
    BY <1>0, <2>2, <2>3, SilenceKept DEF TypeOK
<1>5. CASE CheckTasksHealth
  <2>1. safety' = "evaluate" /\ UNCHANGED <<loc, owner, usable, monitored, silent>>
    BY <1>5 DEF CheckTasksHealth, tasks, mutex
  <2>2. CASE owner = NoOne
    <3>1. PICK deleted \in SUBSET {t \in monitored : ~Exists(t)} : alive' = alive \ FoundDead(deleted)
      BY <1>5, <2>2 DEF CheckTasksHealth
    <3>2. \A t \in monitored : /\ t \in alive' => t \in alive /\ silent[t] <= DeadAfter
                               /\ t \notin alive' /\ Exists(t) => t \notin alive \/ silent[t] > DeadAfter
      BY <3>1 DEF FoundDead, TypeOK
    <3>3. \A t \in monitored : silent[t] \in Nat
      BY DEF TypeOK
    <3>4. QED
      BY <2>1, <3>2, <3>3 DEF SilentFound, DeathsNoticed, Exists
  <2>3. CASE owner # NoOne
    <3>1. MutexLost' /\ alive' = alive
      BY <1>5, <2>1, <2>3 DEF CheckTasksHealth, MutexLost, Exists
    <3>2. QED
      BY <2>1, <3>1 DEF SilentFound, DeathsNoticed, MutexLost, Exists
  <2>4. QED
    BY <2>2, <2>3
<1>6. CASE Evaluate \/ EvaluateMissed
  <2>1. UNCHANGED <<loc, owner, usable, monitored, alive, silent>> /\ safety = "evaluate"
    BY <1>6 DEF Evaluate, EvaluateMissed, tasks, mutex, registry
  <2>2. QED
    BY <2>1 DEF SilentFound, DeathsNoticed, MutexLost, Exists
<1>7. CASE SysManagerCleanup
  <2>1. MutexLost' /\ UNCHANGED <<loc, monitored, alive, silent>> /\ usable' = FALSE
    BY <1>7 DEF SysManagerCleanup, MutexLost, tasks, registry
  <2>2. QED
    BY <2>1 DEF SilentFound, DeathsNoticed, Exists
<1>8. CASE \E c \in Callers : StopDelete(c)
  <2>1. PICK c \in Callers : StopDelete(c)
    BY <1>8
  <2>2. UNCHANGED <<silent, monitored, alive, safety>> /\ \A u \in Tasks : Exists(u)' => Exists(u)
    BY <2>1 DEF StopDelete, Exists, registry, check
  <2>3. QED
    BY <1>0, <2>2, SilenceKept DEF TypeOK
<1>9. CASE Tick
  <2>1. /\ safety \in {"done", "missed"} /\ safety' = "due"
        /\ UNCHANGED <<loc, owner, usable, monitored, alive>>
        /\ \A t \in monitored :
             silent'[t] = IF silent[t] < DeadAfter + 2 THEN silent[t] + 1 ELSE silent[t]
    BY <1>9 DEF Tick, Quiet, mutex, TypeOK
  <2>2. \A t \in monitored : silent[t] \in Nat
    BY DEF TypeOK
  <2>3. \A t \in monitored \intersect alive : silent[t] > DeadAfter => MutexLost
    BY <2>1 DEF SilentFound
  <2>4. SilentFound'
    BY <2>1, <2>2, <2>3 DEF SilentFound, MutexLost, Exists
  <2>5. DeathsNoticed'
    BY <2>1, <2>2, <2>3 DEF DeathsNoticed, MutexLost, Exists
  <2>6. QED
    BY <2>4, <2>5
<1>10. CASE UNCHANGED <<loc, owner, usable, monitored, alive, silent, safety>>
  BY <1>10 DEF SilentFound, DeathsNoticed, MutexLost, Exists
<1>11. QED
  BY <1>1, <1>2, <1>3, <1>4, <1>5, <1>6, <1>7, <1>8, <1>9, <1>10, StepCases
  DEF vars, tasks, mutex, registry, check, StartDone, MainLeaves, StopNothing, StopBegin

\* What a forced stop meets: tasks that are slow or hang.
LEMMA StoppedAreLaggards ==
  ASSUME TypeOK, PromptLeave, NEW c \in Callers, StopDelete(c)
  PROVE  \A t \in Tasks : Exists(t) => t \in Slow \union hung
<1>1. stopping[c] = 0
  BY DEF StopDelete
<1>2. QED
  BY <1>1, Numbers DEF PromptLeave, Prompt

\* Who leaves unregisters itself, except for the event handler task.
LEMMA PhantomKept ==
  ASSUME TypeOK, StartUndisturbed, PromptLeave, StrangersUnknown, NoPhantom, [Next]_vars, ~Reboot
  PROVE  NoPhantom'
<1> USE Numbers
<1>1. CASE \E t \in Tasks : RegisterTask(t)
  <2>1. PICK t \in Tasks : RegisterTask(t)
    BY <1>1
  <2>2. loc'[t] = "beat" /\ \A u \in Tasks : u # t => loc'[u] = loc[u]
    BY <2>1, Moves DEF RegisterTask, Places
  <2>3. monitored' = monitored \union {t} /\ UNCHANGED <<hung, shutdown>>
    BY <2>1 DEF RegisterTask, manager
  <2>4. QED
    BY <2>2, <2>3 DEF NoPhantom, Exists, TypeOK
<1>2. CASE \E t \in Tasks : UnregisterTask(t)
  <2>1. PICK t \in Tasks : UnregisterTask(t)
    BY <1>2
  <2>2. \A u \in Tasks : u # t => loc'[u] = loc[u]
    BY <2>1, Moves DEF UnregisterTask, Places
  <2>3. monitored' = monitored \ {t} /\ UNCHANGED <<hung, shutdown>>
    BY <2>1 DEF UnregisterTask, manager
  <2>4. QED
    BY <2>2, <2>3 DEF NoPhantom, Exists, TypeOK
<1>3. CASE \E t \in Tasks : TakeMutex(t) \/ TaskHeartbeat(t) \/ HeartbeatMissed(t) \/ Look(t)
  <2>1. PICK t \in Tasks : TakeMutex(t) \/ TaskHeartbeat(t) \/ HeartbeatMissed(t) \/ Look(t)
    BY <1>3
  <2>2. \A u \in Tasks \ {Handler} : Exists(u) => Exists(u)'
    BY <2>1, Moves DEF TakeMutex, TaskHeartbeat, HeartbeatMissed, Look, Places, Exists
  <2>3. UNCHANGED <<monitored, hung, shutdown>>
    BY <2>1 DEF TakeMutex, TaskHeartbeat, HeartbeatMissed, Look, registry, manager
  <2>4. QED
    BY <2>2, <2>3 DEF NoPhantom, TypeOK
<1>4. CASE \E t \in Tasks : Hang(t)
  <2>1. /\ UNCHANGED <<loc, monitored, shutdown>> /\ hung \subseteq hung'
    BY <1>4 DEF Hang, registry, manager
  <2>2. QED
    BY <2>1 DEF NoPhantom, Exists
<1>5. CASE \E t \in Workers : CreateTask(t)
  <2>1. PICK t \in Workers : CreateTask(t)
    BY <1>5
  <2>2. \A u \in Tasks : Exists(u) => Exists(u)'
    BY <2>1 DEF CreateTask, Exists, TypeOK
  <2>3. UNCHANGED <<monitored, hung, shutdown>>
    BY <2>1 DEF CreateTask, registry
  <2>4. QED
    BY <2>2, <2>3 DEF NoPhantom, TypeOK
<1>6. CASE \E c \in Callers : StopDelete(c)
  <2>1. PICK c \in Callers : StopDelete(c)
    BY <1>6
  <2>2. \A t \in Tasks : Exists(t) => t \in Slow \union hung
    BY <2>1, StoppedAreLaggards
  <2>3. shutdown /\ UNCHANGED <<monitored, hung, shutdown>>
    BY <2>1 DEF StopDelete, StartUndisturbed, registry
  <2>4. QED
    BY <2>2, <2>3 DEF NoPhantom, TypeOK
<1>7. CASE \E c \in Callers : StopBegin(c)
  <2>1. UNCHANGED <<loc, monitored, hung>> /\ shutdown' = TRUE
    BY <1>7 DEF StopBegin, tasks, registry
  <2>2. QED
    BY <2>1 DEF NoPhantom, Exists
<1>8. CASE UNCHANGED <<loc, monitored, hung, shutdown>>
  BY <1>8 DEF NoPhantom, Exists
<1>9. QED
  BY <1>1, <1>2, <1>3, <1>4, <1>5, <1>6, <1>7, <1>8, StepCases
  DEF vars, tasks, registry, manager, CheckTasksHealth, Evaluate, EvaluateMissed, StartDone,
      MainLeaves, StopNothing, SysManagerCleanup, Tick

\* The judgement counts who has been found dead.
LEMMA ShowsKept ==
  ASSUME TypeOK, SilentFound, SilenceShows, [Next]_vars, ~Reboot
  PROVE  SilenceShows'
<1> USE Numbers
<1>1. CASE \E t \in Tasks : RegisterTask(t) \/ TaskHeartbeat(t) \/ UnregisterTask(t)
  <2>1. PICK t \in Tasks : RegisterTask(t) \/ TaskHeartbeat(t) \/ UnregisterTask(t)
    BY <1>1
  <2>2. /\ silent'[t] = 0 /\ \A u \in Tasks : u # t => silent'[u] = silent[u]
        /\ monitored' \subseteq Tasks /\ monitored' \subseteq monitored \union {t}
        /\ UNCHANGED <<safety, health, usable>>
    BY <2>1 DEF RegisterTask, TaskHeartbeat, UnregisterTask, TypeOK, check
  <2>3. QED
    BY <2>2 DEF SilenceShows
<1>2. CASE Evaluate
  <2>1. /\ safety = "evaluate" /\ owner = NoOne
        /\ UNCHANGED <<usable, monitored, silent>>
        /\ \E memory \in MemoryLevels : health' = Worst(memory, TasksHealth)
    BY <1>2 DEF Evaluate, mutex, registry
  <2>2. ASSUME usable, NEW t \in monitored, silent[t] > DeadAfter
        PROVE  health' >= CRITICAL
    <3>1. t \notin alive
      BY <2>1, <2>2 DEF SilentFound, MutexLost
    <3>2. TasksHealth \in 3..4
      BY <2>2, <3>1, DeadShow
    <3>3. QED
      BY <2>1, <3>2 DEF Worst, CRITICAL
  <2>3. QED
    BY <2>1, <2>2 DEF SilenceShows, CRITICAL
<1>3. CASE EvaluateMissed \/ CheckTasksHealth \/ Tick
  <2>1. safety' # "done"
    BY <1>3 DEF EvaluateMissed, CheckTasksHealth, Tick
  <2>2. QED
    BY <2>1 DEF SilenceShows
<1>4. CASE SysManagerCleanup
  BY <1>4 DEF SysManagerCleanup, SilenceShows
<1>5. CASE UNCHANGED <<usable, monitored, silent, safety, health>>
  BY <1>5 DEF SilenceShows
<1>6. QED
  BY <1>1, <1>2, <1>3, <1>4, <1>5, StepCases
  DEF vars, mutex, registry, check, TakeMutex, HeartbeatMissed, Look, Hang, CreateTask, StartDone,
      MainLeaves, StopNothing, StopBegin, StopDelete

-----------------------------------------------------------------------------

LEMMA MonitorStarts ==
  ASSUME Init
  PROVE  IndInv
  BY FreshSound DEF Init, Fresh, GOOD

LEMMA RebootSound == Reboot => IndInv'
<1>1. Reboot => Fresh'
  BY DEF Reboot, Fresh, GOOD
<1>2. Fresh => IndInv
  BY FreshSound
<1>3. QED
  BY <1>1, <1>2, PTL

LEMMA MonitorKeeps ==
  ASSUME IndInv, [Next]_vars
  PROVE  IndInv'
<1>1. CASE Reboot
  BY <1>1, RebootSound
<1>2. CASE ~Reboot
  <2>1. TypeOK' /\ StartUndisturbed' /\ PromptLeave'
    BY <1>2, TypeKept, StartKept, PromptKept DEF IndInv
  <2>2. MutexHeld' /\ StrangersUnknown' /\ SilentFound' /\ DeathsNoticed'
    BY <1>2, MutexKept, StrangersKept, DeathsKept DEF IndInv
  <2>3. NoPhantom' /\ SilenceShows'
    BY <1>2, PhantomKept, ShowsKept DEF IndInv
  <2>4. QED
    BY <2>1, <2>2, <2>3 DEF IndInv
<1>3. QED
  BY <1>1, <1>2

\* The invariant holds from the start on.
THEOREM MonitorInvariance == Spec => []IndInv
<1>1. Init => IndInv
  BY MonitorStarts
<1>2. IndInv /\ [Next]_vars => IndInv'
  BY MonitorKeeps
<1>3. QED
  BY <1>1, <1>2, PTL DEF Spec

\* Every variable keeps its type.
THEOREM MonitorTypeCorrect == Spec => []TypeOK
<1>1. IndInv => TypeOK
  BY DEF IndInv
<1>2. QED
  BY <1>1, MonitorInvariance, PTL

\* A task that no longer beats is marked dead in time, and one that runs is not marked
\* dead before, unless the mutex has gone or was deleted with its holder.
THEOREM DeathsAlwaysNoticed == Spec => []DeathsNoticed
<1>1. IndInv => DeathsNoticed
  BY DEF IndInv
<1>2. QED
  BY <1>1, MonitorInvariance, PTL

\* Apart from the event handler task, who is gone and monitored was slow or hung and
\* has been deleted by task_manager_stop.
THEOREM NobodyIsPhantom == Spec => []NoPhantom
<1>1. IndInv => NoPhantom
  BY DEF IndInv
<1>2. QED
  BY <1>1, MonitorInvariance, PTL

\* A silent task makes the health CRITICAL or worse by the end of the second.
THEOREM SilenceAlwaysShows == Spec => []SilenceShows
<1>1. IndInv => SilenceShows
  BY DEF IndInv
<1>2. QED
  BY <1>1, MonitorInvariance, PTL

\* task_manager_stop deletes no prompt task by force.
LEMMA KillsLaggards ==
  ASSUME IndInv, [Next]_vars
  PROVE  [\A t \in Workers : Exists(t) /\ loc'[t] = "gone" /\ t \in monitored'
            => t \in Slow \union hung]_vars
<1> USE Numbers
<1> SUFFICES ASSUME NEW t \in Workers, Exists(t), loc'[t] = "gone", t \in monitored'
             PROVE  t \in Slow \union hung
  OBVIOUS
<1>1. CASE \E u \in Tasks : \/ TakeMutex(u) \/ RegisterTask(u) \/ TaskHeartbeat(u)
                            \/ HeartbeatMissed(u) \/ Look(u)
  <2>1. PICK u \in Tasks : \/ TakeMutex(u) \/ RegisterTask(u) \/ TaskHeartbeat(u)
                           \/ HeartbeatMissed(u) \/ Look(u)
    BY <1>1
  <2>2. (loc'[u] = "gone" => u = Handler) /\ \A v \in Tasks : v # u => loc'[v] = loc[v]
    BY <2>1, Moves DEF TakeMutex, RegisterTask, TaskHeartbeat, HeartbeatMissed, Look, Places, IndInv
  <2>3. QED
    BY <2>2 DEF Exists
<1>2. CASE \E u \in Tasks : UnregisterTask(u)
  <2>1. PICK u \in Tasks : UnregisterTask(u)
    BY <1>2
  <2>2. u \notin monitored' /\ \A v \in Tasks : v # u => loc'[v] = loc[v]
    BY <2>1, Moves DEF UnregisterTask, Places, IndInv
  <2>3. QED
    BY <2>2 DEF Exists
<1>3. CASE \E c \in Callers : StopDelete(c)
  BY <1>3, StoppedAreLaggards DEF IndInv
<1>4. CASE \E u \in Workers : CreateTask(u)
  BY <1>4 DEF CreateTask, Exists, IndInv, TypeOK
<1>5. CASE Reboot
  <2>1. loc'[t] = "none"
    BY <1>5 DEF Reboot
  <2>2. QED
    BY <2>1
<1>6. CASE loc' = loc
  BY <1>6 DEF Exists
<1>7. QED
  BY <1>1, <1>2, <1>3, <1>4, <1>5, <1>6, StepCases
  DEF vars, tasks, Hang, CheckTasksHealth, Evaluate, EvaluateMissed, StartDone, MainLeaves,
      StopNothing, StopBegin, SysManagerCleanup, Tick

\* What task_manager_stop has to delete by force is slow or hangs: its wait is long enough
\* for every other task.
THEOREM OnlyLaggardsAreKilled == Spec => OnlyLaggardsKilled
<1>1. IndInv /\ [Next]_vars
        => [\A t \in Workers : Exists(t) /\ loc'[t] = "gone" /\ t \in monitored'
              => t \in Slow \union hung]_vars
  BY KillsLaggards
<1>2. QED
  BY <1>1, MonitorInvariance, PTL DEF Spec, OnlyLaggardsKilled
=============================================================================
