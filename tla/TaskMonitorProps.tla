-------------------------- MODULE TaskMonitorProps --------------------------
(***************************************************************************)
(* What the monitoring and the stopping of tasks must guarantee, stated    *)
(* over TaskMonitor.                                                       *)
(***************************************************************************)
EXTENDS TaskMonitor

\* A monitored task that has not beaten for DeadAfter seconds is marked dead within
\* the next one, whatever the other tasks do with the mutex meanwhile, and one that
\* runs is not marked dead before.
DeathsNoticed ==
  \A t \in monitored :
    /\ silent[t] > DeadAfter + 1 => t \notin alive \/ ~usable \/ (owner # NoOne /\ ~Exists(owner))
    /\ t \notin alive /\ Exists(t) => silent[t] > DeadAfter

\* A task that is gone is not monitored, so that no freed control block is looked at:
\* except for the event handler task, which never unregisters itself, and for tasks
\* that task_manager_stop has deleted.
NoPhantom ==
  \A t \in monitored \ {Handler} : ~Exists(t) => shutdown /\ t \in Slow \union hung

\* task_manager_stop waits long enough: what it has to delete by force is a task with
\* a long period or one that hangs.
OnlyLaggardsKilled ==
  [][\A t \in Workers : Exists(t) /\ loc'[t] = "gone" /\ t \in monitored'
       => t \in Slow \union hung]_vars

\* A task that has been silent for too long shows in the health of the system by the
\* end of the second, unless the judging had to do without the mutex.
SilenceShows ==
  safety = "done" /\ usable
    => \A t \in monitored : silent[t] > DeadAfter => health >= CRITICAL
-----------------------------------------------------------------------------
(* The inductive invariant.                                                *)

\* The tasks that obey a request to stop within a second.
Prompt == Tasks \ (Slow \union hung)

\* Nobody stops what is being started, and a wait for the end is a shutdown.
StartUndisturbed ==
  /\ main = "start" => ~shutdown /\ ~started
  /\ \A c \in Callers : stopping[c] # -1 => shutdown

\* One second after the request the prompt tasks are in their last round, and after
\* two they are gone.
PromptLeave ==
  /\ \A t \in Tasks \ Slow : due[t] <= 1
  /\ \A c \in Callers : stopping[c] # -1 =>
       /\ stopping[c] < StopWait => \A t \in Prompt : Exists(t) => due[t] = 0
       /\ stopping[c] < StopWait - 1 => \A t \in Prompt : ~Exists(t)

\* Who is inside register, heartbeat or unregister has the mutex, and only a task that
\* has been created.
MutexHeld ==
  /\ usable => \A t \in Tasks : loc[t] \in {"registering", "beating", "leaving"} => owner = t
  /\ owner # NoOne => loc[owner] # "none"

\* A task not created yet is not monitored.
StrangersUnknown == \A t \in Tasks : loc[t] = "none" => t \notin monitored

\* The mutex is gone, or so is the task that had it.
MutexLost == ~usable \/ (owner # NoOne /\ ~Exists(owner))

\* Nobody stays alive for long in silence: only until the check of this second.
SilentFound ==
  \A t \in monitored \intersect alive :
    silent[t] > DeadAfter => MutexLost \/ (safety = "due" /\ silent[t] <= DeadAfter + 1)

IndInv ==
  /\ TypeOK /\ StartUndisturbed /\ PromptLeave /\ MutexHeld /\ StrangersUnknown /\ SilentFound
  /\ DeathsNoticed /\ NoPhantom /\ SilenceShows
=============================================================================
