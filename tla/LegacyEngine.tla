----------------------------- MODULE LegacyEngine -----------------------------
(***************************************************************************)
(* The engine part of the version 1 firmware (sketch_jun13a12.ino).  One   *)
(* pin presses the start button: a short and a long press to start, one    *)
(* press to stop, each followed by a wait and a look at the speed.  Two    *)
(* tasks of one priority share engCtrl without a lock: the loop, which     *)
(* takes the steps and handles commands, and the update task, which runs   *)
(* the same callback while it waits for a report to go out                 *)
(* (publishSyncAndWait), so handlers are modelled statement by statement.  *)
(***************************************************************************)
EXTENDS Integers

CONSTANT Commands  \* bound: the values of onff the platform sends

ASSUME CommandsAssumption == Commands \subseteq BOOLEAN

Tasks == {"loop", "updates"}

VARIABLES
  action,        \* engCtrl.action
  step,          \* engCtrl.step, which keeps its value after a sequence
  due,           \* the time of the current step has passed since engCtrl.ts
  pin,           \* ENGINE_CONTROL_PIN is high: the button is pressed
  deviceStatus,  \* the state the device reports as its own
  devStatus,     \* gConfig.deviceStatus, in flash under the key devStatus
  running,       \* isEngineRunning(): the mean speed is over the threshold
  lastRunning,   \* lastEngineRunning: the last such value that was acted upon
  settled,       \* ENGINE_DEBOUNCE_TIME has passed since lastEngineChangeTime
  at,            \* where each task is between two statements
  want,          \* the sequence it stores, or whose branch the loop is in
  next,          \* the step the loop is about to store
  saw            \* the speed the loop is about to act upon

sequence == <<action, step, due>>
status   == <<deviceStatus, devStatus>>
engine   == <<running, lastRunning, settled>>
local    == <<at, want, next, saw>>
engineVars == <<sequence, pin, status, engine, local>>

Actions == {"NONE", "START", "STOP"}

\* Every variable of the engine part keeps its type.
EngineTypeOK ==
  /\ action \in Actions /\ step \in 0..4
  /\ {due, pin, deviceStatus, devStatus, running, lastRunning, settled, saw} \subseteq BOOLEAN
  /\ at \in [Tasks -> {"free", "save", "update", "store", "storeStep", "storeAction",
                       "press", "judge", "verdict", "detect"}]
  /\ want \in [Tasks -> Actions] /\ next \in 0..4

EngineInit ==
  /\ action = "NONE" /\ step = 0 /\ due = FALSE /\ pin = FALSE
  /\ devStatus = FALSE /\ running \in BOOLEAN
  /\ deviceStatus = running /\ lastRunning = running /\ settled = FALSE
  /\ at = [t \in Tasks |-> "free"] /\ want = [t \in Tasks |-> "NONE"]
  /\ next = 0 /\ saw = FALSE

\* A restart and its setup: the pin is released and the saved state taken over, unless
\* the speed measured since shows a running engine.
EngineBoot ==
  /\ action' = "NONE" /\ step' = 0 /\ due' = FALSE /\ pin' = FALSE
  /\ running' \in BOOLEAN /\ lastRunning' = running' /\ settled' = FALSE
  /\ deviceStatus' = (devStatus \/ running') /\ UNCHANGED devStatus
  /\ at' = [t \in Tasks |-> "free"] /\ want' = [t \in Tasks |-> "NONE"]
  /\ next' = 0 /\ saw' = FALSE

Goes(t, from, to) == at[t] = from /\ at' = [at EXCEPT ![t] = to]

-----------------------------------------------------------------------------
(* mqttCallback, in either task.                                           *)

\* property/set with onff; the desired reply does the same, but saves nothing.
SetOnff(t) ==
  /\ \E on \in Commands : deviceStatus' = on
  /\ Goes(t, "free", "save") \/ Goes(t, "free", "update")
  /\ UNCHANGED <<sequence, pin, devStatus, engine, want, next, saw>>

SaveOnff(t) ==
  /\ Goes(t, "save", "update") /\ devStatus' = deviceStatus
  /\ UNCHANGED <<sequence, pin, deviceStatus, engine, want, next, saw>>

\* updateEngineState, then startEngineAsync or stopEngineAsync: the engine is not as it
\* should be and no sequence is under way.  The state is read again, not what was set.
FreeAlways == TRUE  \* faulty: a sequence under way is no obstacle
Free == action = "NONE"

UpdateEngineState(t) ==
  /\ IF deviceStatus # running /\ Free
     THEN Goes(t, "update", "store")
     ELSE Goes(t, "update", "free")
  /\ want' = [want EXCEPT ![t] = IF deviceStatus THEN "START" ELSE "STOP"]
  /\ UNCHANGED <<sequence, pin, status, engine, next, saw>>

\* engCtrl = {action, 0, millis()}: the stores come in the order the compiler chooses.
StoreAction(t) ==
  /\ Goes(t, "store", "storeStep") \/ Goes(t, "storeAction", "free")
  /\ action' = want[t]
  /\ UNCHANGED <<step, due, pin, status, engine, want, next, saw>>

StoreStep(t) ==
  /\ Goes(t, "store", "storeAction") \/ Goes(t, "storeStep", "free")
  /\ step' = 0 /\ due' = FALSE
  /\ UNCHANGED <<action, pin, status, engine, want, next, saw>>

Callback(t) == SaveOnff(t) \/ UpdateEngineState(t) \/ StoreAction(t) \/ StoreStep(t)

\* A task is between the test for a sequence and the last store.
Storing(t) == at[t] \in {"store", "storeStep", "storeAction"}

-----------------------------------------------------------------------------
(* Time and the engine.                                                    *)

\* updateRPM: once a second the mean of four samples crosses the threshold or does not.
Sense ==
  /\ running' = ~running
  /\ UNCHANGED <<sequence, pin, status, lastRunning, settled, local>>

\* The time of the current step is over.  It is longer than the few statements between
\* the test and the stores: the tasks take turns every millisecond, steps last 100 or more.
StepElapses ==
  /\ action # "NONE" /\ step > 0 /\ ~due /\ due' = TRUE
  /\ \A t \in Tasks : ~Storing(t)
  /\ UNCHANGED <<action, step, pin, status, engine, local>>

DebounceElapses ==
  /\ ~settled /\ settled' = TRUE
  /\ UNCHANGED <<sequence, pin, status, running, lastRunning, local>>

-----------------------------------------------------------------------------
(* The loop.                                                               *)

\* An engine that has started or stopped by itself decides what the state is.
SeeChange ==
  /\ running # lastRunning /\ settled
  /\ Goes("loop", "free", "detect") /\ saw' = running /\ settled' = FALSE
  /\ UNCHANGED <<sequence, pin, status, running, lastRunning, want, next>>

DetectChange ==
  /\ Goes("loop", "detect", "free")
  /\ deviceStatus' = saw /\ lastRunning' = saw
  /\ UNCHANGED <<sequence, pin, devStatus, running, settled, want, next, saw>>

\* handleEngineFSM: the button goes down, up, down and up again, or down and up once.
LastStep == IF action = "START" THEN 4 ELSE 2

Press ==
  /\ action # "NONE" /\ step < LastStep /\ (step = 0 \/ due)
  /\ Goes("loop", "free", "press")
  /\ pin' = (step \in {0, 2}) /\ next' = step + 1
  /\ UNCHANGED <<sequence, status, engine, want, saw>>

NextStep ==
  /\ Goes("loop", "press", "free")
  /\ step' = next /\ due' = FALSE
  /\ UNCHANGED <<action, pin, status, engine, want, next, saw>>

\* The last step: the state falls back if the engine did not follow.
Judge ==
  /\ action # "NONE" /\ step = LastStep /\ due
  /\ Goes("loop", "free", "judge")
  /\ saw' = running /\ want' = [want EXCEPT !["loop"] = action]
  /\ UNCHANGED <<sequence, pin, status, engine, next>>

Fallback ==
  /\ Goes("loop", "judge", "verdict")
  /\ deviceStatus' = (IF want["loop"] = "START" THEN deviceStatus /\ saw
                                                ELSE deviceStatus \/ saw)
  /\ UNCHANGED <<sequence, pin, devStatus, engine, want, next, saw>>

OverNever == UNCHANGED action  \* faulty: only the state is set
Over == action' = "NONE"

EndSequence ==
  /\ Goes("loop", "verdict", "free") /\ Over
  /\ UNCHANGED <<step, due, pin, status, engine, want, next, saw>>

HandleEngineFSM == Press \/ Judge
LoopGoesOn == NextStep \/ Fallback \/ EndSequence \/ DetectChange
-----------------------------------------------------------------------------
EngineNext ==
  \/ EngineBoot \/ Sense \/ StepElapses \/ DebounceElapses
  \/ SeeChange \/ HandleEngineFSM \/ LoopGoesOn
  \/ \E t \in Tasks : SetOnff(t) \/ Callback(t)

EngineSpec == EngineInit /\ [][EngineNext]_engineVars

\* Tasks finish what they have begun, time passes whatever else happens, and every pass
\* of the loop looks at the sequence after at most one message.
EngineFairSpec ==
  /\ EngineSpec
  /\ WF_engineVars(LoopGoesOn) /\ \A t \in Tasks : WF_engineVars(Callback(t))
  /\ SF_engineVars(StepElapses) /\ SF_engineVars(HandleEngineFSM)

-----------------------------------------------------------------------------
(* Properties.                                                             *)

\* A pressed button is in a sequence with a release still to come, although the update
\* task may overwrite action and step of engCtrl while the loop is pressing: there is no
\* other code that releases it.
ReleaseAhead == pin => \/ action = "START" /\ step \in 0..3
                       \/ action = "STOP" /\ step \in 0..1

\* Every sequence ends, however the stores of the two tasks fall between the steps: one
\* that did not would swallow all later commands, since only NONE lets a new one begin.
SequenceEnds == action # "NONE" ~> action = "NONE"

(* The inductive invariant behind ReleaseAhead.                            *)

StoresASequence == \A t \in Tasks : Storing(t) => want[t] # "NONE"

\* What the branch the loop is in rests on holds until the loop leaves it.
LoopInBranch ==
  /\ Storing("loop") \/ at["loop"] \in {"judge", "verdict"} => ~pin
  /\ at["loop"] \in {"press", "judge", "verdict"} => action # "NONE"
  /\ at["loop"] = "press" /\ pin => next = 1 \/ (next = 3 /\ action = "START")
  /\ at["loop"] = "storeAction" => ~due

\* While the update task may still overwrite action, the loop has begun a sequence of its
\* own at most, and taken no more than its first step.
BeforeOverwrite ==
  at["updates"] \in {"store", "storeAction"} =>
    /\ at["loop"] \notin {"judge", "verdict"}
    /\ at["loop"] = "press" => next = 1
    /\ pin => step \in 0..1
    /\ action = "NONE" \/ at["loop"] \in {"store", "storeStep"} \/ step = 0 \/ ~due

EngineInv ==
  EngineTypeOK /\ ReleaseAhead /\ StoresASequence /\ LoopInBranch /\ BeforeOverwrite
=============================================================================
