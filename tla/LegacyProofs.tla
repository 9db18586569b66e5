----------------------------- MODULE LegacyProofs -----------------------------
(***************************************************************************)
(* Theorems about the version 1 firmware, for any commands, limits and     *)
(* number of versions: the engine part and the cloud part, each on its     *)
(* own.                                                                    *)
(***************************************************************************)
EXTENDS LegacyEngine, LegacyCloud, TLAPS

-----------------------------------------------------------------------------
(* The engine part.                                                        *)

Places == {"free", "save", "update", "store", "storeStep", "storeAction", "press", "judge",
           "verdict", "detect"}

\* The types one by one.
EngineTyped ==
  /\ action \in Actions /\ step \in 0..4 /\ next \in 0..4
  /\ due \in BOOLEAN /\ pin \in BOOLEAN /\ deviceStatus \in BOOLEAN /\ devStatus \in BOOLEAN
  /\ running \in BOOLEAN /\ lastRunning \in BOOLEAN /\ settled \in BOOLEAN /\ saw \in BOOLEAN
  /\ at \in [Tasks -> Places] /\ want \in [Tasks -> Actions]

LEMMA EngineTypes == (EngineTypeOK <=> EngineTyped) /\ (EngineTypeOK' <=> EngineTyped')
  BY DEF EngineTypeOK, EngineTyped, Places

\* A task that goes on is then where it goes to, and the other stays where it is.
LEMMA Gone ==
  ASSUME NEW t \in Tasks, NEW from, NEW to \in Places, at \in [Tasks -> Places],
         Goes(t, from, to)
  PROVE  /\ at' \in [Tasks -> Places] /\ at[t] = from /\ at'[t] = to
         /\ \A u \in Tasks : u # t => at'[u] = at[u]
  BY DEF Goes

\* Every step keeps the types.
LEMMA EngineKeepsTypes == EngineTyped /\ [EngineNext]_engineVars => EngineTyped'
<1> SUFFICES ASSUME EngineTyped, [EngineNext]_engineVars PROVE EngineTyped'
  OBVIOUS
<1> USE DEF EngineTyped, Actions, sequence, status, engine, local
<1>1. CASE EngineBoot
  <2>1. at' \in [Tasks -> Places] /\ want' \in [Tasks -> Actions]
    BY <1>1 DEF EngineBoot, Places
  <2>2. deviceStatus' \in BOOLEAN /\ running' \in BOOLEAN
    BY <1>1 DEF EngineBoot
  <2>3. action' \in Actions /\ step' \in 0..4 /\ next' \in 0..4
    BY <1>1 DEF EngineBoot
  <2>4. QED
    BY <1>1, <2>1, <2>2, <2>3 DEF EngineBoot
<1>2. CASE Sense \/ StepElapses \/ DebounceElapses
  <2>1. CASE Sense
    BY <2>1 DEF Sense
  <2>2. CASE StepElapses
    BY <2>2 DEF StepElapses
  <2>3. CASE DebounceElapses
    BY <2>3 DEF DebounceElapses
  <2>4. QED
    BY <1>2, <2>1, <2>2, <2>3
<1>3. CASE SeeChange \/ DetectChange
  <2>1. at' \in [Tasks -> Places]
    BY <1>3, Gone DEF SeeChange, DetectChange, Tasks, Places
  <2>2. QED
    BY <1>3, <2>1 DEF SeeChange, DetectChange
<1>4. CASE Press \/ NextStep
  <2>1. at' \in [Tasks -> Places]
    BY <1>4, Gone DEF Press, NextStep, Tasks, Places
  <2>2. next' \in 0..4 /\ step' \in 0..4
    BY <1>4 DEF Press, NextStep, LastStep
  <2>3. pin' \in BOOLEAN
    <3>1. CASE Press
      <4>1. pin' = (step \in {0, 2})
        BY <3>1 DEF Press
      <4>2. QED
        BY <4>1
    <3>2. CASE NextStep
      BY <3>2 DEF NextStep
    <3>3. QED
      BY <1>4, <3>1, <3>2
  <2>4. QED
    BY <1>4, <2>1, <2>2, <2>3 DEF Press, NextStep
<1>5. CASE Judge
  <2>1. at' \in [Tasks -> Places]
    BY <1>5, Gone DEF Judge, Tasks, Places
  <2>2. want' \in [Tasks -> Actions]
    BY <1>5 DEF Judge
  <2>3. QED
    BY <1>5, <2>1, <2>2 DEF Judge
<1>6. CASE Fallback \/ EndSequence
  <2>1. at' \in [Tasks -> Places]
    BY <1>6, Gone DEF Fallback, EndSequence, Tasks, Places
  <2>2. deviceStatus' \in BOOLEAN
    BY <1>6 DEF Fallback, EndSequence
  <2>3. action' \in Actions
    BY <1>6 DEF Fallback, EndSequence, Over
  <2>4. QED
    BY <1>6, <2>1, <2>2, <2>3 DEF Fallback, EndSequence
<1>7. ASSUME NEW t \in Tasks, SetOnff(t) PROVE EngineTyped'
  <2>1. at' \in [Tasks -> Places]
    BY <1>7, Gone DEF SetOnff, Places
  <2>2. deviceStatus' \in BOOLEAN
    BY <1>7, CommandsAssumption DEF SetOnff
  <2>3. QED
    BY <1>7, <2>1, <2>2 DEF SetOnff
<1>8. ASSUME NEW t \in Tasks, Callback(t) PROVE EngineTyped'
  <2>1. at' \in [Tasks -> Places]
    BY <1>8, Gone DEF Callback, SaveOnff, UpdateEngineState, StoreAction, StoreStep, Places
  <2>2. want' \in [Tasks -> Actions]
    BY <1>8 DEF Callback, SaveOnff, UpdateEngineState, StoreAction, StoreStep
  <2>3. action' \in Actions
    BY <1>8 DEF Callback, SaveOnff, UpdateEngineState, StoreAction, StoreStep
  <2>4. step' \in 0..4
    BY <1>8 DEF Callback, SaveOnff, UpdateEngineState, StoreAction, StoreStep
  <2>5. due' \in BOOLEAN
    BY <1>8 DEF Callback, SaveOnff, UpdateEngineState, StoreAction, StoreStep
  <2>6. QED
    BY <1>8, <2>1, <2>2, <2>3, <2>4, <2>5
    DEF Callback, SaveOnff, UpdateEngineState, StoreAction, StoreStep
<1>9. CASE UNCHANGED engineVars
  BY <1>9 DEF engineVars
<1>10. QED
  BY <1>1, <1>2, <1>3, <1>4, <1>5, <1>6, <1>7, <1>8, <1>9
  DEF EngineNext, HandleEngineFSM, LoopGoesOn

\* The parts of the invariant about the two tasks, and the same with the tasks by name.
Safe == ReleaseAhead /\ StoresASequence /\ LoopInBranch /\ BeforeOverwrite

Stores == {"store", "storeStep", "storeAction"}

SafeByName ==
  /\ pin => (action = "START" /\ step \in 0..3) \/ (action = "STOP" /\ step \in 0..1)
  /\ at["loop"] \in Stores => want["loop"] # "NONE"
  /\ at["updates"] \in Stores => want["updates"] # "NONE"
  /\ at["loop"] \in Stores \cup {"judge", "verdict"} => ~pin
  /\ at["loop"] \in {"press", "judge", "verdict"} => action # "NONE"
  /\ at["loop"] = "press" /\ pin => next = 1 \/ (next = 3 /\ action = "START")
  /\ at["loop"] = "storeAction" => ~due
  /\ at["updates"] \in {"store", "storeAction"} =>
       /\ at["loop"] \notin {"judge", "verdict"}
       /\ at["loop"] = "press" => next = 1
       /\ pin => step \in 0..1
       /\ action = "NONE" \/ at["loop"] \in {"store", "storeStep"} \/ step = 0 \/ ~due

LEMMA ByName == (Safe <=> SafeByName) /\ (Safe' <=> SafeByName')
  BY DEF Safe, SafeByName, ReleaseAhead, StoresASequence, LoopInBranch, BeforeOverwrite,
         Storing, Stores, Tasks

\* A step of the loop outside the callback.
LEMMA LoopKeeps ==
  EngineTyped /\ SafeByName /\ (SeeChange \/ HandleEngineFSM \/ LoopGoesOn) => SafeByName'
<1> SUFFICES ASSUME EngineTyped, SafeByName, SeeChange \/ HandleEngineFSM \/ LoopGoesOn
             PROVE  SafeByName'
  OBVIOUS
<1> USE DEF Stores, sequence, status, engine
<1>1. /\ at'["updates"] = at["updates"] /\ want'["updates"] = want["updates"]
      /\ want["loop"] \in Actions /\ step \in 0..4 /\ next \in 0..4
  BY DEF SeeChange, HandleEngineFSM, LoopGoesOn, Press, NextStep, Judge, Fallback, EndSequence,
         DetectChange, Goes, EngineTyped, Tasks
<1>2. CASE SeeChange \/ DetectChange \/ Fallback
  <2>1. /\ at'["loop"] \in {"detect", "free", "verdict"}
        /\ at'["loop"] = "verdict" => at["loop"] = "judge"
    BY <1>2 DEF SeeChange, DetectChange, Fallback, Goes, EngineTyped, Tasks
  <2>2. /\ action' = action /\ step' = step /\ due' = due /\ pin' = pin
        /\ at["loop"] \in {"free", "detect", "judge"}
    BY <1>2 DEF SeeChange, DetectChange, Fallback, Goes
  <2>3. QED
    BY <1>1, <2>1, <2>2 DEF SafeByName
<1>3. CASE Press
  <2>1. /\ action # "NONE" /\ step < LastStep /\ (step = 0 \/ due)
        /\ next' = step + 1 /\ action' = action /\ step' = step /\ due' = due
    BY <1>3 DEF Press
  <2>2. at["loop"] = "free" /\ at'["loop"] = "press"
    BY <1>3 DEF Press, Goes, EngineTyped, Tasks
  <2>3. at["updates"] \in {"store", "storeAction"} => step = 0
    BY <2>1, <2>2 DEF SafeByName
  <2>4. pin' => step \in {0, 2}
    BY <1>3, Zenon DEF Press
  <2>5. action \in {"START", "STOP"} /\ (action = "STOP" => step < 2)
    BY <2>1 DEF LastStep, EngineTyped, Actions
  <2>6. pin' => step = 0 \/ (step = 2 /\ action = "START")
    BY <2>4, <2>5
  <2>7. QED
    BY <1>1, <2>1, <2>2, <2>3, <2>5, <2>6 DEF SafeByName
<1>4. CASE NextStep
  <2>1. at["loop"] = "press" /\ at'["loop"] = "free"
    BY <1>4 DEF NextStep, Goes, EngineTyped, Tasks
  <2>2. step' = next /\ due' = FALSE /\ action' = action /\ pin' = pin
    BY <1>4 DEF NextStep
  <2>3. action \in {"START", "STOP"}
    BY <2>1 DEF SafeByName, EngineTyped, Actions
  <2>4. QED
    BY <1>1, <2>1, <2>2, <2>3 DEF SafeByName
<1>5. CASE Judge
  <2>1. /\ action # "NONE" /\ step = LastStep /\ due
        /\ action' = action /\ step' = step /\ due' = due /\ pin' = pin
    BY <1>5 DEF Judge
  <2>2. at["loop"] = "free" /\ at'["loop"] = "judge"
    BY <1>5 DEF Judge, Goes, EngineTyped, Tasks
  <2>3. step # 0 /\ ~pin
    BY <2>1 DEF LastStep, SafeByName
  <2>4. QED
    BY <1>1, <2>1, <2>2, <2>3 DEF SafeByName
<1>6. CASE EndSequence
  <2>1. at["loop"] = "verdict" /\ at'["loop"] = "free"
    BY <1>6 DEF EndSequence, Goes, EngineTyped, Tasks
  <2>2. action' = "NONE" /\ step' = step /\ due' = due /\ pin' = pin
    BY <1>6 DEF EndSequence, Over
  <2>3. QED
    BY <1>1, <2>1, <2>2 DEF SafeByName
<1>7. QED
  BY <1>2, <1>3, <1>4, <1>5, <1>6 DEF HandleEngineFSM, LoopGoesOn

\* A statement of the callback, in either task.
LEMMA CallbackKeeps ==
  ASSUME EngineTyped, SafeByName, NEW t \in Tasks, SetOnff(t) \/ Callback(t)
  PROVE  SafeByName'
<1> USE DEF Stores, sequence, status, engine
<1>1. t = "loop" \/ t = "updates"
  BY DEF Tasks
<1>2. /\ t # "loop" => at'["loop"] = at["loop"] /\ want'["loop"] = want["loop"]
      /\ t # "updates" => at'["updates"] = at["updates"] /\ want'["updates"] = want["updates"]
      /\ pin' = pin /\ next' = next
  BY DEF SetOnff, Callback, SaveOnff, UpdateEngineState, StoreAction, StoreStep, Goes,
         EngineTyped, Tasks
<1>3. CASE SetOnff(t) \/ SaveOnff(t)
  <2>1. at[t] \in {"free", "save"} /\ at'[t] \in {"save", "update"}
    BY <1>3 DEF SetOnff, SaveOnff, Goes, EngineTyped
  <2>2. action' = action /\ step' = step /\ due' = due
    BY <1>3 DEF SetOnff, SaveOnff
  <2>3. QED
    BY <1>1, <1>2, <2>1, <2>2 DEF SafeByName
<1>4. CASE UpdateEngineState(t)
  <2>1. action' = action /\ step' = step /\ due' = due
    BY <1>4 DEF UpdateEngineState
  <2>2. want'[t] \in {"START", "STOP"}
    BY <1>4 DEF UpdateEngineState, EngineTyped
  <2>3. /\ at[t] = "update"
        /\ \/ at'[t] = "free"
           \/ at'[t] = "store" /\ action = "NONE"
    BY <1>4 DEF UpdateEngineState, Goes, Free, EngineTyped
  <2>4. QED
    BY <1>1, <1>2, <2>1, <2>2, <2>3 DEF SafeByName
<1>5. CASE StoreAction(t)
  <2>1. action' = want[t] /\ step' = step /\ due' = due /\ want' = want
    BY <1>5 DEF StoreAction
  <2>2. \/ at[t] = "store" /\ at'[t] = "storeStep"
        \/ at[t] = "storeAction" /\ at'[t] = "free"
    BY <1>5 DEF StoreAction, Goes, EngineTyped
  <2>3. want[t] \in {"START", "STOP"}
    BY <1>1, <2>2 DEF SafeByName, EngineTyped, Actions
  <2>4. CASE t = "loop"
    BY <1>2, <2>1, <2>2, <2>3, <2>4 DEF SafeByName
  <2>5. CASE t = "updates"
    BY <1>2, <2>1, <2>2, <2>3, <2>5 DEF SafeByName
  <2>6. QED
    BY <1>1, <2>4, <2>5
<1>6. CASE StoreStep(t)
  <2>1. action' = action /\ step' = 0 /\ due' = FALSE /\ want' = want
    BY <1>6 DEF StoreStep
  <2>2. \/ at[t] = "store" /\ at'[t] = "storeAction"
        \/ at[t] = "storeStep" /\ at'[t] = "free"
    BY <1>6 DEF StoreStep, Goes, EngineTyped
  <2>3. CASE t = "loop"
    BY <1>2, <2>1, <2>2, <2>3 DEF SafeByName
  <2>4. CASE t = "updates"
    BY <1>2, <2>1, <2>2, <2>4 DEF SafeByName
  <2>5. QED
    BY <1>1, <2>3, <2>4
<1>7. QED
  BY <1>3, <1>4, <1>5, <1>6 DEF Callback

\* Every step keeps the invariant.
LEMMA EngineKeeps == EngineInv /\ [EngineNext]_engineVars => EngineInv'
<1> SUFFICES ASSUME EngineTyped, SafeByName, [EngineNext]_engineVars
             PROVE  EngineTyped' /\ SafeByName'
  BY EngineTypes, ByName DEF EngineInv, Safe
<1> USE DEF Stores
<1>1. EngineTyped'
  BY EngineKeepsTypes
<1>2. CASE EngineBoot
  <2>1. action' = "NONE" /\ ~pin' /\ ~due'
    BY <1>2 DEF EngineBoot
  <2>2. at'["loop"] = "free" /\ at'["updates"] = "free"
    BY <1>2 DEF EngineBoot, Tasks
  <2>3. QED
    BY <1>1, <2>1, <2>2 DEF SafeByName
<1>3. CASE Sense \/ DebounceElapses \/ UNCHANGED engineVars
  <2>1. /\ action' = action /\ step' = step /\ due' = due /\ pin' = pin
        /\ at' = at /\ want' = want /\ next' = next
    BY <1>3 DEF Sense, DebounceElapses, engineVars, sequence, local
  <2>2. QED
    BY <1>1, <2>1 DEF SafeByName
<1>4. CASE StepElapses
  <2>1. /\ action' = action /\ step' = step /\ pin' = pin
        /\ at' = at /\ want' = want /\ next' = next
    BY <1>4 DEF StepElapses, local
  <2>2. at["loop"] \notin Stores /\ at["updates"] \notin Stores
    BY <1>4 DEF StepElapses, Storing, Tasks
  <2>3. QED
    BY <1>1, <2>1, <2>2 DEF SafeByName
<1>5. CASE SeeChange \/ HandleEngineFSM \/ LoopGoesOn
  BY <1>1, <1>5, LoopKeeps
<1>6. ASSUME NEW t \in Tasks, SetOnff(t) \/ Callback(t) PROVE SafeByName'
  BY <1>6, CallbackKeeps
<1>7. QED
  BY <1>1, <1>2, <1>3, <1>4, <1>5, <1>6 DEF EngineNext

\* EngineInv is an invariant of the engine part, for any commands to either task.
THEOREM EngineInvariance == EngineSpec => []EngineInv
<1>1. EngineInit => EngineInv
  <2>1. ASSUME EngineInit PROVE EngineTyped
    <3>1. at \in [Tasks -> Places] /\ want \in [Tasks -> Actions]
      BY <2>1 DEF EngineInit, Actions, Places
    <3>2. action \in Actions /\ step \in 0..4 /\ next \in 0..4
      BY <2>1 DEF EngineInit, Actions
    <3>3. QED
      BY <2>1, <3>1, <3>2 DEF EngineInit, EngineTyped
  <2>2. ASSUME EngineInit PROVE Safe
    BY <2>2 DEF EngineInit, Safe, ReleaseAhead, StoresASequence, LoopInBranch,
                BeforeOverwrite, Storing, Tasks
  <2>3. QED
    BY <2>1, <2>2, EngineTypes DEF EngineInv, Safe
<1>2. QED
  BY <1>1, EngineKeeps, PTL DEF EngineSpec

\* Its variables keep their types.
THEOREM EngineTypeCorrect == EngineSpec => []EngineTypeOK
<1>1. EngineInv => EngineTypeOK
  BY DEF EngineInv
<1>2. QED
  BY <1>1, EngineInvariance, PTL

\* A pressed button always has its release ahead of it.
THEOREM ButtonIsReleased == EngineSpec => []ReleaseAhead
<1>1. EngineInv => ReleaseAhead
  BY DEF EngineInv
<1>2. QED
  BY <1>1, EngineInvariance, PTL

-----------------------------------------------------------------------------
(* The cloud part.                                                         *)

\* The types one by one.
CloudTyped ==
  /\ up \in BOOLEAN /\ wifi \in BOOLEAN /\ hears \in BOOLEAN /\ mqtt \in BOOLEAN
  /\ canDial \in BOOLEAN /\ canAsk \in BOOLEAN
  /\ dialling \in BOOLEAN /\ badToken \in BOOLEAN /\ synced \in BOOLEAN /\ force \in BOOLEAN
  /\ busy \in BOOLEAN /\ wasOn \in BOOLEAN /\ reset \in BOOLEAN
  /\ lost \in 0..LostLimit /\ failed \in 0..MaxFailed /\ tries \in 0..MaxTries
  /\ update \in {"first", "look", "sleep", "check", "ask", "found", "begin", "download", "note",
                 "save", "restart", "rejoin"}
  /\ offer \in Versions /\ image \in Versions /\ record \in {0} \cup Versions

LEMMA CloudTypes == (CloudTypeOK <=> CloudTyped) /\ (CloudTypeOK' <=> CloudTyped')
  BY DEF CloudTypeOK, CloudTyped

\* The invariant with the types one by one.
CloudKept == CloudTyped /\ VersionsInOrder

LEMMA KeptIsInv == (CloudKept <=> CloudInv) /\ (CloudKept' <=> CloudInv')
  BY CloudTypes DEF CloudKept, CloudInv

LEMMA VersionNumbers == 1 \in Versions /\ Versions \subseteq Nat
  BY CloudAssumption DEF Versions

\* After a restart there is no update under way.
LEMMA RestartKeeps == CloudKept /\ Restart => CloudKept'
<1> SUFFICES ASSUME CloudKept, Restart PROVE CloudKept'
  OBVIOUS
<1>1. lost' = 0 /\ failed' = 0 /\ tries' = 0 /\ offer' = 1 /\ update' = "first" /\ ~up'
  BY DEF Restart, Forgotten
<1>2. 0 \in 0..LostLimit /\ 0 \in 0..MaxFailed /\ 0 \in 0..MaxTries
  BY CloudAssumption
<1>3. CloudTyped'
  BY <1>1, <1>2, VersionNumbers DEF CloudKept, CloudTyped, Restart, Forgotten, flash
<1>4. VersionsInOrder'
  BY <1>1 DEF VersionsInOrder
<1>5. QED
  BY <1>3, <1>4 DEF CloudKept

\* Setup puts the recorded version right.
LEMMA SetupKeeps == CloudKept /\ CloudSetup => CloudKept'
<1> SUFFICES ASSUME CloudKept, CloudSetup PROVE CloudKept'
  OBVIOUS
<1>1. record' \in {0} \cup Versions /\ (record' # 0 => record' >= image')
  BY VersionNumbers DEF CloudKept, CloudTyped, CloudSetup, UpdateFirmwareVersion
<1>2. CloudTyped'
  BY <1>1 DEF CloudKept, CloudTyped, CloudSetup, radio, link, ota, flash
<1>3. VersionsInOrder'
  BY <1>1 DEF CloudKept, VersionsInOrder, CloudSetup, ota
<1>4. QED
  BY <1>2, <1>3 DEF CloudKept

\* The network and the messages leave the update and the versions alone, except for the
\* command that changes the record.
Network ==
  \/ Associate \/ LoseWifi \/ LoseMqtt \/ Vary \/ Tick \/ WatchWifi \/ TokenOld \/ RefreshToken
  \/ CountFailure \/ BeginDial \/ DialSucceeds \/ (DialFails /\ ~Restart)
  \/ TokenRefused \/ DesiredReply \/ StartUpdate \/ ResetVersion

LEMMA NetworkKeeps == CloudKept /\ Network => CloudKept'
<1> SUFFICES ASSUME CloudKept, Network PROVE CloudKept'
  OBVIOUS
<1> USE CloudAssumption DEF CloudKept, radio, link, ota, flash
<1>1. lost' \in 0..LostLimit
  BY DEF CloudTyped, Network, Associate, LoseWifi, LoseMqtt, Vary, Tick, WatchWifi, TokenOld,
         RefreshToken, CountFailure, BeginDial, DialSucceeds, DialFails, TokenRefused,
         DesiredReply, StartUpdate, ResetVersion
<1>2. failed' \in 0..MaxFailed
  BY DEF CloudTyped, Network, Associate, LoseWifi, LoseMqtt, Vary, Tick, WatchWifi, TokenOld,
         RefreshToken, CountFailure, BeginDial, DialSucceeds, DialFails, TokenRefused,
         DesiredReply, StartUpdate, ResetVersion, Connected
<1>3. up' = up /\ update' = update /\ offer' = offer /\ image' = image /\ tries' = tries
  BY DEF Network, Associate, LoseWifi, LoseMqtt, Vary, Tick, WatchWifi, TokenOld,
         RefreshToken, CountFailure, BeginDial, DialSucceeds, DialFails, TokenRefused,
         DesiredReply, StartUpdate, ResetVersion
<1>4. record' \in {0} \cup Versions /\ reset' \in BOOLEAN /\ (reset' \/ (record' = record /\ reset' = reset))
  <2>1. CASE ResetVersion
    <3>1. record' \in {0} \cup Versions
      BY <2>1 DEF ResetVersion
    <3>2. reset' = TRUE
      BY <2>1 DEF ResetVersion
    <3>3. QED
      BY <3>1, <3>2
  <2>2. CASE ~ResetVersion
    <3>1. record' = record /\ reset' = reset
      BY <2>2 DEF Network, Associate, LoseWifi, LoseMqtt, Vary, Tick, WatchWifi, TokenOld,
             RefreshToken, CountFailure, BeginDial, DialSucceeds, DialFails, TokenRefused,
             DesiredReply, StartUpdate
    <3>2. QED
      BY <3>1 DEF CloudTyped
  <2>3. QED
    BY <2>1, <2>2
<1>5. CloudTyped'
  <2>0. canDial' \in BOOLEAN /\ canAsk' \in BOOLEAN
    BY DEF CloudTyped, Network, Associate, LoseWifi, LoseMqtt, Vary, Tick, WatchWifi, TokenOld,
           RefreshToken, CountFailure, BeginDial, DialSucceeds, DialFails, TokenRefused,
           DesiredReply, StartUpdate, ResetVersion
  <2>1. wifi' \in BOOLEAN /\ mqtt' \in BOOLEAN /\ hears' \in BOOLEAN /\ dialling' \in BOOLEAN
        /\ badToken' \in BOOLEAN
    BY DEF CloudTyped, Network, Associate, LoseWifi, LoseMqtt, Vary, Tick, WatchWifi, TokenOld,
           RefreshToken, CountFailure, BeginDial, DialSucceeds, DialFails, TokenRefused,
           DesiredReply, StartUpdate, ResetVersion, Connected
  <2>2. synced' \in BOOLEAN /\ force' \in BOOLEAN /\ busy' \in BOOLEAN /\ wasOn' \in BOOLEAN
    BY DEF CloudTyped, Network, Associate, LoseWifi, LoseMqtt, Vary, Tick, WatchWifi, TokenOld,
           RefreshToken, CountFailure, BeginDial, DialSucceeds, DialFails, TokenRefused,
           DesiredReply, StartUpdate, ResetVersion, Connected
  <2>3. QED
    BY <1>1, <1>2, <1>3, <1>4, <2>0, <2>1, <2>2 DEF CloudTyped
<1>6. VersionsInOrder'
  BY <1>3, <1>4 DEF VersionsInOrder
<1>7. QED
  BY <1>5, <1>6

\* The update task downloads only what is newer than the record, and notes what it has
\* installed before it goes on.
LEMMA UpdatesKeep == CloudKept /\ Updates /\ ~Restart => CloudKept'
<1> SUFFICES ASSUME CloudKept, Updates, ~Restart PROVE CloudKept'
  OBVIOUS
<1> USE CloudAssumption, VersionNumbers
        DEF CloudKept, CloudTyped, VersionsInOrder, Moves, Done, radio, link, flash
<1>1. CASE FirstRound
  <2>1. synced' \in BOOLEAN
    BY <1>1 DEF FirstRound
  <2>2. CloudTyped'
    BY <1>1, <2>1 DEF FirstRound
  <2>3. VersionsInOrder'
    BY <1>1 DEF FirstRound
  <2>4. QED
    BY <2>2, <2>3
<1>2. CASE Wake \/ NothingToDo \/ TakeRequest \/ DropCheck \/ AskServer \/ CheckFails
  <2>1. /\ update' \in {"look", "sleep", "check", "ask"}
        /\ force' \in BOOLEAN /\ up' = up /\ up
        /\ UNCHANGED <<radio, link, synced, busy, wasOn, tries, offer, flash>>
    BY <1>2 DEF Wake, NothingToDo, TakeRequest, DropCheck, AskServer, CheckFails
  <2>2. CloudTyped'
    BY <2>1
  <2>3. VersionsInOrder'
    <3>1. reset' = reset /\ record' = record /\ image' = image
      BY <2>1
    <3>2. up /\ ~reset /\ record # 0 => record >= image
      BY <1>2 DEF Wake, NothingToDo, TakeRequest, DropCheck, AskServer, CheckFails
    <3>3. QED
      BY <2>1, <3>1, <3>2
  <2>4. QED
    BY <2>2, <2>3
<1>3. CASE CheckFinds \/ PreflightPasses \/ PreflightRefuses
  <2>1. CASE CheckFinds
    BY <2>1 DEF CheckFinds, CurVer
  <2>2. CASE PreflightPasses
    BY <2>2 DEF PreflightPasses
  <2>3. CASE PreflightRefuses
    BY <2>3 DEF PreflightRefuses
  <2>4. QED
    BY <1>3, <2>1, <2>2, <2>3
<1>4. CASE BeginDownload
  <2>1. wasOn' \in BOOLEAN /\ mqtt' \in BOOLEAN
    BY <1>4 DEF BeginDownload
  <2>2. CloudTyped'
    BY <1>4, <2>1 DEF BeginDownload
  <2>3. VersionsInOrder'
    BY <1>4 DEF BeginDownload
  <2>4. QED
    BY <2>2, <2>3
<1>5. CASE NoUpdates
  <2>1. /\ offer' = 1 /\ tries' = 0 /\ ~wasOn' /\ wasOn' \in BOOLEAN
        /\ ~busy' /\ busy' \in BOOLEAN
    BY <1>5 DEF NoUpdates
  <2>2. /\ up /\ update = "download" /\ update' = "sleep"
        /\ UNCHANGED <<up, radio, link, synced, force, flash>>
    BY <1>5 DEF NoUpdates
  <2>3. CloudTyped'
    <3>1. offer' \in Versions /\ tries' \in 0..MaxTries
      BY <2>1
    <3>2. QED
      BY <2>1, <2>2, <3>1
  <2>4. VersionsInOrder'
    BY <2>2
  <2>5. QED
    BY <2>3, <2>4
<1>6. CASE DownloadSucceeds
  BY <1>6 DEF DownloadSucceeds
<1>7. CASE NoteVersion
  BY <1>7 DEF NoteVersion
<1>8. CASE SaveResult
  <2>1. busy' \in BOOLEAN
    BY <1>8 DEF SaveResult
  <2>2. CloudTyped'
    BY <1>8, <2>1 DEF SaveResult
  <2>3. VersionsInOrder'
    BY <1>8 DEF SaveResult
  <2>4. QED
    BY <2>2, <2>3
<1>9. CASE DownloadFails
  <2>1. CASE tries + 1 < MaxTries
    BY <1>9, <2>1 DEF DownloadFails
  <2>2. CASE ~(tries + 1 < MaxTries)
    <3>1. offer' \in Versions /\ tries' \in 0..MaxTries
      BY <1>9, <2>2 DEF DownloadFails, EndFailed
    <3>2. wasOn' = FALSE /\ busy' = FALSE /\ update' \in {"rejoin", "sleep"}
      BY <1>9, <2>2 DEF DownloadFails, EndFailed
    <3>3. UNCHANGED <<up, radio, link, synced, force, flash>>
      BY <1>9 DEF DownloadFails
    <3>4. busy' \in BOOLEAN /\ wasOn' \in BOOLEAN
      BY <3>2
    <3>5. CloudTyped'
      BY <3>1, <3>2, <3>3, <3>4
    <3>6. VersionsInOrder'
      BY <1>9, <3>2, <3>3 DEF DownloadFails
    <3>7. QED
      BY <3>5, <3>6
  <2>3. QED
    BY <2>1, <2>2
<1>10. CASE Rejoin
  <2>1. /\ update = "rejoin" /\ tries < MaxTries /\ tries' = tries + 1
        /\ \/ UNCHANGED <<mqtt, failed>>
           \/ Connected
           \/ (UNCHANGED mqtt /\ failed' \in 0..MaxFailed)
        /\ UNCHANGED <<up, radio, dialling, badToken, synced, force, update, busy, wasOn,
                       offer, flash>>
    <3>1. ASSUME failed < MaxFailed, failed' = failed + 1 PROVE failed' \in 0..MaxFailed
      BY <3>1
    <3>2. QED
      BY <1>10, <3>1 DEF Rejoin
  <2>2. failed' \in 0..MaxFailed
    BY <2>1 DEF Connected
  <2>3. mqtt' \in BOOLEAN
    BY <2>1 DEF Connected
  <2>4. QED
    BY <2>1, <2>2, <2>3
<1>11. CASE Rejoined
  BY <1>11 DEF Rejoined
<1>12. QED
  BY <1>1, <1>2, <1>3, <1>4, <1>5, <1>6, <1>7, <1>8, <1>9, <1>10, <1>11
  DEF Updates, RestartUpdated

-----------------------------------------------------------------------------
(* The cloud part as a whole.                                              *)

LEMMA CloudKeeps == CloudInv /\ [CloudNext]_cloudVars => CloudInv'
<1> SUFFICES ASSUME CloudKept, [CloudNext]_cloudVars PROVE CloudKept'
  BY KeptIsInv
<1>1. CASE Restart
  BY <1>1, RestartKeeps
<1>2. CASE CloudSetup
  BY <1>2, SetupKeeps
<1>3. CASE Updates /\ ~Restart
  BY <1>3, UpdatesKeep
<1>4. CASE (Outside \/ LoopNetwork \/ Callbacks) /\ ~Restart
  <2>1. Network
    BY <1>4 DEF Outside, LoopNetwork, Callbacks, Network, GiveUpWifi, RemoteReboot
  <2>2. QED
    BY <2>1, NetworkKeeps
<1>5. CASE UNCHANGED cloudVars
  BY <1>5 DEF CloudKept, CloudTyped, VersionsInOrder, cloudVars, radio, link, ota, flash
<1>6. QED
  BY <1>1, <1>2, <1>3, <1>4, <1>5 DEF CloudNext, Crash

\* CloudInv is an invariant of the cloud part.
THEOREM CloudInvariance == CloudSpec => []CloudInv
<1>1. CloudInit => CloudInv
  <2> SUFFICES ASSUME CloudInit PROVE CloudKept
    BY KeptIsInv
  <2>1. lost \in 0..LostLimit /\ failed \in 0..MaxFailed /\ tries \in 0..MaxTries
    BY CloudAssumption DEF CloudInit
  <2>2. CloudTyped
    BY <2>1, VersionNumbers DEF CloudInit, CloudTyped
  <2>3. VersionsInOrder
    BY DEF CloudInit, VersionsInOrder
  <2>4. QED
    BY <2>2, <2>3 DEF CloudKept
<1>2. QED
  BY <1>1, CloudKeeps, PTL DEF CloudSpec

\* Its variables keep their types.
THEOREM CloudTypeCorrect == CloudSpec => []CloudTypeOK
<1>1. CloudInv => CloudTypeOK
  BY DEF CloudInv
<1>2. QED
  BY <1>1, CloudInvariance, PTL

\* The image changes only when a download succeeds, and then to a newer one, unless
\* somebody has reset the recorded version or none has been recorded yet.
LEMMA ImageGrows ==
  CloudInv /\ [CloudNext]_cloudVars
    => [image' # image => image' > image \/ reset \/ record = 0]_cloudVars
<1> SUFFICES ASSUME CloudKept, CloudNext, image' # image
             PROVE  image' > image \/ reset \/ record = 0
  BY KeptIsInv
<1>1. CASE DownloadSucceeds
  BY <1>1 DEF DownloadSucceeds, Moves, VersionsInOrder, CloudKept, CloudTyped
<1>2. CASE ~DownloadSucceeds
  <2>1. ~Restart /\ ~CloudSetup /\ ~Network
    BY DEF Restart, CloudSetup, Network, flash, Associate, LoseWifi, LoseMqtt, Vary, Tick,
       WatchWifi, TokenOld, RefreshToken, CountFailure, BeginDial, DialSucceeds, DialFails,
       TokenRefused, DesiredReply, StartUpdate, ResetVersion
  <2>2. Updates
    BY <2>1 DEF CloudNext, Crash, Outside, LoopNetwork, Callbacks, Network, GiveUpWifi,
       RemoteReboot
  <2>3. QED
    BY <1>2, <2>1, <2>2 DEF Updates, FirstRound, Wake, NothingToDo, TakeRequest, DropCheck,
       AskServer, CheckFails, CheckFinds, PreflightPasses, PreflightRefuses, BeginDownload,
       NoUpdates, NoteVersion, SaveResult, RestartUpdated, DownloadFails, EndFailed, Rejoin,
       Rejoined, flash
<1>3. QED
  BY <1>1, <1>2

\* Once a version has been noted the firmware is never replaced by an older one, however
\* many versions there are and wherever a restart cuts an update short.
THEOREM NeverDowngraded == CloudSpec => NoDowngrade
  BY CloudInvariance, ImageGrows, PTL DEF CloudSpec, NoDowngrade
=============================================================================
