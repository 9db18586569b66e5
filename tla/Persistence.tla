----------------------------- MODULE Persistence -----------------------------
(***************************************************************************)
(* What survives in flash: the configuration manager and the update        *)
(* manager over one processor that starts, shuts down in order, is         *)
(* restarted by an update and may lose its power at any moment             *)
(* (main/main.c).                                                          *)
(***************************************************************************)
EXTENDS ConfigStore, OtaManager

VARIABLE phase  \* of app_main: starting, up or shutting down

vars == <<configVars, otaVars, phase>>

TypeOK == ConfigTypeOK /\ OtaTypeOK /\ phase \in {"starting", "up", "closing"}

Init == ConfigInit /\ OtaInit /\ phase = "starting"

\* app_main: the configuration is loaded first, the update manager comes later.
StartConfig == phase = "starting" /\ LoadDefaults /\ UNCHANGED <<otaVars, phase>>
StartOta ==
  phase = "starting" /\ configReady /\ OtaStart /\ phase' = "up" /\ UNCHANGED configVars

\* smartjet_shutdown: the update manager goes first, and config_manager_cleanup saves.
ShutdownOta ==
  phase = "up" /\ OtaDeinit /\ phase' = "closing" /\ UNCHANGED configVars
ShutdownConfig ==
  phase = "closing" /\ Cleanup /\ UNCHANGED <<otaVars, phase>>

\* The system at work.
Configure ==
  /\ phase = "up" /\ (SaveDevice \/ FactoryReset \/ SaveSystem \/ LoadSystem \/ ResetStats)
  /\ UNCHANGED <<otaVars, phase>>
Writing ==
  /\ (Count \/ WriteErase \/ WriteFirst \/ WriteLast \/ WriteSave \/ WriteFails \/ CloseHandles
      \/ (phase = "up" /\ LoadDefaults))
  /\ UNCHANGED <<otaVars, phase>>
Updating ==
  /\ (Release \/ SetAuto \/ CheckUpdate \/ CheckFails \/ Checked
      \/ Begin \/ Downloaded \/ AttemptFails \/ Install \/ Note)
  /\ UNCHANGED <<configVars, phase>>

\* A loss of power, esp_restart after an update, or the assertion that ends a shutdown.
Restart == ConfigReboot /\ OtaReboot /\ noted' = noted /\ phase' = "starting"

\* The start finds the NVS partition unusable and erases it all (early_init).
RestartErased == ConfigErased /\ OtaReboot /\ noted' = 0 /\ phase' = "starting"

Next ==
  \/ StartConfig \/ StartOta \/ ShutdownOta \/ ShutdownConfig
  \/ Configure \/ Writing \/ Updating
  \/ Restart \/ RestartErased

Spec == Init /\ [][Next]_vars
=============================================================================
