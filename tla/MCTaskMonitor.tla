---------------------------- MODULE MCTaskMonitor ----------------------------
(***************************************************************************)
(* TaskMonitor for TLC.                                                    *)
(***************************************************************************)
EXTENDS TaskMonitorProps

CONSTANTS engine_ctrl, ota_mgr, event_handler
=============================================================================
