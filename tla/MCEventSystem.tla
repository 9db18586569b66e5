---------------------------- MODULE MCEventSystem ----------------------------
(***************************************************************************)
(* EventSystem for TLC: two types of events, and two default handlers of   *)
(* which one sets the system state.                                        *)
(***************************************************************************)
EXTENDS EventSystemProps

CONSTANTS p1, p2, c1, h1

MCTypes    == {"BOOT", "STARTED"}
MCHandlers == {"handle_system_boot", h1}
MCDefaults == <<<<"BOOT", "handle_system_boot">>, <<"STARTED", h1>>>>
=============================================================================
