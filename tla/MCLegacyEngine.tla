---------------------------- MODULE MCLegacyEngine ----------------------------
(***************************************************************************)
(* Version 1 firmware: commands to both tasks, the sequence of the engine  *)
(* and restarts, in any order.                                             *)
(***************************************************************************)
EXTENDS LegacyEngine
=============================================================================
