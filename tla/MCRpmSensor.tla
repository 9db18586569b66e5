----------------------------- MODULE MCRpmSensor -----------------------------
(***************************************************************************)
(* RpmSensor for TLC.                                                      *)
(***************************************************************************)
EXTENDS RpmSensorProps
=============================================================================
