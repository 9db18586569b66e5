---------------------------- MODULE MCLegacyCloud ----------------------------
(***************************************************************************)
(* Version 1 firmware: WiFi, MQTT, shortages, updates and restarts.        *)
(***************************************************************************)
EXTENDS LegacyCloud
=============================================================================
