------------------------------ MODULE MCNetwork ------------------------------
(***************************************************************************)
(* OnenetMqtt over WifiManager for TLC.                                    *)
(***************************************************************************)
EXTENDS OnenetMqttProps
=============================================================================
