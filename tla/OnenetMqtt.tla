------------------------------ MODULE OnenetMqtt ------------------------------
(***************************************************************************)
(* The OneNet client of main/cloud/onenet_mqtt.c over the connection that  *)
(* WifiManager keeps.                                                      *)
(*                                                                         *)
(* The MQTT library connects by itself, with the token made when the       *)
(* client was created, and calls the handler in its own task.  What the    *)
(* messages ask for is reduced to the command posted to the event system;  *)
(* replies and reports are formatting.  Init, start, stop and deinit wait  *)
(* for the library's task, so that no callback runs after them.            *)
(***************************************************************************)
EXTENDS WifiManager, Throttle

CONSTANT MaxStarts  \* clients started (bounds the model)

ASSUME StartsAssumption == MaxStarts \in Nat

VARIABLES
  mqttReady, \* g_onenet_initialized
  client,    \* mqtt_client: none, stopped or running
  linked,    \* g_mqtt_connected
  token,     \* the token of the client: none, valid or expired
  clock,     \* milliseconds, modulo Wrap
  throttle,  \* g_global_throttle
  starts,    \* clients started so far
  gap,       \* history: milliseconds since the last accepted message, up to Interval
  accepted   \* history: messages accepted in this second

mqttVars == <<mqttReady, client, linked, token, clock, throttle, starts, gap, accepted>>
vars == <<wifiVars, mqttVars>>

MqttTypeOK ==
  /\ mqttReady \in BOOLEAN /\ client \in {"none", "stopped", "running"}
  /\ linked \in BOOLEAN /\ token \in {"none", "valid", "expired"}
  /\ clock \in 0..(Wrap - 1) /\ throttle \in Controllers
  /\ starts \in 0..MaxStarts /\ gap \in 0..Interval /\ accepted \in Nat

TypeOK == WifiTypeOK /\ MqttTypeOK

Init ==
  /\ WifiInit
  /\ mqttReady = TRUE /\ client = "none" /\ linked = FALSE /\ token = "none"
  /\ clock = 0 /\ starts = 0 /\ gap = 0 /\ accepted = 0
  /\ throttle = [last_time |-> 0, count_per_sec |-> 0, last_sec |-> 0]

-----------------------------------------------------------------------------

\* onenet_mqtt_start: it may fail after the token is made; a client that is there,
\* stopped or not, is taken for a running one.
MqttStart ==
  /\ mqttReady /\ starts < MaxStarts /\ starts' = starts + 1
  /\ \/ client = "none" /\ client' = "running" /\ token' = "valid"
     \/ UNCHANGED <<client, token>>
  /\ UNCHANGED <<mqttReady, linked, clock, throttle, gap, accepted>>

\* onenet_mqtt_stop.
MqttStop ==
  /\ client # "none" /\ client' = "stopped" /\ linked' = FALSE
  /\ UNCHANGED <<mqttReady, token, clock, throttle, starts, gap, accepted>>

\* onenet_mqtt_deinit and onenet_mqtt_init.
MqttDeinit ==
  /\ mqttReady /\ mqttReady' = FALSE
  /\ client' = "none" /\ linked' = FALSE /\ token' = "none"
  /\ UNCHANGED <<clock, throttle, starts, gap, accepted>>

MqttInit ==
  /\ ~mqttReady /\ mqttReady' = TRUE
  /\ UNCHANGED <<client, linked, token, clock, throttle, starts, gap, accepted>>

\* MQTT_EVENT_CONNECTED and MQTT_EVENT_DISCONNECTED.
MqttConnected ==
  /\ client = "running" /\ driver = "connected" /\ token = "valid" /\ ~linked
  /\ linked' = TRUE
  /\ UNCHANGED <<mqttReady, client, token, clock, throttle, starts, gap, accepted>>

MqttDisconnected ==
  /\ client = "running" /\ linked /\ linked' = FALSE
  /\ UNCHANGED <<mqttReady, client, token, clock, throttle, starts, gap, accepted>>

\* The token is good for 24 hours.
TokenExpires ==
  /\ token = "valid" /\ token' = "expired"
  /\ UNCHANGED <<mqttReady, client, linked, clock, throttle, starts, gap, accepted>>

\* MQTT_EVENT_DATA: process_mqtt_message.  A refused authentication only sets
\* g_force_token_refresh, which nothing reads.
Receive ==
  /\ client = "running" /\ linked
  /\ throttle' = Throttled(throttle, clock)
  /\ IF Accepts(throttle, clock)
     THEN gap' = 0 /\ accepted' = accepted + 1
     ELSE UNCHANGED <<gap, accepted>>
  /\ UNCHANGED <<mqttReady, client, linked, token, clock, starts>>

\* A millisecond.
MqttTick ==
  /\ clock' = (clock + 1) % Wrap
  /\ gap' = IF gap < Interval THEN gap + 1 ELSE gap
  /\ accepted' = IF clock' \div Second = clock \div Second THEN accepted ELSE 0
  /\ UNCHANGED <<mqttReady, client, linked, token, throttle, starts>>

MqttNext ==
  \/ MqttStart \/ MqttStop \/ MqttDeinit \/ MqttInit
  \/ MqttConnected \/ MqttDisconnected \/ TokenExpires \/ Receive \/ MqttTick

Next == \/ WifiNext /\ UNCHANGED mqttVars
        \/ MqttNext /\ UNCHANGED wifiVars

Spec == Init /\ [][Next]_vars /\ WifiFairness
=============================================================================
