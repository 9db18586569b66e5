----------------------------- MODULE WifiManager -----------------------------
(***************************************************************************)
(* The connection state machine of main/cloud/wifi_manager.c over the      *)
(* ESP-IDF station driver.                                                 *)
(*                                                                         *)
(* The driver works on its own and tells what happened by events, which    *)
(* the event loop task hands to wifi_event_handler one after the other,    *)
(* later.  The interface is called by other tasks and the two timers fire  *)
(* in the esp_timer task; nothing keeps them apart but wifi_mutex, which   *)
(* only wifi_manager_connect takes.  The handler of a lost connection      *)
(* first gives the state up and then decides on a retry, so that a call    *)
(* can come in between.                                                    *)
(***************************************************************************)
EXTENDS Naturals, Sequences

CONSTANTS
  MaxRetries, \* WIFI_RETRY_MAX_COUNT
  MaxEvents,  \* events the driver has posted and nobody has handled (bounds the model)
  MaxCalls    \* calls of the interface (bounds the model)

ASSUME WifiAssumption == MaxRetries \in Nat /\ MaxEvents \in Nat \ {0, 1} /\ MaxCalls \in Nat

VARIABLES
  wifiReady, \* g_wifi_initialized
  driver,    \* the station: off, idle, connecting or connected
  events,    \* what it has posted
  handling,  \* the handler of a lost connection is about to decide on a retry
  state, mode, retry, auto, saved,  \* fields of g_wifi_mgr.status
  reconnect, \* reconnect_timer is armed
  config,    \* config_timer is armed
  calls,     \* calls so far
  halted,    \* history: the driver has been stopped since the last success or call
  refused    \* history: the last retry was refused by a driver that was idle

status  == <<state, mode, retry, auto, saved>>
timers  == <<reconnect, config>>
history == <<halted, refused>>
wifiVars == <<wifiReady, driver, events, handling, status, timers, calls, history>>

WifiTypeOK ==
  /\ wifiReady \in BOOLEAN
  /\ driver \in {"off", "idle", "connecting", "connected"}
  /\ events \in Seq({"CONNECTED", "DISCONNECTED"}) /\ Len(events) <= MaxEvents
  /\ handling \in BOOLEAN
  /\ state \in {"DISCONNECTED", "CONNECTING", "CONNECTED", "RECONNECTING", "SMARTCONFIG", "ERROR"}
  /\ mode \in {"NONE", "SMARTCONFIG"} /\ retry \in 0..MaxRetries
  /\ auto \in BOOLEAN /\ saved \in BOOLEAN
  /\ reconnect \in BOOLEAN /\ config \in BOOLEAN
  /\ calls \in 0..MaxCalls /\ halted \in BOOLEAN /\ refused \in BOOLEAN

\* wifi_manager_init.  Credentials may have been found in flash.
WifiInit ==
  /\ wifiReady = TRUE
  /\ driver = "off" /\ events = <<>> /\ handling = FALSE
  /\ state = "DISCONNECTED" /\ mode = "NONE" /\ retry = 0 /\ auto = TRUE
  /\ saved \in BOOLEAN
  /\ reconnect = FALSE /\ config = FALSE
  /\ calls = 0 /\ halted = TRUE /\ refused = FALSE

-----------------------------------------------------------------------------
(* The driver.                                                             *)

Room == Len(events) < MaxEvents
Post(e) == events' = Append(events, e)

DriverLeaves(was, is, e) ==
  /\ driver = was /\ driver' = is /\ Room /\ Post(e)
  /\ UNCHANGED <<wifiReady, handling, status, timers, calls, history>>

Associate == DriverLeaves("connecting", "connected", "CONNECTED")
Refuse    == DriverLeaves("connecting", "idle", "DISCONNECTED")
Lose      == DriverLeaves("connected", "idle", "DISCONNECTED")

\* esp_wifi_connect and whether it succeeds: it needs a started station that is not
\* busy, leaves one that is connected alone, and may fail on an idle one (no name
\* configured, no memory), which stays idle and posts nothing.
DriverConnect(ok) ==
  \/ driver = "idle" /\ driver' = IF ok THEN "connecting" ELSE "idle"
  \/ driver \in {"off", "connecting"} /\ ~ok /\ UNCHANGED driver
  \/ driver = "connected" /\ UNCHANGED driver

\* esp_wifi_disconnect, and esp_wifi_stop after it.
DriverDisconnect(after) ==
  /\ driver' = after
  /\ IF driver \in {"connecting", "connected"} THEN Room /\ Post("DISCONNECTED")
                                               ELSE UNCHANGED events

-----------------------------------------------------------------------------
(* The interface.                                                          *)

Called == wifiReady /\ calls < MaxCalls /\ calls' = calls + 1

\* wifi_manager_start.  The state is left as it is, and what esp_wifi_connect says is
\* ignored; nothing changes when the driver does not start.
WifiStart ==
  /\ Called
  /\ \/ UNCHANGED driver
     \/ driver = "off" /\ driver' \in {"idle"} \cup IF saved THEN {"connecting"} ELSE {}
     \/ driver # "off" /\ saved /\ \E ok \in BOOLEAN : DriverConnect(ok)
  /\ UNCHANGED <<wifiReady, events, handling, status, timers, history>>

\* wifi_manager_stop.
WifiStop ==
  /\ Called
  /\ reconnect' = FALSE /\ config' = FALSE
  /\ DriverDisconnect("off")
  /\ state' = "DISCONNECTED" /\ halted' = TRUE
  /\ UNCHANGED <<wifiReady, handling, mode, retry, auto, saved, refused>>

\* wifi_manager_connect.  It does not set auto_reconnect again, and leaves all as it
\* is when the mutex is late or the driver does not take the configuration.
WifiConnect ==
  /\ Called
  /\ \/ \E ok \in BOOLEAN : /\ DriverConnect(ok)
                            /\ state' = IF ok THEN "CONNECTING" ELSE "ERROR"
                            /\ retry' = 0 /\ halted' = (driver = "off")
     \/ UNCHANGED <<driver, state, retry, halted>>
  /\ UNCHANGED <<wifiReady, events, handling, mode, auto, saved, timers, refused>>

\* wifi_manager_disconnect.  The reconnect timer goes on.
WifiDisconnect ==
  /\ Called
  /\ auto' = FALSE /\ DriverDisconnect(IF driver = "off" THEN "off" ELSE "idle")
  /\ UNCHANGED <<wifiReady, handling, state, mode, retry, saved, timers, history>>

\* wifi_manager_start_smartconfig and wifi_manager_stop_smartconfig.
SmartConfigStart ==
  /\ Called /\ driver # "off"
  /\ state' = "SMARTCONFIG" /\ mode' = "SMARTCONFIG" /\ config' = TRUE
  /\ UNCHANGED <<wifiReady, driver, events, handling, retry, auto, saved, reconnect, history>>

SmartConfigStop ==
  /\ Called
  /\ mode' = "NONE" /\ config' = FALSE
  /\ UNCHANGED <<wifiReady, driver, events, handling, state, retry, auto, saved, reconnect, history>>

\* wifi_manager_save_credentials and wifi_manager_clear_credentials.
Credentials ==
  /\ Called /\ saved' = ~saved
  /\ UNCHANGED <<wifiReady, driver, events, handling, state, mode, retry, auto, timers, history>>

\* wifi_manager_deinit: stop, then the timers and handlers go.
WifiDeinit ==
  /\ Called
  /\ wifiReady' = FALSE /\ state' = "DISCONNECTED"
  /\ driver' = "off" /\ events' = <<>> /\ handling' = FALSE
  /\ reconnect' = FALSE /\ config' = FALSE /\ halted' = TRUE
  /\ UNCHANGED <<mode, retry, auto, saved, refused>>

-----------------------------------------------------------------------------
(* wifi_event_handler.                                                     *)

\* WIFI_EVENT_STA_CONNECTED.
HandleConnected ==
  /\ ~handling /\ events # <<>> /\ Head(events) = "CONNECTED" /\ events' = Tail(events)
  /\ state' = "CONNECTED" /\ retry' = 0
  /\ reconnect' = FALSE
  /\ halted' = (driver = "off")
  /\ UNCHANGED <<wifiReady, driver, handling, mode, auto, saved, config, calls, refused>>

\* A faulty variant of the next action: without auto_reconnect the state is kept.
HandleDisconnectedAuto ==
  /\ ~handling /\ events # <<>> /\ Head(events) = "DISCONNECTED" /\ events' = Tail(events)
  /\ state' = IF auto THEN "DISCONNECTED" ELSE state
  /\ handling' = TRUE
  /\ UNCHANGED <<wifiReady, driver, mode, retry, auto, saved, timers, calls, history>>

\* WIFI_EVENT_STA_DISCONNECTED up to the decision.
HandleDisconnected ==
  /\ ~handling /\ events # <<>> /\ Head(events) = "DISCONNECTED" /\ events' = Tail(events)
  /\ state' = "DISCONNECTED"
  /\ handling' = TRUE
  /\ UNCHANGED <<wifiReady, driver, mode, retry, auto, saved, timers, calls, history>>

\* A faulty variant of the next action: the timer is not armed again.
DecideUnarmed ==
  /\ handling /\ handling' = FALSE
  /\ IF auto /\ retry < MaxRetries
     THEN state' = "RECONNECTING" /\ retry' = retry + 1 /\ refused' = FALSE
     ELSE UNCHANGED <<state, retry, refused>>
  /\ UNCHANGED <<wifiReady, driver, events, mode, auto, saved, timers, calls, halted>>

\* The decision: an armed timer refuses to be armed again and goes on.
Decide ==
  /\ handling /\ handling' = FALSE
  /\ IF auto /\ retry < MaxRetries
     THEN /\ state' = "RECONNECTING" /\ retry' = retry + 1 /\ reconnect' = TRUE
          /\ refused' = FALSE
     ELSE UNCHANGED <<state, retry, reconnect, refused>>
  /\ UNCHANGED <<wifiReady, driver, events, mode, auto, saved, config, calls, halted>>

-----------------------------------------------------------------------------
(* The timers.                                                             *)

\* wifi_reconnect_timer_callback.  What esp_wifi_connect says is ignored: a retry that
\* is refused leaves the state, no event comes and no timer is armed.
Reconnect ==
  /\ reconnect /\ reconnect' = FALSE
  /\ IF state = "RECONNECTING"
     THEN \E ok \in BOOLEAN : DriverConnect(ok) /\ refused' = (driver = "idle" /\ ~ok)
     ELSE UNCHANGED <<driver, refused>>
  /\ UNCHANGED <<wifiReady, events, handling, status, config, calls, halted>>

\* wifi_config_timeout_callback.
ConfigTimeout ==
  /\ config /\ config' = FALSE
  /\ mode' = "NONE" /\ state' = "ERROR"
  /\ UNCHANGED <<wifiReady, driver, events, handling, retry, auto, saved, reconnect, calls, history>>

Call ==
  \/ WifiStart \/ WifiStop \/ WifiConnect \/ WifiDisconnect \/ WifiDeinit
  \/ SmartConfigStart \/ SmartConfigStop \/ Credentials

Station == Associate \/ Refuse
Handle  == HandleConnected \/ HandleDisconnected \/ Decide

WifiNext == Call \/ Station \/ Lose \/ Handle \/ Reconnect \/ ConfigTimeout

\* A connection that is tried succeeds or fails, events are handled and timers fire.
WifiFairness ==
  WF_wifiVars(Station) /\ WF_wifiVars(Handle) /\ WF_wifiVars(Reconnect)

WifiSpec == WifiInit /\ [][WifiNext]_wifiVars /\ WifiFairness
=============================================================================
