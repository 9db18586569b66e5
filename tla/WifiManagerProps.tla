-------------------------- MODULE WifiManagerProps --------------------------
(***************************************************************************)
(* What the WiFi manager must guarantee, stated over WifiManager.          *)
(***************************************************************************)
EXTENDS WifiManager

\* It says CONNECTED only of a connection that stands or whose loss has been posted:
\* late events of an earlier connection do not leave it believing in one.
ConnectedIsTrue == state = "CONNECTED" => driver = "connected" \/ events # <<>>

\* Waiting to reconnect, it has something to wait for, as long as nobody stops it:
\* only the callback that ignores a refused esp_wifi_connect leaves it waiting for
\* nothing.
ReconnectingWaits ==
  state = "RECONNECTING" /\ ~halted /\ ~refused
    => reconnect \/ driver \in {"connecting", "connected"} \/ events # <<>> \/ handling

\* A lost connection is made again or given up, unless the driver refuses a retry.
ReconnectEnds ==
  state = "RECONNECTING" ~>
    \/ state = "CONNECTED" \/ halted \/ refused \/ ~auto
    \/ state \notin {"RECONNECTING", "DISCONNECTED"}
    \/ state = "DISCONNECTED" /\ retry = MaxRetries
-----------------------------------------------------------------------------
(* The inductive invariant.                                                *)

\* The last event posted tells what the driver is.
LastEventTrue ==
  events # <<>> /\ events[Len(events)] = "CONNECTED" => driver = "connected"

\* A driver that has been stopped is known to be.
OffIsHalted == driver = "off" => halted

\* Before the decision on a retry nobody waits for one.
UndecidedIsDown == handling => state # "RECONNECTING"

WifiInv ==
  WifiTypeOK /\ LastEventTrue /\ OffIsHalted /\ UndecidedIsDown
    /\ ConnectedIsTrue /\ ReconnectingWaits
=============================================================================
