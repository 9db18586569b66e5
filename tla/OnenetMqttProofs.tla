--------------------------- MODULE OnenetMqttProofs ---------------------------
(***************************************************************************)
(* Theorems about the network part, for any number of retries, events and  *)
(* calls, and any clock and limits of the throttle.                        *)
(***************************************************************************)
EXTENDS OnenetMqttProps, TLAPS

-----------------------------------------------------------------------------
(* The WiFi manager.                                                       *)

Kinds == {"CONNECTED", "DISCONNECTED"}

\* What posting and handling do to the queue of events.
LEMMA PostLast ==
  ASSUME NEW e \in Kinds, WifiTypeOK, Room, Post(e)
  PROVE  /\ events' \in Seq(Kinds) /\ Len(events') <= MaxEvents
         /\ events' # <<>> /\ events'[Len(events')] = e
  BY WifiAssumption DEF WifiTypeOK, Room, Post, Kinds

LEMMA TailLast ==
  ASSUME WifiTypeOK, events # <<>>, events' = Tail(events)
  PROVE  /\ events' \in Seq(Kinds) /\ Len(events') <= MaxEvents
         /\ events' # <<>> => events'[Len(events')] = events[Len(events)]
         /\ events' = <<>> => Head(events) = events[Len(events)]
<1>1. events \in Seq(Kinds) /\ Len(events) \in Nat /\ Len(events) # 0 /\ Len(events) <= MaxEvents
  BY DEF WifiTypeOK, Kinds
<1>2. events' \in Seq(Kinds) /\ Len(events') = Len(events) - 1
  BY <1>1
<1>3. \A i \in 1..Len(events') : events'[i] = events[i + 1]
  BY <1>1
<1>4. CASE events' # <<>>
  <2>1. Len(events') \in 1..Len(events')
    BY <1>2, <1>4
  <2>2. QED
    BY <1>1, <1>2, <1>3, <1>4, <2>1, WifiAssumption
<1>5. CASE events' = <<>>
  <2>1. Len(events) = 1
    <3>1. Len(<<>>) = 0
      OBVIOUS
    <3>2. Len(events') = 0
      BY <1>5, <3>1, Zenon
    <3>3. QED
      BY <1>1, <1>2, <3>2
  <2>2. QED
    BY <1>1, <1>2, <1>5, <2>1, WifiAssumption
<1>6. QED
  BY <1>4, <1>5

\* The driver posts the loss of what it gives up.
LEMMA Disconnects ==
  ASSUME WifiInv, NEW after \in {"off", "idle"}, DriverDisconnect(after)
  PROVE  /\ driver' = after /\ events' \in Seq(Kinds) /\ Len(events') <= MaxEvents
         /\ LastEventTrue'
         /\ driver \in {"connecting", "connected"} => events' # <<>>
         /\ events # <<>> => events' # <<>>
<1>1. CASE driver \in {"connecting", "connected"}
  <2>1. events' \in Seq(Kinds) /\ Len(events') <= MaxEvents
        /\ events' # <<>> /\ events'[Len(events')] = "DISCONNECTED"
    BY <1>1, PostLast DEF DriverDisconnect, WifiInv, Kinds
  <2>2. QED
    BY <2>1 DEF DriverDisconnect, LastEventTrue
<1>2. CASE driver \notin {"connecting", "connected"}
  BY <1>2 DEF DriverDisconnect, WifiInv, WifiTypeOK, LastEventTrue, Kinds
<1>3. QED
  BY <1>1, <1>2

\* What the actions on boolean fields keep of the types, apart from the queue.
Fields ==
  /\ wifiReady \in BOOLEAN
  /\ driver \in {"off", "idle", "connecting", "connected"}
  /\ handling \in BOOLEAN
  /\ state \in {"DISCONNECTED", "CONNECTING", "CONNECTED", "RECONNECTING", "SMARTCONFIG", "ERROR"}
  /\ mode \in {"NONE", "SMARTCONFIG"} /\ retry \in 0..MaxRetries
  /\ auto \in BOOLEAN /\ saved \in BOOLEAN
  /\ reconnect \in BOOLEAN /\ config \in BOOLEAN
  /\ calls \in 0..MaxCalls /\ halted \in BOOLEAN /\ refused \in BOOLEAN

Queue == events \in Seq(Kinds) /\ Len(events) <= MaxEvents /\ LastEventTrue

Beliefs == OffIsHalted /\ UndecidedIsDown /\ ConnectedIsTrue /\ ReconnectingWaits

LEMMA WifiInvParts ==
  (WifiInv <=> Fields /\ Queue /\ Beliefs) /\ (WifiInv' <=> Fields' /\ Queue' /\ Beliefs')
  BY DEF WifiInv, WifiTypeOK, Fields, Queue, Beliefs, Kinds

\* A step of the driver on its own.
LEMMA DriverLeavesKeeps ==
  ASSUME WifiInv, NEW was \in {"connecting", "connected"}, NEW is \in {"idle", "connected"},
         NEW e \in Kinds, e = "CONNECTED" => is = "connected", DriverLeaves(was, is, e)
  PROVE  WifiInv'
<1>1. events' \in Seq(Kinds) /\ Len(events') <= MaxEvents
      /\ events' # <<>> /\ events'[Len(events')] = e
  BY PostLast DEF DriverLeaves, WifiInv
<1>2. Queue'
  BY <1>1 DEF DriverLeaves, Queue, LastEventTrue
<1>3. Fields'
  BY WifiInvParts DEF Fields, DriverLeaves, status, timers, history
<1>4. Beliefs'
  BY <1>1, WifiInvParts DEF Beliefs, OffIsHalted, UndecidedIsDown, ConnectedIsTrue,
     ReconnectingWaits, DriverLeaves, status, timers, history
<1>5. QED
  BY <1>2, <1>3, <1>4, WifiInvParts

LEMMA DriverKeeps == WifiInv /\ (Associate \/ Refuse \/ Lose) => WifiInv'
  BY DriverLeavesKeeps DEF Associate, Refuse, Lose, Kinds

\* A call of the interface.
LEMMA CallKeeps ==
  ASSUME WifiInv, Call
  PROVE  WifiInv'
<1> USE WifiAssumption, WifiInvParts DEF status, timers, history
<1>1. calls' \in 0..MaxCalls
  BY DEF Fields, Call, Called, WifiStart, WifiStop, WifiConnect, WifiDisconnect, WifiDeinit,
         SmartConfigStart, SmartConfigStop, Credentials
<1>2. CASE WifiStart
  <2>1. Fields'
    BY <1>1, <1>2 DEF WifiStart, DriverConnect, Fields
  <2>2. Queue' /\ Beliefs'
    BY <1>2 DEF WifiStart, DriverConnect, Queue, LastEventTrue, Beliefs, OffIsHalted,
                UndecidedIsDown, ConnectedIsTrue, ReconnectingWaits, Fields
  <2>3. QED
    BY <2>1, <2>2
<1>3. CASE WifiStop
  <2>1. Queue' /\ driver' = "off"
    BY <1>3, Disconnects DEF WifiStop, Queue
  <2>2. Fields'
    BY <1>1, <1>3, <2>1 DEF WifiStop, Fields
  <2>3. Beliefs'
    BY <1>3, <2>1 DEF WifiStop, Beliefs, OffIsHalted, UndecidedIsDown, ConnectedIsTrue,
                      ReconnectingWaits
  <2>4. QED
    BY <2>1, <2>2, <2>3
<1>4. CASE WifiConnect
  <2>1. CASE UNCHANGED <<driver, state, retry, halted>>
    <3>1. Fields'
      BY <1>1, <1>4, <2>1 DEF WifiConnect, Fields
    <3>2. Queue' /\ Beliefs'
      BY <1>4, <2>1 DEF WifiConnect, Queue, LastEventTrue, Beliefs, OffIsHalted,
                        UndecidedIsDown, ConnectedIsTrue, ReconnectingWaits
    <3>3. QED
      BY <3>1, <3>2
  <2>2. CASE /\ \E ok \in BOOLEAN : DriverConnect(ok) /\ state' = IF ok THEN "CONNECTING" ELSE "ERROR"
             /\ retry' = 0 /\ halted' = (driver = "off")
    <3>1. driver' \in {"off", "idle", "connecting", "connected"}
          /\ (driver' = "off" => driver = "off") /\ (driver = "connected" => driver' = "connected")
      BY <2>2 DEF DriverConnect, Fields
    <3>2. state' \in {"CONNECTING", "ERROR"} /\ retry' = 0 /\ halted' = (driver = "off")
      BY <2>2
    <3>3. Fields'
      <4>1. /\ UNCHANGED <<wifiReady, handling, mode, auto, saved, reconnect, config, refused>>
            /\ retry' \in 0..MaxRetries /\ halted' \in BOOLEAN
        BY <1>4, <3>2 DEF WifiConnect
      <4>2. QED
        BY <1>1, <3>1, <3>2, <4>1 DEF Fields
    <3>4. Queue'
      BY <1>4, <3>1 DEF WifiConnect, Queue, LastEventTrue
    <3>5. Beliefs'
      BY <3>1, <3>2 DEF Beliefs, OffIsHalted, UndecidedIsDown, ConnectedIsTrue,
                        ReconnectingWaits
    <3>6. QED
      BY <3>3, <3>4, <3>5
  <2>3. QED
    BY <1>4, <2>1, <2>2 DEF WifiConnect
<1>5. CASE WifiDisconnect
  <2> DEFINE after == IF driver = "off" THEN "off" ELSE "idle"
  <2>1. after \in {"off", "idle"} /\ DriverDisconnect(after)
    BY <1>5 DEF WifiDisconnect
  <2>2. /\ driver' = after /\ Queue'
        /\ driver \in {"connecting", "connected"} => events' # <<>>
        /\ events # <<>> => events' # <<>>
    BY <2>1, Disconnects DEF Queue
  <2>3. Fields'
    BY <1>1, <1>5, <2>1, <2>2 DEF WifiDisconnect, Fields
  <2>4. Beliefs'
    BY <1>5, <2>1, <2>2 DEF WifiDisconnect, Beliefs, OffIsHalted, UndecidedIsDown,
                            ConnectedIsTrue, ReconnectingWaits
  <2>5. QED
    BY <2>2, <2>3, <2>4
<1>6. CASE SmartConfigStart \/ SmartConfigStop
  <2>1. Fields'
    <3>1. config' \in BOOLEAN
      BY <1>6 DEF SmartConfigStart, SmartConfigStop
    <3>2. mode' \in {"NONE", "SMARTCONFIG"} /\ state' \in {state, "SMARTCONFIG"}
      BY <1>6 DEF SmartConfigStart, SmartConfigStop
    <3>3. UNCHANGED <<wifiReady, driver, handling, retry, auto, saved, reconnect, halted,
                   refused>>
      BY <1>6 DEF SmartConfigStart, SmartConfigStop
    <3>4. QED
      BY <1>1, <3>1, <3>2, <3>3 DEF Fields
  <2>2. Queue' /\ Beliefs'
    BY <1>6 DEF SmartConfigStart, SmartConfigStop, Queue, LastEventTrue, Beliefs, OffIsHalted,
                UndecidedIsDown, ConnectedIsTrue, ReconnectingWaits
  <2>3. QED
    BY <2>1, <2>2
<1>7. CASE Credentials
  <2>1. Fields'
    BY <1>1, <1>7 DEF Credentials, Fields
  <2>2. Queue' /\ Beliefs'
    BY <1>7 DEF Credentials, Queue, LastEventTrue, Beliefs, OffIsHalted, UndecidedIsDown,
                ConnectedIsTrue, ReconnectingWaits
  <2>3. QED
    BY <2>1, <2>2
<1>8. CASE WifiDeinit
  <2>1. Fields'
    BY <1>1, <1>8 DEF WifiDeinit, Fields
  <2>2. Queue'
    BY <1>8 DEF WifiDeinit, Queue, LastEventTrue
  <2>3. Beliefs'
    BY <1>8 DEF WifiDeinit, Beliefs, OffIsHalted, UndecidedIsDown, ConnectedIsTrue,
                ReconnectingWaits
  <2>4. QED
    BY <2>1, <2>2, <2>3
<1>9. QED
  BY <1>2, <1>3, <1>4, <1>5, <1>6, <1>7, <1>8 DEF Call

\* The event handler and the timers.
LEMMA HandlerKeeps ==
  ASSUME WifiInv, Handle \/ Reconnect \/ ConfigTimeout
  PROVE  WifiInv'
<1> USE WifiAssumption, WifiInvParts DEF status, timers, history
<1>1. CASE HandleConnected
  <2>1. Queue' /\ (events' = <<>> => driver = "connected")
    BY <1>1, TailLast DEF HandleConnected, Queue, LastEventTrue, WifiInv
  <2>2. halted' = (driver = "off") /\ retry' = 0 /\ reconnect' = FALSE /\ state' = "CONNECTED"
        /\ UNCHANGED <<wifiReady, driver, handling, mode, auto, saved, config, calls, refused>>
    BY <1>1 DEF HandleConnected
  <2>3. Fields'
    <3>1. retry' \in 0..MaxRetries
      BY <2>2
    <3>2. halted' \in BOOLEAN
      BY <2>2
    <3>3. QED
      BY <2>2, <3>1, <3>2 DEF Fields
  <2>4. Beliefs'
    BY <2>1, <2>2 DEF Beliefs, OffIsHalted, UndecidedIsDown, ConnectedIsTrue, ReconnectingWaits
  <2>5. QED
    BY <2>1, <2>3, <2>4
<1>2. CASE HandleDisconnected
  <2>1. Queue'
    BY <1>2, TailLast DEF HandleDisconnected, Queue, LastEventTrue, WifiInv
  <2>2. Fields'
    BY <1>2 DEF HandleDisconnected, Fields
  <2>3. Beliefs'
    BY <1>2 DEF HandleDisconnected, Beliefs, OffIsHalted, UndecidedIsDown, ConnectedIsTrue,
                ReconnectingWaits
  <2>4. QED
    BY <2>1, <2>2, <2>3
<1>3. CASE Decide
  <2>1. Queue'
    BY <1>3 DEF Decide, Queue, LastEventTrue
  <2>2. Fields'
    <3>1. CASE auto /\ retry < MaxRetries
      <4>1. retry' \in 0..MaxRetries
        BY <1>3, <3>1 DEF Decide, Fields
      <4>2. /\ handling' = FALSE /\ state' = "RECONNECTING" /\ reconnect' = TRUE
            /\ refused' = FALSE
            /\ UNCHANGED <<wifiReady, driver, mode, auto, saved, config, calls, halted>>
        BY <1>3, <3>1 DEF Decide
      <4>3. QED
        BY <4>1, <4>2 DEF Fields
    <3>2. CASE ~(auto /\ retry < MaxRetries)
      <4>1. /\ handling' \in BOOLEAN
            /\ wifiReady' = wifiReady /\ driver' = driver /\ state' = state /\ retry' = retry
            /\ mode' = mode /\ auto' = auto /\ saved' = saved /\ calls' = calls
            /\ reconnect' = reconnect /\ config' = config
            /\ halted' = halted /\ refused' = refused
        BY <1>3, <3>2 DEF Decide
      <4>2. QED
        BY <4>1 DEF Fields
    <3>3. QED
      BY <3>1, <3>2
  <2>3. Beliefs'
    BY <1>3 DEF Decide, Beliefs, OffIsHalted, UndecidedIsDown, ConnectedIsTrue,
                ReconnectingWaits
  <2>4. QED
    BY <2>1, <2>2, <2>3
<1>4. CASE Reconnect
  <2>1. /\ driver' \in {"off", "idle", "connecting", "connected"} /\ refused' \in BOOLEAN
        /\ driver' = "off" => driver = "off"
        /\ driver = "connected" => driver' = "connected"
        /\ state = "RECONNECTING" /\ driver # "off" /\ ~refused'
             => driver' \in {"connecting", "connected"}
    <3>1. CASE state = "RECONNECTING"
      <4>1. PICK ok \in BOOLEAN : DriverConnect(ok) /\ refused' = (driver = "idle" /\ ~ok)
        BY <1>4, <3>1 DEF Reconnect
      <4>2. CASE ok
        BY <3>1, <4>1, <4>2 DEF DriverConnect, Fields
      <4>3. CASE ~ok
        BY <3>1, <4>1, <4>3 DEF DriverConnect, Fields
      <4>4. QED
        BY <4>2, <4>3
    <3>2. CASE state # "RECONNECTING"
      BY <1>4, <3>2 DEF Reconnect, Fields
    <3>3. QED
      BY <3>1, <3>2
  <2>2. reconnect' = FALSE
        /\ UNCHANGED <<wifiReady, events, handling, status, config, calls, halted>>
    BY <1>4 DEF Reconnect
  <2>3. Fields'
    BY <2>1, <2>2 DEF Fields
  <2>4. Queue'
    BY <2>1, <2>2 DEF Queue, LastEventTrue
  <2>5. Beliefs'
    BY <2>1, <2>2 DEF Beliefs, OffIsHalted, UndecidedIsDown, ConnectedIsTrue, ReconnectingWaits
  <2>6. QED
    BY <2>3, <2>4, <2>5
<1>5. CASE ConfigTimeout
  <2>1. Fields'
    BY <1>5 DEF ConfigTimeout, Fields
  <2>2. Queue' /\ Beliefs'
    BY <1>5 DEF ConfigTimeout, Queue, LastEventTrue, Beliefs, OffIsHalted, UndecidedIsDown,
                ConnectedIsTrue, ReconnectingWaits
  <2>3. QED
    BY <2>1, <2>2
<1>6. QED
  BY <1>1, <1>2, <1>3, <1>4, <1>5 DEF Handle

-----------------------------------------------------------------------------
(* The throttle and the client.                                            *)

\* The clock goes on by one or starts again.
LEMMA ClockSteps ==
  ASSUME NEW t \in 0..(Wrap - 1)
  PROVE  (t + 1) % Wrap = IF t + 1 < Wrap THEN t + 1 ELSE 0
  BY ThrottleAssumption

LEMMA SecondTyped ==
  ASSUME NEW t \in Nat
  PROVE  t \div Second \in Nat
  BY ThrottleAssumption

LEMMA MqttKeeps ==
  ASSUME MqttInv, MqttNext
  PROVE  MqttInv'
<1> USE ThrottleAssumption DEF MqttInv, MqttTypeOK, GapMeasured, CountCovers
<1>1. CASE MqttStart
  <2>1. client' \in {"none", "stopped", "running"} /\ token' \in {"none", "valid", "expired"}
    BY <1>1 DEF MqttStart
  <2>2. starts' \in 0..MaxStarts
    BY <1>1, StartsAssumption DEF MqttStart
  <2>3. QED
    BY <1>1, <2>1, <2>2 DEF MqttStart
<1>2. CASE MqttStop \/ MqttDeinit \/ MqttInit \/ MqttConnected \/ MqttDisconnected \/ TokenExpires
  BY <1>2 DEF MqttStop, MqttDeinit, MqttInit, MqttConnected, MqttDisconnected, TokenExpires
<1>3. CASE MqttTick
  <2>1. clock' = IF clock + 1 < Wrap THEN clock + 1 ELSE 0
    BY <1>3, ClockSteps DEF MqttTick
  <2>2. GapMeasured'
    BY <1>3, <2>1 DEF MqttTick, Elapsed, Controllers
  <2>3. CountCovers'
    BY <1>3 DEF MqttTick, Controllers
  <2>4. MqttTypeOK'
    BY <1>3, <2>1 DEF MqttTick
  <2>5. QED
    BY <2>2, <2>3, <2>4
<1>4. CASE Receive
  <2> DEFINE sec == clock \div Second
  <2>1. sec \in Nat
    BY SecondTyped
  <2>2. throttle.last_time \in 0..(Wrap - 1) /\ throttle.count_per_sec \in Nat
        /\ throttle.last_sec \in Nat
    BY DEF Controllers
  <2>3. CASE TooEarly(throttle, clock)
    BY <1>4, <2>3 DEF Receive, Throttled, Accepts
  <2>4. CASE ~TooEarly(throttle, clock)
    <3> DEFINE c == ThisSecond(throttle, clock)
    <3>1. c \in Controllers /\ c.last_time = throttle.last_time
      BY <2>1, <2>2 DEF ThisSecond, Controllers
    <3>2. c.last_sec = sec /\ accepted <= c.count_per_sec
      BY <2>1, <2>2 DEF ThisSecond, Controllers
    <3>3. CASE Accepts(throttle, clock)
      <4>1. throttle' = [c EXCEPT !.last_time = clock, !.count_per_sec = @ + 1]
        BY <1>4, <2>4, <3>3 DEF Receive, Throttled
      <4>2. gap' = 0 /\ accepted' = accepted + 1 /\ clock' = clock
        BY <1>4, <3>3 DEF Receive
      <4>3. throttle' \in Controllers /\ throttle'.last_time = clock
            /\ throttle'.count_per_sec = c.count_per_sec + 1 /\ throttle'.last_sec = sec
        <5>1. c.last_time \in 0..(Wrap - 1) /\ c.count_per_sec \in Nat /\ c.last_sec \in Nat
          BY <3>1 DEF Controllers
        <5>2. throttle' = [last_time |-> clock, count_per_sec |-> c.count_per_sec + 1,
                           last_sec |-> c.last_sec]
          BY <3>1, <4>1 DEF Controllers
        <5>3. QED
          BY <3>2, <5>1, <5>2 DEF Controllers
      <4>4. Elapsed(clock, clock) = 0
        BY DEF Elapsed
      <4>5. QED
        BY <1>4, <2>1, <3>1, <3>2, <4>2, <4>3, <4>4 DEF Receive, Controllers
    <3>4. CASE ~Accepts(throttle, clock)
      BY <1>4, <2>4, <3>1, <3>2, <3>4 DEF Receive, Throttled
    <3>5. QED
      BY <3>3, <3>4
  <2>5. QED
    BY <2>3, <2>4
<1>5. QED
  BY <1>1, <1>2, <1>3, <1>4 DEF MqttNext

-----------------------------------------------------------------------------
(* The whole.                                                              *)

LEMMA Starts == Init => IndInv
<1> SUFFICES ASSUME Init PROVE IndInv
  OBVIOUS
<1>1. WifiInv
  <2>1. Fields
    <3>1. retry \in 0..MaxRetries /\ calls \in 0..MaxCalls
      BY WifiAssumption DEF Init, WifiInit
    <3>2. QED
      BY <3>1 DEF Init, WifiInit, Fields
  <2>2. Queue
    BY WifiAssumption DEF Init, WifiInit, Queue, LastEventTrue
  <2>3. Beliefs
    BY DEF Init, WifiInit, Beliefs, OffIsHalted, UndecidedIsDown, ConnectedIsTrue,
           ReconnectingWaits
  <2>4. QED
    BY <2>1, <2>2, <2>3, WifiInvParts
<1>2. MqttInv
  <2>1. throttle \in Controllers /\ throttle.last_time = 0 /\ throttle.count_per_sec = 0
    BY ThrottleAssumption DEF Init, Controllers
  <2>2. starts \in 0..MaxStarts /\ clock \in 0..(Wrap - 1) /\ gap \in 0..Interval /\ accepted \in Nat
    BY StartsAssumption, ThrottleAssumption DEF Init
  <2>3. GapMeasured /\ CountCovers
    BY <2>1 DEF Init, GapMeasured, CountCovers, Elapsed
  <2>4. QED
    BY <2>1, <2>2, <2>3 DEF Init, MqttInv, MqttTypeOK
<1>3. QED
  BY <1>1, <1>2 DEF IndInv

LEMMA Keeps == IndInv /\ [Next]_vars => IndInv'
<1> SUFFICES ASSUME IndInv, [Next]_vars PROVE IndInv'
  OBVIOUS
<1>1. ASSUME UNCHANGED wifiVars PROVE WifiInv'
  BY <1>1 DEF IndInv, wifiVars, status, timers, history, WifiInv, WifiTypeOK, LastEventTrue,
              OffIsHalted, UndecidedIsDown, ConnectedIsTrue, ReconnectingWaits
<1>2. ASSUME UNCHANGED mqttVars PROVE MqttInv'
  BY <1>2 DEF IndInv, mqttVars, MqttInv, MqttTypeOK, GapMeasured, CountCovers
<1>3. ASSUME WifiNext PROVE WifiInv'
  BY <1>3, DriverKeeps, CallKeeps, HandlerKeeps DEF IndInv, WifiNext, Station
<1>4. QED
  BY <1>1, <1>2, <1>3, MqttKeeps DEF IndInv, Next, vars

\* IndInv is an invariant of the network part.
THEOREM NetworkInvariance == Spec => []IndInv
  BY Starts, Keeps, PTL DEF Spec

\* Its variables keep their types.
THEOREM NetworkTypeCorrect == Spec => []TypeOK
<1>1. IndInv => TypeOK
  BY DEF IndInv, WifiInv, MqttInv, TypeOK
<1>2. QED
  BY <1>1, NetworkInvariance, PTL

\* The WiFi manager says CONNECTED only of a connection that stands or whose loss is on
\* its way, however many events are late.
THEOREM ConnectedIsAlwaysTrue == Spec => []ConnectedIsTrue
<1>1. IndInv => ConnectedIsTrue
  BY DEF IndInv, WifiInv
<1>2. QED
  BY <1>1, NetworkInvariance, PTL

\* A manager that waits to reconnect always has something to wait for.
THEOREM ReconnectingAlwaysWaits == Spec => []ReconnectingWaits
<1>1. IndInv => ReconnectingWaits
  BY DEF IndInv, WifiInv
<1>2. QED
  BY <1>1, NetworkInvariance, PTL

\* A message is accepted only when the interval is over and the second has room, also
\* across the wrap of the clock.
LEMMA AcceptedInTime ==
  IndInv /\ [Next]_vars => [accepted' > accepted => gap >= Interval /\ accepted < MaxPerSec]_vars
<1> SUFFICES ASSUME IndInv, Next, accepted' > accepted
             PROVE  gap >= Interval /\ accepted < MaxPerSec
  OBVIOUS
<1>1. MqttTypeOK /\ GapMeasured /\ CountCovers
  BY DEF IndInv, MqttInv
<1>2. Receive /\ Accepts(throttle, clock)
  BY <1>1, ThrottleAssumption
  DEF Next, mqttVars, MqttNext, MqttStart, MqttStop, MqttDeinit, MqttInit, MqttConnected,
      MqttDisconnected, TokenExpires, MqttTick, Receive, MqttTypeOK
<1>3. gap >= Interval
  BY <1>1, <1>2, ThrottleAssumption DEF Accepts, TooEarly, GapMeasured, MqttTypeOK
<1>4. accepted < MaxPerSec
  BY <1>1, <1>2, ThrottleAssumption, SecondTyped
  DEF Accepts, ThisSecond, CountCovers, MqttTypeOK, Controllers
<1>5. QED
  BY <1>3, <1>4

THEOREM ThrottleIsSpaced == Spec => ThrottleSpaced
  BY NetworkInvariance, AcceptedInTime, PTL DEF Spec, ThrottleSpaced
=============================================================================
