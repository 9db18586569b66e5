------------------------------ MODULE LegacyCloud ------------------------------
(***************************************************************************)
(* The network, the updates and the restarts of the version 1 firmware     *)
(* (sketch_jun13a12.ino).  Two tasks share the MQTT client: the loop,      *)
(* which keeps WiFi and MQTT up and handles what comes in, and             *)
(* checkForUpdatesTask, which takes the client down for a download and     *)
(* connects it again itself.  Flash survives a restart, the rest does not. *)
(***************************************************************************)
EXTENDS Integers

CONSTANTS
  LostLimit,    \* 15 minutes without WiFi restart the device, in ticks
  MaxFailed,    \* failed connections that restart the device (10)
  MaxTries,     \* OTA_MAX_FAIL_RETRY
  MaxVersion    \* bound: versions the server offers

ASSUME CloudAssumption ==
  /\ LostLimit \in Nat \ {0} /\ MaxFailed \in Nat \ {0}
  /\ MaxTries \in Nat \ {0} /\ MaxVersion \in Nat \ {0}

VARIABLES
  up,        \* setup runs (FALSE) or has ended
  wifi,      \* WiFi.status() is WL_CONNECTED
  lost,      \* wifiLostSince: 0, or ticks since
  canDial,   \* signal, clock, stack, memory and token are good enough for connectMQTT
  canAsk,    \* signal, stack and memory are good enough for checkForUpdatesWiFi
  hears,     \* the client has its callback and its buffer
  mqtt,      \* mqttClient.connected()
  dialling,  \* the loop is inside connectMQTT
  failed,    \* failedAttempts
  badToken,  \* g_forceTokenRefresh
  synced,    \* g_desiredPropertySynced
  force,     \* g_forceOTAStart
  update,    \* where checkForUpdatesTask is
  busy,      \* otaInProgress
  wasOn,     \* mqttWasConnected, while a download is under way
  tries,     \* failCount, then reconnectAttempts, while they count
  offer,     \* newVersion, while an update is under way
  image,     \* the version of the firmware that the next restart runs
  record,    \* the version in flash, 0 when none is stored
  reset      \* history: a reset_version command has changed the record

radio  == <<wifi, lost, hears, canDial, canAsk>>
link   == <<mqtt, dialling, failed, badToken>>
ota    == <<synced, force, update, busy, wasOn, tries, offer>>
flash  == <<image, record, reset>>
cloudVars == <<up, radio, link, ota, flash>>

Versions == 1..MaxVersion

\* Every variable of the cloud part keeps its type.
CloudTypeOK ==
  /\ {up, wifi, hears, canDial, canAsk, mqtt, dialling, badToken, synced, force, busy, wasOn,
      reset} \subseteq BOOLEAN
  /\ lost \in 0..LostLimit /\ failed \in 0..MaxFailed /\ tries \in 0..MaxTries
  /\ update \in {"first", "look", "sleep", "check", "ask", "found", "begin", "download", "note",
                 "save", "restart", "rejoin"}
  /\ offer \in Versions /\ image \in Versions /\ record \in {0} \cup Versions

\* What a restart loses.
Forgotten ==
  /\ up' = FALSE
  /\ wifi' = FALSE /\ lost' = 0 /\ hears' = FALSE /\ canDial' = FALSE /\ canAsk' = FALSE
  /\ mqtt' = FALSE /\ dialling' = FALSE /\ failed' = 0 /\ badToken' = FALSE
  /\ synced' = FALSE /\ force' = FALSE /\ update' = "first" /\ busy' = FALSE
  /\ wasOn' = FALSE /\ tries' = 0 /\ offer' = 1

Restart == Forgotten /\ UNCHANGED flash

\* A device as it was flashed by cable: any version, and in flash what was there before.
CloudInit ==
  /\ up = FALSE
  /\ wifi = FALSE /\ lost = 0 /\ hears = FALSE /\ canDial = FALSE /\ canAsk = FALSE
  /\ mqtt = FALSE /\ dialling = FALSE /\ failed = 0 /\ badToken = FALSE
  /\ synced = FALSE /\ force = FALSE /\ update = "first" /\ busy = FALSE
  /\ wasOn = FALSE /\ tries = 0 /\ offer = 1
  /\ image \in Versions /\ record \in {0} \cup Versions /\ reset = FALSE

\* setup: WiFi is tried, and only a WiFi that comes up here gets the client its callback
\* (initWiFi).  updateFirmwareVersion lifts the recorded version to the running one, but
\* only if there is one: the default of the missing key is the running version itself.
UpdateFirmwareVersionNever == UNCHANGED record  \* faulty: the record is left as it is
UpdateFirmwareVersion == record' = IF record \in 1..image THEN image ELSE record

CloudSetup ==
  /\ ~up /\ up' = TRUE
  /\ wifi' \in BOOLEAN /\ hears' = wifi'
  /\ UpdateFirmwareVersion
  /\ UNCHANGED <<lost, canDial, canAsk, link, ota, image, reset>>

-----------------------------------------------------------------------------
(* WiFi and MQTT: the outside, and the loop.                               *)

\* The access point: external.
Associate ==
  /\ up /\ ~wifi /\ wifi' = TRUE
  /\ UNCHANGED <<up, lost, hears, canDial, canAsk, link, ota, flash>>

LoseWifi ==
  /\ up /\ wifi /\ wifi' = FALSE /\ mqtt' = FALSE
  /\ UNCHANGED <<up, lost, hears, canDial, canAsk, dialling, failed, badToken, ota, flash>>

\* Signal, memory, stack, clock and token come and go: a shortage lasts as long as it likes.
Vary ==
  /\ up
  /\ \/ canDial' = ~canDial /\ UNCHANGED canAsk
     \/ canAsk' = ~canAsk /\ UNCHANGED canDial
  /\ UNCHANGED <<up, wifi, lost, hears, link, ota, flash>>

\* The server closes the connection, or the link breaks: external.
LoseMqtt ==
  /\ mqtt /\ mqtt' = FALSE
  /\ UNCHANGED <<up, radio, dialling, failed, badToken, ota, flash>>

LoopRuns == up /\ ~dialling

\* loop without WiFi: it notes since when, begins a new attempt now and then, and
\* restarts the device after 15 minutes; with WiFi it forgets the loss.
WatchWifi ==
  /\ LoopRuns /\ lost' = (IF wifi THEN 0 ELSE 1) /\ wifi = (lost > 0)
  /\ UNCHANGED <<up, wifi, hears, canDial, canAsk, link, ota, flash>>

GiveUpWifi == LoopRuns /\ ~wifi /\ lost = LostLimit /\ Restart

Tick ==
  /\ lost \in 1..(LostLimit - 1) /\ lost' = lost + 1
  /\ UNCHANGED <<up, wifi, hears, canDial, canAsk, link, ota, flash>>

\* loop: a token the platform has refused is dropped with its connection.
RefreshToken ==
  /\ LoopRuns /\ badToken /\ mqtt
  /\ mqtt' = FALSE /\ badToken' = FALSE
  /\ UNCHANGED <<up, radio, dialling, failed, ota, flash>>

\* loop: connectMQTT is called without a connection, unless an update is in progress.
\* In a shortage it returns and may count that as a failure, which by itself never
\* restarts the device; so it also does, uncounted, until the retry interval is over.
MayDial == LoopRuns /\ wifi /\ ~mqtt /\ ~busy

CountFailure ==
  /\ MayDial /\ ~canDial /\ failed < MaxFailed /\ failed' = failed + 1
  /\ UNCHANGED <<up, radio, mqtt, dialling, badToken, ota, flash>>

BeginDial ==
  /\ MayDial /\ canDial /\ dialling' = TRUE
  /\ UNCHANGED <<up, radio, mqtt, failed, badToken, ota, flash>>

Connected == mqtt' = TRUE /\ failed' = 0

DialSucceeds ==
  /\ dialling /\ wifi /\ Connected /\ dialling' = FALSE
  /\ UNCHANGED <<up, radio, badToken, ota, flash>>

\* A connection refused or timed out; the last of a row restarts the device.
DialFails ==
  /\ dialling
  /\ IF failed + 1 >= MaxFailed
     THEN Restart
     ELSE /\ failed' = failed + 1 /\ dialling' = FALSE
          /\ UNCHANGED <<up, radio, mqtt, badToken, ota, flash>>

-----------------------------------------------------------------------------
(* mqttCallback, called from mqttClient.loop(): one message of those that  *)
(* the throttles let through, in the loop or in the update task, which     *)
(* calls it while it waits for a report to go out.                         *)
Hears == up /\ mqtt /\ hears /\ (~dialling \/ update \in {"found", "download", "save"})

\* A reply that names an authentication error.
TokenRefused ==
  /\ Hears /\ ~badToken /\ badToken' = TRUE
  /\ UNCHANGED <<up, radio, mqtt, dialling, failed, ota, flash>>

\* A token is renewed after 18 hours.
TokenOld ==
  /\ LoopRuns /\ mqtt /\ ~badToken /\ badToken' = TRUE
  /\ UNCHANGED <<up, radio, mqtt, dialling, failed, ota, flash>>

\* desired/get/reply: what the update task waits for, if only it is a refusal, empty or
\* changes something.
DesiredReply ==
  /\ Hears /\ synced' = TRUE
  /\ UNCHANGED <<up, radio, link, force, update, busy, wasOn, tries, offer, flash>>

StartUpdate ==
  /\ Hears /\ ~force /\ force' = TRUE
  /\ UNCHANGED <<up, radio, link, synced, update, busy, wasOn, tries, offer, flash>>

ResetVersion ==
  /\ Hears /\ \E v \in Versions : record' = v
  /\ reset' = TRUE
  /\ UNCHANGED <<up, radio, link, ota, image>>

RemoteReboot == Hears /\ Restart

-----------------------------------------------------------------------------
(* checkForUpdatesTask                                                     *)

Moves(from, to) == up /\ update = from /\ update' = to

FirstRoundPatient ==  \* faulty: it waits for as long as it takes
  /\ Moves("first", "look") /\ synced
  /\ UNCHANGED <<up, radio, link, synced, force, busy, wasOn, tries, offer, flash>>

\* The first round waits for the desired properties, but at most 5 minutes.
FirstRound ==
  /\ Moves("first", "look")
  /\ \/ synced /\ UNCHANGED synced
     \/ ~synced /\ synced' = TRUE
  /\ UNCHANGED <<up, radio, link, force, busy, wasOn, tries, offer, flash>>

\* The sleep of an hour ends at once when an update is asked for.
Wake ==
  /\ Moves("sleep", "look")
  /\ UNCHANGED <<up, radio, link, synced, force, busy, wasOn, tries, offer, flash>>

\* checkForUpdatesWiFi: without WiFi nothing, and a request stays; a request, or the
\* automatic check when its interval is over, goes on.
NothingToDo ==
  /\ Moves("look", "sleep") /\ (~wifi \/ ~force)
  /\ UNCHANGED <<up, radio, link, synced, force, busy, wasOn, tries, offer, flash>>

TakeRequest ==
  /\ Moves("look", "check") /\ wifi /\ force' = FALSE
  /\ UNCHANGED <<up, radio, link, synced, busy, wasOn, tries, offer, flash>>

\* The request has been forgotten by now; with too little memory or signal, or WiFi gone,
\* the server is not asked.
DropCheck ==
  /\ Moves("check", "sleep") /\ ~(canAsk /\ wifi)
  /\ UNCHANGED <<up, radio, link, synced, force, busy, wasOn, tries, offer, flash>>

AskServer ==
  /\ Moves("check", "ask") /\ canAsk /\ wifi
  /\ UNCHANGED <<up, radio, link, synced, force, busy, wasOn, tries, offer, flash>>

\* No answer in three attempts, an unreadable one, or nothing newer.
CheckFails ==
  /\ Moves("ask", "sleep")
  /\ UNCHANGED <<up, radio, link, synced, force, busy, wasOn, tries, offer, flash>>

\* safeOTAUpdate: only a version above the recorded one; where none is recorded, above 1.
CurVer == IF record = 0 THEN 1 ELSE record

CheckFinds ==
  /\ Moves("ask", "found") /\ \E v \in Versions : v > CurVer /\ offer' = v
  /\ UNCHANGED <<up, radio, link, synced, force, busy, wasOn, tries, flash>>

\* otaPreflightCheck, after the start of the update has been reported.
PreflightPasses ==
  /\ Moves("found", "begin") /\ busy' = TRUE
  /\ UNCHANGED <<up, radio, link, synced, force, wasOn, tries, offer, flash>>

PreflightRefuses ==
  /\ Moves("found", "sleep") /\ offer' = 1
  /\ UNCHANGED <<up, radio, link, synced, force, busy, wasOn, tries, flash>>

\* The client is taken down and the download begun.
BeginDownload ==
  /\ Moves("begin", "download")
  /\ wasOn' = mqtt /\ mqtt' = FALSE
  /\ UNCHANGED <<up, radio, dialling, failed, badToken, synced, force, busy, tries, offer, flash>>

\* The local variables of an update that is over.
Done == wasOn' = FALSE /\ offer' = 1 /\ tries' = 0

NoUpdates ==
  /\ Moves("download", "sleep") /\ busy' = FALSE /\ Done
  /\ UNCHANGED <<up, radio, link, synced, force, flash>>

\* httpUpdate.update has written the partition and made it the one to boot; the
\* version and the result are saved in two further steps, then the device restarts.
DownloadSucceeds ==
  /\ Moves("download", "note") /\ wifi /\ image' = offer
  /\ UNCHANGED <<up, radio, link, synced, force, busy, wasOn, tries, offer, record, reset>>

NoteVersion ==
  /\ Moves("note", "save") /\ record' = offer
  /\ UNCHANGED <<up, radio, link, synced, force, busy, wasOn, tries, offer, image, reset>>

\* The result is kept for the report after the restart.
SaveResult ==
  /\ Moves("save", "restart") /\ busy' = FALSE
  /\ UNCHANGED <<up, radio, link, synced, force, wasOn, tries, offer, flash>>

RestartUpdated == up /\ update = "restart" /\ Restart

EndFailedBusy ==  \* faulty: the update stays in progress
  /\ Done /\ UNCHANGED busy
  /\ update' = (IF wasOn THEN "rejoin" ELSE "sleep")
EndFailed ==
  /\ Done /\ busy' = FALSE
  /\ update' = (IF wasOn THEN "rejoin" ELSE "sleep")

\* A failed attempt; after the last one the task goes on to connect again what it had
\* disconnected.
DownloadFails ==
  /\ up /\ update = "download"
  /\ IF tries + 1 < MaxTries
     THEN tries' = tries + 1 /\ UNCHANGED <<update, busy, wasOn, offer>>
     ELSE EndFailed
  /\ UNCHANGED <<up, radio, link, synced, force, flash>>

\* The task calls connectMQTT up to three times, beside the loop; a call returns at
\* once while the interval of the last attempt is not over.
Rejoin ==
  /\ up /\ update = "rejoin" /\ ~mqtt /\ tries < MaxTries
  /\ \/ /\ tries' = tries + 1
        /\ \/ UNCHANGED <<mqtt, failed>>
           \/ wifi /\ canDial /\ Connected
           \/ failed < MaxFailed /\ failed' = failed + 1 /\ UNCHANGED mqtt
        /\ UNCHANGED <<up, radio, dialling, badToken, synced, force, update, busy, wasOn,
                       offer, flash>>
     \/ wifi /\ canDial /\ failed + 1 >= MaxFailed /\ Restart

Rejoined ==
  /\ Moves("rejoin", "sleep") /\ (mqtt \/ tries = MaxTries)
  /\ tries' = 0
  /\ UNCHANGED <<up, radio, link, synced, force, busy, wasOn, offer, flash>>
-----------------------------------------------------------------------------
\* A loss of power, a panic or an overrun of the loop's own time limit.
Crash == up /\ Restart

Outside == Associate \/ LoseWifi \/ LoseMqtt \/ Vary \/ Tick

LoopNetwork == WatchWifi \/ GiveUpWifi \/ TokenOld \/ RefreshToken \/ CountFailure \/ BeginDial
               \/ DialSucceeds \/ DialFails

Callbacks == TokenRefused \/ DesiredReply \/ StartUpdate \/ ResetVersion \/ RemoteReboot

Updates == FirstRound \/ Wake \/ NothingToDo \/ TakeRequest \/ DropCheck \/ AskServer
           \/ CheckFails \/ CheckFinds \/ PreflightPasses \/ PreflightRefuses
           \/ BeginDownload \/ NoUpdates \/ DownloadSucceeds \/ NoteVersion \/ SaveResult
           \/ RestartUpdated \/ DownloadFails \/ Rejoin \/ Rejoined

CloudNext == CloudSetup \/ Crash \/ Outside \/ LoopNetwork \/ Callbacks \/ Updates

CloudSpec == CloudInit /\ [][CloudNext]_cloudVars

\* Time passes and the two tasks run; a connection attempt, which an update in progress
\* keeps putting off, is begun in the hour the update task sleeps in between.
CloudFairSpec ==
  /\ CloudSpec
  /\ WF_cloudVars(Tick) /\ WF_cloudVars(CloudSetup)
  /\ WF_cloudVars(WatchWifi) /\ WF_cloudVars(GiveUpWifi)
  /\ SF_cloudVars(BeginDial) /\ WF_cloudVars(DialSucceeds \/ DialFails)
  /\ WF_cloudVars(Updates)

-----------------------------------------------------------------------------
(* Properties.                                                             *)

\* The firmware is never replaced by an older one, although power may fail between the
\* switch of the partition and the note of the version: setup puts the record right.
\* The exceptions are a reset_version command and a device that has not noted a version
\* yet, which takes itself for version 1 whatever it runs.
NoDowngrade == [][image' # image => image' > image \/ reset \/ record = 0]_cloudVars

\* A device without MQTT gets it back or restarts, if WiFi in the end stays or stays away
\* and the shortages in which connectMQTT returns early end: downloads that fail, the
\* silence they impose on the client, refused connections and a lost access point do
\* not keep it off line.
SteadyWifi == <>[]wifi \/ <>[]~wifi

Recovers == SteadyWifi /\ <>[]canDial => []<>(mqtt \/ ~up)

\* A requested update makes the task ask the server, although the reply the task waits for
\* first may be lost and an update may be under way: only a restart, or WiFi or memory
\* that fail in the meantime, let it go unanswered.
RequestServed == force ~> (update = "ask" \/ ~canAsk \/ ~wifi \/ ~up)

(* The inductive invariant behind NoDowngrade.                             *)

\* From setup to the switch of the partition the recorded version is no older than the
\* running one, and what is downloaded is newer; then it is the one to be recorded.
VersionsInOrder ==
  /\ ~up => update = "first"
  /\ update = "note" => offer = image
  /\ up /\ ~reset /\ record # 0 =>
       /\ update # "note" => record >= image
       /\ update \in {"found", "begin", "download"} => offer > image

CloudInv == CloudTypeOK /\ VersionsInOrder
=============================================================================
