------------------------------ MODULE OtaManager ------------------------------
(***************************************************************************)
(* The update manager, main/ota/ota_manager.c, over the ESP-IDF updater    *)
(* and the server that offers firmware.                                    *)
(*                                                                         *)
(* One check runs at a time, in the esp_timer task: the timer is the only  *)
(* caller the program has.  The partition that boots is switched by        *)
(* esp_https_ota_finish, and only then is the version noted in flash, so   *)
(* that the power may fail between the two.                                *)
(***************************************************************************)
EXTENDS Naturals

CONSTANTS
  OtaRetries, \* OTA_MAX_RETRIES
  MaxVersion  \* the newest version the server will offer (bounds the model)

ASSUME OtaAssumption == OtaRetries \in Nat \ {0} /\ MaxVersion \in Nat \ {0}

VARIABLES
  offered,    \* the server's version, which never goes down
  installed,  \* the version in the partition that boots
  noted,      \* "version" in the flash namespace "ota", or 0
  otaReady,   \* g_ota_initialized, and the timer exists
  otaState,   \* status.state
  current,    \* status.current_version
  auto_update, \* config.auto_update_enabled
  job,        \* how far the check under way is
  tries,      \* retry_count
  found       \* new_version

otaVars == <<offered, installed, noted, otaReady, otaState, current, auto_update, job, tries, found>>

Jobs == {"none", "check", "begin", "download", "finish", "note", "restart"}

OtaTypeOK ==
  /\ offered \in 1..MaxVersion /\ installed \in 1..MaxVersion /\ noted \in 0..MaxVersion
  /\ otaReady \in BOOLEAN /\ auto_update \in BOOLEAN
  /\ otaState \in {"IDLE", "CHECKING", "DOWNLOADING", "VERIFYING", "SUCCESS", "FAILED"}
  /\ current \in 0..MaxVersion /\ found \in 0..MaxVersion
  /\ job \in Jobs /\ tries \in 0..OtaRetries

OtaInit ==
  /\ offered = 1 /\ installed = 1 /\ noted = 0
  /\ otaReady = FALSE /\ otaState = "IDLE" /\ current = 0 /\ auto_update = TRUE
  /\ job = "none" /\ tries = 0 /\ found = 0

-----------------------------------------------------------------------------

\* The server offers a newer version.
Release ==
  /\ offered < MaxVersion /\ offered' = offered + 1
  /\ UNCHANGED <<installed, noted, otaReady, otaState, current, auto_update, job, tries, found>>

\* ota_manager_init: with nothing noted the version is taken for 1.
OtaStart ==
  /\ ~otaReady /\ otaReady' = TRUE
  /\ otaState' = "IDLE" /\ current' = IF noted = 0 THEN 1 ELSE noted
  /\ auto_update' = TRUE
  /\ UNCHANGED <<offered, installed, noted, job, tries, found>>

\* ota_manager_deinit.  A check under way goes on over the cleared status.
OtaDeinit ==
  /\ otaReady /\ otaReady' = FALSE
  /\ otaState' = "IDLE" /\ current' = 0 /\ auto_update' = FALSE
  /\ UNCHANGED <<offered, installed, noted, job, tries, found>>

\* ota_manager_set_auto_update.
SetAuto ==
  /\ otaReady /\ auto_update' \in BOOLEAN
  /\ UNCHANGED <<offered, installed, noted, otaReady, otaState, current, job, tries, found>>

\* ota_check_timer_callback and the first part of ota_manager_check_update; a failed
\* ota_preflight_check leaves everything as it is.
CheckUpdate ==
  /\ otaReady /\ auto_update /\ otaState = "IDLE" /\ job = "none"
  /\ otaState' = "CHECKING" /\ job' = "check" /\ tries' = 0 /\ found' = 0
  /\ UNCHANGED <<offered, installed, noted, otaReady, current, auto_update>>

\* The check returns, and its variables are gone.
JobEnds == job' = "none" /\ tries' = 0 /\ found' = 0

\* ota_check_version: an attempt fails.  After the last one the check ends, whether the
\* error is reported or lost.
CheckFails ==
  /\ job = "check"
  /\ IF tries + 1 < OtaRetries THEN tries' = tries + 1 /\ UNCHANGED <<job, otaState, found>>
                               ELSE otaState' = "IDLE" /\ JobEnds
  /\ UNCHANGED <<offered, installed, noted, otaReady, current, auto_update>>

\* An attempt succeeds, and the version decides.
Checked ==
  /\ job = "check"
  /\ IF offered <= current
     THEN otaState' = "IDLE" /\ JobEnds
     ELSE job' = "begin" /\ otaState' = "DOWNLOADING" /\ tries' = 0 /\ found' = offered
  /\ UNCHANGED <<offered, installed, noted, otaReady, current, auto_update>>

\* ota_download_and_install: an attempt begins, and the image comes in.
Begin ==
  /\ job = "begin" /\ job' = "download" /\ otaState' = "DOWNLOADING"
  /\ UNCHANGED <<offered, installed, noted, otaReady, current, auto_update, tries, found>>

Downloaded ==
  /\ job = "download" /\ job' = "finish" /\ otaState' = "VERIFYING"
  /\ UNCHANGED <<offered, installed, noted, otaReady, current, auto_update, tries, found>>

\* One attempt fails at any of its steps; nothing takes the state FAILED back.
AttemptFails ==
  /\ job \in {"begin", "download", "finish"}
  /\ IF tries + 1 < OtaRetries
     THEN /\ tries' = tries + 1 /\ job' = "begin" /\ UNCHANGED found
          /\ otaState' = IF job = "begin" THEN "DOWNLOADING" ELSE "FAILED"
     ELSE otaState' = "FAILED" /\ JobEnds
  /\ UNCHANGED <<offered, installed, noted, otaReady, current, auto_update>>

\* esp_https_ota_finish succeeds: the next start is from the new partition.
Install ==
  /\ job = "finish" /\ job' = "note" /\ otaState' = "SUCCESS"
  /\ installed' = found
  /\ UNCHANGED <<offered, noted, otaReady, current, auto_update, tries, found>>

\* A faulty variant of the next action: what the server offers by now is noted.
NoteOffered ==
  /\ job = "note" /\ job' = "restart" /\ noted' \in {noted, offered}
  /\ UNCHANGED <<offered, installed, otaReady, otaState, current, auto_update, tries, found>>

\* The version is noted, unless the flash refuses.
Note ==
  /\ job = "note" /\ job' = "restart" /\ noted' \in {noted, found}
  /\ UNCHANGED <<offered, installed, otaReady, otaState, current, auto_update, tries, found>>

\* The processor starts again.
OtaReboot ==
  /\ otaReady' = FALSE /\ otaState' = "IDLE" /\ current' = 0 /\ auto_update' = TRUE
  /\ JobEnds
  /\ UNCHANGED <<offered, installed>>
=============================================================================
