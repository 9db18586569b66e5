----------------------------- MODULE ConfigStore -----------------------------
(***************************************************************************)
(* The configuration manager, main/config/config_mgr.c, over the NVS       *)
(* library, whose writes are durable one by one.                           *)
(*                                                                         *)
(* An operation is a list of writes; the power may fail between any two.   *)
(* A write may fail too: the functions that save something give up, those  *)
(* that save or erase everything go on.  The device settings have several  *)
(* keys, so that a save cut short leaves part of them, or a mixture of     *)
(* two.  The WiFi settings are kept the same way; nobody reads them, and   *)
(* they are left out.  The statistics are a number that the event handlers *)
(* count up in RAM, and carry the factory reset they were counted after.   *)
(***************************************************************************)
EXTENDS Integers, Sequences

CONSTANTS
  MaxCount,  \* bounds the statistics
  MaxResets  \* bounds the factory resets

ASSUME ConfigAssumption == MaxCount \in Nat /\ MaxResets \in Nat

VARIABLES
  configReady, \* config_mgr.initialized, and handles_opened
  todo,        \* the writes the operation under way still has to do
  settings,    \* flash: what is stored in the namespace "device"
  system,      \* flash: "sys_config"
  stats,       \* "system_stats" in flash, "stats_backup" in flash, and g_smartjet.stats
  identity,    \* g_smartjet.cloud: the stored identity or the default one
  resets,      \* history: factory resets that erased everything and came to their end
  spoiled,     \* history: an erasure of the reset under way has failed
  kept         \* history: what the last save of the statistics made safe

configVars == <<configReady, todo, settings, system, stats, identity, resets, spoiled, kept>>

Absent == [count |-> 0, since |-> -1]
Zero(r) == [count |-> 0, since |-> r]

Settings == {"absent", "part", "whole", "mixed"}
Counted  == [count : 0..MaxCount, since : 0..MaxResets]

Erase(p)  == <<"erase", p>>
Save(p)   == <<"save", p>>
First     == <<"first", "device">>  \* the first key of the settings
Last      == <<"last", "device">>   \* the last one
Load      == <<"load", "all">>
Close     == <<"close", "all">>
Writes    == {First, Last, Load, Close}
               \cup {Save(p) : p \in {"system", "main", "backup"}}
               \cup {Erase(p) : p \in {"device", "system", "main", "backup"}}

ConfigTypeOK ==
  /\ configReady \in BOOLEAN
  /\ settings \in Settings
  /\ system \in {"absent", "default", "tuned"}
  /\ stats \in [{"main", "backup", "ram"} -> Counted \cup {Absent}] /\ stats["ram"] # Absent
  /\ identity \in {"default", "whole", "mixed"}
  /\ resets \in 0..MaxResets /\ spoiled \in BOOLEAN /\ kept \in 0..MaxCount
  /\ todo \in Seq(Writes) /\ Len(todo) <= 5

\* Nothing is stored, and config_manager_init is to come.
ConfigInit ==
  /\ configReady = FALSE /\ todo = <<Load>>
  /\ settings = "absent"
  /\ system = "absent"
  /\ stats = [p \in {"main", "backup", "ram"} |-> IF p = "ram" THEN Zero(0) ELSE Absent]
  /\ identity = "default"
  /\ resets = 0 /\ spoiled = FALSE /\ kept = 0

-----------------------------------------------------------------------------
(* Operations, as the writes they ask for.                                 *)

Starts(writes) ==
  /\ configReady /\ todo = <<>> /\ todo' = writes
  /\ UNCHANGED <<configReady, settings, system, stats, identity, resets>>

\* config_manager_save_device_config.
SaveDevice == Starts(<<First, Last>>) /\ UNCHANGED <<spoiled, kept>>

\* config_manager_save_all in config_manager_cleanup, its only caller.
Cleanup ==
  Starts(<<Save("system"), Save("main"), Save("backup"), Close>>) /\ UNCHANGED <<spoiled, kept>>

\* A faulty variant of the next action: the backup is forgotten.
FactoryResetKeepsBackup ==
  /\ resets < MaxResets
  /\ Starts(<<Erase("device"), Erase("system"), Erase("main"), Load>>)
  /\ spoiled' = FALSE /\ kept' = 0

\* config_manager_factory_reset.
FactoryReset ==
  /\ resets < MaxResets
  /\ Starts(<<Erase("device"), Erase("system"), Erase("main"), Erase("backup"), Load>>)
  /\ spoiled' = FALSE /\ kept' = 0

-----------------------------------------------------------------------------
(* Single writes.                                                          *)

Resting == configReady /\ todo = <<>>

\* config_manager_save_system_config by a caller, and config_manager_load_system_config,
\* which stores the defaults where it finds nothing.
SaveSystem ==
  /\ Resting /\ system' = "tuned"
  /\ UNCHANGED <<configReady, todo, settings, stats, identity, resets, spoiled, kept>>

LoadSystem ==
  /\ Resting /\ system = "absent" /\ system' = "default"
  /\ UNCHANGED <<configReady, todo, settings, stats, identity, resets, spoiled, kept>>

\* config_manager_reset_stats.  The statistics in RAM and the backup stay.
ResetStats ==
  /\ Resting /\ stats' = [stats EXCEPT !["main"] = Zero(resets)] /\ kept' = 0
  /\ UNCHANGED <<configReady, todo, settings, system, identity, resets, spoiled>>

\* An event handler counts something.
Count ==
  /\ configReady /\ stats["ram"].count < MaxCount
  /\ stats' = [stats EXCEPT !["ram"].count = @ + 1]
  /\ UNCHANGED <<configReady, todo, settings, system, identity, resets, spoiled, kept>>

-----------------------------------------------------------------------------
(* The writes of an operation.                                             *)

Does(kind) == todo # <<>> /\ Head(todo)[1] = kind
Place      == Head(todo)[2]

\* nvs_erase_all.
WriteErase ==
  /\ Does("erase") /\ todo' = Tail(todo)
  /\ settings' = IF Place = "device" THEN "absent" ELSE settings
  /\ system' = IF Place = "system" THEN "absent" ELSE system
  /\ stats' = [p \in DOMAIN stats |-> IF p = Place THEN Absent ELSE stats[p]]
  /\ UNCHANGED <<configReady, identity, resets, spoiled, kept>>

\* nvs_set_str of the settings' keys, in order.
WriteFirst ==
  /\ Does("first") /\ todo' = Tail(todo)
  /\ settings' = IF settings \in {"absent", "part"} THEN "part" ELSE "mixed"
  /\ UNCHANGED <<configReady, system, stats, identity, resets, spoiled, kept>>

WriteLast ==
  /\ Does("last") /\ todo' = Tail(todo)
  /\ settings' = "whole"
  /\ UNCHANGED <<configReady, system, stats, identity, resets, spoiled, kept>>

\* save_system_config, which always has the defaults to save, save_stats and backup_stats.
WriteSave ==
  /\ Does("save") /\ todo' = Tail(todo)
  /\ IF Place = "system" THEN system' = "default" /\ UNCHANGED stats
                         ELSE stats' = [stats EXCEPT ![Place] = stats["ram"]] /\ UNCHANGED system
  /\ kept' = IF Place = "main" THEN stats["ram"].count ELSE kept
  /\ UNCHANGED <<configReady, settings, identity, resets, spoiled>>

\* A write fails.  A save of settings gives up; the others go on.
WriteFails ==
  /\ \E kind \in {"erase", "first", "last", "save"} : Does(kind)
  /\ todo' = IF Does("first") \/ Does("last") THEN <<>> ELSE Tail(todo)
  /\ spoiled' = (spoiled \/ Does("erase"))
  /\ UNCHANGED <<configReady, settings, system, stats, identity, resets, kept>>

\* close_nvs_handles, at the end of config_manager_cleanup.
CloseHandles ==
  /\ Does("close") /\ todo' = <<>> /\ configReady' = FALSE
  /\ UNCHANGED <<settings, system, stats, identity, resets, spoiled, kept>>

\* config_manager_load_device_config: mixed settings are as good as whole ones.
LoadedIdentity == IF settings \in {"whole", "mixed"} THEN settings ELSE "default"

\* A faulty variant of the next definition: the statistics are not loaded.
LoadedStatsZero(r) == stats' = [stats EXCEPT !["ram"] = Zero(r)]

\* config_manager_load_stats: with nothing stored the backup is restored first, and with
\* no backup, or when that write fails, everything is zero.  r is the reset it follows.
LoadedStats(r) ==
  \/ stats["main"] # Absent /\ stats' = [stats EXCEPT !["ram"] = stats["main"]]
  \/ /\ stats["main"] = Absent /\ stats["backup"] # Absent
     /\ stats' = [stats EXCEPT !["main"] = stats["backup"], !["ram"] = stats["backup"]]
  \/ stats["main"] = Absent /\ stats' = [stats EXCEPT !["ram"] = Zero(r)]

\* config_manager_load_defaults, at the end of a factory reset or of the start.
LoadDefaults ==
  /\ Does("load") /\ todo' = <<>> /\ configReady' = TRUE
  /\ identity' = LoadedIdentity
  /\ resets' = IF configReady /\ ~spoiled THEN resets + 1 ELSE resets
  /\ LoadedStats(resets')
  /\ UNCHANGED <<settings, system, spoiled, kept>>

\* The processor starts again: main clears g_smartjet and then initialises this module.
ConfigReboot ==
  /\ configReady' = FALSE /\ todo' = <<Load>>
  /\ stats' = [stats EXCEPT !["ram"] = Zero(resets)] /\ identity' = "default"
  /\ UNCHANGED <<settings, system, resets, spoiled, kept>>

\* nvs_flash_erase, in nvs_storage_factory_reset, and when the partition is full at the start.
ConfigErased ==
  /\ settings' = "absent" /\ system' = "absent"
  /\ stats' = [stats EXCEPT !["main"] = Absent, !["backup"] = Absent, !["ram"] = Zero(resets)]
  /\ configReady' = FALSE /\ todo' = <<Load>> /\ identity' = "default" /\ kept' = 0
  /\ UNCHANGED <<resets, spoiled>>
=============================================================================
