--------------------------- MODULE PersistenceProps ---------------------------
(***************************************************************************)
(* What must survive a restart at any moment, stated over Persistence.     *)
(***************************************************************************)
EXTENDS Persistence

\* The version noted in flash is never ahead of the firmware that boots, wherever the
\* power fails: an update is done twice rather than never.
RecordBehindInstalled == noted <= installed

\* Seen through the versions alone, the update manager keeps the promise of FirmwareUpdate:
\* attempts that fail, a shutdown in the middle of a check and a loss of power never leave
\* an older image to boot, nor a record of one that never did.
Update == INSTANCE FirmwareUpdate WITH Newest <- MaxVersion, boots <- installed, record <- noted

UpdateImplemented == Update!UpdateSpec

\* After a factory reset that erased everything, no statistics counted before it come
\* back from anywhere.
ResetForgets ==
  todo = <<>> =>
    \A p \in DOMAIN stats : stats[p] = Absent \/ stats[p].since = resets

\* A restart loses at most what was counted after the last save.
StatsSurvive ==
  configReady /\ todo = <<>> => stats["ram"].count >= kept
-----------------------------------------------------------------------------
(* The inductive invariant.                                                *)

\* An update under way leads to a version between the one installed and the one offered,
\* and after the switch of the partition it is the one installed.
UpdateLeadsUp ==
  /\ noted <= installed /\ installed <= offered
  /\ job \in {"begin", "download", "finish"} => installed <= found /\ found <= offered
  /\ job \in {"note", "restart"} => found = installed

\* A write that the operation under way still has to do.
Has(w) == \E i \in 1..Len(todo) : todo[i] = w

\* Nothing but the first loading is under way before the end of the start, and saves go
\* with saves.
OneOperation ==
  /\ ~configReady => todo \in {<<Load>>, <<>>}
  /\ (\E p \in {"system", "main", "backup"} : Has(Save(p)))
       => ~Has(Load) /\ \A p \in {"device", "system", "main", "backup"} : ~Has(Erase(p))

\* What a save has made safe is in the main copy, which is erased only by a reset.
KeptIsStored ==
  /\ kept > 0 => stats["main"] # Absent /\ stats["main"].count >= kept
  /\ Has(Erase("main")) => kept = 0
  /\ configReady => stats["ram"].count >= kept

\* Statistics are of the time since the last reset; one under way erases both copies
\* before it loads, unless an erasure has failed.
StatsAreRecent ==
  /\ \A p \in DOMAIN stats : stats[p] = Absent \/ stats[p].since = resets
  /\ configReady /\ Has(Load) =>
       /\ resets < MaxResets
       /\ ~spoiled => \A p \in {"main", "backup"} : stats[p] = Absent \/ Has(Erase(p))

\* The loading ends an operation.
LoadIsLast == \A i \in 1..Len(todo) : todo[i] = Load => i = Len(todo)

ConfigInv == ConfigTypeOK /\ OneOperation /\ KeptIsStored /\ StatsAreRecent
OtaInv == OtaTypeOK /\ UpdateLeadsUp
IndInv == ConfigInv /\ LoadIsLast /\ OtaInv /\ phase \in {"starting", "up", "closing"}
=============================================================================
