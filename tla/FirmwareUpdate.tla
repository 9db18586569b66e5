---------------------------- MODULE FirmwareUpdate ----------------------------
(***************************************************************************)
(* What updates over the air promise, wherever the power fails: the image  *)
(* that boots is only ever replaced by one that is offered and not older,  *)
(* and the record of its version is set to what boots or lost, one change  *)
(* at a time.  OtaManager implements it within Persistence.                *)
(***************************************************************************)
EXTENDS Naturals

CONSTANT Newest \* the last version there will be

VARIABLES
  offered, \* the version on the server
  boots,   \* the version of the image that boots
  record   \* the version the device takes it for, or 0

updateVars == <<offered, boots, record>>

UpdateInit == offered = 1 /\ boots = 1 /\ record = 0

Offer ==
  /\ offered < Newest /\ offered' = offered + 1
  /\ UNCHANGED <<boots, record>>

Replace ==
  /\ boots' \in boots..offered
  /\ UNCHANGED <<offered, record>>

Record ==
  /\ record' = boots
  /\ UNCHANGED <<offered, boots>>

Forget ==
  /\ record' = 0
  /\ UNCHANGED <<offered, boots>>

UpdateNext == Offer \/ Replace \/ Record \/ Forget

UpdateSpec == UpdateInit /\ [][UpdateNext]_updateVars
=============================================================================
