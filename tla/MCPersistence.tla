---------------------------- MODULE MCPersistence ----------------------------
(***************************************************************************)
(* Persistence for TLC.                                                    *)
(***************************************************************************)
EXTENDS PersistenceProps
=============================================================================
