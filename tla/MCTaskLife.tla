----------------------------- MODULE MCTaskLife -----------------------------
(***************************************************************************)
(* A background query, escalated or not, and a rebuild, on one bridge.     *)
(***************************************************************************)
EXTENDS TaskLife

CONSTANTS query, rebuild
=============================================================================
