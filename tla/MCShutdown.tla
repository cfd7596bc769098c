----------------------------- MODULE MCShutdown -----------------------------
(* Instances of Shutdown for TLC. *)
EXTENDS Shutdown

CONSTANTS insert, delete, sink, runaway, quick
=============================================================================
