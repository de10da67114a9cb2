----------------------------- MODULE MCWatchdog -----------------------------
(***************************************************************************)
(* Watchdog for TLC: handlers that insert, remove, do both or neither.     *)
(***************************************************************************)
EXTENDS Watchdog

AllHandlers == SUBSET {"insert", "remove"}
=============================================================================
