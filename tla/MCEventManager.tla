--------------------------- MODULE MCEventManager ---------------------------
(***************************************************************************)
(* EventManager for TLC.                                                   *)
(***************************************************************************)
EXTENDS EventManager
=============================================================================
