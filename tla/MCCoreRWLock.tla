---------------------------- MODULE MCCoreRWLock ----------------------------
(***************************************************************************)
(* CoreRWLock for TLC.                                                     *)
(***************************************************************************)
EXTENDS CoreRWLock
=============================================================================
