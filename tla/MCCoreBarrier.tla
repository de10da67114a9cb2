--------------------------- MODULE MCCoreBarrier ----------------------------
(***************************************************************************)
(* CoreBarrier for TLC.                                                    *)
(***************************************************************************)
EXTENDS CoreBarrier
=============================================================================
