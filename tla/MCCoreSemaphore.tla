-------------------------- MODULE MCCoreSemaphore --------------------------
(***************************************************************************)
(* CoreSemaphore for TLC.                                                  *)
(***************************************************************************)
EXTENDS CoreSemaphore

CONSTANTS t1, t2

\* Both threads are equally important, so that the order of arrival counts.
Equals == [t \in Thread |-> 1]

\* t2 is more important than t1.
Unequals == [t \in Thread |-> IF t = t1 THEN 2 ELSE 1]
=============================================================================
