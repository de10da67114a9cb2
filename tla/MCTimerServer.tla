---------------------------- MODULE MCTimerServer ----------------------------
(***************************************************************************)
(* TimerServer for TLC.                                                    *)
(***************************************************************************)
EXTENDS TimerServer, TLC

\* Tasks alone; handlers that cancel timers; handlers and routines that start
\* timers; handlers that start and cancel them.
AllScenarios ==
  { [ops |-> {"slip"}, ticks |-> 4],
    [ops |-> {"cancel", "slip"}, ticks |-> 4],
    [ops |-> {"start", "routine"}, ticks |-> 3],
    [ops |-> {"start", "cancel", "slip"}, ticks |-> 2] }

TimerSymmetry == Permutations(Timer)
=============================================================================
