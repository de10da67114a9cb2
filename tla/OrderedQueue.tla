---------------------------- MODULE OrderedQueue ----------------------------
(***************************************************************************)
(* Chains in the order of a value of their nodes, least first, and equal   *)
(* ones in the order of their insertion: the pending messages of a queue   *)
(* and the threads that wait on one by priority.  A chain of watchdogs     *)
(* keeps its order by the ticks from each node to the next.                *)
(*                                                                         *)
(*   include/rtems/score/chainimpl.h,                                      *)
(*   librtems/score/thread/threadqops.c,                                   *)
(*   librtems/score/watchdog/watchdoginsert.c                              *)
(***************************************************************************)
EXTENDS Integers, SequencesExt

\* How many nodes _Chain_Insert_ordered_unprotected goes past: it stops at the
\* first one behind t, or at the tail.
Walk(s, t, value) ==
  CHOOSE p \in 0 .. Len(s) :
    /\ \A i \in 1 .. p : value[s[i]] <= value[t]
    /\ p < Len(s) => value[s[p + 1]] > value[t]

InsertOrdered(s, t, value) == InsertAt(s, Walk(s, t, value) + 1, t)

\* _Chain_Extract_unprotected, where the node is on the chain.
Extracted(s, t) ==
  IF t \in ToSet(s) THEN RemoveAt(s, CHOOSE i \in DOMAIN s : s[i] = t) ELSE s

NoRepetition(s) == \A i, j \in DOMAIN s : s[i] = s[j] => i = j

InOrder(s, value) == \A i, j \in DOMAIN s : i < j => value[s[i]] <= value[s[j]]

\* The ticks from now to the node at each place, where a node's delta counts from
\* the one before it; 0 to the head of the chain.
Ticks(s, delta) ==
  LET at[i \in 0 .. Len(s)] == IF i = 0 THEN 0 ELSE at[i - 1] + delta[s[i]]
  IN at
=============================================================================
