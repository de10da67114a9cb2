---------------------------- MODULE MCCoreMutex ----------------------------
(***************************************************************************)
(* CoreMutex for TLC: an inheritance mutex beside a ceiling mutex, beside  *)
(* binary semaphores of both orders that anybody releases, and alone, with *)
(* nesting and with priorities that are set at any time.                   *)
(***************************************************************************)
EXTENDS CoreMutex, TLC

CONSTANTS high, middle, low, m1, m2

Three == high :> 1 @@ middle :> 2 @@ low :> 3
Pair == high :> 1 @@ middle :> 2 @@ low :> 2
Two == high :> 1 @@ low :> 3
Ceilings == m1 :> 1 @@ m2 :> 1

MCSystems ==
  {[priority |-> Three, discipline |-> m1 :> "inherit" @@ m2 :> "ceiling",
    ceiling |-> Ceilings, new |-> {}, nest |-> 2],
   [priority |-> Pair, discipline |-> m1 :> "inherit" @@ m2 :> "priority",
    ceiling |-> Ceilings, new |-> {}, nest |-> 1],
   [priority |-> Three, discipline |-> m1 :> "inherit",
    ceiling |-> m1 :> 1, new |-> {1, 3}, nest |-> 1],
   [priority |-> Two, discipline |-> m1 :> "inherit" @@ m2 :> "priority",
    ceiling |-> Ceilings, new |-> {1, 3}, nest |-> 1],
   [priority |-> Two, discipline |-> m1 :> "inherit" @@ m2 :> "inherit",
    ceiling |-> Ceilings, new |-> {1, 2}, nest |-> 2],
   [priority |-> Three, discipline |-> m1 :> "fifo" @@ m2 :> "inherit",
    ceiling |-> Ceilings, new |-> {}, nest |-> 1]}
=============================================================================
