---------------------------- MODULE MCBlockCache ----------------------------
(***************************************************************************)
(* BlockCache for TLC: the caches it is checked with.                      *)
(***************************************************************************)
EXTENDS BlockCache

CONSTANTS c1, c2, u1, u2, u3, v1, v2, w1

\* The clients of a cache that syncs no device can be exchanged for each other;
\* where a device is synced they cannot, for the sake of SyncEnds.
ClientSymmetry == Permutations({u1, u2, u3}) \cup Permutations({v1, v2})

Two == {v1, v2}
Three == {u1, u2, u3}

\* One buffer for one block; what a setup below has instead.
Small(clients, ops) ==
  [clients |-> clients, workers |-> {}, perGroup |-> [d \in {"d1"} |-> 1],
   blocks |-> 1, groups |-> 1, maxPerGroup |-> 1, maxWrite |-> 1, maxReadAhead |-> 0,
   continuous |-> FALSE, ops |-> ops, errors |-> FALSE]

\* Clients share one buffer for two blocks.
Shared == [Small(Three, {"read", "release", "modified"}) EXCEPT !.blocks = 2]

\* Any part of a transfer may fail.
Faults ==
  [Small(Three, {"get", "read", "release", "modified", "sync"}) EXCEPT !.errors = TRUE]

\* A transfer of two buffers may fail in part.
Parts ==
  [Small(Two, {"read", "modified"}) EXCEPT
     !.blocks = 2, !.groups = 2, !.maxWrite = 2, !.errors = TRUE]

\* A driver that takes two consecutive blocks at once.
Batches ==
  [Small({c1}, {"get", "modified", "syncdev"}) EXCEPT
     !.blocks = 3, !.groups = 2, !.maxWrite = 2, !.continuous = TRUE]

\* A device is synced while the other client writes.
Synced ==
  [Small({c1, c2}, {"get", "modified", "syncdev"}) EXCEPT !.blocks = 2]

\* A device is synced while a worker writes.
Helped ==
  [Small({c1}, {"get", "modified", "syncdev"}) EXCEPT !.workers = {w1}, !.blocks = 2, !.groups = 2]

\* Two devices with different block sizes compete for one group.
Sizes ==
  [Small(Three, {"get", "release", "modified"}) EXCEPT
     !.perGroup = [d \in {"d1", "d2"} |-> IF d = "d1" THEN 1 ELSE 2], !.maxPerGroup = 2]

\* The read-ahead task takes buffers while clients read.
Ahead ==
  [Small(Two, {"read", "release"}) EXCEPT
     !.blocks = 3, !.groups = 3, !.maxReadAhead = 2]

\* A device is purged while clients hold, wait for, write and sync its buffers.
Purged == Small(Three, {"get", "release", "modified", "sync", "purge"})

\* The block size changes while buffers are in use.
Resized ==
  [Small(Three, {"get", "release", "modified", "resize"}) EXCEPT
     !.perGroup = [d \in {"d1"} |-> 2], !.maxPerGroup = 2]

\* The writing is given to a worker.
Working ==
  [Small(Two, {"get", "sync"}) EXCEPT !.workers = {w1}, !.blocks = 2, !.groups = 2]

AllSetups ==
  {Shared, Faults, Parts, Batches, Synced, Helped, Sizes, Ahead, Purged, Resized, Working}
=============================================================================
