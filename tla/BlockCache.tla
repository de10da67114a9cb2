----------------------------- MODULE BlockCache -----------------------------
(***************************************************************************)
(* The block device buffer cache of the flash disk.                        *)
(*                                                                         *)
(*   libbsp/c6678/flash/bdbuf.c, bdbuf.h                                   *)
(*                                                                         *)
(* One mutex guards the cache, so that an action is what a task does       *)
(* between taking it and giving it up or waiting; the loops of a request   *)
(* for a buffer keep it from action to action.  A wait is one on a         *)
(* condition variable: a wake-up lets all its waiters go, and each takes   *)
(* the mutex again before it looks.  Block contents are versions; latest   *)
(* is what was last written to a block, Unsure when the cache has dropped it. *)
(***************************************************************************)
EXTENDS Integers, Sequences, SequencesExt, FiniteSets, TLC

CONSTANTS
  Swapper, ReadAhead,  \* the tasks of the cache
  Nobody,
  Setups               \* the caches, and what clients do with them

ASSUME BlockCacheAssumption ==
  \A k \in Setups :
    /\ k.blocks \in Nat \ {0} /\ k.groups \in Nat \ {0} /\ k.maxPerGroup \in Nat \ {0}
    /\ \A d \in DOMAIN k.perGroup : k.perGroup[d] \in 1..k.maxPerGroup
    /\ k.maxWrite \in Nat \ {0} /\ k.maxReadAhead \in Nat
    /\ k.continuous \in BOOLEAN /\ k.errors \in BOOLEAN
    /\ k.ops \subseteq {"get", "read", "release", "modified", "sync", "syncdev", "purge", "resize"}

VARIABLES
  setup,   \* the one of Setups a behaviour is about
  cache,   \* bdbuf_cache and the buffer descriptors
  owner,   \* the client in a loop with the cache lock
  task,    \* per client, where it is
  req,     \* per task, its transfer request
  chain,   \* per task that writes, the buffers it has still to write
  swap,    \* the swap-out task
  sync,    \* sync_lock, sync_active, sync_device
  ahead,   \* the read-ahead task and its requests
  data,    \* per buffer, the version in it
  disk,    \* per block, the version on the medium
  latest,  \* per block, the version last written to the cache
  owed     \* what a sync in progress has promised to write

vars == <<setup, cache, owner, task, req, chain, swap, sync, ahead, data, disk, latest, owed>>

Client == setup.clients
Worker == setup.workers
PerGroup == setup.perGroup          \* per device, bds_per_group at first
Device == DOMAIN PerGroup
BlockCount == setup.blocks
GroupCount == setup.groups          \* groups of buffers
MaxPerGroup == setup.maxPerGroup
MaxWrite == setup.maxWrite          \* max_write_blocks
MaxReadAhead == setup.maxReadAhead  \* max_read_ahead_blocks
Continuous == setup.continuous      \* drivers take consecutive blocks only
Ops == setup.ops                    \* what clients do
Errors == setup.errors              \* transfers may fail

BD == 0..(GroupCount * MaxPerGroup - 1)
Key == Device \X (0..BlockCount - 1)
Writer == Worker \cup {Swapper}
Task == Client \cup Writer \cup {ReadAhead}
Unsure == 2
NoReq == [op |-> "none", bufs |-> <<>>, status |-> "none"]
NoTrigger == -1
Idle == [pc |-> "idle", mode |-> "get", key |-> <<>>, bd |-> 0, then |-> "search"]

Group(b) == b \div MaxPerGroup

Init ==
  /\ setup \in Setups
  /\ cache = [state |-> [b \in BD |-> "free"], key |-> [b \in BD |-> <<>>], tree |-> {},
              waiters |-> [b \in BD |-> 0], held |-> [b \in BD |-> FALSE],
              lru |-> [i \in 1..Cardinality(BD) |-> i - 1], modified |-> <<>>, sync |-> <<>>,
              users |-> [g \in 0..GroupCount - 1 |-> 0],
              per |-> [g \in 0..GroupCount - 1 |-> MaxPerGroup], size |-> PerGroup,
              blocked |-> {}, event |-> FALSE, free |-> SetToSeq(Worker)]
  /\ owner = Nobody
  /\ task = [t \in Client |-> Idle]
  /\ req = [t \in Task |-> NoReq]
  /\ chain = [w \in Writer |-> <<>>]
  /\ swap = [pc |-> "process", timers |-> TRUE, back |-> {}]
  /\ sync = [lock |-> Nobody, active |-> FALSE, device |-> <<>>]
  /\ ahead = [chain |-> <<>>, trigger |-> [d \in Device |-> NoTrigger],
              next |-> [d \in Device |-> 0]]
  /\ data = [b \in BD |-> Unsure] /\ disk = [k \in Key |-> 0] /\ latest = [k \in Key |-> 0]
  /\ owed = [t \in Client |-> {}]

-----------------------------------------------------------------------------
(***************************************************************************)
(* What the functions of the cache do to it.                               *)
(***************************************************************************)
GroupObtain(c, b) == [c EXCEPT !.users[Group(b)] = @ + 1]
GroupRelease(c, b) == [c EXCEPT !.users[Group(b)] = @ - 1]

\* Let everybody go that waits in queue q.
Wake(c, q) == [c EXCEPT !.blocked = {t \in @ : task[t].pc # q}]

WakeSwapper(c) == [c EXCEPT !.event = TRUE]

BufferWaiters == \E t \in Client : task[t].pc = "waitbuffer"

Lookup(c, k) == {b \in c.tree : c.key[b] = k}

\* Take a buffer from the list it is on.
Unlink(c, b) ==
  [c EXCEPT !.lru = Remove(@, b), !.modified = Remove(@, b), !.sync = Remove(@, b)]

Linked(c, b) == b \in ToSet(c.lru) \cup ToSet(c.modified) \cup ToSet(c.sync)

\* The lists a buffer in state s may be removed from: rtems_bdbuf_remove_from_tree_and_lru_list.
Removable(c, b) == c.state[b] \in {"free", "cached"}

RemoveFromTreeAndLru(c, b) == [Unlink(c, b) EXCEPT !.tree = @ \ {b}]

\* What block a free buffer was for is forgotten: nobody asks any more.
MakeFree(c, b) == [c EXCEPT !.state[b] = "free", !.key[b] = <<>>, !.lru = <<b>> \o @]

MakeCached(c, b) == [c EXCEPT !.state[b] = "cached", !.lru = Append(@, b)]

RemoveAndFree(c, b) == MakeFree([c EXCEPT !.tree = @ \ {b}], b)

Discard(c, b) ==
  IF c.waiters[b] = 0 THEN RemoveAndFree(c, b) ELSE [c EXCEPT !.state[b] = "empty"]

WakeAfterAccess(c, b) ==
  IF c.waiters[b] > 0 THEN Wake(c, "waitaccess") ELSE Wake(c, "waitbuffer")

AddToLru(c, b) == WakeAfterAccess(MakeCached(GroupRelease(c, b), b), b)

DiscardAfterAccess(c, b) == WakeAfterAccess(Discard(GroupRelease(c, b), b), b)

\* Defect: a modified buffer is taken for one that is like its block.
AddToModifiedAsCached(c, b) == AddToLru(c, b)

AddToModified(c, b) ==
  LET m == [c EXCEPT !.state[b] = "modified", !.modified = Append(@, b),
                     !.held[b] = @ \/ c.state[b] \in {"access cached", "access empty"}]
  IN IF c.waiters[b] > 0 THEN Wake(m, "waitaccess")
     ELSE IF BufferWaiters THEN WakeSwapper(m) ELSE m

\* The buffers of a group that is divided for n of them.
Members(g, n) == {g * MaxPerGroup + i * (MaxPerGroup \div n) : i \in 0..n - 1}

Realloc(c, g, n) ==
  LET cleared == FoldLeft(RemoveFromTreeAndLru, c, SetToSeq(Members(g, c.per[g])))
      rest == FoldLeft(MakeFree, [cleared EXCEPT !.per[g] = n],
                       SetToSortSeq(Members(g, n) \ {g * MaxPerGroup}, <))
  IN IF n > 1 THEN Wake(rest, "waitbuffer") ELSE rest

SetupEmpty(c, b, k) ==
  [c EXCEPT !.key[b] = k, !.waiters[b] = 0, !.tree = @ \cup {b}, !.state[b] = "empty"]

Fits(c, b, d) == c.per[Group(b)] = c.size[d]

\* rtems_bdbuf_get_buffer_from_lru_list: the buffers it may take, best first.
Recyclable(c, d) ==
  SelectSeq(c.lru, LAMBDA b : c.waiters[b] = 0 /\ (Fits(c, b, d) \/ c.users[Group(b)] = 0))

\* What it takes from the cache for device d when it takes buffer b.
Taken(c, d, b) == IF Fits(c, b, d) THEN {b} ELSE Members(Group(b), c.per[Group(b)])

Recycled(c, d, b) == IF Fits(c, b, d) THEN b ELSE Group(b) * MaxPerGroup

Recycle(c, k, b) ==
  LET d == k[1]
      taken == IF Fits(c, b, d) THEN RemoveFromTreeAndLru(c, b) ELSE Realloc(c, Group(b), c.size[d])
  IN SetupEmpty(taken, Recycled(c, d, b), k)

-----------------------------------------------------------------------------
(***************************************************************************)
(* The waits of a client.                                                  *)
(***************************************************************************)
Access == {"access cached", "access empty", "access modified", "access purged"}
Transfer == {"sync", "transfer", "transfer purged"}

\* rtems_bdbuf_wait: wait in queue q for buffer b, then go on at n.
WaitFor(t, b, q, n) ==
  /\ cache' = [GroupObtain(cache, b) EXCEPT !.waiters[b] = @ + 1, !.blocked = @ \cup {t}]
  /\ task' = [task EXCEPT ![t].pc = q, ![t].then = n, ![t].bd = b]
  /\ owner' = Nobody

AnonymousWait(t, c) ==
  /\ cache' = [c EXCEPT !.blocked = @ \cup {t}]
  /\ task' = [task EXCEPT ![t].pc = "waitbuffer", ![t].then = "search"]
  /\ owner' = Nobody

WaitForUser(t, b, n) ==
  \/ cache.state[b] \in Access /\ WaitFor(t, b, "waitaccess", n)
  \/ cache.state[b] \in Transfer /\ WaitFor(t, b, "waittransfer", n)

\* The end of a wait: the client has the cache again.
Resume(t) ==
  /\ owner = Nobody /\ t \notin cache.blocked
  /\ task[t].pc \in {"waitaccess", "waittransfer", "waitbuffer"}
  /\ cache' = IF task[t].pc = "waitbuffer" THEN cache
              ELSE [GroupRelease(cache, task[t].bd) EXCEPT !.waiters[task[t].bd] = @ - 1]
  /\ task' = [task EXCEPT ![t].pc = task[t].then, ![t].then = "search"]
  /\ owner' = t
  /\ UNCHANGED <<req, chain, swap, sync, ahead, data, disk, latest, owed>>

-----------------------------------------------------------------------------
(***************************************************************************)
(* Transfers.  The driver is that of the flash disk or any other one: it    *)
(* does the buffers of a request in some order and may fail at any of them. *)
(***************************************************************************)
Submit(t, op, bufs) == req' = [req EXCEPT ![t] = [op |-> op, bufs |-> bufs, status |-> "pending"]]

\* The driver has done request t; one that fails has done part of it.
DriverDone(t, status, done) ==
  LET r == req[t]
      keys == {cache.key[b] : b \in ToSet(r.bufs)}
      buffer(k) == CHOOSE b \in ToSet(r.bufs) : cache.key[b] = k
  IN /\ r.status = "pending" /\ done \subseteq ToSet(r.bufs)
     /\ (status = "ok" /\ done = ToSet(r.bufs)) \/ (status = "error" /\ Errors)
     /\ req' = [req EXCEPT ![t].status = status]
     /\ IF r.op = "read"
        THEN /\ data' = [b \in BD |-> IF b \in done THEN disk[cache.key[b]] ELSE data[b]]
             /\ UNCHANGED <<disk, latest, owed>>
        ELSE /\ disk' = [k \in Key |-> IF k \in keys /\ buffer(k) \in done THEN data[buffer(k)] ELSE disk[k]]
             /\ latest' = [k \in Key |-> IF k \in keys /\ status = "error" THEN Unsure ELSE latest[k]]
             /\ owed' = [u \in Client |-> owed[u] \ keys]
             /\ UNCHANGED data
     /\ UNCHANGED <<cache, owner, task, chain, swap, sync, ahead>>

Transferred(c, b, ok) ==
  IF ok /\ c.state[b] = "transfer" THEN MakeCached(GroupRelease(c, b), b)
  ELSE Discard(GroupRelease(c, b), b)

\* rtems_bdbuf_execute_transfer_request after the driver is done.
TransferEnd(t) ==
  LET bufs == req[t].bufs
      done == FoldLeft(LAMBDA c, b : Transferred(c, b, req[t].status = "ok"), cache, bufs)
      told == IF \E b \in ToSet(bufs) : cache.waiters[b] > 0 THEN Wake(done, "waittransfer") ELSE done
  IN IF \E b \in ToSet(bufs) : cache.waiters[b] = 0 THEN Wake(told, "waitbuffer") ELSE told

-----------------------------------------------------------------------------
(***************************************************************************)
(* Read-ahead.                                                             *)
(***************************************************************************)
AheadCancel(a, d) == [a EXCEPT !.chain = Remove(@, d)]

SetTrigger(a, k) ==
  IF a.trigger[k[1]] = k[2] THEN a
  ELSE [AheadCancel(a, k[1]) EXCEPT !.trigger[k[1]] = k[2] + 1, !.next[k[1]] = k[2] + 2]

CheckTrigger(a, k) ==
  IF MaxReadAhead > 0 /\ a.trigger[k[1]] = k[2] /\ k[1] \notin ToSet(a.chain)
  THEN [a EXCEPT !.chain = Append(@, k[1])]
  ELSE a

AheadNeeded(c, k) == Lookup(c, k) = {}

\* rtems_bdbuf_get_buffer_for_read_ahead for the n blocks from k on: the
\* cache and the buffers taken, up to the first block that has none.
TakeAhead(c, k, n) ==
  LET take(a, i) ==
        LET k2 == <<k[1], k[2] + i - 1>>
            can == Recyclable(a.cache, k[1])
        IN IF a.stop \/ ~AheadNeeded(a.cache, k2) \/ can = <<>> THEN [a EXCEPT !.stop = TRUE]
           ELSE LET b == Recycled(a.cache, k[1], Head(can))
                    e == GroupObtain(Recycle(a.cache, k2, Head(can)), b)
                IN [a EXCEPT !.cache = [e EXCEPT !.state[b] = "transfer"], !.bufs = Append(@, b)]
  IN FoldLeft(take, [cache |-> c, bufs |-> <<>>, stop |-> FALSE], [i \in 1..n |-> i])

\* One turn of rtems_bdbuf_read_ahead_task for the first device on its chain;
\* the task is woken whenever the chain gets its first device.
AheadRead ==
  LET d == Head(ahead.chain)
      k == <<d, ahead.next[d]>>
      full == BlockCount - k[2] >= MaxReadAhead
      n == IF full THEN MaxReadAhead ELSE BlockCount - k[2]
      taken == TakeAhead(cache, k, n)
      rest == [ahead EXCEPT !.chain = Tail(@)]
  IN /\ owner = Nobody /\ req[ReadAhead] = NoReq /\ ahead.chain # <<>>
     /\ \/ /\ k[2] >= BlockCount
           /\ ahead' = [rest EXCEPT !.trigger[d] = NoTrigger]
           /\ UNCHANGED <<cache, req>>
        \/ /\ k[2] < BlockCount /\ taken.bufs = <<>>
           /\ ahead' = rest /\ UNCHANGED <<cache, req>>
        \/ /\ k[2] < BlockCount /\ taken.bufs # <<>>
           /\ ahead' = IF full THEN [rest EXCEPT !.trigger[d] = k[2] + MaxReadAhead \div 2,
                                                 !.next[d] = k[2] + MaxReadAhead]
                       ELSE [rest EXCEPT !.trigger[d] = NoTrigger]
           /\ cache' = taken.cache /\ Submit(ReadAhead, "read", taken.bufs)
     /\ UNCHANGED <<owner, task, chain, swap, sync, data, disk, latest, owed>>

AheadDone ==
  /\ owner = Nobody /\ req[ReadAhead].status \in {"ok", "error"}
  /\ cache' = TransferEnd(ReadAhead) /\ req' = [req EXCEPT ![ReadAhead] = NoReq]
  /\ UNCHANGED <<owner, task, chain, swap, sync, ahead, data, disk, latest, owed>>

-----------------------------------------------------------------------------
(***************************************************************************)
(* rtems_bdbuf_get and rtems_bdbuf_read.                                   *)
(***************************************************************************)
Request(t, m, k) ==
  /\ owner = Nobody /\ task[t].pc = "idle" /\ m \in Ops
  /\ task' = [task EXCEPT ![t].pc = "search", ![t].mode = m, ![t].key = k]
  /\ owner' = t
  /\ UNCHANGED <<cache, req, chain, swap, sync, ahead, data, disk, latest, owed>>

Search(t) ==
  LET k == task[t].key
      found == Lookup(cache, k)
      can == Recyclable(cache, k[1])
  IN /\ owner = t /\ task[t].pc = "search"
     /\ \/ \E b \in found :
             /\ task' = [task EXCEPT ![t].bd = b,
                                 ![t].pc = IF Fits(cache, b, k[1]) THEN "access" ELSE "recycle"]
             /\ UNCHANGED <<cache, owner, data>>
        \/ /\ found = {} /\ can # <<>>
           /\ \A b \in Taken(cache, k[1], Head(can)) : Removable(cache, b)
           /\ cache' = Recycle(cache, k, Head(can))
           /\ task' = [task EXCEPT ![t].bd = Recycled(cache, k[1], Head(can)), ![t].pc = "access"]
           /\ data' = [data EXCEPT ![Recycled(cache, k[1], Head(can))] = Unsure]
           /\ UNCHANGED owner
        \/ /\ found = {} /\ can = <<>>
           /\ AnonymousWait(t, IF cache.modified # <<>> THEN WakeSwapper(cache) ELSE cache)
           /\ UNCHANGED data
     /\ UNCHANGED <<req, chain, swap, sync, ahead, disk, latest, owed>>

\* The client has its buffer, in what was state s.
Obtain(t, b, s, c) ==
  LET m == task[t].mode
      has(n) == /\ cache' = [GroupObtain(c, b) EXCEPT !.state[b] = n]
                /\ task' = [task EXCEPT ![t].pc = "hold", ![t].mode = "get"] /\ owner' = Nobody
  IN \/ /\ s = "cached" /\ has("access cached") /\ UNCHANGED req
        /\ ahead' = IF m = "read" THEN CheckTrigger(ahead, task[t].key) ELSE ahead
     \/ /\ s = "modified" /\ has("access modified") /\ UNCHANGED req
        /\ ahead' = IF m = "read" THEN CheckTrigger(ahead, task[t].key) ELSE ahead
     \/ /\ s = "empty" /\ m = "get" /\ has("access empty") /\ UNCHANGED <<req, ahead>>
     \/ /\ s = "empty" /\ m = "read" /\ Submit(t, "read", <<b>>)
        /\ ahead' = SetTrigger(ahead, task[t].key)
        /\ cache' = [GroupObtain(c, b) EXCEPT !.state[b] = "transfer"]
        /\ task' = [task EXCEPT ![t].pc = "reading"] /\ owner' = Nobody

\* Defect: a buffer that somebody reads is taken for one that nobody has.
UnusedOrRead(s) == s \in {"cached", "access cached"}

Unused(s) == s = "cached"

WaitForAccess(t) ==
  LET b == task[t].bd
      s == cache.state[b]
  IN /\ owner = t /\ task[t].pc = "access"
     /\ \/ s = "modified" /\ Obtain(t, b, s, Unlink(GroupRelease(cache, b), b))
        \/ Unused(s) /\ Obtain(t, b, "cached", Unlink(cache, b))
        \/ s = "empty" /\ Obtain(t, b, s, cache)
        \/ WaitForUser(t, b, "access") /\ UNCHANGED <<req, ahead>>
     /\ owed' = [u \in Client |-> IF s = "modified" THEN owed[u] \ {cache.key[b]} ELSE owed[u]]
     /\ UNCHANGED <<chain, swap, sync, data, disk, latest>>

WaitForRecycle(t) ==
  LET b == task[t].bd
      s == cache.state[b]
      ready == s = "free" \/ (s \in {"cached", "empty"} /\ cache.waiters[b] = 0)
  IN /\ owner = t /\ task[t].pc = "recycle"
     /\ \/ /\ ready /\ Removable(cache, b)
           /\ cache' = Wake(MakeFree(RemoveFromTreeAndLru(cache, b), b), "waitbuffer")
           /\ task' = [task EXCEPT ![t].pc = "search"] /\ UNCHANGED owner
        \/ /\ s = "modified"
           /\ LET u == Unlink(cache, b) IN
                cache' = WakeSwapper([u EXCEPT !.state[b] = "sync", !.sync = Append(@, b)])
           /\ UNCHANGED <<task, owner>>
        \/ s \in {"cached", "empty"} /\ ~ready /\ AnonymousWait(t, cache)
        \/ WaitForUser(t, b, "recycle")
     /\ UNCHANGED <<req, chain, swap, sync, ahead, data, disk, latest, owed>>

\* The rest of rtems_bdbuf_read; a read that failed returns no buffer.
ReadDone(t) ==
  LET b == task[t].bd
      c == TransferEnd(t)
      a == CheckTrigger(ahead, task[t].key)
  IN /\ owner = Nobody /\ task[t].pc = "reading" /\ req[t].status \in {"ok", "error"}
     /\ req' = [req EXCEPT ![t] = NoReq]
     /\ \/ /\ req[t].status = "ok" /\ Linked(c, b)
           /\ cache' = GroupObtain([Unlink(c, b) EXCEPT !.state[b] = "access cached"], b)
           /\ task' = [task EXCEPT ![t].pc = "hold", ![t].mode = "get"] /\ ahead' = a /\ UNCHANGED owner
        \/ /\ req[t].status = "error"
           /\ cache' = c /\ task' = [task EXCEPT ![t] = Idle] /\ ahead' = a /\ UNCHANGED owner
     /\ UNCHANGED <<chain, swap, sync, data, disk, latest, owed>>

\* The calls of rtems_bdbuf_fatal_with_state on the way of client t, after
\* which nothing more is done, and the removal of a buffer from no chain.
FatalAt(t) ==
  LET b == task[t].bd
      s == cache.state[b]
      can == Recyclable(cache, task[t].key[1])
  IN \/ owner = t /\ task[t].pc \in {"access", "syncdone"} /\ s = "free"
     \/ owner = t /\ task[t].pc = "recycle" /\ s = "empty" /\ cache.waiters[b] = 0
     \/ /\ owner = t /\ task[t].pc = "search" /\ can # <<>>
        /\ Lookup(cache, task[t].key) = {}
        /\ \E a \in Taken(cache, task[t].key[1], Head(can)) : ~Removable(cache, a)
     \/ task[t].pc = "reading" /\ req[t].status = "ok" /\ ~Linked(TransferEnd(t), b)

-----------------------------------------------------------------------------
(***************************************************************************)
(* rtems_bdbuf_release, rtems_bdbuf_release_modified, rtems_bdbuf_sync.    *)
(***************************************************************************)
Version(k) == IF latest[k] = 0 THEN 1 ELSE 0

\* The client has written the buffer it holds.
Written(b) ==
  LET k == cache.key[b] IN
    IF cache.state[b] = "access purged" THEN UNCHANGED <<data, latest>>
    ELSE /\ data' = [data EXCEPT ![b] = Version(k)]
         /\ latest' = [latest EXCEPT ![k] = Version(k)]

\* Defect: a buffer is put on the modified list while its device is synced.
MustNotWait(b) == FALSE

MustWaitForSync(b) == sync.active /\ sync.device = cache.key[b][1]

\* A buffer for the modified list waits until a sync of its device is over.
ReleaseDirty(t, b) ==
  \/ /\ MustWaitForSync(b)
     /\ task' = [task EXCEPT ![t].pc = "waitsync"] /\ UNCHANGED cache
  \/ /\ ~MustWaitForSync(b)
     /\ cache' = AddToModified(cache, b)
     /\ task' = [task EXCEPT ![t] = Idle]

Release(t) ==
  LET b == task[t].bd
      s == cache.state[b]
  IN /\ owner = Nobody /\ task[t].pc = "hold" /\ "release" \in Ops
     /\ \/ /\ s = "access cached" /\ cache' = AddToLru(cache, b)
           /\ task' = [task EXCEPT ![t] = Idle]
        \/ /\ s \in {"access empty", "access purged"} /\ cache' = DiscardAfterAccess(cache, b)
           /\ task' = [task EXCEPT ![t] = Idle]
        \/ s = "access modified" /\ ReleaseDirty(t, b)
     /\ UNCHANGED <<owner, req, chain, swap, sync, ahead, data, disk, latest, owed>>

ReleaseModified(t) ==
  LET b == task[t].bd
  IN /\ owner = Nobody /\ task[t].pc = "hold" /\ "modified" \in Ops
     /\ Written(b)
     /\ \/ /\ cache.state[b] = "access purged" /\ cache' = DiscardAfterAccess(cache, b)
           /\ task' = [task EXCEPT ![t] = Idle]
        \/ cache.state[b] # "access purged" /\ ReleaseDirty(t, b)
     /\ UNCHANGED <<owner, req, chain, swap, sync, ahead, disk, owed>>

\* The sync lock was free for a moment; the cache is locked again.
SyncLockSeen(t) ==
  /\ task[t].pc = "waitsync" /\ sync.lock = Nobody
  /\ task' = [task EXCEPT ![t].pc = "relock"]
  /\ UNCHANGED <<cache, owner, req, chain, swap, sync, ahead, data, disk, latest, owed>>

ReleaseAfterSync(t) ==
  /\ owner = Nobody /\ task[t].pc = "relock"
  /\ cache' = AddToModified(cache, task[t].bd)
  /\ task' = [task EXCEPT ![t] = Idle]
  /\ UNCHANGED <<owner, req, chain, swap, sync, ahead, data, disk, latest, owed>>

Sync(t) ==
  LET b == task[t].bd
      s == [cache EXCEPT !.state[b] = "sync", !.sync = Append(@, b)]
  IN /\ owner = Nobody /\ task[t].pc = "hold" /\ "sync" \in Ops
     /\ Written(b)
     /\ \/ /\ cache.state[b] = "access purged" /\ cache' = DiscardAfterAccess(cache, b)
           /\ task' = [task EXCEPT ![t] = Idle] /\ UNCHANGED <<owner, owed>>
        \/ /\ cache.state[b] # "access purged"
           /\ cache' = WakeSwapper(IF s.waiters[b] > 0 THEN Wake(s, "waitaccess") ELSE s)
           /\ task' = [task EXCEPT ![t].pc = "syncdone"] /\ owner' = t
           /\ owed' = [owed EXCEPT ![t] = {cache.key[b]}]
     /\ UNCHANGED <<req, chain, swap, sync, ahead, disk>>

\* Defect: a transfer that has begun is taken for done.
SyncListed(s) == s = "sync"

SyncPending(s) == s \in Transfer

WaitForSyncDone(t) ==
  LET b == task[t].bd
      s == cache.state[b]
      unused == s \in {"cached", "empty"} /\ cache.waiters[b] = 0
      freed == IF s = "empty" THEN RemoveAndFree(cache, b) ELSE cache
      done == task' = [task EXCEPT ![t] = Idle] /\ owner' = Nobody
  IN /\ owner = t /\ task[t].pc = "syncdone"
     /\ \/ SyncPending(s) /\ WaitFor(t, b, "waittransfer", "syncdone")
        \/ unused /\ cache' = Wake(freed, "waitbuffer") /\ done
        \/ ~SyncPending(s) /\ ~unused /\ s # "free" /\ UNCHANGED cache /\ done
     /\ UNCHANGED <<req, chain, swap, sync, ahead, data, disk, latest, owed>>

-----------------------------------------------------------------------------
(***************************************************************************)
(* rtems_bdbuf_syncdev, rtems_bdbuf_purge_dev, rtems_bdbuf_set_block_size. *)
(***************************************************************************)
SyncDevLock(t, d) ==
  /\ task[t].pc = "idle" /\ "syncdev" \in Ops /\ sync.lock = Nobody
  /\ sync' = [sync EXCEPT !.lock = t]
  /\ task' = [task EXCEPT ![t].pc = "syncdev", ![t].key = <<d, 0>>]
  /\ UNCHANGED <<cache, owner, req, chain, swap, ahead, data, disk, latest, owed>>

\* The blocks of the device that are to be written, or just are.
Dirty(d) ==
  {cache.key[b] : b \in {b \in cache.tree : cache.key[b][1] = d /\
     (\/ cache.state[b] \in {"modified", "sync"}
      \/ \E w \in Writer : b \in ToSet(chain[w] \o req[w].bufs) /\ req[w].status \in {"none", "pending"})}}

SyncDev(t) ==
  LET d == task[t].key[1]
  IN /\ owner = Nobody /\ task[t].pc = "syncdev"
     /\ sync' = [sync EXCEPT !.active = TRUE, !.device = d]
     /\ cache' = WakeSwapper(cache)
     /\ task' = [task EXCEPT ![t].pc = "syncwait"]
     /\ owed' = [owed EXCEPT ![t] = Dirty(d)]
     /\ UNCHANGED <<owner, req, chain, swap, ahead, data, disk, latest>>

\* The swap-out task has sent the event.
SyncDevDone(t) ==
  /\ task[t].pc = "syncwait" /\ ~sync.active
  /\ sync' = [sync EXCEPT !.lock = Nobody]
  /\ task' = [task EXCEPT ![t] = Idle]
  /\ UNCHANGED <<cache, owner, req, chain, swap, ahead, data, disk, latest, owed>>

\* rtems_bdbuf_gather_for_purge for one buffer of the tree.
Gather(c, b) ==
  CASE c.state[b] \in {"sync", "modified"} -> Unlink(GroupRelease(c, b), b)
    [] c.state[b] = "cached" -> Unlink(c, b)
    [] c.state[b] = "transfer" -> [c EXCEPT !.state[b] = "transfer purged"]
    [] c.state[b] \in Access -> [c EXCEPT !.state[b] = "access purged"]
    [] OTHER -> c

\* Defect: who waits for a buffer to be written is not told that it will not.
PurgesNoSync(c, S) == FALSE

PurgesSync(c, S) == \E b \in S : c.state[b] = "sync"

\* The order in which the tree is walked does not matter.
PurgeCache(c, d) ==
  LET mine == {b \in c.tree : c.key[b][1] = d}
      listed == {b \in mine : c.state[b] \in {"sync", "modified", "cached"}}
      gathered == FoldLeft(Gather, c, SetToSeq(mine))
      told == IF PurgesSync(c, mine) THEN Wake(gathered, "waittransfer") ELSE gathered
      purged == FoldLeft(Discard, told, SetToSeq(listed))
  IN IF \E b \in listed : c.waiters[b] = 0 THEN Wake(purged, "waitbuffer") ELSE purged

Purge(t, d, n) ==
  /\ owner = Nobody /\ task[t].pc = "idle"
  /\ IF n = cache.size[d] THEN "purge" \in Ops ELSE "resize" \in Ops
  /\ cache' = PurgeCache([cache EXCEPT !.size[d] = n], d)
  /\ ahead' = [AheadCancel(ahead, d) EXCEPT !.trigger[d] = NoTrigger]
  /\ latest' = [k \in Key |-> IF k[1] = d THEN Unsure ELSE latest[k]]
  /\ owed' = [u \in Client |-> {k \in owed[u] : k[1] # d}]
  /\ UNCHANGED <<owner, task, req, chain, swap, sync, data, disk>>

-----------------------------------------------------------------------------
(***************************************************************************)
(* The swap-out task and its workers.                                      *)
(***************************************************************************)
Block(b) == cache.key[b][2]

\* Nobody waits for the hold time of the buffer to end.
Forced(b) == BufferWaiters \/ (sync.active /\ sync.device = cache.key[b][1])

\* The timers of the buffers in E end now.
SwapoutProcessing(E) ==
  LET worker == IF sync.active \/ cache.free = <<>> THEN Swapper ELSE Head(cache.free)
      hold(b) == cache.held[b] /\ ~Forced(b) /\ b \notin E
      due == cache.sync \o SelectSeq(cache.modified, LAMBDA b : ~hold(b))
      d == IF sync.active THEN sync.device ELSE cache.key[Head(due)][1]
      taken == SelectSeq(due, LAMBDA b : cache.key[b][1] = d)
      left(b) == b \notin ToSet(taken)
      bds == SortSeq(taken, LAMBDA x, y : Block(x) < Block(y))
  IN /\ owner = Nobody /\ swap.pc = "process"
     /\ E \subseteq {b \in ToSet(cache.modified) : cache.held[b]} /\ (swap.timers \/ E = {})
     /\ cache' = [cache EXCEPT
          !.state = [b \in BD |-> IF left(b) THEN cache.state[b] ELSE "transfer"],
          !.held = [b \in BD |-> IF b \in ToSet(cache.modified) THEN hold(b)
                                 ELSE cache.held[b] /\ b \notin ToSet(cache.sync)],
          !.sync = SelectSeq(@, left), !.modified = SelectSeq(@, left),
          !.free = IF worker = Swapper THEN @ ELSE Tail(@)]
     /\ swap' = [swap EXCEPT !.timers = FALSE,
                   !.pc = IF taken # <<>> THEN (IF worker = Swapper THEN "write" ELSE "process")
                          ELSE IF sync.active THEN "syncend" ELSE "wait"]
     /\ chain' = [chain EXCEPT ![worker] = IF taken = <<>> THEN @ ELSE bds]
     /\ UNCHANGED <<owner, task, req, sync, ahead, data, disk, latest, owed>>

\* rtems_bdbuf_swapout_write: how many buffers go with the next request.
Batch(s) ==
  CHOOSE n \in 1..Len(s) :
    /\ n <= MaxWrite
    /\ Continuous => \A i \in 1..n - 1 : Block(s[i + 1]) = Block(s[i]) + 1
    /\ n < MaxWrite /\ n < Len(s) => Continuous /\ Block(s[n + 1]) # Block(s[n]) + 1

SwapoutWrite(w) ==
  /\ chain[w] # <<>> /\ req[w] = NoReq
  /\ LET n == Batch(chain[w]) IN
       /\ Submit(w, "write", SubSeq(chain[w], 1, n))
       /\ chain' = [chain EXCEPT ![w] = SubSeq(@, n + 1, Len(@))]
  /\ UNCHANGED <<cache, owner, task, swap, sync, ahead, data, disk, latest, owed>>

\* After its last request a writer goes back to what it came from.
SwapoutWritten(w) ==
  /\ owner = Nobody /\ req[w].status \in {"ok", "error"}
  /\ req' = [req EXCEPT ![w] = NoReq]
  /\ cache' = TransferEnd(w)
  /\ swap' = IF chain[w] # <<>> THEN swap
             ELSE IF w = Swapper THEN [swap EXCEPT !.pc = "process"]
             ELSE [swap EXCEPT !.back = @ \cup {w}]
  /\ UNCHANGED <<owner, task, chain, sync, ahead, data, disk, latest, owed>>

\* A worker takes the lock once more to put itself on the list of the free ones.
WorkerFree(w) ==
  /\ owner = Nobody /\ w \in swap.back
  /\ swap' = [swap EXCEPT !.back = @ \ {w}]
  /\ cache' = [cache EXCEPT !.free = Append(@, w)]
  /\ UNCHANGED <<owner, task, req, chain, sync, ahead, data, disk, latest, owed>>

SwapoutSyncEnd ==
  /\ owner = Nobody /\ swap.pc = "syncend"
  /\ sync' = [sync EXCEPT !.active = FALSE]
  /\ swap' = [swap EXCEPT !.pc = "wait"]
  /\ UNCHANGED <<cache, owner, task, req, chain, ahead, data, disk, latest, owed>>

\* The event came, or the period is over.
SwapoutWake ==
  /\ swap.pc = "wait"
  /\ swap' = [swap EXCEPT !.pc = "process", !.timers = TRUE]
  /\ cache' = [cache EXCEPT !.event = FALSE]
  /\ UNCHANGED <<owner, task, req, chain, sync, ahead, data, disk, latest, owed>>

-----------------------------------------------------------------------------
ClientStep(t) ==
  \/ Resume(t) \/ Search(t) \/ WaitForAccess(t) \/ WaitForRecycle(t) \/ ReadDone(t)
  \/ SyncLockSeen(t) \/ ReleaseAfterSync(t) \/ WaitForSyncDone(t) \/ SyncDev(t) \/ SyncDevDone(t)

LetGo(t) == Release(t) \/ ReleaseModified(t) \/ Sync(t)

SwapoutTask ==
  \/ \E E \in SUBSET BD : SwapoutProcessing(E)
  \/ SwapoutWrite(Swapper) \/ SwapoutWritten(Swapper) \/ SwapoutSyncEnd \/ SwapoutWake

WorkerTask(w) == SwapoutWrite(w) \/ SwapoutWritten(w) \/ WorkerFree(w)

Background == AheadRead \/ AheadDone \/ SwapoutTask \/ \E w \in Worker : WorkerTask(w)

Driver == \E t \in Task, s \in {"ok", "error"}, done \in SUBSET BD : DriverDone(t, s, done)

Step ==
  \/ \E t \in Client : ClientStep(t) \/ LetGo(t)
  \/ \E t \in Client, m \in {"get", "read"}, k \in Key : Request(t, m, k)
  \/ \E t \in Client, d \in Device : SyncDevLock(t, d)
  \/ \E t \in Client, d \in Device, n \in 1..MaxPerGroup : Purge(t, d, n)
  \/ Background \/ Driver

Next == Step /\ UNCHANGED setup

Spec == Init /\ [][Next]_vars

\* A client that has the cache lock goes on, the driver does what the swap-out
\* task asks for, and the swap-out task, which needs the lock again and again,
\* gets it again and again.  Clients need not ask for anything.
Fairness ==
  /\ WF_vars((\E t \in Client : owner = t /\ ClientStep(t)) /\ UNCHANGED setup)
  /\ WF_vars((\E s \in {"ok", "error"}, done \in SUBSET BD : DriverDone(Swapper, s, done))
             /\ UNCHANGED setup)
  /\ SF_vars(SwapoutTask /\ UNCHANGED setup)

FairSpec == Spec /\ Fairness

-----------------------------------------------------------------------------
TypeOK ==
  /\ cache.state \in [BD -> {"free", "empty", "cached", "modified"} \cup Access \cup Transfer]
  /\ cache.tree \subseteq BD /\ cache.waiters \in [BD -> Nat]
  /\ cache.users \in [0..GroupCount - 1 -> Nat] /\ cache.blocked \subseteq Client
  /\ data \in [BD -> 0..2] /\ disk \in [Key -> 0..2] /\ latest \in [Key -> 0..2]
  /\ owed \in [Client -> SUBSET Key] /\ owner \in Client \cup {Nobody}

InUse == UNION {Members(g, cache.per[g]) : g \in 0..GroupCount - 1}

Lists == cache.lru \o cache.modified \o cache.sync

Waiting(b) == {t \in Client : task[t].bd = b /\ task[t].pc \in {"waitaccess", "waittransfer"}}

\* The table of bdbuf.h: the state of a buffer says whether it is in the tree
\* and on which list, once and with a key of its own; an empty buffer is kept
\* for whoever waits for it.
StateTable ==
  owner = Nobody =>
    /\ Cardinality(ToSet(Lists)) = Len(Lists) /\ ToSet(Lists) \cup cache.tree \subseteq InUse
    /\ \A b \in InUse :
         /\ b \in cache.tree <=> cache.state[b] # "free"
         /\ b \in ToSet(cache.lru) <=> cache.state[b] \in {"free", "cached"}
         /\ b \in ToSet(cache.modified) <=> cache.state[b] = "modified"
         /\ b \in ToSet(cache.sync) <=> cache.state[b] = "sync"
         /\ cache.state[b] = "empty" => cache.waiters[b] > 0
    /\ \A a, b \in cache.tree : cache.key[a] = cache.key[b] => a = b

\* The last columns of the table: a group counts its buffers in use and the
\* tasks that wait for one, and a buffer in access or transfer has one user.
GroupUsers ==
  owner = Nobody =>
    /\ \A b \in BD : cache.waiters[b] = Cardinality(Waiting(b))
    /\ \A g \in 0..GroupCount - 1 :
         cache.users[g] =
           Cardinality({b \in Members(g, cache.per[g]) :
                          cache.state[b] \in Access \cup Transfer \cup {"modified"}})
           + Cardinality(UNION {Waiting(b) : b \in Members(g, MaxPerGroup)})
    /\ \A b \in InUse :
         /\ cache.state[b] \in Access <=>
              \E t \in Client : task[t].bd = b /\ task[t].pc \in {"hold", "waitsync", "relock"}
         /\ cache.state[b] \in Transfer \ {"sync"} <=>
              \E t \in Task : b \in ToSet(req[t].bufs) \/ (t \in Writer /\ b \in ToSet(chain[t]))

Holds(t) == task[t].pc \in {"hold", "waitsync", "relock"}

\* Two tasks never have the same buffer.
Exclusive ==
  \A t, u \in Client : Holds(t) /\ Holds(u) /\ task[t].bd = task[u].bd => t = u

\* A client that has a buffer with valid data has what was last written to
\* its block, whatever was written, discarded, recycled and read in between.
ReadsLatest ==
  \A t \in Client :
    Holds(t) /\ cache.state[task[t].bd] \in {"access cached", "access modified"} =>
      latest[task[t].key] \in {Unsure, data[task[t].bd]}

\* The buffer a client has is the one of its block, in a group that is
\* divided as its device wants it, as long as no block size changes.
Suitable ==
  "resize" \notin Ops => \A t \in Client :
    Holds(t) /\ cache.state[task[t].bd] # "access purged" =>
      /\ cache.key[task[t].bd] = task[t].key
      /\ cache.per[Group(task[t].bd)] = cache.size[task[t].key[1]]

\* The blocks that workers have still to write.
WithWorkers == {cache.key[b] : b \in UNION {ToSet(chain[w] \o req[w].bufs) : w \in Worker}}

\* rtems_bdbuf_sync and rtems_bdbuf_syncdev "wait until the transfers have
\* completed": what they were to write has been written when they return, or
\* its transfer has failed, or it was purged or taken back by a client.  All
\* that a sync of a device may leave is what a worker took before it began.
SyncWaits ==
  \A t \in Client : task[t].pc = "idle" =>
    owed[t] \subseteq IF "syncdev" \in Ops THEN WithWorkers ELSE {}

\* No task of the cache has anything to do, and no event is on its way.
Quiet ==
  /\ owner = Nobody /\ swap.pc = "wait" /\ ~cache.event
  /\ \A t \in Task : req[t] = NoReq
  /\ \A w \in Writer : chain[w] = <<>>
  /\ \A t \in Client : \/ task[t].pc = "idle" \/ t \in cache.blocked
                       \/ task[t].pc = "waitsync" /\ sync.lock # Nobody
                       \/ task[t].pc = "syncwait" /\ sync.active

\* Whoever waits is woken in the end: when nothing is left to happen nobody
\* waits, neither for a buffer nor for a transfer nor for a sync.
NoLostWakeup == Quiet => \A t \in Client : task[t].pc = "idle"

\* A sync of a device ends although other clients go on taking buffers of the
\* device and changing them: whoever gives one back waits until it is over, so
\* that the swap-out task finds nothing left to write.
SyncEnds == sync.active ~> ~sync.active

\* The cache stops at none of its own checks, as long as no block size changes.
NotFatal == "resize" \notin Ops => \A t \in Client : ~FatalAt(t)

\* Whenever the cache lock is free the lists, the tree, the counts and the states
\* of the buffers agree, every buffer has at most one user and fits its device,
\* and no check of the cache (rtems_bdbuf_fatal) fails.
CacheConsistent ==
  TypeOK /\ StateTable /\ GroupUsers /\ Exclusive /\ Suitable /\ NotFatal
=============================================================================
