----------------------------- MODULE FlashDisk ------------------------------
(***************************************************************************)
(* The flash disk: blocks kept in the pages of segments that are erased    *)
(* as a whole.                                                             *)
(*                                                                         *)
(*   libbsp/c6678/flash/flashdisk.c, flashdisk.h                           *)
(*                                                                         *)
(* Requests run one at a time under the lock of the disk.  A step is what  *)
(* a request does up to and including one change of the flash, so that the *)
(* power can fail between any two changes.  The flash is external: it does *)
(* what it is told, and a page that was being written is torn.             *)
(***************************************************************************)
EXTENDS Integers, Sequences, SequencesExt, FiniteSets

CONSTANTS
  CompactSegs,          \* compact_segs
  AvailCompactSegs,     \* avail_compact_segs
  Disks                 \* the disks and what is done with them

ASSUME FlashDiskAssumption ==
  /\ CompactSegs \in Nat /\ AvailCompactSegs \in Nat
  /\ \A k \in Disks :
       /\ k.segments \in Nat \ {0} /\ k.pages \in Nat \ {0}
       /\ k.unavailable \in 0..(k.segments * k.pages - 1)
       /\ k.background \in BOOLEAN /\ k.afterFault \in BOOLEAN
       /\ k.hot \subseteq Nat /\ k.maxCuts \in Nat

VARIABLES
  config,   \* the one of Disks a behaviour is about
  flash,    \* per segment and page, what is in the flash
  disk,     \* the rtems_flashdisk in memory
  job,      \* the request in progress
  expect,   \* per block, what a read may return
  cuts      \* power failures so far

vars == <<config, flash, disk, job, expect, cuts>>

Segments == config.segments
Pages == config.pages              \* data pages in each segment
Unavailable == config.unavailable  \* unavail_blocks
\* Erasing and compacting are left to requests of their own.
BackgroundErase == config.background
BackgroundCompact == config.background
Hot == config.hot                  \* blocks written with two contents, others with one
MaxCuts == config.maxCuts          \* bound on power failures
AfterFault == config.afterFault    \* requests go on after a power or write failure

Segment == 1..Segments
Page == 1..Pages
BlockCount == Segments * Pages
Block == 0..BlockCount - 1
Visible == 0..(BlockCount - Unavailable - 1)
Blank == <<>>
Torn == <<-1>>
Data(b) == {<<b, v>> : v \in IF b \in Hot THEN {0, 1} ELSE {0}}
Unmapped == <<0, 0>>
EIO == <<"EIO">>

\* A descriptor as the erased flash has it.
Erased == [crc |-> Blank, block |-> -1, active |-> FALSE, used |-> FALSE]

\* Counters are unsigned words; TLC's own integers are too narrow for 2^32.
Word == 2^30
Less(n) == (n - 1) % Word

EmptySegment == [p \in Page |-> [desc |-> Erased, data |-> Blank]]

\* The driver's memory before the flash has been looked at.
NoDisk ==
  [pd |-> [s \in Segment |-> [p \in Page |-> Erased]],
   active |-> [s \in Segment |-> 0], used |-> [s \in Segment |-> 0], bad |-> [s \in Segment |-> 0],
   blocks |-> [b \in Block |-> Unmapped], erased |-> 0,
   avail |-> <<>>, full |-> <<>>, erase |-> <<>>, failed |-> <<>>]

Idle == [pc |-> "idle", ret |-> "ok", block |-> 0, data |-> Blank,
         src |-> 0, dst |-> 0, to |-> 0, page |-> 0, pages |-> 0, segs |-> 0, done |-> 0,
         rest |-> "", then |-> ""]

\* The block map is to be recovered, from the first page of the first segment on.
Restart == [Idle EXCEPT !.pc = "recover", !.src = 1, !.page = 1]

Init ==
  /\ config \in Disks
  /\ flash = [s \in Segment |-> EmptySegment]
  /\ disk = NoDisk
  /\ job = Restart
  /\ expect = [b \in Visible |-> {Blank}]
  /\ cuts = 0

-----------------------------------------------------------------------------
(***************************************************************************)
(* Segments and their queues.                                              *)
(***************************************************************************)
Available(d, s) == (Pages - (d.active[s] + d.used[s] + d.bad[s])) % Word

NextPage(d, s) == {p \in Page : d.pd[s][p] = Erased /\ \A q \in 1..p - 1 : d.pd[s][q] # Erased}

Live(desc) == desc.active /\ ~desc.used

\* What rtems_fdisk_erase_segment does in memory.
ErasedSegment(d, s) ==
  [d EXCEPT !.erased = @ + Pages, !.pd[s] = [p \in Page |-> Erased],
            !.active[s] = 0, !.used[s] = 0, !.bad[s] = 0, !.avail = Append(@, s)]

\* rtems_fdisk_segment_queue_insert_before the first of the given segments, or at
\* the tail.
QueueBefore(q, items, s) ==
  LET i == SelectInSeq(q, LAMBDA t : t \in items)
  IN IF i = 0 THEN Append(q, s) ELSE InsertAt(q, i, s)

\* Nothing is left in the segment: it is to be erased.
Spent(d, s) == Available(d, s) = 0 /\ d.active[s] = 0

\* rtems_fdisk_queue_segment for a segment that is not to be erased: the one
\* with the fewest pages left comes first, and of the full ones the one with
\* the most used pages.
Queued(d, s) ==
  LET r == [d EXCEPT !.avail = Remove(@, s), !.full = Remove(@, s)]
  IN IF Available(d, s) # 0
     THEN [r EXCEPT !.avail = QueueBefore(@, {t \in Segment : Available(d, s) < Available(d, t)}, s)]
     ELSE [r EXCEPT !.full = QueueBefore(@, {t \in Segment : d.used[s] > d.used[t]}, s)]

\* rtems_fdisk_queue_segment.
QueueSegment(s) ==
  LET r == [disk EXCEPT !.avail = Remove(@, s), !.full = Remove(@, s)]
  IN \/ ~Spent(disk, s) /\ disk' = Queued(disk, s) /\ UNCHANGED flash
     \/ /\ Spent(disk, s) /\ BackgroundErase
        /\ disk' = [r EXCEPT !.erase = Append(@, s)] /\ UNCHANGED flash
     \/ /\ Spent(disk, s) /\ ~BackgroundErase
        /\ disk' = ErasedSegment(r, s) /\ flash' = [flash EXCEPT ![s] = EmptySegment]

\* The first segment with the most pages left; 0 when there is none.
MostAvailable(d) ==
  IF d.avail = <<>> THEN 0
  ELSE d.avail[SelectInSeq(d.avail, LAMBDA s : \A t \in ToSet(d.avail) : Available(d, t) <= Available(d, s))]

\* Defect: the last page but one is not kept.
StarvedLate(d) == d.erased < Pages - 1

Starved(d) == d.erased < Pages

-----------------------------------------------------------------------------
(***************************************************************************)
(* rtems_fdisk_compact, called by the request that goes on at job.then.    *)
(***************************************************************************)
CompactAnd(n) == job' = [job EXCEPT !.pc = "compact", !.then = n]

\* The end of a compaction; only the initialisation looks at its result.
CompactEnds(j, ret) ==
  IF j.then = "init" /\ ret # "ok" THEN [j EXCEPT !.pc = "dead"]
  ELSE [j EXCEPT !.pc = IF j.then = "init" THEN "idle" ELSE j.then, !.then = ""]

\* When hardly any page is left a segment is made free at any price.
ResolveStarvation ==
  LET fromFull == disk.full # <<>>
      src == Head(disk.full \o disk.avail)
      popped == IF fromFull THEN [disk EXCEPT !.full = Tail(@)] ELSE [disk EXCEPT !.avail = Tail(@)]
  IN /\ job.pc = "compact" /\ Starved(disk)
     /\ \/ /\ disk.full \o disk.avail = <<>>
           /\ job' = CompactEnds(job, "EIO") /\ UNCHANGED disk
        \/ /\ disk.full \o disk.avail # <<>> /\ popped.avail = <<>>
           /\ job' = CompactEnds(job, "EIO") /\ disk' = popped
        \/ /\ disk.full \o disk.avail # <<>> /\ popped.avail # <<>>
           /\ job' = [job EXCEPT !.pc = "recycle", !.src = src, !.to = MostAvailable(popped),
                                 !.page = 1, !.pages = 0, !.done = 0, !.rest = "scan"]
           /\ disk' = popped
     /\ UNCHANGED <<flash, expect, cuts>>

CompactBegin ==
  /\ job.pc = "compact" /\ ~Starved(disk)
  /\ job' = [job EXCEPT !.pc = "scan", !.done = 0]
  /\ UNCHANGED <<flash, disk, expect, cuts>>

\* How many of the full segments go into the pages that are left in dst.
Fitting(d, dst, done) ==
  LET sum(n) == FoldLeft(LAMBDA x, s : (x + d.active[s]) % Word, 0, SubSeq(d.full, 1, n))
      fits(n) == sum(n) < Available(d, dst) /\ done + n - 1 < CompactSegs
      n == CHOOSE n \in 0..Len(d.full) :
             /\ \A m \in 1..n : fits(m)
             /\ n < Len(d.full) => ~fits(n + 1)
  IN [segments |-> n, pages |-> sum(n)]

\* One turn of the loop: segments are looked for that fit into another.
CompactScan ==
  LET dst == MostAvailable(disk)
      fit == Fitting(disk, dst, job.done)
      useful == /\ fit.segments < Len(disk.full) /\ fit.pages # 0
                /\ job.done + fit.segments # 1
  IN /\ job.pc = "scan"
     /\ \/ /\ disk.full = <<>> \/ dst = 0 \/ ~useful
           /\ job' = CompactEnds(job, IF disk.full # <<>> /\ dst = 0 THEN "EIO" ELSE "ok")
           /\ UNCHANGED disk
        \/ /\ disk.full # <<>> /\ dst # 0 /\ useful
           /\ disk' = [disk EXCEPT !.avail = Remove(@, dst)]
           /\ job' = [job EXCEPT !.pc = "move", !.dst = dst, !.pages = fit.pages, !.segs = fit.segments]
     /\ UNCHANGED <<flash, expect, cuts>>

\* Full segments are moved for as long as pages are believed to be left; when
\* there is no full segment the loop spins.
CompactMove ==
  /\ job.pc = "move"
  /\ \/ /\ job.pages = 0
        /\ job' = [job EXCEPT !.pc = "scan", !.done = @ + job.segs] /\ UNCHANGED disk
     \/ /\ job.pages # 0 /\ disk.full # <<>>
        /\ job' = [job EXCEPT !.pc = "recycle", !.src = Head(disk.full), !.to = job.dst,
                              !.page = 1, !.rest = "move"]
        /\ disk' = [disk EXCEPT !.full = Tail(@)]
  /\ UNCHANGED <<flash, expect, cuts>>

\* rtems_fdisk_recycle_segment: a page that holds no block is passed over,
\* one that does is copied to the segment job.to.  A destination without the
\* page its counters promise has failed; PagesPromised says there is none.
RecyclePage ==
  LET desc == disk.pd[job.src][job.page]
      to == NextPage(disk, job.to)
  IN /\ job.pc = "recycle" /\ job.page <= Pages
     /\ \/ /\ Live(desc)
           /\ IF to = {}
              THEN job' = [job EXCEPT !.pc = "failed"] /\ UNCHANGED <<flash, disk>>
              ELSE /\ flash' = [flash EXCEPT ![job.to][CHOOSE p \in to : TRUE].data =
                                               flash[job.src][job.page].data]
                   /\ disk' = [disk EXCEPT !.erased = Less(@)]
                   /\ job' = [job EXCEPT !.pc = "copied"]
        \/ /\ ~Live(desc)
           /\ disk' = IF desc = Erased THEN [disk EXCEPT !.erased = Less(@)] ELSE disk
           /\ job' = [job EXCEPT !.page = @ + 1] /\ UNCHANGED flash
     /\ UNCHANGED <<expect, cuts>>

\* Defect: the block still points at the page that was copied.
MovedNot(d, b, s, p) == d

Moved(d, b, s, p) == [d EXCEPT !.blocks[b] = <<s, p>>]

\* Defect: a page that was moved is still to be moved.
StillToMove(n) == n

LeftToMove(n) == Less(n)

\* The descriptor is copied, and a new destination chosen when this one is
\* full; without one the segment is left, erased or on no queue.
RecycleDescriptor ==
  LET desc == disk.pd[job.src][job.page]
      p == CHOOSE p \in NextPage(disk, job.to) : TRUE
      counted == [disk EXCEPT !.pd[job.to][p] = desc,
                              !.active = [@ EXCEPT ![job.to] = @ + 1, ![job.src] = Less(@)],
                              !.used[job.src] = @ + 1]
      d == Queued(Moved(counted, desc.block, job.to, p), job.to)
      next == IF Available(d, job.to) = 0 THEN MostAvailable(d) ELSE job.to
  IN /\ job.pc = "copied"
     /\ flash' = [flash EXCEPT ![job.to][p].desc = desc]
     /\ disk' = d
     /\ \/ /\ next # 0
           /\ job' = [job EXCEPT !.pc = "recycle", !.to = next, !.page = @ + 1, !.pages = LeftToMove(@)]
        \/ /\ next = 0 /\ d.active[job.src] = 0
           /\ job' = [job EXCEPT !.pc = "recycle", !.page = Pages + 1]
        \/ /\ next = 0 /\ d.active[job.src] # 0
           /\ job' = CompactEnds(job, "EIO")
     /\ UNCHANGED <<expect, cuts>>

RecycleErase ==
  /\ job.pc = "recycle" /\ job.page > Pages
  /\ flash' = [flash EXCEPT ![job.src] = EmptySegment]
  /\ disk' = ErasedSegment(disk, job.src)
  /\ job' = [job EXCEPT !.pc = job.rest]
  /\ UNCHANGED <<expect, cuts>>

-----------------------------------------------------------------------------
(***************************************************************************)
(* rtems_fdisk_read_block and rtems_fdisk_write_block.                     *)
(***************************************************************************)
\* What a read returns: the data, all ones for a block never written, or EIO.
ReadBlock(b) ==
  LET m == disk.blocks[b]
      desc == disk.pd[m[1]][m[2]]
      data == flash[m[1]][m[2]].data
  IN IF m = Unmapped THEN Blank
     ELSE IF Live(desc) /\ data = desc.crc THEN data ELSE EIO

Ready == job.pc = "idle" /\ (AfterFault \/ (cuts = 0 /\ job.ret = "ok"))

Unchanged(b, data) ==
  LET m == disk.blocks[b] IN m # Unmapped /\ flash[m[1]][m[2]].data = data

\* Data that is in the flash already is not written.
WriteSame(b, data) ==
  /\ Ready /\ Unchanged(b, data)
  /\ expect' = [expect EXCEPT ![b] = {data}]
  /\ job' = Idle
  /\ UNCHANGED <<flash, disk, cuts>>

\* Until the write is over the block may have its old data, the new or none.
Between(b, data) == expect' = [expect EXCEPT ![b] = @ \cup {data, Blank, EIO}]

WriteNew(b, data) ==
  /\ Ready /\ disk.blocks[b] = Unmapped
  /\ Between(b, data)
  /\ job' = [Idle EXCEPT !.pc = "low", !.block = b, !.data = data]
  /\ UNCHANGED <<flash, disk, cuts>>

FlagUsed(s, p) == flash' = [flash EXCEPT ![s][p].desc.used = TRUE]

\* The page with the old data is flagged.
WriteOver(b, data) ==
  LET s == disk.blocks[b][1]
      p == disk.blocks[b][2]
  IN /\ Ready /\ disk.blocks[b] # Unmapped /\ ~Unchanged(b, data)
     /\ FlagUsed(s, p)
     /\ disk' = [disk EXCEPT !.pd[s][p].used = TRUE, !.active[s] = Less(@), !.used[s] = @ + 1]
     /\ Between(b, data)
     /\ job' = [Idle EXCEPT !.pc = "flagged", !.block = b, !.data = data, !.src = s]
     /\ UNCHANGED cuts

WriteQueue ==
  /\ job.pc = "flagged" /\ QueueSegment(job.src)
  /\ IF BackgroundCompact THEN job' = [job EXCEPT !.pc = "low"] ELSE CompactAnd("low")
  /\ UNCHANGED <<expect, cuts>>

WriteLow ==
  /\ job.pc = "low"
  /\ IF Len(disk.avail) <= AvailCompactSegs THEN CompactAnd("get") ELSE job' = [job EXCEPT !.pc = "get"]
  /\ UNCHANGED <<flash, disk, expect, cuts>>

\* A segment is taken, after one more compaction if need be.
WriteGet ==
  /\ job.pc \in {"get", "last"}
  /\ \/ /\ disk.avail # <<>>
        /\ disk' = [disk EXCEPT !.avail = Tail(@)]
        /\ job' = [job EXCEPT !.pc = "put", !.dst = Head(disk.avail)]
     \/ /\ disk.avail = <<>> /\ BackgroundCompact /\ job.pc = "get"
        /\ CompactAnd("last") /\ UNCHANGED disk
     \/ /\ disk.avail = <<>> /\ (job.pc = "get" => ~BackgroundCompact)
        /\ job' = [Idle EXCEPT !.ret = "ENOSPC"] /\ UNCHANGED disk
  /\ UNCHANGED <<flash, expect, cuts>>

NoLongerErased(n) == Less(n)

\* The data goes to the first page that is left in the segment.
WritePage ==
  LET s == job.dst
      p == CHOOSE p \in NextPage(disk, s) : TRUE
      desc == [crc |-> job.data, block |-> job.block, active |-> TRUE, used |-> FALSE]
  IN /\ job.pc = "put"
     /\ IF NextPage(disk, s) = {}
        THEN job' = [job EXCEPT !.pc = "failed"] /\ UNCHANGED <<flash, disk>>
        ELSE /\ flash' = [flash EXCEPT ![s][p].data = job.data]
             /\ disk' = [disk EXCEPT !.pd[s][p] = desc, !.blocks[job.block] = <<s, p>>,
                                     !.erased = NoLongerErased(@)]
             /\ job' = [job EXCEPT !.pc = "written", !.page = p]
     /\ UNCHANGED <<expect, cuts>>

WriteDescriptor ==
  LET s == job.dst
      d == Queued([disk EXCEPT !.active[s] = @ + 1], s)
  IN /\ job.pc = "written"
     /\ flash' = [flash EXCEPT ![s][job.page].desc = disk.pd[s][job.page]]
     /\ disk' = d
     /\ IF Starved(d) THEN CompactAnd("end") ELSE job' = [job EXCEPT !.pc = "end"]
     /\ UNCHANGED <<expect, cuts>>

WriteEnd ==
  /\ job.pc = "end" /\ job' = Idle
  /\ expect' = [expect EXCEPT ![job.block] = {job.data}]
  /\ UNCHANGED <<flash, disk, cuts>>

-----------------------------------------------------------------------------
(***************************************************************************)
(* Requests to compact, to erase used segments and to erase the disk.      *)
(***************************************************************************)
CompactRequest ==
  /\ Ready /\ CompactAnd("idle")
  /\ UNCHANGED <<flash, disk, expect, cuts>>

EraseUsed ==
  /\ Ready /\ job' = [Idle EXCEPT !.pc = "erasing"]
  /\ UNCHANGED <<flash, disk, expect, cuts>>

\* One turn of rtems_fdisk_erase_used.
EraseNext ==
  /\ job.pc = "erasing"
  /\ \/ /\ disk.erase = <<>>
        /\ job' = Idle /\ UNCHANGED <<flash, disk>>
     \/ /\ disk.erase # <<>>
        /\ LET s == Head(disk.erase) IN
             /\ flash' = [flash EXCEPT ![s] = EmptySegment]
             /\ disk' = ErasedSegment([disk EXCEPT !.erase = Tail(@)], s)
        /\ UNCHANGED job
  /\ UNCHANGED <<expect, cuts>>

\* The block map is then recovered, with no compaction after it.
EraseDisk ==
  /\ Ready
  /\ flash' = [s \in Segment |-> EmptySegment] /\ disk' = NoDisk
  /\ expect' = [b \in Visible |-> {Blank}]
  /\ job' = [Restart EXCEPT !.rest = "idle"]
  /\ UNCHANGED cuts

-----------------------------------------------------------------------------
(***************************************************************************)
(* The block map is recovered from the descriptors in the flash.           *)
(***************************************************************************)
\* A page that is not blank and has no descriptor is given up.
Abandoned(x) == x.desc = Erased /\ x.data # Blank

\* Defect: the flash is not told.
ForceUsedInMemory(s, p) == UNCHANGED flash

ForceUsed(s, p) ==
  IF Abandoned(flash[s][p]) THEN FlagUsed(s, p) ELSE UNCHANGED flash

\* One page of rtems_fdisk_recover_block_mappings; of two pages with the same
\* block the first that is found counts.
RecoverPage(d, s, p) ==
  LET desc == flash[s][p].desc
      r == [d EXCEPT !.pd[s][p] = desc]
  IN CASE desc = Erased /\ ~Abandoned(flash[s][p]) -> [r EXCEPT !.erased = @ + 1]
       [] Abandoned(flash[s][p]) -> [r EXCEPT !.pd[s][p].used = TRUE, !.used[s] = @ + 1]
       [] desc.used -> [r EXCEPT !.used[s] = @ + 1]
       [] Live(desc) /\ desc.block \in Block /\ d.blocks[desc.block] = Unmapped ->
            [r EXCEPT !.blocks[desc.block] = <<s, p>>, !.active[s] = @ + 1]
       [] OTHER -> [r EXCEPT !.bad[s] = @ + 1]

Recover ==
  /\ job.pc = "recover"
  /\ ForceUsed(job.src, job.page)
  /\ disk' = RecoverPage(disk, job.src, job.page)
  /\ job' = IF job.page < Pages THEN [job EXCEPT !.page = @ + 1] ELSE [job EXCEPT !.pc = "recovered"]
  /\ UNCHANGED <<expect, cuts>>

\* The initialisation then compacts the disk.
RecoverQueue ==
  /\ job.pc = "recovered" /\ QueueSegment(job.src)
  /\ job' = IF job.src < Segments THEN [job EXCEPT !.pc = "recover", !.src = @ + 1, !.page = 1]
            ELSE IF job.rest = "idle" THEN Idle
            ELSE [Idle EXCEPT !.pc = "compact", !.then = "init"]
  /\ UNCHANGED <<expect, cuts>>

\* The page that the next step writes.
PageAtRisk ==
  CASE job.pc = "put" -> {<<job.dst, p>> : p \in NextPage(disk, job.dst)}
    [] job.pc = "recycle" /\ job.page <= Pages ->
         IF Live(disk.pd[job.src][job.page]) THEN {<<job.to, p>> : p \in NextPage(disk, job.to)} ELSE {}
    [] OTHER -> {}

\* The power fails, perhaps while a page is written, and comes back.
PowerCut ==
  /\ cuts < MaxCuts /\ cuts' = cuts + 1
  /\ \/ UNCHANGED flash
     \/ \E x \in PageAtRisk : flash' = [flash EXCEPT ![x[1]][x[2]].data = Torn]
  /\ disk' = NoDisk
  /\ job' = Restart
  /\ UNCHANGED expect

-----------------------------------------------------------------------------
Compaction ==
  \/ ResolveStarvation \/ CompactBegin \/ CompactScan \/ CompactMove
  \/ RecyclePage \/ RecycleDescriptor \/ RecycleErase

Writing == WriteQueue \/ WriteLow \/ WriteGet \/ WritePage \/ WriteDescriptor \/ WriteEnd

Step ==
  \/ \E b \in Visible : \E data \in Data(b) : WriteSame(b, data) \/ WriteNew(b, data) \/ WriteOver(b, data)
  \/ Writing \/ Compaction \/ CompactRequest \/ EraseUsed \/ EraseNext \/ EraseDisk
  \/ Recover \/ RecoverQueue \/ PowerCut

Next == Step /\ UNCHANGED config

Spec == Init /\ [][Next]_vars

\* A request that runs goes on running: it holds the lock and waits for nobody.
Running == Writing \/ Compaction \/ EraseNext \/ Recover \/ RecoverQueue

LiveSpec == Spec /\ WF_vars(Running /\ UNCHANGED config)

-----------------------------------------------------------------------------
Queues == disk.avail \o disk.full \o disk.erase \o disk.failed

\* Counters stay within the disk and the block map points at pages.
TypeOK ==
  /\ disk.blocks \in [Block -> (Segment \X Page) \cup {Unmapped}]
  /\ disk.erased \in 0..BlockCount
  /\ \A s \in Segment : Available(disk, s) \in 0..Pages
  /\ cuts \in 0..MaxCuts

\* Every request erases and compacts for itself, and the power stays on.
Foreground == ~config.background /\ MaxCuts = 0

AtRest == job.pc = "idle"

\* Every segment is on one queue, the one its counters say, and the counters
\* are those of its descriptors and of the block map.
SegmentsQueued ==
  AtRest /\ Foreground =>
    /\ Len(Queues) = Segments /\ ToSet(Queues) = Segment
    /\ \A s \in Segment :
         /\ s \in ToSet(disk.avail) <=> Available(disk, s) > 0
         /\ s \in ToSet(disk.erase) => disk.active[s] = 0
         /\ Available(disk, s) = Cardinality({p \in Page : disk.pd[s][p] = Erased})
         /\ disk.active[s] = Cardinality({p \in Page : \E b \in Block : disk.blocks[b] = <<s, p>>})
    /\ disk.erased = Cardinality({x \in Segment \X Page : disk.pd[x[1]][x[2]] = Erased})

\* What rtems_fdisk_write_block assumes of the descriptors it keeps: "this memory
\* copy matches the flash device", also after a power failure.
MemoryMatches ==
  AtRest => \A s \in Segment, p \in Page : disk.pd[s][p] = flash[s][p].desc

\* A segment whose counters promise a page has one: neither a write nor a move
\* comes to the end of the descriptors without one, on any disk.
PagesPromised == job.pc # "failed"

\* Between requests the queues, the counters and the descriptors in memory agree
\* with each other and with the flash, and a request finds the pages counted.
DiskConsistent == TypeOK /\ SegmentsQueued /\ MemoryMatches /\ PagesPromised

\* rtems_fdisk_read_block returns what was last written, wherever compaction has
\* moved it; only a block that was being written when the power failed may have
\* its old data or none.
ReadsLatest == AtRest => \A b \in Visible : ReadBlock(b) \in expect[b]

\* rtems_fdisk_write_block finds a page for every block the disk has been
\* announced with: block_count less unavail_blocks.
WritesSucceed == Foreground => job.ret = "ok"

\* Every request ends: the loop of rtems_fdisk_compact over the pages that are
\* left to be moved, and the compactions a write asks for one after the other,
\* do not go on for ever.
RequestsEnd == (Foreground /\ ~AtRest) ~> AtRest
=============================================================================
