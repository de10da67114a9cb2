# A TLA+ model of the ArchMinix kernel

ArchMinix is a port of RTEMS 4.11 to the TI TMS320C6678 (C66x) DSP. This
directory models the parts of it where the order of events decides whether the
system is right: how threads block and are woken while interrupts arrive
between any two critical sections of the kernel, the synchronisation objects
built on that, the timers, and the two large state machines of the board's
storage stack, the block cache and the flash disk.

    tlc -workers 2 -config CoreSemaphore.cfg MCCoreSemaphore
    tlapm CoreSemaphoreProofs.tla

## 1. The system

One processor runs threads, an idle thread and interrupt handlers. The build
is uniprocessor (`RTEMS_SMP` undefined), `RTEMS_DEBUG` is not defined. Mutual
exclusion is by disabling interrupts for short sections and by the *thread
dispatch disable level*, which keeps the executing thread on the processor but
lets interrupts in. The hard behaviour lies between those two: sequences of
sections that run with dispatching disabled, and interrupts that call the same
directives between two sections.

| Part | State | Operations | Interacts with |
|---|---|---|---|
| Thread queue (`librtems/score/thread/threadq*.c`) | waiting threads in FIFO or priority order; per thread wait flags, return code, timer | enqueue, extract, flush, timeout | scheduler, watchdogs, every blocking object |
| Dispatching (`threaddispatch.c`, `threaddispatch.h`) | executing, heir, dispatch necessary, disable level | disable, enable, dispatch | scheduler, interrupt exit |
| Interrupt frame (`libcpu/c66x/irq.c`) | nesting level | enter, handler, exit | dispatching |
| Schedulers (`librtems/score/scheduler`) | ready queues, priority bit map | block, unblock, yield, tick | dispatching |
| Semaphore (`coresemimpl.h`, `librtems/rtems/sem`) | count, wait queue | obtain, release, flush | thread queue |
| Mutex and priorities (`librtems/score/core/coremutex*.c`, `threadchangepriority.c`) | holder, nesting, current and real priority, resource count | seize, surrender, change priority | thread queue, scheduler |
| Message queue (`librtems/score/core/coremsg*.c`) | pending messages, free buffers, waiting senders or receivers | submit, seize, broadcast, flush | thread queue |
| Barrier, reader/writer lock (`corebarrier*.c`, `corerwlock*.c`) | counters, state | wait, obtain, release | thread queue |
| Events (`librtems/rtems/event`) | pending events, wait flags | send, receive | wait flags without a queue, watchdogs |
| Watchdogs (`librtems/score/watchdog`) | delta chain, iterators of insertions in progress | insert, remove, tickle, adjust | clock interrupt, timeouts, timers |
| Timers and timer server (`librtems/rtems/timer`) | private chain, snapshots, generation, helper | fire, cancel, reset, server body | watchdogs, events |
| Block cache (`libbsp/c6678/flash/bdbuf.c`) | buffers with eleven states, LRU, modified and sync lists, tree, groups | get, read, release, sync, purge, swap-out, read-ahead | drivers, file systems |
| Flash disk (`libbsp/c6678/flash/flashdisk.c`) | block map, page descriptors, segment queues | write, compact, erase, recover | flash, block cache |
| Objects, chains, trees, heap, work space | tables and allocators | get, allocate, free | all |
| Multiprocessor communication (`mpci.c`) | packets, proxies | send, receive | objects on other nodes |
| Board support (rest of `libbsp`) | device registers, hardware semaphores | drivers, start-up, interrupt server | interrupts |
| C library, file systems, networking, loader, applications | | | vendored, or users of the kernel |

What makes these parts correct, and is hard to test:

* **Blocking.** A wake-up may find the thread at any point of
  `_Thread_queue_Enqueue_critical`. No wake-up may be lost, no wait may end
  twice, a timer must not survive its wait, a late timeout must not overwrite a
  success. Events do the same with the wait flags alone, and with the timer
  armed in another order.
* **Dispatching.** A new heir found while dispatching is disabled must be
  dispatched by whoever enables it, once, with the level balanced.
* **Priorities.** Inheritance, ceilings, nested mutexes, timeouts of those who
  lent their priority, and `_Thread_Change_priority`, which is interrupted
  between setting a priority and telling the scheduler.
* **Hand-over.** Message buffers, locks and barriers are handed to waiting
  threads in several steps with interrupts between them.
* **Timers.** `_Watchdog_Insert_locked` opens an interrupt window after every
  step; the timer server releases its lock while it arms the system watchdog.
* **Storage.** Tasks give the cache lock up to wait and find anything when they
  have it again; transfers fail in part; the power fails between two writes.

`PROJECT.json` lists each hazard at its line with the properties that watch it.

## 2. Modules

| Module | Models | Lines of code in |
|---|---|---|
| `ThreadQueue` | blocking protocol, dispatching, interrupt frame, timeouts, heir | `score/thread`, `libcpu/c66x/irq.c` |
| `CoreSemaphore` (extends it) | counting semaphore and its Classic API directives | `coresemimpl.h`, `rtems/sem` |
| `AbstractSemaphore` | each directive one atomic step; refined by `CoreSemaphore` | |
| `Watchdog` | the delta chain with interruptible insertions | `score/watchdog` |
| `OrderedQueue` | chains in the order of a value: ordered insertion and extraction, the ticks along a delta chain, for `CoreMutex`, `MessageQueue`, `Watchdog` and `TimerServer` | `chainimpl.h`, `threadqops.c`, `watchdoginsert.c` |
| `CoreMutex` | mutex disciplines, priority inheritance and ceiling, changes of priorities | `coremutex*.c`, `threadchangepriority.c` |
| `EventManager` | user and system events of one task | `rtems/event` |
| `AbstractEvent` | send and receive as atomic steps; refined by `EventManager` | |
| `MessageQueue` | Classic and POSIX message queues | `coremsg*.c`, `posix/mqueue` |
| `CoreRWLock`, `CoreBarrier` (both extend `WaitQueue`, the threads that wait on them) | reader/writer lock, barrier | `corerwlock*.c`, `corebarrier*.c` |
| `TimerServer` | timers of both kinds, the server, its helper, forward adjustment | `rtems/timer`, `watchdogadjust.c` |
| `BlockCache` | the buffer cache with its tasks | `bdbuf.c` |
| `FlashDisk` | the flash translation layer with power failures | `flashdisk.c` |
| `MC*` | instances for TLC | |
| `CoreSemaphoreProofs` (with the blocking protocol), `EventManagerProofs`, `WaitQueueProofs` (reader/writer lock and barrier), `WatchdogProofs`, `OrderedQueueProofs`, `MessageQueueProofs`, `CoreMutexProofs`, `TimerServerProofs` | theorems | |

Operators marked "Defect" are small wrong versions of the definition that
follows them. No specification uses them; substituting one for its neighbour
must make a property fail, which is how the properties are tested.

Several modules have one variable that never changes and says in which system
the behaviour takes place: `system` (mutexes and priorities), `control` (the
attributes of a message queue), `isrOps` (what handlers do), `timed` (whether
callers use timeouts), `scenario` (timers), `setup` (block cache), `config`
(flash disk). It is chosen in `Init` from a constant set. One run then covers
several systems, and a property that the code only keeps in some of them says
in which, instead of being checked in a model from which the others are left
out.

### 2.1 ThreadQueue and CoreSemaphore

One action is one section with interrupts disabled, and an interrupt may be
taken between any two actions. `pc[c]` is the section context `c` (a thread,
the idle thread, one of two interrupts) enters next; `isrStack` says who has
the processor.

| Actions | Code |
|---|---|
| `SeizeAvailable`, `SeizeNoWait`, `SeizeWait` | the three ways through `_CORE_semaphore_Seize`; the last shares its section with the start of `_Thread_queue_Enqueue_critical` |
| `EnqueueSetState`, `EnqueueInsertTimer`, `EnqueueTryBlock` | the rest of `_Thread_queue_Enqueue_critical` |
| `Surrender` | `_CORE_semaphore_Surrender` up to the release of the lock, by a thread or by the device interrupt |
| `UnblockRemoveTimer`, `UnblockClearState`, `DispatchUnnest` | `_Thread_queue_Unblock` and the inner `_Thread_Dispatch_enable` |
| `Flush`, `FlushNext` | `rtems_semaphore_flush`, one round of the loop of `_Thread_queue_Flush` per step |
| `DispatchEnable` (with `DoDispatch`) | the outer `_Thread_Dispatch_enable`, `_Thread_Do_dispatch` and the context switch |
| `IsrEnter`, `IsrExit` | `__ISR_Handler` before and after the handler |
| `Tick`, `TickleNext`, `Timeout`, `TimeoutUnblock` | `_Watchdog_Tick`, the loop of `_Watchdog_Tickle`, `_Thread_Timeout` |
| `SchedulerTick` | `_Scheduler_Tick`: the end of a time slice |

Abstractions, and why they are sound for what is claimed:

* *Scheduler.* The heir after a block is any ready thread (the idle thread if
  there is none); an unblocked thread may or may not become the heir; a time
  slice may end at any tick. Every scheduler of the repository makes one of
  these choices, so safety carries over. Threads are preemptible, the default
  task mode.
* *Queue.* `ahead[t]` is the set of threads before `t`: for the FIFO chain
  everybody who came earlier, for the red-black tree, inserted with `is_unique`
  false, those of smaller or equal priority value.
* *Ticks chain.* A set of armed timers with the ticks left; the chain itself is
  `Watchdog`. The early and late firings of section 4 only change the tick in
  which a timeout comes; the safety properties hold for every such tick.
* *Dispatch.* A thread switched out rests at its `enable` section, where the
  loop of `_Thread_Do_dispatch` tests `dispatch_necessary` again. CPU time,
  floating point, user extensions and post-switch actions are left out.
* *Interrupts.* Entry clears GIE and `_ISR_Enable( level )` restores the level
  found, so handlers are not interrupted unless one sets GIE itself; `Nesting`
  covers both.
* *Multiprocessing.* `Surrender` has the disable level that
  `_CORE_semaphore_Surrender` keeps around the unblocking when
  `RTEMS_MULTIPROCESSING` is defined, which `cpuopts.h` leaves open. Without it
  the same sections run at one level less; no property depends on it.

`balance` is a history variable: units put in less obtains that returned
successfully.

### 2.2 Watchdog

A thread's insertion is a walk: `InsertBegin` makes the first step, and every
step past a watchdog ends with the interrupt window (`_Watchdog_Flash`), after
which `InsertNext` looks at its state and goes on from `iterator`. Threads use
the chain with dispatching disabled, one at a time; handlers and the service
routines of fired watchdogs use it at any time and in one step. Between two
rounds of `_Watchdog_Tickle` the routine of a fired watchdog runs (`serving`)
and may insert or remove watchdogs, its own included. `wanted` and `least` are
history variables: who is waited for, and the ticks that must still pass.

### 2.3 CoreMutex

A wait begins and ends in one step here (what is inside it is `ThreadQueue`);
what is opened up instead is what the mutex does around it: `SeizeWait`,
`RaiseHolder`, `Enqueue` for `_CORE_mutex_Seize_interrupt_blocking`;
`Surrender`, `Check`, `Restore` for the three sections of
`_CORE_mutex_Surrender` (hand-over, test of the restore hint, restoration);
`Update` for the second section of `_Thread_Change_priority`, with the
generation count that makes an overtaken change give up; `RaiseSelf` for the
ceiling; `Flush` and `FlushNext` for a flush, whose rounds take one waiting
thread each with dispatching disabled and interrupts between them. The scheduler runs a ready thread of the best priority it has been
told (`rq`), which is not always `prio`.

### 2.4 EventManager

The task's receive is `Receive`/`ReceiveCurrent` and, in `Continue`, arming the
timer, setting the state, trying to block, and undoing it; a sender's is
`Surrender` and the removal of the timer and the unblocking in
`SenderContinues`; the clock's is `ClockContinues`. Handlers interleave freely
with each other, which includes every nesting of them; threads only move when
no handler is active. Both classes of events use one wait state.

### 2.5 MessageQueue, CoreRWLock, CoreBarrier

The message queue is one action per section under its lock: `Send` with its
three outcomes, `SendBlocking`, `Receive` (which gives the buffer to a waiting
sender), `ReceiveWait`, `Timeout`, `Flush`, and a broadcast that releases the
lock for every receiver. Messages are model values with a submit type; sizes
are left out. The releases of the reader/writer lock and of the barrier are
several steps with interrupts, that is timeouts, between them: marking the lock,
dequeuing the first thread, then finding, counting and extracting one reader
after the other.

### 2.6 TimerServer

A task in a directive and the server both run with dispatching disabled or not
preemptible, so one of them runs at a time, in steps that end where interrupts
are enabled; ticks, handlers and timer routines come between. A start is
`FireAfter`, `FireCheck` (which gives up if a handler was faster, and marks the
timer as in use otherwise), then for the clock `StoreTicks` and `InsertTicks`, for the
server `ScheduleOperation` (the test of the class) and `InsertTimer` (the locked
section). `Reset` is one section up to the same tests. `Update`,
`UpdateRemove`, `UpdateArm`, `UpdateAgain` are the loop of the helper around the
system watchdog; `ServerTickle`, `ServerLoop`, `ServerTickleBegin` are the
server's body with `_Watchdog_Adjust_forward_locked`, whose intermediate state
(one tick too many on the first timer) is visible to handlers. Timers by the
time of day use the same code with another clock and are left out.

### 2.7 BlockCache

An action is what a task does between taking the cache lock and giving it up;
loops that keep the lock go on from action to action with `owner` set. Clients
get, read, release, release modified, sync, sync a device, purge and change the
block size; the swap-out task, a worker and the read-ahead task run beside
them. The swap-out task and a worker write the same way (`SwapoutWrite`,
`SwapoutWritten`); a worker then puts itself back on the chain of free workers
in a section of its own (`WorkerFree`). `Driver` ends a transfer; in setups with
errors any part of it may have been done. The driver of the flash disk stops at the first
block that fails, which is one of these outcomes. Contents are
versions (0, 1, or `Unsure` once the cache has dropped what was written), so
that stale data is told from new data.

### 2.8 FlashDisk

A step is what a request does up to and including one change of the flash;
`PowerCut` may come between any two steps, or tear the page being written, and
`Recover` rebuilds the memory from the descriptors in the flash as
`rtems_fdisk_recover_block_mappings` does. A checksum is modelled as what it
protects: a page's descriptor names its contents, and a torn page matches none.
The flash does what it is told: errors of its driver are left out, and a write
or a move that finds no page to go to stops the disk, where the code marks the
segment as failed and returns `EIO`. `WritesSucceed` says where that cannot
happen. The descriptors a recovery marks as used are written one per step like
every other change of the flash.
Counters wrap below zero as unsigned words do.

## 3. What the runs show

| Run | Instance | States | Time | Shows |
|---|---|---|---|---|
| `CoreSemaphore` | 2 threads of equal priority, binary semaphore with a priority queue, timeouts of 0 and 1 tick, nested interrupts | 215 k | 18 s | `SemaphoreInv`, `UnitConservation`, `NoStrandedThread`, `PendingDispatch`, `QueueOrder`; `ImplementsAbstract`: no unit is lost or granted twice, no thread stays blocked beside a unit, no dispatch is forgotten, equals are served in the order they came, the directives are atomic |
| `SemaphoreLive` | the same with 2 priorities and without nesting, under `FairSpec` | 71 k | 65 s | `TimedWaitEnds`, `DispatchPerformed` |
| `WatchdogChain` | 3 watchdogs, intervals to 3, handlers that insert, remove, both or neither | 191 k | 50 s | `ChainConsistent`: on the chain once, the walk goes on from a node of it; `TicksNeverEarly`, `Fires`, `InsertEnds` |
| `WatchdogEarly` | 3 watchdogs, handlers that remove | | 1 s | violated: `NeverEarly` (section 4) |
| `Mutexes` | 6 systems of 2 or 3 threads and 1 or 2 mutexes: inheritance, ceiling, binary semaphores of both orders, nesting, two threads of equal priority, priorities set at any time | 179 k | 12 s | `MutexConsistent`, `PriorityRestored`, `NoInversion`, `LoweredWithLast` |
| `Events` | a task, a sending task, a sending handler and the clock; 2 classes of 2 events | 18 k | 7 s | `EventInv`; `ImplementsAbstract`; `ReceiveEnds` |
| `Messages` | 3 threads and a handler; POSIX queues of 1 and 2 buffers, a Classic queue of 2 | 339 k | 20 s | `QueueConsistent`, `DeliveredOnce`, `FifoWithinPriority` |
| `RWLocks` | 4 threads, with and without timeouts | 56 k | 26 s | `LockSafe`, `WritersNotPassed`, `WaitEnds` |
| `Barriers` | 4 threads, maximum 3, with and without timeouts | 6 k | 4 s | `BarrierSafe`, `PassesTogether`, `BarrierWaitEnds` |
| `Timers` | 2 timers, 4 scenarios of 2 to 4 ticks: tasks alone, handlers that cancel, handlers and routines that start, handlers that do both | 1.65 M | 100 s | `TimersConsistent`, `ServerServes`, `NotEarly` |
| `Blocks` | 11 setups of 1 to 3 buffers and clients, under `FairSpec` | 679 k | 180 s | `CacheConsistent`, `ReadsLatest`, `SyncWaits`, `NoLostWakeup`, `SyncEnds` |
| `Flash` | 4 disks: full segments in the way, filled to its reserve, in the background, power failure | 422 k | 140 s | `DiskConsistent`, `ReadsLatest`, `WritesSucceed`, `RequestsEnd` |

`EventInv` and `SemaphoreInv` are the inductive invariants of the proofs; the
`...Consistent` and `...Safe` invariants are conjunctions of a type invariant
with the named facts above them in the module.

**Why the bounds are enough.** Two threads give every race between a waiter and
one party that ends its wait; two interrupts of which one may nest in the other
give the race between two such parties, and the clock is one of them. What the
semaphore promises is proved for any number of threads. Only "expires in this
tick" and "does not" differ for a timeout, so short timeouts are enough. For the
chain, three watchdogs are one inserted, one stepped over and one interfering;
`MaxDelta` caps what repeated removals pile on the iterator or on a successor.
Mutexes need a waiter, a holder and a third priority in between, and two mutexes
for restoration with the last one. Locks and barriers have four threads so that
a group is let go while somebody else still waits. Timers: two, since the server
distinguishes the first of its chain from the others, with a bound on the ticks.
The caches are as small as each situation allows (one buffer and two blocks make
every request recycle), and each situation is a setup of its own: `Parts` has two
buffers in a transfer that fails in part, `Synced` a client that goes on writing
while a device is synced, `Helped` a worker that writes meanwhile. Clients that
sync single buffers and clients that sync the device are not in one setup.
Clients are symmetric in the setups without device syncs; `SyncEnds` only speaks
of the others, in which nobody is exchanged for anybody. The disks have
three or four segments, one to move from, one to move to and one in the way, and
one power failure, which covers a failure during normal work; failures of a
recovery itself are not covered.

**Fairness.** `CoreSemaphore`'s `FairSpec`: an interrupt that has been entered
runs to its end (weak), a thread whose next section is enabled again and again
gets the processor (strong), the latched clock interrupt is served again and
again. No directive and no device interrupt is assumed to happen. For the chain:
the clock ticks, the tickle loop goes on, an insertion gets time between
interrupts. Events, locks and barriers: sections in progress go on and the clock
ticks; for `WaitEnds` the holders of a lock release it, and threads go on
arriving at a barrier, which is what a waiting thread relies on. Flash disk: a
request that has begun goes on, as it runs under the lock of the disk in one
task. Block cache: a client that has the lock goes on, the driver ends the
transfers of the swap-out task, and the swap-out task, which competes for the
lock with tasks that let it go again and again, gets it again and again
(strong). Clients need not release what they hold, and nothing is assumed of
workers and of the read-ahead task. The runs `Blocks` and `Flash` do not check for deadlock: with no client
operation enabled the cache rests, and a disk rests after its last power
failure; `NoLostWakeup` says that such a rest finds nobody waiting.

## 4. Where the code and its comments disagree

`WatchdogEarly` keeps one disagreement as a run: when the watchdog under the
iterator is removed, `_Watchdog_Remove_it` gives the iterator back the delta of
the *previous* watchdog, or nothing at the head, instead of the removed one's
(`watchdogremove.c:72`). A watchdog inserted for 2 ticks fires after 1.

The others below came up while the models were built. Most of them are why a
property names the systems it speaks of; widening it again (dropping the
condition, or adding the operation to the instance) shows the behaviour.

| Where | What the code does | Conditioned property |
|---|---|---|
| `watchdoginsert.c:45` | the fix-up moves the iterator back to a watchdog inserted before its current one and does not lengthen its interval: early | `TicksNeverEarly` |
| `watchdogremove.c:142` | a first watchdog with delta zero uses up a tick that is not counted for those behind it: late | |
| `coremutexseize.c:78` | inheritance does not go on from a holder that waits itself (`mainpage.h:574` promises no inversion) | `DirectInheritance` |
| `coremutexsurrender.c:245` | the restore hint and the resource count of the former holder are tested with dispatching enabled. A thread that released a semaphore of another one may be preempted before it restores that one, which seizes an inheritance mutex meanwhile and inherits anew: its priority is lowered while it holds the mutex and a more important thread waits for it. With priorities set in between, a ceiling is lost the same way. Does not happen where only holders release (`OwnersRelease`) | `LoweredWithLast`, `NoInversion` |
| `coremsgsubmit.c:129` | a blocking send does not set the return code before it waits; after a receive that failed a successful `mq_send` reports that error | `NothingLost` speaks of receives |
| `coremsgbroadcast.c:69` | without multiprocessing a receiver that waits again gets the same broadcast again | `BroadcastOnce` |
| `corerwlockrelease.c:89` | a reader that times out between being found and being extracted stays counted; the lock stays locked for reading | `ReadersCounted`, `WaitEnds` |
| `corebarrierwait.c:39` | a wait that times out is not taken off the counter; the barrier opens with too few threads | `NumberWaiting`, `PassesTogether` |
| `watchdogadjust.c:59` | a handler that starts a server timer in the window finds one tick too many: early. The units not yet taken off the chain are lost to it too: a timer that a handler or the routine of a late timer starts for `n` ticks while they are left has them taken off as well | `NotEarly` |
| `timerfireafter.c:74`, `timerserver.c:159` | between the tests of a start and the insertion a handler may start the same timer: one of the clock that fires before the task goes on ends on the server's chain with the class of the clock, and one of the server that a handler also cancels ends on the clock's | `ClassAgrees` |
| `timerserver.c:92` | a tick and a start that both hit the helper leave the system watchdog armed for the old delta: late | `ServerArmed` |
| `bdbuf.c:2035` | a failed write discards its buffers; the comment at 2582 says they are tried again later | `latest` becomes `Unsure` |
| `bdbuf.c:2623` | a worker is taken from its chain and not put back when there is nothing to write | |
| `bdbuf.c:2683` | a sync of a device may end while a worker still writes what it took before the sync began (`bdbuf.h:612` says that the call waits for all of it) | `SyncWaits` lets a device sync leave that, and no more |
| `bdbuf.c:2205`, `1151` | a buffer purged during a read is handed out; one purged while its client waits for the sync lock is written | setup `Purged` has neither reads nor device syncs |
| `bdbuf.c:1751`, `1711` | after a change of the block size a client may go on with a buffer of the old size, or meet a fatal check | `Suitable`, `NotFatal` |
| `nor_ftl.h:216` | the boards set one block in reserve where `flashdisk.h:380` asks for a segment: writes fail with `ENOSPC` | disks with a full reserve |
| `flashdisk.c:1364` | compaction drops a segment from all queues when no other is available | `SegmentsQueued`, in the foreground |
| `flashdisk.c:1870` | a write that fails leaves the block mapped to a page it has given up | disk `Lazy` stops at the first |
| `flashdisk.c:1365`, `1296`, `1277` | after a power failure a torn page may leave no page to compact with; a block may be lost or an older copy read, after further writes | disk `Cut` stops at the recovery |

## 5. What is proved

For every finite set of threads, any priorities, either discipline, nested
interrupts or not, any timeouts and any counts, `CoreSemaphoreProofs` proves

* `SemaphoreInvariant`: the inductive invariant `SemaphoreInv`, and from it
  `TypeCorrect`, `UnitsConserved`, `UnitsUsed`, `NoneStranded`, `OneUnblocker`,
  `ReturnsClean`, `HeirDispatched`, `LevelsBalance`;
* `OutcomesSettled`, an action property: once a wait has ended nothing changes
  its outcome;
* `Refinement`: `CoreSemaphore` implements `AbstractSemaphore`;
* `QueueOrdered`: the queue is a total order that follows its discipline
  (`QueueSorted`), and whoever comes to it goes behind all that wait and are not
  less important, in arrival order among equals (`NoOvertaking`).

`EventManagerProofs`, for any events, senders and timeouts: `EventInvariant`
(the inductive `EventInv`) and from it that no event is missed, that exactly one
party unblocks the task and that no timer outlives its receive;
`EventWaitEndsOnce`; and `EventRefinement`, that the sections implement
`AbstractEvent`. `WaitQueueProofs`, for any number of threads: `RWLockSafe`, `RWLockWritersNotPassed`, `BarrierIsSafe`,
`BarrierPassesTogether`. `WatchdogProofs`, for any watchdogs, intervals and
handlers: `WatchdogConsistent`, that `ChainConsistent` always holds, and the
action property `WatchdogNotEarly` where handlers leave the chain alone.
`MessageQueueProofs`, for any threads, messages and priorities, queues of any
size, blocking on both sides, with broadcasts and handlers: `QueueIsConsistent`,
`MessagesDeliveredOnce` and the action property `MessagesFifo`.
`CoreMutexProofs`, for any threads, finitely many mutexes of all disciplines, any
ceilings, nestings and priorities that are set: `MutexIsConsistent`,
`PrioritiesRestored`, `NoPriorityInversion` and the action property
`PriorityLoweredWithLast`; the last two where only holders release, see section 4.
`TimerServerProofs`, for any timers, intervals and scenarios: `TimersAreConsistent`,
`ServerIsWoken` and the action property `TimersAreNotEarly`.

Assumptions are those named in the modules: contexts are distinct, priorities
and counts are numbers, the initial count is at most the maximum, sets of
threads are finite where they are counted.

**The argument for the blocking protocol.** None of the properties is inductive
alone. `NoStrandedThread` needs to know that a thread flagged *intend to block*
is still inside `_Thread_queue_Enqueue_critical` and will see its flag change
(`WaitInv`), and that a context that took a thread off the queue really holds
one whose wait has ended (`HoldInv`, `EndedInv`). `CleanReturn` needs `TimerInv`:
an armed timer belongs to a thread on the queue, to one that has yet to pass its
try-block section, or to one that somebody is about to disarm. `SingleUnblocker`
follows because the queue is left once per wait. Where a thread may be
interrupted is `ControlInv` and `StackInv`. The first part of
`CoreSemaphoreProofs` has one lemma per action, and in each one step per conjunct. For the semaphore every kernel step is
reduced to one of three effects on the waits (it cancels one, returns from one,
or leaves all as they are), from which `UnitConservation` and the refinement
follow by counting `Granted`.

**Events.** `Position` says which sections the wait state allows the task, the
senders and the clock to be in; `TimerStopped` that nobody has a timer in hand
that could end a later wait. **Reader/writer lock.** `HoldersAgree` ties what the
threads hold to the state, `ReadersBound` bounds the readers by the counter (a
timeout in the middle of a release can only make it too large), and
`ReadersExact`, without timeouts, counts the reader that has been found and not
yet extracted. **Barrier.** `ArrivedCounted` ties the counter to the threads
that came since it last opened. **Watchdogs.** `WatchdogInv` adds to
`ChainConsistent` that no watchdog is on the chain twice by place
(`NoRepetition`, from which the count of `OnChainOnce` follows), that the states
of the watchdogs say who is on the chain and who is being inserted
(`StatesAgree`), that exactly those that are not inactive are waited for
(`Awaited`), and that the iterator is on the chain even when nobody uses it.
`ChainGrows` and `ChainShrinks` say what an insertion and a removal make of the
chain; the fix-ups of the iterator are in `IsrInsertKeeps` and `RemoveKeeps`.
`WatchdogNotEarly` needs `EnoughTicks`: the ticks that must still pass before a
watchdog may fire are at most those to its place on the chain, and for the one
being inserted at most those to the node its walk has come to plus what the walk
has left. A tick takes one from both sides (`CountDownTicks`), unless the walk is
at the head, where the new watchdog only gets later; the node of the walk leaves
the chain only when it is due, so that the ticks to it are none and the walk goes
on from the head with the same bound (`FirstLeaves`). The invariant is false once
handlers insert or remove, which is the violation of `WatchdogEarly`.

**Ordered queues.** `OrderedQueueProofs` says what an insertion and an
extraction do to a chain in one relation, `Inserts(s, r, t, p)`: `r` is `s` with
`t` behind its first `p` nodes. That `_Chain_Insert_ordered_unprotected` finds a
place (`WalkEnds`) is the least natural number with a property; from there on
membership (`Grows`, `Shrinks`), order (`InsertOrderedInOrder`,
`ExtractedInOrder`) and the lack of repetitions follow from the relation, also
for appending and for taking the head. On a delta chain the ticks to the places
(`Ticks`) are a recursive function; that it exists and what it adds up to
(`TicksSum`) are proved with `UpTo`, an induction over the places as a statement
about a set of numbers, from the least of those that are missing. A node more or
less leaves the ticks to the others alone (`TicksSplit`), and ticks given to the
first node or taken from it move all of them (`TicksMove`).

**Message queue.** `MessageInv` adds to `QueueConsistent` that no message and no
thread is in its chain twice (`ChainsInv`), what a thread has in hand at each
point of its call (`CallsInv`), that a message that is not submitted or still
pending was delivered to nobody (`FreshInv`), and that a waiting sender's message
is nowhere else (`SendersInv`), so that the hand-over of
`_CORE_message_queue_Seize` moves it from one place to the next; `OnceInv` counts
its deliveries, from which `Places` is a singleton. `CastInv` and `WaitingInv`
say what a broadcast has done to the receivers that still wait. For
`FifoWithinPriority` an insertion is shown to put a message behind all equal
ones, and every removal to take the head.

**Mutex.** No property is inductive alone. `ResourcesCounted` and `NoIdleMutex`
need `QueuesInv`, that a waiting thread is on one queue, once, and not the
holder, and `HoldersInv`, that the nest count says whether there is one.
`SchedulerFollows` needs `SectionsInv`: at most one thread has dispatching
disabled, so there is at most one change of a priority between its two sections,
and its local variables still name the holder they were read from, whatever
interrupts have done. `PriorityRestored` needs `HintInv`, that a priority that
differs from the thread's own is marked. `NoInversion` needs that priorities are
only raised when none is set (`RaisedInv`), that a thread about to enqueue has
lent its priority (`LentInv`), and that a thread only ever restores itself and
holds nothing then (`OwnInv`), which is false once others may release: the proof
attempt found the lost inheritance of section 4, which the instance of the run
missed because no two of its threads had the same priority. The four callers of
`_Thread_Change_priority` share one lemma (`ChangeInv`) under the conditions
`SoundChange`; the two surrenders share `FirstFacts`, `QueueLeft` and, for the
count of resources, `HandedOver`. A round of a flush takes a thread off its queue as a
timeout does (`LeaveInv`); its beginning and its end only move the thread that
flushes (`FlushTurnInv`).

**Timers.** The proofs rest on three invariants. `TimersInv` adds to
`TimersConsistent` what a step of a directive owes to the one before it
(`Asked`): a timer whose task was interrupted between the check and the
insertion has an interval, or is about to get it, and it has the class of the
chain it goes to where `ClassAgrees` promises that: otherwise a handler has put
it on the server's chain, or started and cancelled it. `WakeInv` says who will look at the chain of
the server while it has timers: the pending event, the system watchdog, the
server or a helper, which is set exactly while it is in its loop. `ArmInv` says
that the ticks the system watchdog has to go, or that the helper is about to give
it, are good enough (`ArmedFor`): they are at most those the server remembers
(`system_watchdog_delta`), less the ticks since its snapshot, plus those that hit
the helper; a wake-up in the middle of the helper's work clears what the server
remembers, and then they are good enough for the first timer itself. `EarlyInv`
counts along the chain: the tick of a timer is at most the snapshot, less the
units the server has not taken off yet, plus the ticks to its place (`Reach`),
and one less where the server has left one too many. What an insertion, a
removal and a change of the first delta do to the ticks to the places are
`ReachSplits` and `ReachMoves`, instances of the lemmas about `Ticks`.

**Only model-checked:** liveness, which needs fairness and is out of the
prover's reach; and everything about `BlockCache` and `FlashDisk`.

## 6. Plan

1. Proofs of the list and state part of `CacheConsistent`, with the lemmas of
   `OrderedQueueProofs`.
2. `PriorityScheduler`: ready chains, bit map, preemption mode, yield; shown to
   make one of the choices that `ThreadQueue` allows.
3. Rate monotonic periods; deletion of objects with waiting threads; errors of
   the flash driver.

## 7. Not modelled

* Most of the repository by lines is third-party or generated: TI's chip support
  and packet accelerator drivers, newlib, the BSD network stack, the loader,
  `confdefs.h`. The models cover the part of the kernel and of the storage stack
  that has concurrent or persistent state, which is a small share of all lines.
* Register-level assembly, device drivers: pure I/O.
* Multiprocessor communication: the receiving side of the shared memory driver
  is not in the port.
* Hardware semaphore spinlocks (`libbsp/c6678/spinlock`): nothing in the
  repository calls them, so there is no protocol between cores to check.
* Heap, work space, chains, red-black trees: sequential structures under a lock.
  Timecounters: arithmetic of third-party code. POSIX front ends other than the
  message queue: argument checks before the modelled objects.
* Deletion of semaphores, queues, barriers and timers in use; remote objects and
  proxies; message sizes; the time-of-day timers; the backward adjustment of the
  seconds chain; statistics.
