----------------------------- MODULE CoreBarrier -----------------------------
(***************************************************************************)
(* The SuperCore barrier behind rtems_barrier_* and pthread_barrier_*.     *)
(*                                                                         *)
(*   librtems/score/core/corebarrier.c, corebarrierwait.c,                 *)
(*   corebarrierrelease.c                                                  *)
(*   librtems/rtems/barrier/barrierwait.c, barrierrelease.c                *)
(*                                                                         *)
(* The directives run with dispatching disabled (_Barrier_Get): a release  *)
(* dequeues one thread after the other, and only time-outs come between.   *)
(***************************************************************************)
EXTENDS WaitQueue

CONSTANTS
  Automatic,      \* CORE_BARRIER_AUTOMATIC_RELEASE
  MaximumCount    \* maximum_count

ASSUME BarrierAssumption == MaximumCount \in Nat \ {0} /\ Automatic \in BOOLEAN

VARIABLES
  number,     \* number_of_waiting_threads
  tripped,    \* the release was set off by the last arrival, not by hand
  arrived     \* the threads that arrived since the last release began

barrierVars == <<timed, number, status, waiting, ahead, releaser, tripped, arrived>>

BarrierInit ==
  /\ WaitQueueInit
  /\ number = 0 /\ tripped = FALSE /\ arrived = {}

\* Defect: the barrier opens one thread too early.
TripsEarly == Automatic /\ number + 2 >= MaximumCount

\* The caller is the last one the barrier waits for.
Trips == Automatic /\ number + 1 = MaximumCount

\* _CORE_barrier_Wait.
BarrierWait(t) ==
  /\ Runs(t) /\ number' = number + 1
  /\ IF Trips
     THEN /\ status' = [status EXCEPT ![t] = "released"]
          /\ releaser' = t /\ tripped' = TRUE
          /\ UNCHANGED <<waiting, ahead>>
     ELSE /\ Enqueue(t)
          /\ UNCHANGED <<releaser, tripped>>
  /\ arrived' = arrived \cup {t}

\* rtems_barrier_release.
BarrierRelease(t) ==
  /\ Runs(t) /\ releaser' = t /\ tripped' = FALSE
  /\ UNCHANGED <<number, status, waiting, ahead, arrived>>

\* Defect: the loop looks at the first thread and leaves it on the queue.
DequeueOneFirst(t) ==
  /\ releaser # Nobody /\ First(t)
  /\ UNCHANGED <<number, status, waiting, ahead, releaser, tripped, arrived>>

\* One turn of the loop of _CORE_barrier_Release.
DequeueOne(t) ==
  /\ releaser # Nobody /\ First(t)
  /\ Extract(t)
  /\ UNCHANGED <<number, status, releaser, tripped, arrived>>

\* Defect: the counter is not reset.
BarrierReleaseEndKeeps ==
  /\ releaser # Nobody /\ waiting = {}
  /\ releaser' = Nobody /\ arrived' = {} /\ tripped' = FALSE
  /\ UNCHANGED <<number, status, waiting, ahead>>

BarrierReleaseEnd ==
  /\ releaser # Nobody /\ waiting = {}
  /\ number' = 0 /\ releaser' = Nobody /\ arrived' = {} /\ tripped' = FALSE
  /\ UNCHANGED <<status, waiting, ahead>>

\* A thread that times out stays counted.
WaitTimeout(t) == Timeout(t) /\ UNCHANGED <<number, releaser, tripped, arrived>>

BarrierStep ==
  \/ \E t \in Thread : BarrierWait(t) \/ BarrierRelease(t) \/ WaitTimeout(t) \/ DequeueOne(t)
  \/ BarrierReleaseEnd

BarrierNext == BarrierStep /\ UNCHANGED timed

BarrierSpec == BarrierInit /\ [][BarrierNext]_barrierVars

-----------------------------------------------------------------------------
\* A release under way goes on, and a thread that runs arrives at the barrier
\* (what the threads owe each other).
BarrierFairness ==
  /\ WF_barrierVars(UNCHANGED timed /\ (BarrierReleaseEnd \/ \E t \in Thread : DequeueOne(t)))
  /\ \A t \in Thread : SF_barrierVars(BarrierWait(t) /\ UNCHANGED timed)

BarrierFairSpec == BarrierSpec /\ BarrierFairness

BarrierTypeOK ==
  /\ timed \in BOOLEAN
  /\ number \in Nat
  /\ waiting \subseteq Thread /\ ahead \in [Thread -> SUBSET Thread]
  /\ status \in [Thread -> {"successful", "released", "timeout"}]
  /\ releaser \in Thread \cup {Nobody} /\ tripped \in BOOLEAN /\ arrived \subseteq Thread

\* Through time-outs and releases an automatic barrier never has as many
\* threads waiting as it waits for, and its counter cannot step over its
\* maximum: the next release is always one of the next arrivals.
NeverOverfull ==
  releaser = Nobody =>
    /\ Cardinality(waiting) <= number
    /\ Automatic => number < MaximumCount

\* Without time-outs it is "the number of threads currently waiting at the
\* barrier".
NumberWaiting == ~timed /\ releaser = Nobody => number = Cardinality(waiting)

\* The counter of _CORE_barrier_Wait stays below the maximum, and is exact where
\* no time-out leaves it behind.
BarrierSafe == BarrierTypeOK /\ NeverOverfull /\ NumberWaiting

\* "the barrier will automatically release when the user specified number of
\* threads have arrived": with no time-out nobody passes a barrier before
\* all of them are there, unless it is released by hand.
PassesTogether ==
  [][\A t \in Thread : (t \in waiting /\ t \notin waiting' /\ status'[t] # "timeout")
       => \/ ~tripped \/ timed
          \/ Cardinality(arrived) = MaximumCount]_barrierVars

\* What makes PassesTogether true: without time-outs the counter counts the
\* threads that arrived, and a tripped release has all of them.
ArrivedCounted ==
  ~timed =>
    /\ releaser = Nobody => arrived = waiting /\ number = Cardinality(waiting)
    /\ releaser # Nobody /\ tripped => Cardinality(arrived) = MaximumCount

\* Whoever waits at an automatic barrier passes it once the others arrive.
BarrierWaitEnds == \A t \in Thread : (t \in waiting) ~> (t \notin waiting)
=============================================================================
