----------------------------- MODULE CoreRWLock -----------------------------
(***************************************************************************)
(* The SuperCore reader/writer lock behind pthread_rwlock_*.               *)
(*                                                                         *)
(*   librtems/score/core/corerwlock.c, corerwlockobtainread.c,             *)
(*   corerwlockobtainwrite.c, corerwlockrelease.c                          *)
(*   librtems/posix/rwlock/prwlockunlock.c                                 *)
(*                                                                         *)
(* The directives run with dispatching disabled (_POSIX_RWLock_Get): a     *)
(* release takes several steps, between which only the clock interrupt     *)
(* and its time-outs come.  A thread releases what it holds, or a lock     *)
(* that is not locked.                                                     *)
(***************************************************************************)
EXTENDS WaitQueue

VARIABLES
  state,     \* current_state
  readers,   \* number_of_readers
  option,    \* per thread, Wait.option: it waits to read or to write
  holds,     \* per thread, the access it was granted
  step,      \* where the releaser is in _CORE_RWLock_Release
  next       \* its local variable next

lockVars == <<state, readers>>
releaseVars == <<releaser, step, next>>
queueVars == <<waiting, ahead, option>>
vars == <<timed, lockVars, queueVars, status, holds, releaseVars>>

Init ==
  /\ WaitQueueInit
  /\ state = "unlocked" /\ readers = 0
  /\ option = [t \in Thread |-> "read"]
  /\ holds = [t \in Thread |-> "none"]
  /\ step = "none" /\ next = Nobody

-----------------------------------------------------------------------------
(***************************************************************************)
(* _CORE_RWLock_Obtain_for_reading, _CORE_RWLock_Obtain_for_writing.       *)
(***************************************************************************)
\* Defect: a reader passes the threads that wait.
MayReadBarging == state # "writing"

MayRead == state = "unlocked" \/ (state = "reading" /\ waiting = {})

ObtainRead(t) ==
  /\ Runs(t) /\ holds[t] = "none" /\ MayRead
  /\ state' = "reading" /\ readers' = readers + 1
  /\ holds' = [holds EXCEPT ![t] = "read"]
  /\ status' = [status EXCEPT ![t] = "successful"]
  /\ UNCHANGED <<queueVars, releaseVars>>

ObtainWrite(t) ==
  /\ Runs(t) /\ holds[t] = "none" /\ state = "unlocked"
  /\ state' = "writing"
  /\ holds' = [holds EXCEPT ![t] = "write"]
  /\ status' = [status EXCEPT ![t] = "successful"]
  /\ UNCHANGED <<readers, queueVars, releaseVars>>

Refused(t, o) == IF o = "read" THEN ~MayRead ELSE state # "unlocked"

Try(t, o) ==
  /\ Runs(t) /\ holds[t] = "none" /\ Refused(t, o)
  /\ status' = [status EXCEPT ![t] = "unavailable"]
  /\ UNCHANGED <<lockVars, queueVars, holds, releaseVars>>

Wait(t, o) ==
  /\ Runs(t) /\ holds[t] = "none" /\ Refused(t, o)
  /\ option' = [option EXCEPT ![t] = o]
  /\ Enqueue(t)
  /\ UNCHANGED <<lockVars, holds, releaseVars>>

\* A reader that times out stays counted.
ObtainTimeout(t) == Timeout(t) /\ UNCHANGED <<lockVars, option, holds, releaseVars>>

-----------------------------------------------------------------------------
(***************************************************************************)
(* _CORE_RWLock_Release.                                                   *)
(***************************************************************************)
\* Nobody else reads any more.
LastReader == readers = 1

\* The section with interrupts disabled.
Release(t) ==
  /\ Runs(t) /\ holds[t] # "none"
  /\ holds' = [holds EXCEPT ![t] = "none"]
  /\ readers' = IF state = "reading" THEN readers - 1 ELSE readers
  /\ IF state = "reading" /\ ~LastReader
     THEN UNCHANGED <<state, status, releaseVars>>
     ELSE /\ state' = "unlocked"
          /\ status' = [status EXCEPT ![t] = "successful"]
          /\ releaser' = t /\ step' = "dequeue" /\ UNCHANGED next
  /\ UNCHANGED queueVars

\* A release of a lock that is not locked is noted in the caller's return code.
ReleaseUnlocked(t) ==
  /\ Runs(t) /\ state = "unlocked"
  /\ status' = [status EXCEPT ![t] = "unavailable"]
  /\ UNCHANGED <<lockVars, queueVars, holds, releaseVars>>

ReleaseEnds == releaser' = Nobody /\ step' = "none" /\ next' = Nobody

Grant(t, o) == holds' = [holds EXCEPT ![t] = o]

\* Defect: the lock is not marked as written when a writer gets it.
DequeueWriterUnmarked(t) ==
  /\ step = "dequeue" /\ First(t) /\ option[t] = "write"
  /\ Extract(t) /\ Grant(t, "write")
  /\ ReleaseEnds
  /\ UNCHANGED <<lockVars, option, status>>

\* _Thread_queue_Dequeue gives the lock to the first thread; the writes that
\* follow it meet no other step that uses them.
DequeueWriter(t) ==
  /\ step = "dequeue" /\ First(t) /\ option[t] = "write"
  /\ Extract(t) /\ Grant(t, "write")
  /\ state' = "writing" /\ ReleaseEnds
  /\ UNCHANGED <<readers, option, status>>

DequeueReader(t) ==
  /\ step = "dequeue" /\ First(t) /\ option[t] = "read"
  /\ Extract(t) /\ Grant(t, "read")
  /\ state' = "reading" /\ readers' = readers + 1
  /\ step' = "first" /\ UNCHANGED <<option, status, releaser, next>>

DequeueNone ==
  /\ step = "dequeue" /\ waiting = {}
  /\ ReleaseEnds /\ UNCHANGED <<lockVars, queueVars, status, holds>>

\* _Thread_queue_First: the lock of the queue is released with the answer.
FindReader(t) ==
  /\ step = "first" /\ First(t) /\ option[t] = "read"
  /\ next' = t /\ step' = "extract"
  /\ UNCHANGED <<lockVars, queueVars, status, holds, releaser>>

FindNoReader ==
  /\ step = "first" /\ \A t \in waiting : First(t) => option[t] = "write"
  /\ ReleaseEnds /\ UNCHANGED <<lockVars, queueVars, status, holds>>

\* The reader is counted; _Thread_queue_Extract leaves a thread alone that is
\* on no queue any more.
ExtractReader ==
  /\ step = "extract" /\ readers' = readers + 1
  /\ IF next \in waiting THEN Extract(next) /\ Grant(next, "read")
     ELSE UNCHANGED <<waiting, ahead, holds>>
  /\ step' = "first" /\ UNCHANGED <<state, option, status, releaser, next>>

ReleaseStep ==
  \/ \E t \in Thread : DequeueWriter(t) \/ DequeueReader(t) \/ FindReader(t)
  \/ DequeueNone \/ FindNoReader \/ ExtractReader

Step ==
  \/ \E t \in Thread : ObtainRead(t) \/ ObtainWrite(t) \/ ObtainTimeout(t) \/ Release(t)
                        \/ ReleaseUnlocked(t)
  \/ \E t \in Thread, o \in {"read", "write"} : Try(t, o) \/ Wait(t, o)
  \/ ReleaseStep

Next == Step /\ UNCHANGED timed

Spec == Init /\ [][Next]_vars

\* The release runs to its end, and a thread that holds the lock lets it go:
\* the latter is what the callers owe each other.
Fairness ==
  /\ WF_vars(ReleaseStep /\ UNCHANGED timed)
  /\ \A t \in Thread : SF_vars(Release(t) /\ UNCHANGED timed)

FairSpec == Spec /\ Fairness

-----------------------------------------------------------------------------
Holders(o) == {t \in Thread : holds[t] = o}

TypeOK ==
  /\ timed \in BOOLEAN
  /\ state \in {"unlocked", "reading", "writing"} /\ readers \in Nat
  /\ waiting \subseteq Thread /\ ahead \in [Thread -> SUBSET Thread]
  /\ option \in [Thread -> {"read", "write"}]
  /\ status \in [Thread -> {"successful", "unavailable", "timeout"}]
  /\ holds \in [Thread -> {"none", "read", "write"}]
  /\ releaser \in Thread \cup {Nobody} /\ next \in Thread \cup {Nobody}
  /\ step \in {"none", "dequeue", "first", "extract"}

\* A writer is alone with the lock, through releases that hand it on in
\* several steps, time-outs between those and readers let go in a group.
WriterAlone ==
  \A t, u \in Thread : holds[t] = "write" /\ holds[u] # "none" => t = u

\* Without time-outs number_of_readers counts the readers, and whoever waits
\* does so for a lock that is held or on its way to the next thread.
ReadersCounted ==
  ~timed =>
    /\ readers = Cardinality(Holders("read"))
    /\ waiting # {} => state # "unlocked" \/ step = "dequeue"

\* Between any two sections of _CORE_RWLock_Release a writer is alone, and the
\* counter is right where no time-out can take a reader away.
LockSafe == TypeOK /\ WriterAlone /\ ReadersCounted

\* "If any thread is waiting, then we wait": a reader does not pass a writer
\* that waits, and readers let go together are those in front of it.
WritersNotPassed ==
  [][\A w \in waiting \cap waiting' : option[w] = "write"
       => \A t \in Thread : holds[t] = "none" /\ holds'[t] # "none" => t \in ahead[w]]_vars

-----------------------------------------------------------------------------
(***************************************************************************)
(* Why WriterAlone and WritersNotPassed hold: the inductive invariant.     *)
(***************************************************************************)
\* The state of the lock tells what is held.
HoldersAgree ==
  \A t \in Thread :
    /\ holds[t] = "read" => state = "reading"
    /\ holds[t] = "write" => state = "writing"
    /\ t \in waiting => holds[t] = "none"

\* A reader is counted before it is let go; one that timed out stays counted.
ReadersBound == Cardinality(Holders("read")) <= readers

\* Where a release is tells the state of the lock, and that of the reader it
\* has found; threads wait for a lock that is held or being handed on.
ReleasePosition ==
  /\ step = "none" <=> releaser = Nobody
  /\ step = "dequeue" => state = "unlocked"
  /\ step \in {"first", "extract"} => state = "reading"
  /\ step = "extract" => next \in Thread
  /\ step = "extract" /\ next \in waiting => ahead[next] = {} /\ option[next] = "read"
  /\ waiting # {} => state # "unlocked" \/ step = "dequeue"

\* Of two threads that wait one is before the other.
QueueOrder ==
  \A t, u \in waiting : t = u \/ t \in ahead[u] \/ u \in ahead[t]

RWLockInv ==
  TypeOK /\ WriterAlone /\ HoldersAgree /\ ReadersBound /\ ReleasePosition /\ QueueOrder

-----------------------------------------------------------------------------
\* Without time-outs every thread that waits gets the lock.
WaitEnds == \A t \in Thread : (~timed /\ t \in waiting) ~> (holds[t] # "none")
=============================================================================
