-------------------------- MODULE WaitQueueProofs ---------------------------
(***************************************************************************)
(* Proofs about the objects on a WaitQueue, for every finite set of        *)
(* threads, with and without time-outs: first CoreRWLock, then             *)
(* CoreBarrier, with every maximum count.                                  *)
(***************************************************************************)
EXTENDS CoreRWLock, CoreBarrier, FiniteSetTheorems, TLAPS

(***************************************************************************)
(* CoreRWLock.                                                             *)
(***************************************************************************)
\* The threads with an access are finitely many; one that is granted it adds
\* one to their number and one that gives it up takes one away.
LEMMA HoldersCount ==
  ASSUME TypeOK, NEW t \in Thread
  PROVE  /\ Cardinality(Holders("read")) \in Nat
         /\ holds[t] # "read" =>
              Cardinality(Holders("read") \cup {t}) = Cardinality(Holders("read")) + 1
         /\ holds[t] = "read" =>
              /\ Cardinality(Holders("read") \ {t}) = Cardinality(Holders("read")) - 1
              /\ Cardinality(Holders("read")) >= 1
         /\ Cardinality(Holders("read") \ {t}) = 0 => Holders("read") \subseteq {t}
<1> DEFINE H == Holders("read")
<1>1. IsFiniteSet(H) /\ IsFiniteSet(H \ {t})
  BY WaitQueueAssumption, FS_Subset DEF Holders
<1>2. Cardinality(H) \in Nat /\ Cardinality(H \ {t}) \in Nat
  BY <1>1, FS_CardinalityType
<1>3. holds[t] = "read" <=> t \in H
  BY DEF Holders
<1>4. t \notin H => Cardinality(H \cup {t}) = Cardinality(H) + 1
  BY <1>1, FS_AddElement
<1>5. t \in H => Cardinality(H \ {t}) = Cardinality(H) - 1
  BY <1>1, FS_RemoveElement
<1>6. Cardinality(H \ {t}) = 0 => H \subseteq {t}
  BY <1>1, FS_EmptySet
<1> QED BY <1>2, <1>3, <1>4, <1>5, <1>6

\* Every step keeps the type invariant; the readers counted are at least the
\* readers there are, so that the count never goes below zero.
LEMMA TypeKept ==
  ASSUME TypeOK, HoldersAgree, ReadersBound, ReleasePosition, [Next]_vars
  PROVE  TypeOK'
<1> USE DEF TypeOK, lockVars, queueVars, releaseVars
<1>0. timed' \in BOOLEAN
  BY DEF Next, Step, vars
<1> USE <1>0
<1>1. ASSUME NEW t \in Thread, ObtainRead(t) PROVE TypeOK'
  BY <1>1 DEF ObtainRead
<1>2. ASSUME NEW t \in Thread, ObtainWrite(t) PROVE TypeOK'
  BY <1>2 DEF ObtainWrite
<1>3. ASSUME NEW t \in Thread, ObtainTimeout(t) PROVE TypeOK'
  BY <1>3 DEF ObtainTimeout, Timeout, Extract
<1>4. ASSUME NEW t \in Thread, Release(t) PROVE TypeOK'
  <2>1. readers' \in Nat
    <3>1. CASE state = "reading"
      <4>1. holds[t] = "read"
        BY <1>4, <3>1 DEF Release, HoldersAgree
      <4>2. Cardinality(Holders("read")) \in Nat /\ Cardinality(Holders("read")) >= 1
        BY <4>1, HoldersCount
      <4> QED BY <1>4, <3>1, <4>2 DEF Release, ReadersBound
    <3>2. CASE state # "reading"
      BY <1>4, <3>2 DEF Release
    <3> QED BY <3>1, <3>2
  <2>2. CASE state = "reading" /\ ~LastReader
    BY <1>4, <2>1, <2>2 DEF Release
  <2>3. CASE ~(state = "reading" /\ ~LastReader)
    BY <1>4, <2>1, <2>3 DEF Release
  <2> QED BY <2>2, <2>3
<1>5. ASSUME NEW t \in Thread, ReleaseUnlocked(t) PROVE TypeOK'
  BY <1>5 DEF ReleaseUnlocked
<1>6. ASSUME NEW t \in Thread, NEW o \in {"read", "write"}, Try(t, o) PROVE TypeOK'
  BY <1>6 DEF Try
<1>7. ASSUME NEW t \in Thread, NEW o \in {"read", "write"}, Wait(t, o) PROVE TypeOK'
  BY <1>7 DEF Wait, Enqueue
<1>8. ASSUME NEW t \in Thread, DequeueWriter(t) PROVE TypeOK'
  BY <1>8 DEF DequeueWriter, Extract, Grant, ReleaseEnds
<1>9. ASSUME NEW t \in Thread, DequeueReader(t) PROVE TypeOK'
  BY <1>9 DEF DequeueReader, Extract, Grant
<1>10. ASSUME NEW t \in Thread, FindReader(t) PROVE TypeOK'
  BY <1>10 DEF FindReader
<1>11. CASE DequeueNone
  BY <1>11 DEF DequeueNone, ReleaseEnds
<1>12. CASE FindNoReader
  BY <1>12 DEF FindNoReader, ReleaseEnds
<1>13. CASE ExtractReader
  <2>1. CASE next \in waiting
    BY <1>13, <2>1 DEF ExtractReader, Extract, Grant
  <2>2. CASE next \notin waiting
    BY <1>13, <2>2 DEF ExtractReader
  <2> QED BY <2>1, <2>2
<1>14. CASE UNCHANGED vars
  BY <1>14 DEF vars
<1> QED BY <1>1, <1>2, <1>3, <1>4, <1>5, <1>6, <1>7, <1>8, <1>9, <1>10, <1>11, <1>12,
           <1>13, <1>14 DEF Next, Step, ReleaseStep

\* A release that is not the last reader's leaves the others what they hold;
\* any other leaves nobody with the lock.
LEMMA ReleaseLeaves ==
  ASSUME TypeOK, WriterAlone, HoldersAgree, ReadersBound,
         NEW t \in Thread, Release(t), NEW u \in Thread, holds'[u] # "none"
  PROVE  state = "reading" /\ ~LastReader /\ holds'[u] = holds[u] /\ u # t
<1>1. u # t /\ holds'[u] = holds[u] /\ holds[t] # "none"
  BY DEF Release, TypeOK
<1>2. holds[t] = "read" /\ holds[u] = "read" /\ state = "reading"
  BY <1>1 DEF WriterAlone, HoldersAgree, TypeOK
<1>3. ~LastReader
  <2> SUFFICES ASSUME readers = 1 PROVE FALSE
    BY DEF LastReader
  <2>1. Cardinality(Holders("read") \ {t}) = 0
    <3>1. /\ Cardinality(Holders("read") \ {t}) = Cardinality(Holders("read")) - 1
          /\ Cardinality(Holders("read")) \in Nat /\ Cardinality(Holders("read")) >= 1
      BY <1>2, HoldersCount
    <3>2. Cardinality(Holders("read")) <= 1
      BY DEF ReadersBound
    <3> QED BY <3>1, <3>2
  <2>2. Holders("read") \subseteq {t}
    BY <2>1, HoldersCount
  <2> QED BY <1>1, <1>2, <2>2 DEF Holders
<1> QED BY <1>1, <1>2, <1>3

\* What a thread holds agrees with the state of the lock after every step.
LEMMA AgreeKept ==
  ASSUME RWLockInv, [Next]_vars
  PROVE  HoldersAgree'
<1> USE DEF RWLockInv, lockVars, queueVars, releaseVars
<1>1. ASSUME NEW t \in Thread, ObtainRead(t) PROVE HoldersAgree'
  BY <1>1 DEF ObtainRead, HoldersAgree, MayRead, Runs, TypeOK
<1>2. ASSUME NEW t \in Thread, ObtainWrite(t) PROVE HoldersAgree'
  BY <1>2 DEF ObtainWrite, HoldersAgree, Runs, TypeOK
<1>3. ASSUME NEW t \in Thread, ObtainTimeout(t) PROVE HoldersAgree'
  BY <1>3 DEF ObtainTimeout, Timeout, Extract, HoldersAgree
<1>4. ASSUME NEW t \in Thread, Release(t) PROVE HoldersAgree'
  <2>1. ASSUME NEW u \in Thread, holds'[u] # "none"
        PROVE  state' = state /\ holds'[u] = holds[u] /\ waiting' = waiting
    BY <1>4, <2>1, ReleaseLeaves DEF Release
  <2> QED BY <2>1 DEF HoldersAgree
<1>5. ASSUME NEW t \in Thread, ReleaseUnlocked(t) PROVE HoldersAgree'
  BY <1>5 DEF ReleaseUnlocked, HoldersAgree
<1>6. ASSUME NEW t \in Thread, NEW o \in {"read", "write"}, Try(t, o) PROVE HoldersAgree'
  BY <1>6 DEF Try, HoldersAgree
<1>7. ASSUME NEW t \in Thread, NEW o \in {"read", "write"}, Wait(t, o) PROVE HoldersAgree'
  BY <1>7 DEF Wait, Enqueue, HoldersAgree
<1>8. ASSUME NEW t \in Thread, DequeueWriter(t) PROVE HoldersAgree'
  BY <1>8 DEF DequeueWriter, Extract, Grant, HoldersAgree, ReleasePosition, TypeOK
<1>9. ASSUME NEW t \in Thread, DequeueReader(t) PROVE HoldersAgree'
  BY <1>9 DEF DequeueReader, Extract, Grant, HoldersAgree, ReleasePosition, TypeOK
<1>10. ASSUME NEW t \in Thread, FindReader(t) PROVE HoldersAgree'
  BY <1>10 DEF FindReader, HoldersAgree
<1>11. CASE DequeueNone
  BY <1>11 DEF DequeueNone, HoldersAgree
<1>12. CASE FindNoReader
  BY <1>12 DEF FindNoReader, HoldersAgree
<1>13. CASE ExtractReader
  BY <1>13 DEF ExtractReader, Extract, Grant, HoldersAgree, ReleasePosition, TypeOK
<1>14. CASE UNCHANGED vars
  BY <1>14 DEF vars, HoldersAgree
<1> QED BY <1>1, <1>2, <1>3, <1>4, <1>5, <1>6, <1>7, <1>8, <1>9, <1>10, <1>11, <1>12,
           <1>13, <1>14 DEF Next, Step, ReleaseStep

\* A thread that gets the lock to write finds nobody with it, and one that
\* gets it to read finds no writer.
LEMMA AloneKept ==
  ASSUME RWLockInv, [Next]_vars
  PROVE  WriterAlone'
<1> USE DEF RWLockInv, lockVars, queueVars, releaseVars
<1>1. ASSUME NEW t \in Thread, ObtainRead(t) PROVE WriterAlone'
  BY <1>1 DEF ObtainRead, HoldersAgree, MayRead, WriterAlone, TypeOK
<1>2. ASSUME NEW t \in Thread, ObtainWrite(t) PROVE WriterAlone'
  BY <1>2 DEF ObtainWrite, HoldersAgree, WriterAlone, TypeOK
<1>3. ASSUME NEW t \in Thread, Release(t) PROVE WriterAlone'
  BY <1>3 DEF Release, WriterAlone, TypeOK
<1>4. ASSUME NEW t \in Thread, DequeueWriter(t) PROVE WriterAlone'
  BY <1>4 DEF DequeueWriter, Grant, HoldersAgree, ReleasePosition, WriterAlone, TypeOK
<1>5. ASSUME NEW t \in Thread, DequeueReader(t) PROVE WriterAlone'
  BY <1>5 DEF DequeueReader, Grant, HoldersAgree, ReleasePosition, WriterAlone, TypeOK
<1>6. CASE ExtractReader
  BY <1>6 DEF ExtractReader, Grant, HoldersAgree, ReleasePosition, WriterAlone, TypeOK
<1>7. CASE UNCHANGED holds
  BY <1>7 DEF WriterAlone
<1> QED BY <1>1, <1>2, <1>3, <1>4, <1>5, <1>6, <1>7
        DEF Next, Step, ReleaseStep, vars, ObtainTimeout, Timeout, ReleaseUnlocked, Try, Wait, Enqueue, FindReader,
            DequeueNone, FindNoReader

\* The count goes up with every reader that is let in and down with every one
\* that leaves.
LEMMA BoundKept ==
  ASSUME RWLockInv, [Next]_vars
  PROVE  ReadersBound'
<1> USE DEF RWLockInv, lockVars, queueVars, releaseVars
<1> DEFINE H == Holders("read")
<1>1. ASSUME NEW t \in Thread, holds[t] = "none", holds' = [holds EXCEPT ![t] = "read"],
             readers' = readers + 1
      PROVE  ReadersBound'
  <2>1. H' = H \cup {t}
    BY <1>1 DEF Holders, TypeOK
  <2>2. Cardinality(H \cup {t}) = Cardinality(H) + 1 /\ Cardinality(H) \in Nat
    BY <1>1, HoldersCount
  <2>3. readers \in Nat /\ Cardinality(H) <= readers
    BY DEF ReadersBound, TypeOK
  <2>4. Cardinality(H') <= readers'
    BY <1>1, <2>1, <2>2, <2>3
  <2> QED BY <2>4 DEF ReadersBound
<1>2. ASSUME NEW t \in Thread, holds[t] = "none", holds' = [holds EXCEPT ![t] = "write"],
             UNCHANGED readers
      PROVE  ReadersBound'
  <2>1. H' = H
    BY <1>2 DEF Holders, TypeOK
  <2> QED BY <1>2, <2>1 DEF ReadersBound
<1>3. ASSUME NEW t \in Thread, Release(t) PROVE ReadersBound'
  <2>1. H' = H \ {t}
    BY <1>3 DEF Release, Holders, TypeOK
  <2>2. CASE holds[t] = "read"
    <3>1. readers' = readers - 1
      BY <1>3, <2>2 DEF Release, HoldersAgree
    <3>2. Cardinality(H \ {t}) = Cardinality(H) - 1 /\ Cardinality(H) \in Nat
      BY <2>2, HoldersCount
    <3>3. readers \in Nat /\ Cardinality(H) <= readers
      BY DEF ReadersBound, TypeOK
    <3>4. Cardinality(H') <= readers'
      BY <2>1, <3>1, <3>2, <3>3
    <3> QED BY <3>4 DEF ReadersBound
  <2>3. CASE holds[t] # "read"
    <3>1. readers' = readers
      BY <1>3, <2>3 DEF Release, HoldersAgree, TypeOK
    <3>2. H \ {t} = H
      BY <2>3 DEF Holders
    <3> QED BY <2>1, <3>1, <3>2 DEF ReadersBound
  <2> QED BY <2>2, <2>3
<1>4. ASSUME NEW t \in Thread, ObtainRead(t) PROVE ReadersBound'
  BY <1>1, <1>4 DEF ObtainRead
<1>5. ASSUME NEW t \in Thread, ObtainWrite(t) PROVE ReadersBound'
  BY <1>2, <1>5 DEF ObtainWrite
<1>6. ASSUME NEW t \in Thread, DequeueWriter(t) PROVE ReadersBound'
  BY <1>2, <1>6 DEF DequeueWriter, Grant, First, HoldersAgree
<1>7. ASSUME NEW t \in Thread, DequeueReader(t) PROVE ReadersBound'
  BY <1>1, <1>7 DEF DequeueReader, Grant, First, HoldersAgree
<1>8. CASE ExtractReader
  <2>1. CASE next \in waiting
    <3>1. next \in Thread /\ holds[next] = "none"
      BY <2>1 DEF TypeOK, HoldersAgree
    <3> QED BY <1>1, <1>8, <2>1, <3>1 DEF ExtractReader, Grant
  <2>2. CASE next \notin waiting
    <3>1. H' = H /\ readers' = readers + 1
      BY <1>8, <2>2 DEF ExtractReader, Holders
    <3>2. PICK t \in Thread : TRUE
      BY <1>8 DEF ExtractReader, ReleasePosition
    <3>3. Cardinality(H) \in Nat
      BY <3>2, HoldersCount
    <3>4. readers \in Nat /\ Cardinality(H) <= readers
      BY DEF ReadersBound, TypeOK
    <3>5. Cardinality(H') <= readers'
      BY <3>1, <3>3, <3>4
    <3> QED BY <3>5 DEF ReadersBound
  <2> QED BY <2>1, <2>2
<1>9. CASE UNCHANGED <<holds, readers>>
  BY <1>9 DEF ReadersBound, Holders
<1> QED BY <1>3, <1>4, <1>5, <1>6, <1>7, <1>8, <1>9
        DEF Next, Step, ReleaseStep, vars, ObtainTimeout, Timeout, ReleaseUnlocked, Try, Wait, Enqueue, FindReader,
            DequeueNone, FindNoReader

\* A release stays where the state of the lock says it is, whatever time-outs
\* come between its steps.
LEMMA PositionKept ==
  ASSUME RWLockInv, [Next]_vars
  PROVE  ReleasePosition'
<1> USE DEF RWLockInv, TypeOK, ReleasePosition, lockVars, queueVars, releaseVars
<1> USE WaitQueueAssumption
<1>1. ASSUME NEW t \in Thread, ObtainRead(t) PROVE ReleasePosition'
  BY <1>1 DEF ObtainRead, Runs
<1>2. ASSUME NEW t \in Thread, ObtainWrite(t) PROVE ReleasePosition'
  BY <1>2 DEF ObtainWrite, Runs
<1>3. ASSUME NEW t \in Thread, ObtainTimeout(t) PROVE ReleasePosition'
  BY <1>3 DEF ObtainTimeout, Timeout, Extract
<1>4. ASSUME NEW t \in Thread, Release(t) PROVE ReleasePosition'
  <2>1. CASE state = "reading" /\ ~LastReader
    BY <1>4, <2>1 DEF Release
  <2>2. CASE ~(state = "reading" /\ ~LastReader)
    BY <1>4, <2>2 DEF Release
  <2> QED BY <2>1, <2>2
<1>5. ASSUME NEW t \in Thread, ReleaseUnlocked(t) PROVE ReleasePosition'
  BY <1>5 DEF ReleaseUnlocked
<1>6. ASSUME NEW t \in Thread, NEW o \in {"read", "write"}, Try(t, o)
      PROVE  ReleasePosition'
  BY <1>6 DEF Try
<1>7. ASSUME NEW t \in Thread, NEW o \in {"read", "write"}, Wait(t, o)
      PROVE  ReleasePosition'
  <2>1. state # "unlocked" /\ releaser = Nobody
    BY <1>7 DEF Wait, Enqueue, Refused, MayRead, Runs
  <2> QED BY <1>7, <2>1 DEF Wait, Enqueue
<1>8. ASSUME NEW t \in Thread, DequeueWriter(t) PROVE ReleasePosition'
  BY <1>8 DEF DequeueWriter, ReleaseEnds
<1>9. ASSUME NEW t \in Thread, DequeueReader(t) PROVE ReleasePosition'
  BY <1>9 DEF DequeueReader
<1>10. ASSUME NEW t \in Thread, FindReader(t) PROVE ReleasePosition'
  BY <1>10 DEF FindReader, First
<1>11. CASE DequeueNone
  BY <1>11 DEF DequeueNone, ReleaseEnds
<1>12. CASE FindNoReader
  BY <1>12 DEF FindNoReader, ReleaseEnds
<1>13. CASE ExtractReader
  BY <1>13 DEF ExtractReader
<1>14. CASE UNCHANGED vars
  BY <1>14 DEF vars
<1> QED BY <1>1, <1>2, <1>3, <1>4, <1>5, <1>6, <1>7, <1>8, <1>9, <1>10, <1>11, <1>12,
           <1>13, <1>14 DEF Next, Step, ReleaseStep

\* The queue stays in one order: a thread comes in behind all of it, and one
\* that leaves changes nothing between the others.
LEMMA OrderKept ==
  ASSUME RWLockInv, [Next]_vars
  PROVE  QueueOrder'
<1> USE DEF RWLockInv, TypeOK, queueVars
<1>1. ASSUME NEW t \in Thread, NEW o \in {"read", "write"}, Wait(t, o)
      PROVE  QueueOrder'
  BY <1>1 DEF Wait, Enqueue, QueueOrder
<1>2. ASSUME NEW t \in Thread, Extract(t) PROVE QueueOrder'
  BY <1>2 DEF Extract, QueueOrder
<1>3. CASE UNCHANGED queueVars
  BY <1>3 DEF QueueOrder
<1> QED BY <1>1, <1>2, <1>3
        DEF Next, Step, ReleaseStep, vars, ObtainRead, ObtainWrite, ObtainTimeout, Timeout, Release,
            ReleaseUnlocked, Try, FindReader, DequeueNone, FindNoReader, DequeueWriter,
            DequeueReader, ExtractReader

\* The invariant holds when the lock is created.
LEMMA RWLockInit == Init => RWLockInv
<1> SUFFICES ASSUME Init PROVE RWLockInv
  OBVIOUS
<1>1. TypeOK /\ WriterAlone /\ HoldersAgree /\ QueueOrder
  BY WaitQueueAssumption DEF Init, WaitQueueInit, TypeOK, WriterAlone, HoldersAgree, QueueOrder
<1>2. ReleasePosition
  BY DEF Init, WaitQueueInit, ReleasePosition
<1>3. Holders("read") = {}
  BY DEF Init, WaitQueueInit, Holders
<1>4. ReadersBound
  BY <1>3, FS_EmptySet DEF Init, WaitQueueInit, ReadersBound
<1> QED BY <1>1, <1>2, <1>4 DEF RWLockInv

\* The lock's state, its count, its queue and the place of a release in
\* progress agree in every state.
THEOREM RWLockInvariant == Spec => []RWLockInv
<1>1. RWLockInv /\ [Next]_vars => RWLockInv'
  <2> SUFFICES ASSUME RWLockInv, [Next]_vars PROVE RWLockInv'
    OBVIOUS
  <2>1. TypeOK'
    BY TypeKept DEF RWLockInv
  <2> QED BY <2>1, AgreeKept, AloneKept, BoundKept, PositionKept, OrderKept DEF RWLockInv
<1> QED BY RWLockInit, <1>1, PTL DEF Spec

\* Every variable keeps its type: number_of_readers, in particular, never goes
\* below zero.
THEOREM RWLockTypes == Spec => []TypeOK
<1>1. RWLockInv => TypeOK
  BY DEF RWLockInv
<1> QED BY RWLockInvariant, <1>1, PTL

\* However many threads read, write, time out and release, a writer is alone
\* with the lock.
THEOREM RWLockWriterAlone == Spec => []WriterAlone
<1>1. RWLockInv => WriterAlone
  BY DEF RWLockInv
<1> QED BY RWLockInvariant, <1>1, PTL

\* No thread gets the lock before a writer that waits in front of it.
THEOREM RWLockWritersNotPassed == Spec => WritersNotPassed
<1> DEFINE Passes == \A w \in waiting \cap waiting' : option[w] = "write"
               => \A t \in Thread : holds[t] = "none" /\ holds'[t] # "none" => t \in ahead[w]
<1>1. RWLockInv /\ [Next]_vars => [Passes]_vars
  <2> SUFFICES ASSUME RWLockInv, Next, NEW w \in waiting, w \in waiting', option[w] = "write",
                      NEW t \in Thread, holds[t] = "none", holds'[t] # "none"
               PROVE  t \in ahead[w]
    OBVIOUS
  <2> USE DEF RWLockInv, TypeOK
  <2>1. ASSUME NEW u \in Thread, ObtainRead(u) \/ ObtainWrite(u) PROVE FALSE
    <3>1. waiting = {}
      BY <2>1 DEF ObtainRead, ObtainWrite, MayRead, Runs, ReleasePosition
    <3> QED BY <3>1
  <2>2. ASSUME NEW u \in Thread, First(u), Extract(u), holds' = [holds EXCEPT ![u] = "read"]
        PROVE  t \in ahead[w]
    <3>1. u = t /\ u # w /\ ahead[u] = {} /\ u \in waiting
      BY <2>2 DEF First, Extract
    <3> QED BY <3>1 DEF QueueOrder
  <2>3. ASSUME NEW u \in Thread, First(u), Extract(u), holds' = [holds EXCEPT ![u] = "write"]
        PROVE  t \in ahead[w]
    <3>1. u = t /\ u # w /\ ahead[u] = {} /\ u \in waiting
      BY <2>3 DEF First, Extract
    <3> QED BY <3>1 DEF QueueOrder
  <2>4. ASSUME NEW u \in Thread, Release(u) PROVE FALSE
    BY <2>4 DEF Release
  <2>5. CASE ExtractReader
    <3>1. next \in waiting /\ next \in Thread /\ First(next)
      BY <2>5 DEF ExtractReader, ReleasePosition, First
    <3> QED BY <2>2, <2>5, <3>1 DEF ExtractReader, Grant
  <2>6. holds' # holds
    OBVIOUS
  <2> QED BY <2>1, <2>2, <2>3, <2>4, <2>5, <2>6
          DEF Next, Step, ReleaseStep, ObtainTimeout, Timeout, ReleaseUnlocked, Try, Wait, Enqueue, FindReader,
              DequeueNone, FindNoReader, DequeueWriter, DequeueReader, Grant
<1> QED BY RWLockInvariant, <1>1, PTL DEF Spec, WritersNotPassed

(***************************************************************************)
(* Without time-outs.                                                      *)
(***************************************************************************)
\* The count is exact, and the reader a release has found still waits.
ReadersExact ==
  /\ readers = Cardinality(Holders("read"))
  /\ step = "extract" => next \in waiting

\* Every step but a time-out keeps the count exact.
LEMMA ExactKept ==
  ASSUME ~timed, RWLockInv, ReadersExact, [Next]_vars
  PROVE  ReadersExact'
<1> USE DEF RWLockInv, lockVars, queueVars, releaseVars
<1> DEFINE H == Holders("read")
<1>1. ASSUME NEW t \in Thread, holds[t] = "none", holds' = [holds EXCEPT ![t] = "read"],
             readers' = readers + 1
      PROVE  readers' = Cardinality(H)'
  <2>1. H' = H \cup {t}
    BY <1>1 DEF Holders, TypeOK
  <2> QED BY <1>1, <2>1, HoldersCount DEF ReadersExact
<1>2. ASSUME NEW t \in Thread, holds[t] = "none", holds' = [holds EXCEPT ![t] = "write"],
             UNCHANGED readers
      PROVE  readers' = Cardinality(H)'
  <2>1. H' = H
    BY <1>2 DEF Holders, TypeOK
  <2> QED BY <1>2, <2>1 DEF ReadersExact
<1>3. ASSUME NEW t \in Thread, Release(t) PROVE ReadersExact'
  <2>1. H' = H \ {t}
    BY <1>3 DEF Release, Holders, TypeOK
  <2>2. readers' = Cardinality(H)'
    <3>1. CASE holds[t] = "read"
      <4>1. readers' = readers - 1
        BY <1>3, <3>1 DEF Release, HoldersAgree
      <4> QED BY <2>1, <3>1, <4>1, HoldersCount DEF ReadersExact
    <3>2. CASE holds[t] # "read"
      <4>1. readers' = readers
        BY <1>3, <3>2 DEF Release, HoldersAgree, TypeOK
      <4>2. H \ {t} = H
        BY <3>2 DEF Holders
      <4> QED BY <2>1, <4>1, <4>2 DEF ReadersExact
    <3> QED BY <3>1, <3>2
  <2>3. step' # "extract"
    BY <1>3 DEF Release, Runs, ReleasePosition
  <2> QED BY <2>2, <2>3 DEF ReadersExact
<1>4. ASSUME NEW t \in Thread, ObtainRead(t) PROVE ReadersExact'
  BY <1>1, <1>4 DEF ObtainRead, Runs, ReadersExact
<1>5. ASSUME NEW t \in Thread, ObtainWrite(t) PROVE ReadersExact'
  BY <1>2, <1>5 DEF ObtainWrite, Runs, ReadersExact
<1>6. ASSUME NEW t \in Thread, DequeueWriter(t) PROVE ReadersExact'
  BY <1>2, <1>6 DEF DequeueWriter, Grant, First, ReleaseEnds, HoldersAgree, ReadersExact
<1>7. ASSUME NEW t \in Thread, DequeueReader(t) PROVE ReadersExact'
  BY <1>1, <1>7 DEF DequeueReader, Grant, First, HoldersAgree, ReadersExact
<1>8. CASE ExtractReader
  <2>1. next \in waiting /\ next \in Thread /\ holds[next] = "none"
    BY <1>8 DEF ExtractReader, ReadersExact, TypeOK, HoldersAgree
  <2> QED BY <1>1, <1>8, <2>1 DEF ExtractReader, Grant, ReadersExact
<1>9. ASSUME NEW t \in Thread, FindReader(t) PROVE ReadersExact'
  BY <1>9 DEF FindReader, First, ReadersExact, Holders
<1>10. ASSUME UNCHANGED <<holds, readers>>, waiting \subseteq waiting',
              step' = "extract" => step = "extract" /\ next' = next
       PROVE  ReadersExact'
  BY <1>10 DEF ReadersExact, Holders
<1> QED BY <1>3, <1>4, <1>5, <1>6, <1>7, <1>8, <1>9, <1>10
        DEF Next, Step, ReleaseStep, vars, ObtainTimeout, Timeout, ReleaseUnlocked, Try, Wait, Enqueue, ReleaseEnds,
            DequeueNone, FindNoReader

\* Without time-outs number_of_readers is the number of threads that read, and
\* no thread waits for a lock that is free.
THEOREM RWLockReadersCounted == Spec => []ReadersCounted
<1> DEFINE Exact == ~timed => ReadersExact
<1>1. Init => Exact
  <2> SUFFICES ASSUME Init PROVE ReadersExact
    OBVIOUS
  <2>1. Holders("read") = {}
    BY DEF Init, WaitQueueInit, Holders
  <2> QED BY <2>1, FS_EmptySet DEF Init, WaitQueueInit, ReadersExact
<1>2. RWLockInv /\ Exact /\ [Next]_vars => Exact'
  <2> SUFFICES ASSUME RWLockInv, Exact, [Next]_vars, ~timed' PROVE ReadersExact'
    OBVIOUS
  <2>1. ~timed
    BY DEF Next, vars
  <2> QED BY <2>1, ExactKept
<1>3. RWLockInv /\ Exact => ReadersCounted
  BY DEF RWLockInv, ReadersExact, ReleasePosition, ReadersCounted
<1> HIDE DEF Exact
<1> QED BY RWLockInvariant, <1>1, <1>2, <1>3, PTL DEF Spec

\* The lock is safe: a writer is alone, and the counter of
\* _CORE_RWLock_Release is right where no time-out takes a reader away.
THEOREM RWLockSafe == Spec => []LockSafe
<1>1. TypeOK /\ WriterAlone /\ ReadersCounted => LockSafe
  BY DEF LockSafe
<1> QED BY RWLockTypes, RWLockWriterAlone, RWLockReadersCounted, <1>1, PTL

-----------------------------------------------------------------------------
(***************************************************************************)
(* CoreBarrier.                                                            *)
(***************************************************************************)
\* The inductive invariant of the barrier.
BarrierInv == BarrierTypeOK /\ NeverOverfull

\* The number of waiting threads is a natural number, one more with a thread
\* that begins to wait and no more without one.
LEMMA WaitingCount ==
  ASSUME BarrierTypeOK, NEW t \in Thread
  PROVE  /\ Cardinality(waiting) \in Nat
         /\ t \notin waiting => Cardinality(waiting \cup {t}) = Cardinality(waiting) + 1
         /\ Cardinality(waiting \ {t}) <= Cardinality(waiting)
         /\ Cardinality(waiting \ {t}) \in Nat
<1>1. IsFiniteSet(waiting)
  BY BarrierAssumption, WaitQueueAssumption, FS_Subset DEF BarrierTypeOK
<1>2. IsFiniteSet(waiting \ {t}) /\ waiting \ {t} \subseteq waiting
  BY <1>1, FS_Subset
<1> QED BY <1>1, <1>2, FS_AddElement, FS_Subset, FS_CardinalityType

\* Every step keeps the type invariant.
LEMMA BarrierTypeKept ==
  ASSUME BarrierTypeOK, [BarrierNext]_barrierVars
  PROVE  BarrierTypeOK'
<1>0. timed' \in BOOLEAN
  BY DEF BarrierTypeOK, BarrierNext, barrierVars
<1> USE <1>0
<1>1. ASSUME NEW t \in Thread, BarrierWait(t) PROVE BarrierTypeOK'
  <2>1. CASE Trips
    BY <1>1, <2>1 DEF BarrierTypeOK, BarrierWait, Enqueue
  <2>2. CASE ~Trips
    BY <1>1, <2>2 DEF BarrierTypeOK, BarrierWait, Enqueue
  <2> QED BY <2>1, <2>2
<1>2. CASE \E t \in Thread : BarrierRelease(t)
  BY <1>2 DEF BarrierTypeOK, BarrierRelease
<1>3. CASE \E t \in Thread : WaitTimeout(t)
  BY <1>3 DEF BarrierTypeOK, WaitTimeout, Timeout, Extract
<1>4. CASE \E t \in Thread : DequeueOne(t)
  BY <1>4 DEF BarrierTypeOK, DequeueOne, Extract
<1>5. CASE BarrierReleaseEnd
  BY <1>5 DEF BarrierTypeOK, BarrierReleaseEnd
<1>6. CASE UNCHANGED barrierVars
  BY <1>6 DEF BarrierTypeOK, barrierVars
<1> QED BY <1>1, <1>2, <1>3, <1>4, <1>5, <1>6 DEF BarrierNext, BarrierStep

\* Every step keeps the barrier from being overfull: the wait that would fill
\* it trips it instead, a time-out only takes threads away, and a release ends
\* with nobody waiting.
LEMMA NeverOverfullKept ==
  ASSUME BarrierInv, [BarrierNext]_barrierVars
  PROVE  NeverOverfull'
<1> USE DEF BarrierInv
<1>1. ASSUME NEW t \in Thread, BarrierWait(t) PROVE NeverOverfull'
  <2>1. CASE Trips
    BY <1>1, <2>1, BarrierAssumption, WaitQueueAssumption DEF NeverOverfull, BarrierWait, Enqueue
  <2>2. CASE ~Trips
    <3>1. /\ releaser = Nobody /\ t \notin waiting /\ waiting' = waiting \cup {t}
          /\ number' = number + 1
      BY <1>1, <2>2 DEF BarrierWait, Enqueue, Runs
    <3>2. Cardinality(waiting') <= number'
      BY <3>1, WaitingCount DEF NeverOverfull, BarrierTypeOK
    <3>3. Automatic => number' < MaximumCount
      BY <2>2, <3>1, BarrierAssumption, WaitQueueAssumption DEF NeverOverfull, BarrierTypeOK, Trips
    <3> QED BY <3>2, <3>3 DEF NeverOverfull
  <2> QED BY <2>1, <2>2
<1>2. ASSUME NEW t \in Thread, BarrierRelease(t) PROVE NeverOverfull'
  BY <1>2, BarrierAssumption, WaitQueueAssumption DEF NeverOverfull, BarrierRelease
<1>3. ASSUME NEW t \in Thread, WaitTimeout(t) PROVE NeverOverfull'
  <2>1. Cardinality(waiting') <= Cardinality(waiting) /\ Cardinality(waiting') \in Nat
        /\ Cardinality(waiting) \in Nat
    BY <1>3, WaitingCount DEF WaitTimeout, Timeout, Extract
  <2> QED BY <1>3, <2>1 DEF NeverOverfull, WaitTimeout, Timeout, BarrierTypeOK
<1>4. ASSUME NEW t \in Thread, DequeueOne(t) PROVE NeverOverfull'
  BY <1>4 DEF NeverOverfull, DequeueOne
<1>5. CASE BarrierReleaseEnd
  <2>1. waiting' = {} /\ number' = 0
    BY <1>5 DEF BarrierReleaseEnd
  <2>2. Cardinality(waiting') = 0
    BY <2>1, FS_EmptySet
  <2> QED BY <2>1, <2>2, BarrierAssumption, WaitQueueAssumption DEF NeverOverfull
<1>6. CASE UNCHANGED barrierVars
  BY <1>6 DEF NeverOverfull, barrierVars
<1> QED BY <1>1, <1>2, <1>3, <1>4, <1>5, <1>6 DEF BarrierNext, BarrierStep

\* A barrier is created with nobody at it.
LEMMA BarrierInitially == BarrierInit => BarrierInv
<1> SUFFICES ASSUME BarrierInit PROVE BarrierInv
  OBVIOUS
<1>1. BarrierTypeOK
  BY DEF BarrierInit, WaitQueueInit, BarrierTypeOK
<1>2. Cardinality(waiting) = 0
  BY FS_EmptySet DEF BarrierInit, WaitQueueInit
<1> QED BY <1>1, <1>2, BarrierAssumption, WaitQueueAssumption DEF BarrierInv, NeverOverfull, BarrierInit, WaitQueueInit

\* The invariant holds in every state of every barrier, with time-outs too.
THEOREM BarrierInvariant == BarrierSpec => []BarrierInv
<1>1. BarrierInv /\ [BarrierNext]_barrierVars => BarrierInv'
  BY BarrierTypeKept, NeverOverfullKept DEF BarrierInv
<1> QED BY BarrierInitially, <1>1, PTL DEF BarrierSpec

\* Whatever waits, releases and time-outs come, an automatic barrier has fewer
\* threads waiting than it is meant for, and its counter is below its maximum.
THEOREM BarrierNeverOverfull == BarrierSpec => []NeverOverfull
<1>1. BarrierInv => NeverOverfull
  BY DEF BarrierInv
<1> QED BY BarrierInvariant, <1>1, PTL

\* Without time-outs every step keeps the count of the arrivals exact.
LEMMA ArrivedCountedKept ==
  ASSUME BarrierTypeOK, ArrivedCounted, [BarrierNext]_barrierVars
  PROVE  ArrivedCounted'
<1> SUFFICES ASSUME ~timed, ~timed' PROVE ArrivedCounted'
  BY DEF ArrivedCounted, BarrierNext, barrierVars
<1>1. ASSUME NEW t \in Thread, BarrierWait(t) PROVE ArrivedCounted'
  <2>1. /\ releaser = Nobody /\ t \notin waiting /\ number' = number + 1
        /\ arrived' = waiting \cup {t} /\ number = Cardinality(waiting)
    BY <1>1 DEF BarrierWait, Enqueue, Runs, ArrivedCounted
  <2>2. Cardinality(waiting \cup {t}) = number + 1
    BY <2>1, WaitingCount
  <2>3. CASE Trips
    <3>1. releaser' = t /\ number + 1 = MaximumCount
      BY <1>1, <2>3 DEF BarrierWait, Enqueue, Trips
    <3> QED BY <2>1, <2>2, <3>1, BarrierAssumption, WaitQueueAssumption DEF ArrivedCounted
  <2>4. CASE ~Trips
    <3>1. releaser' = Nobody /\ waiting' = waiting \cup {t}
      BY <1>1, <2>1, <2>4 DEF BarrierWait, Enqueue
    <3> QED BY <2>1, <2>2, <3>1 DEF ArrivedCounted
  <2> QED BY <2>3, <2>4
<1>2. ASSUME NEW t \in Thread, BarrierRelease(t) PROVE ArrivedCounted'
  BY <1>2, BarrierAssumption, WaitQueueAssumption DEF ArrivedCounted, BarrierRelease
<1>3. ASSUME NEW t \in Thread, WaitTimeout(t) PROVE ArrivedCounted'
  BY <1>3 DEF WaitTimeout, Timeout
<1>4. ASSUME NEW t \in Thread, DequeueOne(t) PROVE ArrivedCounted'
  BY <1>4 DEF ArrivedCounted, DequeueOne
<1>5. CASE BarrierReleaseEnd
  <2>1. waiting' = {} /\ number' = 0 /\ arrived' = {} /\ releaser' = Nobody
    BY <1>5 DEF BarrierReleaseEnd
  <2>2. Cardinality(waiting') = 0
    BY <2>1, FS_EmptySet
  <2> QED BY <2>1, <2>2 DEF ArrivedCounted
<1>6. CASE UNCHANGED barrierVars
  BY <1>6 DEF ArrivedCounted, barrierVars
<1> QED BY <1>1, <1>2, <1>3, <1>4, <1>5, <1>6 DEF BarrierNext, BarrierStep

\* Without time-outs number_of_waiting_threads is the number of threads that
\* came since the barrier last opened.
THEOREM BarrierArrivedCounted == BarrierSpec => [](BarrierTypeOK /\ ArrivedCounted)
<1>1. BarrierInit => BarrierTypeOK /\ ArrivedCounted
  <2> SUFFICES ASSUME BarrierInit PROVE BarrierTypeOK /\ ArrivedCounted
    OBVIOUS
  <2>1. Cardinality(waiting) = 0
    BY FS_EmptySet DEF BarrierInit, WaitQueueInit
  <2> QED BY <2>1 DEF BarrierInit, WaitQueueInit, BarrierTypeOK, ArrivedCounted
<1>2. BarrierTypeOK /\ ArrivedCounted /\ [BarrierNext]_barrierVars => (BarrierTypeOK /\ ArrivedCounted)'
  BY BarrierTypeKept, ArrivedCountedKept
<1> QED BY <1>1, <1>2, PTL DEF BarrierSpec

\* Without time-outs number_of_waiting_threads is what its name says.
THEOREM BarrierNumberWaiting == BarrierSpec => []NumberWaiting
<1>1. BarrierTypeOK /\ ArrivedCounted => NumberWaiting
  BY DEF ArrivedCounted, NumberWaiting
<1> QED BY <1>1, BarrierArrivedCounted, PTL

\* Without time-outs a thread passes the barrier with all the others, or by a
\* release by hand.
THEOREM BarrierPassesTogether == BarrierSpec => PassesTogether
<1> DEFINE Together ==
      \A t \in Thread : (t \in waiting /\ t \notin waiting' /\ status'[t] # "timeout")
        => \/ ~tripped \/ timed
           \/ Cardinality(arrived) = MaximumCount
<1>1. BarrierTypeOK /\ ArrivedCounted /\ [BarrierNext]_barrierVars => [Together]_barrierVars
  <2> SUFFICES ASSUME BarrierTypeOK, ArrivedCounted, BarrierNext,
                      NEW u \in Thread, u \in waiting, u \notin waiting', tripped, ~timed
               PROVE  Cardinality(arrived) = MaximumCount
    BY DEF Together
  <2>1. CASE \E t \in Thread : BarrierWait(t)
    BY <2>1 DEF BarrierWait, Enqueue
  <2>2. CASE \E t \in Thread : BarrierRelease(t)
    BY <2>2 DEF BarrierRelease
  <2>3. CASE \E t \in Thread : WaitTimeout(t)
    BY <2>3 DEF WaitTimeout, Timeout
  <2>4. CASE \E t \in Thread : DequeueOne(t)
    BY <2>4 DEF DequeueOne, ArrivedCounted
  <2>5. CASE BarrierReleaseEnd
    BY <2>5 DEF BarrierReleaseEnd
  <2> QED BY <2>1, <2>2, <2>3, <2>4, <2>5 DEF BarrierNext, BarrierStep
<1> QED BY <1>1, BarrierArrivedCounted, PTL DEF BarrierSpec, PassesTogether, Together

\* The barrier is safe: the counter of _CORE_barrier_Wait covers the threads that
\* wait and stays below the maximum, and without time-outs it is exact.
THEOREM BarrierIsSafe == BarrierSpec => []BarrierSafe
<1>1. BarrierInv /\ NumberWaiting => BarrierSafe
  BY DEF BarrierInv, BarrierSafe
<1> QED BY BarrierInvariant, BarrierNumberWaiting, <1>1, PTL
=============================================================================
