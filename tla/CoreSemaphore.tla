--------------------------- MODULE CoreSemaphore ---------------------------
(***************************************************************************)
(* The SuperCore counting semaphore on the blocking protocol of            *)
(* ThreadQueue, as the Classic API uses it: rtems_semaphore_obtain,        *)
(* rtems_semaphore_release and rtems_semaphore_flush.                      *)
(*                                                                         *)
(*   include/rtems/score/coresemimpl.h, librtems/score/core/coresem.c,     *)
(*   librtems/rtems/sem/semobtain.c, semrelease.c, semflush.c              *)
(***************************************************************************)
EXTENDS ThreadQueue, Integers

CONSTANTS
  InitialCount,  \* the count given to rtems_semaphore_create
  MaximumCount   \* Attributes.maximum_count

ASSUME CountAssumption ==
  /\ InitialCount \in Nat /\ MaximumCount \in Nat
  /\ InitialCount <= MaximumCount

ASSUME FiniteAssumption == IsFiniteSet(Thread)

VARIABLES
  count,    \* the_semaphore->count
  balance   \* history: units surrendered to the semaphore, the initial ones
            \* included, less the obtains that returned SUCCESSFUL

vars == <<kernelVars, count, balance>>

Init == KernelInit /\ count = InitialCount /\ balance = InitialCount

(***************************************************************************)
(* _CORE_semaphore_Seize.                                                  *)
(***************************************************************************)
SeizeAvailable(t) ==
  /\ At(t, "run") /\ count # 0
  /\ count' = count - 1
  /\ balance' = balance - 1
  /\ ret' = [ret EXCEPT ![t] = "successful"]
  /\ UNCHANGED <<cpuVars, stepVars, queue, ahead, flags, state, timerVars>>

SeizeNoWait(t) ==
  /\ At(t, "run") /\ count = 0
  /\ ret' = [ret EXCEPT ![t] = "unsatisfied_nowait"]
  /\ UNCHANGED <<cpuVars, stepVars, queue, ahead, flags, state, timerVars,
                 count, balance>>

SeizeWait(t, timeout) ==
  /\ At(t, "run") /\ count = 0
  /\ EnqueueCritical(t, timeout)
  /\ ret' = [ret EXCEPT ![t] = "successful"]
  /\ op' = [op EXCEPT ![t] = "seize"]
  /\ UNCHANGED <<executing, heir, necessary, isrStack, cur, state, armed,
                 count, balance>>

(***************************************************************************)
(* _CORE_semaphore_Surrender, by a thread or by an interrupt handler.      *)
(***************************************************************************)
\* A unit for which no thread waits, up to the maximum count.
StoreUnit ==
  IF count < MaximumCount
  THEN count' = count + 1 /\ balance' = balance + 1
  ELSE UNCHANGED <<count, balance>>

Surrender(c) ==
  /\ \/ c \in Thread /\ At(c, "run")
     \/ c = DevIsr /\ At(c, "body")
  /\ \/ \E t \in Thread :
          /\ First(t)
          /\ ExtractCritical(c, t, 1, "enable")
          /\ op' = [op EXCEPT ![c] = "surrender"]
          /\ balance' = balance + 1
          /\ UNCHANGED <<executing, heir, necessary, isrStack, ret, state,
                         timerVars, count>>
     \/ /\ queue = {}
        /\ StoreUnit
        /\ IF c = DevIsr THEN Goto(c, "exit") ELSE UNCHANGED pc
        /\ UNCHANGED <<cpuVars, cur, op, waitVars, state, timerVars>>

(***************************************************************************)
(* rtems_semaphore_flush: _Semaphore_Get disables dispatching, then        *)
(* _CORE_semaphore_Flush.                                                  *)
(***************************************************************************)
Flush(t) ==
  /\ At(t, "run")
  /\ Goto(t, "flush")
  /\ op' = [op EXCEPT ![t] = "flush"]
  /\ level' = level + 1
  /\ UNCHANGED <<executing, heir, necessary, isrStack, cur, waitVars, state,
                 timerVars, count, balance>>

-----------------------------------------------------------------------------
\* The history variable follows an obtain to its return to the caller.
ReturnsUnit(c) ==
  c \in Thread /\ op[c] = "seize" /\ op'[c] = "none" /\ ret[c] = "successful"

Directive ==
  \E t \in Thread :
    \/ SeizeAvailable(t) \/ SeizeNoWait(t)
    \/ \E timeout \in 0 .. MaxTimeout : SeizeWait(t, timeout)
    \/ Surrender(t) \/ Flush(t)

Kernel ==
  /\ KernelStep
  /\ balance' = IF \E c \in Thread : ReturnsUnit(c) THEN balance - 1 ELSE balance
  /\ UNCHANGED count

Next == Directive \/ Surrender(DevIsr) \/ Kernel
Spec == Init /\ [][Next]_vars

\* A handler that has been entered runs to its end.  The load of interrupts is
\* finite, so a thread whose step is enabled again and again gets the processor;
\* the clock interrupt is latched and is served again and again.  Directives and
\* device interrupts need not happen.
Fairness ==
  /\ \A i \in Isr : WF_vars(Kernel /\ StepOf(i))
  /\ WF_vars(Surrender(DevIsr))
  /\ \A c \in Thread \cup {Idle} : SF_vars(Kernel /\ StepOf(c))
  /\ SF_vars(Kernel /\ IsrEnter(TickIsr))

FairSpec == Spec /\ Fairness

-----------------------------------------------------------------------------
TypeOK == KernelTypeOK /\ count \in 0 .. MaximumCount /\ balance \in Int

\* The obtains that were given a unit and have not returned to their caller.
Granted ==
  {t \in Thread : op[t] = "seize" /\ flags[t] = "ready_again"
                                  /\ ret[t] = "successful"}

\* No unit is lost or made up: the units surrendered and not yet returned from
\* an obtain are the count and the units on their way to a woken thread.  A
\* timeout that reached a thread already given a unit would lose it; two
\* surrenders that reached the same thread would lose one.
UnitConservation == balance = count + Cardinality(Granted)

\* A thread never waits beside an available unit.
NoIdleUnit == queue # {} => count = 0

\* A thread on the queue will report success unless a timeout or a flush ends
\* its wait: the surrender that wakes it does not touch the return code.
WaiterSucceeds == \A t \in queue : ret[t] = "successful"

\* The inductive invariant.
SemaphoreInv ==
  TypeOK /\ KernelInv /\ NoIdleUnit /\ WaiterSucceeds /\ UnitConservation

\* Once a wait has ended its outcome is settled: nothing changes the return
\* code before the obtain returns it.
OutcomeSettled ==
  [][\A t \in Thread :
       op[t] = "seize" /\ flags[t] = "ready_again" /\ op'[t] = "seize"
         => ret'[t] = ret[t] /\ flags'[t] = flags[t]]_vars

\* An obtain with a timeout ends: the thread leaves the queue and is ready.
TimedWaitEnds ==
  \A t \in Thread :
    pc[t] = "insert_timer" ~> t \notin queue /\ state[t] = "ready"

\* A dispatch that is necessary is performed.
DispatchPerformed == necessary ~> ~necessary

\* Two threads on the queue keep their places, a thread that joins goes behind
\* those that are at least as important (all of them in a FIFO queue) and before
\* the others, and only a timeout takes a thread away that is not the first.
NoOvertaking ==
  /\ \A t, u \in queue \cap queue' : u \in ahead'[t] <=> u \in ahead[t]
  /\ \A t \in queue' \ queue, u \in queue :
       u \in ahead'[t] <=> Fifo \/ Priority[u] <= Priority[t]
  /\ \A t \in queue \ queue' : ahead[t] = {} \/ ret'[t] = "timeout"

\* Threads are woken in the order of the discipline, and equals in the order
\* in which they came, whatever joins, times out and is flushed in between.
QueueOrder == [][QueueSorted' /\ NoOvertaking]_vars

\* The semaphore as its callers see it, one atomic step per directive.
PendingCall ==
  [t \in Thread |-> IF op[t] # "seize" THEN "none"
                    ELSE IF t \in queue THEN "waiting" ELSE ret[t]]

Abstract == INSTANCE AbstractSemaphore WITH
  Client <- Thread, units <- count, call <- PendingCall

\* The blocking protocol implements the atomic semaphore.
ImplementsAbstract == Abstract!Spec
=============================================================================
