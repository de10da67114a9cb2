----------------------------- MODULE CoreMutex -----------------------------
(***************************************************************************)
(* The SuperCore mutex with its four disciplines, and the priorities it    *)
(* moves: inheritance, ceiling, restoration with the last mutex, and the   *)
(* change of the priority of a thread that waits.                          *)
(*                                                                         *)
(*   include/rtems/score/coremuteximpl.h,                                  *)
(*   librtems/score/core/coremutexseize.c, coremutexsurrender.c,           *)
(*   coremutexflush.c, librtems/score/thread/threadchangepriority.c,       *)
(*   threadsetpriority.c, threadqops.c                                     *)
(*                                                                         *)
(* One action is one section with interrupts disabled.  A thread between   *)
(* two sections may be interrupted; one whose dispatching is enabled may   *)
(* be preempted too.  How a wait begins and ends around interrupts is the  *)
(* subject of ThreadQueue; here a wait begins and ends in one step.  The   *)
(* scheduler runs a ready thread of the best priority it knows of.         *)
(***************************************************************************)
EXTENDS OrderedQueue

CONSTANTS
  Systems,        \* sets of threads and mutexes with their attributes, see System
  NoThread,       \* NULL
  NoMutex         \* no mutex is being seized or flushed

\* The attributes of a system: the initial priorities of its threads (smaller is
\* better), disciplines and priority ceilings of its mutexes, the priorities
\* given to rtems_task_set_priority, and a bound on nested seizes.
ASSUME MutexAssumption ==
  \A s \in Systems :
    /\ NoThread \notin DOMAIN s.priority /\ NoMutex \notin DOMAIN s.discipline
    /\ s.priority \in [DOMAIN s.priority -> Nat] /\ IsFiniteSet(DOMAIN s.discipline)
    /\ s.discipline \in [DOMAIN s.discipline -> {"fifo", "priority", "inherit", "ceiling"}]
    /\ s.ceiling \in [DOMAIN s.discipline -> Nat]
    /\ s.new \subseteq Nat /\ s.nest \in Nat \ {0}

VARIABLES
  system,     \* the threads and mutexes there are
  holder,     \* the_mutex->holder
  nest,       \* the_mutex->nest_count
  order,      \* the_mutex->Wait_queue, first to last
  prio,       \* the_thread->current_priority
  real,       \* the_thread->real_priority
  hint,       \* the_thread->priority_restore_hint
  resources,  \* the_thread->resource_count
  rq,         \* the priority under which the scheduler knows the thread
  change,     \* the _Thread_Change_priority between its two sections
  pc,         \* per thread, the next section it enters
  want,       \* per thread, the mutex it seizes or flushes
  other       \* per thread, the local variable holder of seize and surrender

mutexVars == <<holder, nest>>
prioVars == <<prio, real, hint, rq, change>>
localVars == <<want, other>>
vars == <<system, holder, nest, order, prioVars, resources, pc, localVars>>

Thread == DOMAIN system.priority
Mutex == DOMAIN system.discipline
BasePriority == system.priority
Discipline == system.discipline
Ceiling == system.ceiling
NewPriorities == system.new
MaxNest == system.nest

\* No _Thread_Change_priority is between its two sections.
NoChange == [by |-> NoThread, thread |-> NoThread, prio |-> 0, latest |-> FALSE, after |-> "run"]

Init ==
  /\ system \in Systems
  /\ holder = [m \in Mutex |-> NoThread] /\ nest = [m \in Mutex |-> 0]
  /\ order = [m \in Mutex |-> <<>>]
  /\ prio = BasePriority /\ real = BasePriority /\ rq = BasePriority
  /\ hint = [t \in Thread |-> FALSE] /\ resources = [t \in Thread |-> 0]
  /\ change = NoChange
  /\ pc = [t \in Thread |-> "run"]
  /\ want = [t \in Thread |-> NoMutex]
  /\ other = [t \in Thread |-> NoThread]

\* Only these disciplines count as resources and are released by their owner.
HasProtocol(m) == Discipline[m] \in {"inherit", "ceiling"}

InQueue(t, m) == t \in ToSet(order[m])

Goto(t, label) == pc' = [pc EXCEPT ![t] = label]

(***************************************************************************)
(* Scheduling: with dispatching disabled the executing thread goes on, else *)
(* a ready thread of the best priority runs.                               *)
(***************************************************************************)
Undispatchable == {"raise", "raise_self", "update", "enqueue", "flush"}
Ready == {t \in Thread : pc[t] \notin {"wait", "asleep"}}

Runs(t) ==
  /\ t \in Ready
  /\ IF \E u \in Thread : pc[u] \in Undispatchable
     THEN pc[t] \in Undispatchable
     ELSE \A u \in Ready : rq[t] <= rq[u]

At(t, label) == pc[t] = label /\ Runs(t)

-----------------------------------------------------------------------------
(***************************************************************************)
(* Wait queues.                                                            *)
(***************************************************************************)
\* Behind the threads of the same priority under p, or at the end.
Inserted(m, s, t, p) ==
  IF Discipline[m] = "fifo" THEN Append(s, t) ELSE InsertOrdered(s, t, p)

\* The priority_change operation of the queue q[m] the thread waits on.
Requeued(q, t, p) ==
  [m \in Mutex |->
     IF Discipline[m] # "fifo" /\ t \in ToSet(q[m])
     THEN InsertOrdered(Extracted(q[m], t), t, p) ELSE q[m]]

-----------------------------------------------------------------------------
(***************************************************************************)
(* _Thread_Change_priority, called by thread t for thread u: the section   *)
(* under the lock of the thread, then the one under that of the scheduler. *)
(***************************************************************************)

\* Defect: the hint is only set when the priority changes.
HintAfterFilter(u, filter) == [hint EXCEPT ![u] = @ \/ filter]

\* The hint is set whatever the filter says.
HintAfter(u, filter) == [hint EXCEPT ![u] = TRUE]

ChangePriority(t, u, p, filter, hints, after) ==
  /\ hint' = hints
  /\ IF filter
     THEN /\ prio' = [prio EXCEPT ![u] = p]
          /\ order' = Requeued(order, u, prio')
          /\ change' = [by |-> t, thread |-> u, prio |-> p, latest |-> TRUE,
                        after |-> after]
          /\ Goto(t, "update")
     ELSE Goto(t, after) /\ UNCHANGED <<prio, order, change>>
  /\ UNCHANGED rq

\* Defect: the scheduler is not told about a thread that waits.
UpdateReadyOnly ==
  /\ change # NoChange
  /\ rq' = IF change.latest /\ change.thread \in Ready
           THEN [rq EXCEPT ![change.thread] = change.prio] ELSE rq
  /\ Goto(change.by, change.after) /\ change' = NoChange
  /\ UNCHANGED <<mutexVars, order, prio, real, hint, resources, localVars>>

\* The generation tells whether an interrupt changed the priority again.
Update ==
  /\ change # NoChange
  /\ rq' = IF change.latest THEN [rq EXCEPT ![change.thread] = change.prio] ELSE rq
  /\ Goto(change.by, change.after) /\ change' = NoChange
  /\ UNCHANGED <<mutexVars, order, prio, real, hint, resources, localVars>>

\* _Thread_Raise_priority.
RaisePriority(t, u, p, after) ==
  ChangePriority(t, u, p, prio[u] > p, HintAfter(u, prio[u] > p), after)

\* _Thread_Restore_priority: the filter takes the hint back.
RestorePriority(t, u, after) ==
  ChangePriority(t, u, real[u], real[u] # prio[u], [hint EXCEPT ![u] = FALSE], after)

\* Defect: the priority of a thread that holds mutexes is lowered at once.
SetPriorityFilterAny(u, p) == TRUE

\* _Thread_Set_priority_filter.
SetPriorityFilter(u, p) == prio[u] > p \/ resources[u] = 0

\* rtems_task_set_priority.
SetPriority(t, u, p) ==
  LET filter == SetPriorityFilter(u, p) IN
  /\ At(t, "run")
  /\ real' = [real EXCEPT ![u] = p]
  /\ ChangePriority(t, u, p, filter, HintAfter(u, filter), "run")
  /\ UNCHANGED <<mutexVars, resources, localVars>>

-----------------------------------------------------------------------------
(***************************************************************************)
(* _CORE_mutex_Seize.                                                      *)
(***************************************************************************)
Own(t, m) ==
  /\ holder' = [holder EXCEPT ![m] = t] /\ nest' = [nest EXCEPT ![m] = 1]
  /\ resources' = IF HasProtocol(m) THEN [resources EXCEPT ![t] = @ + 1] ELSE resources

\* The mutex is free.  Below the ceiling the seize fails and changes nothing.
SeizeFree(t, m) ==
  /\ At(t, "run") /\ holder[m] = NoThread
  /\ Discipline[m] = "ceiling" => prio[t] >= Ceiling[m]
  /\ Own(t, m)
  /\ IF Discipline[m] = "ceiling" /\ prio[t] > Ceiling[m]
     THEN Goto(t, "raise_self") /\ want' = [want EXCEPT ![t] = m]
     ELSE UNCHANGED <<pc, want>>
  /\ UNCHANGED <<order, prioVars, other>>

RaiseSelf(t) ==
  /\ At(t, "raise_self")
  /\ RaisePriority(t, t, Ceiling[want[t]], "run")
  /\ want' = [want EXCEPT ![t] = NoMutex]
  /\ UNCHANGED <<mutexVars, real, resources, other>>

SeizeNested(t, m) ==
  /\ At(t, "run") /\ holder[m] = t /\ nest[m] < MaxNest
  /\ nest' = [nest EXCEPT ![m] = @ + 1]
  /\ UNCHANGED <<holder, order, prioVars, resources, pc, localVars>>

\* _CORE_mutex_Seize_interrupt_blocking: for an inheritance mutex interrupts
\* are enabled between the look at the holder and the enqueueing.
SeizeWait(t, m) ==
  /\ At(t, "run") /\ holder[m] \notin {t, NoThread}
  /\ IF Discipline[m] = "inherit"
     THEN /\ Goto(t, "raise") /\ UNCHANGED order
          /\ want' = [want EXCEPT ![t] = m] /\ other' = [other EXCEPT ![t] = holder[m]]
     ELSE /\ Goto(t, "wait") /\ order' = [order EXCEPT ![m] = Inserted(m, @, t, prio)]
          /\ UNCHANGED localVars
  /\ UNCHANGED <<mutexVars, prioVars, resources>>

\* Defect: the waiting thread does not lend its priority.
RaiseNobody(t) ==
  /\ At(t, "raise") /\ Goto(t, "enqueue")
  /\ other' = [other EXCEPT ![t] = NoThread]
  /\ UNCHANGED <<mutexVars, order, prioVars, resources, want>>

RaiseHolder(t) ==
  /\ At(t, "raise")
  /\ RaisePriority(t, other[t], prio[t], "enqueue")
  /\ other' = [other EXCEPT ![t] = NoThread]
  /\ UNCHANGED <<mutexVars, real, resources, want>>

Enqueue(t) ==
  /\ At(t, "enqueue")
  /\ Goto(t, "wait")
  /\ order' = [order EXCEPT ![want[t]] = Inserted(want[t], @, t, prio)]
  /\ want' = [want EXCEPT ![t] = NoMutex]
  /\ UNCHANGED <<mutexVars, prioVars, resources, other>>

-----------------------------------------------------------------------------
(***************************************************************************)
(* _CORE_mutex_Surrender.                                                  *)
(***************************************************************************)
First(m) == IF order[m] = <<>> THEN NoThread ELSE Head(order[m])

SurrenderNested(m) ==
  /\ nest[m] > 1
  /\ nest' = [nest EXCEPT ![m] = @ - 1]
  /\ UNCHANGED <<holder, order, prioVars, resources, pc, localVars>>

\* The mutex goes to the first waiting thread, or becomes free.
HandOver(m) ==
  /\ nest[m] = 1
  /\ holder' = [holder EXCEPT ![m] = First(m)]
  /\ nest' = [nest EXCEPT ![m] = IF First(m) = NoThread THEN 0 ELSE 1]
  /\ resources' = [u \in Thread |->
                     IF ~HasProtocol(m) THEN resources[u]
                     ELSE IF u = holder[m] THEN resources[u] - 1
                     ELSE IF u = First(m) THEN resources[u] + 1 ELSE resources[u]]

MayRelease(t, m) == HasProtocol(m) => holder[m] = t

CeilingRaises(m, h) == Discipline[m] = "ceiling" /\ h # NoThread /\ prio[h] > Ceiling[m]

\* Under the lock: hand over, and raise the new holder to the ceiling.
Surrender(t, m) ==
  LET h == holder'[m]
      raised == CeilingRaises(m, h)
  IN
  /\ At(t, "run") /\ nest[m] # 0 /\ MayRelease(t, m)
  /\ \/ SurrenderNested(m)
     \/ /\ HandOver(m)
        /\ order' = [order EXCEPT ![m] = Extracted(@, h)]
        /\ pc' = [u \in Thread |-> IF u = t THEN "check" ELSE IF u = h THEN "run" ELSE pc[u]]
        /\ other' = [other EXCEPT ![t] = holder[m]]
        /\ prio' = [u \in Thread |-> IF raised /\ u = h THEN Ceiling[m] ELSE prio[u]]
        /\ rq' = [u \in Thread |-> IF raised /\ u = h THEN Ceiling[m] ELSE rq[u]]
        /\ hint' = IF Discipline[m] = "ceiling" /\ h # NoThread
                   THEN HintAfter(h, raised) ELSE hint
        /\ UNCHANGED <<real, change, want>>

\* ~_Thread_Owns_resources( holder )
OwnsNothing(u) == resources[u] = 0

\* The lock is released and dispatching enabled: look whether the former
\* holder gave back its last mutex ...
Check(t) ==
  /\ At(t, "check")
  /\ IF OwnsNothing(other[t]) /\ hint[other[t]]
     THEN Goto(t, "restore") /\ UNCHANGED other
     ELSE Goto(t, "run") /\ other' = [other EXCEPT ![t] = NoThread]
  /\ UNCHANGED <<mutexVars, order, prioVars, resources, want>>

\* ... and restore its priority, after dispatching was disabled for it.
Restore(t) ==
  /\ At(t, "restore")
  /\ RestorePriority(t, other[t], "run")
  /\ other' = [other EXCEPT ![t] = NoThread]
  /\ UNCHANGED <<mutexVars, real, resources, want>>

\* "only threads are allowed to seize and surrender mutexes with the priority
\* inheritance protocol", which includes the interrupted thread's own.
MayIsrRelease(m) == ~HasProtocol(m)

\* The whole surrender in an interrupt handler; no thread runs in between.
IsrSurrender(m) ==
  LET w == First(m)
      h == holder[m]
      restores == nest[m] = 1 /\ resources[h] = 0 /\ hint[h]
      changes == restores /\ real[h] # prio[h]
  IN
  /\ nest[m] # 0 /\ MayIsrRelease(m)
  /\ \/ SurrenderNested(m)
     \/ /\ HandOver(m)
        /\ pc' = [u \in Thread |-> IF u = w THEN "run" ELSE pc[u]]
        /\ hint' = IF restores THEN [hint EXCEPT ![h] = FALSE] ELSE hint
        /\ prio' = IF changes THEN [prio EXCEPT ![h] = real[h]] ELSE prio
        /\ rq' = IF changes THEN [rq EXCEPT ![h] = real[h]] ELSE rq
        /\ order' = LET q == [order EXCEPT ![m] = Extracted(@, w)]
                    IN IF changes THEN Requeued(q, h, prio') ELSE q
        /\ change' = IF changes /\ change.thread = h
                     THEN [change EXCEPT !.latest = FALSE] ELSE change
        /\ UNCHANGED <<real, localVars>>

-----------------------------------------------------------------------------
(***************************************************************************)
(* Other ends of a wait, and the processor left alone.                     *)
(***************************************************************************)
Timeout(t) ==
  /\ pc[t] = "wait"
  /\ Goto(t, "run")
  /\ order' = [m \in Mutex |-> Extracted(order[m], t)]
  /\ UNCHANGED <<mutexVars, prioVars, resources, localVars>>

\* rtems_semaphore_flush, with dispatching disabled ...
Flush(t, m) ==
  /\ At(t, "run") /\ order[m] # <<>>
  /\ Goto(t, "flush") /\ want' = [want EXCEPT ![t] = m]
  /\ UNCHANGED <<mutexVars, order, prioVars, resources, other>>

\* ... one round of _Thread_queue_Flush: the first waiting thread returns
\* unsatisfied, until there is none.
FlushNext(t, m) ==
  /\ At(t, "flush") /\ want[t] = m
  /\ IF order[m] = <<>>
     THEN Goto(t, "run") /\ want' = [want EXCEPT ![t] = NoMutex] /\ UNCHANGED order
     ELSE Goto(First(m), "run") /\ order' = [order EXCEPT ![m] = Extracted(@, First(m))] /\ UNCHANGED want
  /\ UNCHANGED <<mutexVars, prioVars, resources, other>>

\* rtems_task_wake_after, and the clock interrupt that ends it.
Sleep(t) ==
  At(t, "run") /\ Goto(t, "asleep")
    /\ UNCHANGED <<mutexVars, order, prioVars, resources, localVars>>
Wake(t) ==
  pc[t] = "asleep" /\ Goto(t, "run")
    /\ UNCHANGED <<mutexVars, order, prioVars, resources, localVars>>

Step ==
  \/ \E t \in Thread, m \in Mutex :
       \/ SeizeFree(t, m) \/ SeizeNested(t, m) \/ SeizeWait(t, m)
       \/ Surrender(t, m) \/ Flush(t, m) \/ FlushNext(t, m)
  \/ \E t, u \in Thread, p \in NewPriorities : SetPriority(t, u, p)
  \/ \E t \in Thread :
       \/ RaiseSelf(t) \/ RaiseHolder(t) \/ Enqueue(t) \/ Check(t) \/ Restore(t)
       \/ Timeout(t) \/ Sleep(t) \/ Wake(t)
  \/ Update
  \/ \E m \in Mutex : IsrSurrender(m)

Next == Step /\ UNCHANGED system

Spec == Init /\ [][Next]_vars

-----------------------------------------------------------------------------
Priorities == {BasePriority[t] : t \in Thread} \cup {Ceiling[m] : m \in Mutex} \cup NewPriorities

TypeOK ==
  /\ holder \in [Mutex -> Thread \cup {NoThread}] /\ nest \in [Mutex -> 0 .. MaxNest]
  /\ order \in [Mutex -> Seq(Thread)]
  /\ prio \in [Thread -> Priorities] /\ real \in [Thread -> Priorities]
  /\ rq \in [Thread -> Priorities]
  /\ hint \in [Thread -> BOOLEAN] /\ resources \in [Thread -> Nat]
  /\ pc \in [Thread -> {"run", "raise", "raise_self", "update", "enqueue", "wait",
                        "check", "restore", "asleep", "flush"}]
  /\ want \in [Thread -> Mutex \cup {NoMutex}] /\ other \in [Thread -> Thread \cup {NoThread}]
  /\ change \in {NoChange} \cup [by : Thread, thread : Thread, prio : Priorities,
                                 latest : BOOLEAN, after : {"run", "enqueue"}]

\* Nobody waits for a mutex that is free: neither the interrupt window of the
\* blocking seize nor a hand-over loses a waiting thread.
NoIdleMutex == \A m \in Mutex : order[m] # <<>> => nest[m] > 0

\* The resource count of a thread is the number of protocol mutexes it holds,
\* through hand-overs, nested seizes and refused releases.
ResourcesCounted ==
  \A t \in Thread :
    resources[t] = Cardinality({m \in Mutex : HasProtocol(m) /\ holder[m] = t})

\* The wait queue of a mutex that is not first come first served is in the
\* order of the current priorities, whichever of them change while it is not
\* empty.
QueueInOrder ==
  \A m \in Mutex :
    Discipline[m] # "fifo" => InOrder(order[m], prio)

\* A thread that holds no mutex of a protocol runs at its own priority, unless
\* somebody is just about to restore it.
PriorityRestored ==
  \A t \in Thread :
    resources[t] = 0 =>
      \/ prio[t] = real[t]
      \/ \E u \in Thread : pc[u] \in {"check", "restore"} /\ other[u] = t

\* Only the holder of a mutex releases it.
OwnersRelease == \A m \in Mutex : HasProtocol(m)

\* A priority is only lowered when the thread holds no mutex of a protocol
\* ("an inherited priority must be lowered if this is the last mutex"), in a
\* system where only the holder of a mutex releases it.
LoweredWithLast ==
  [][OwnersRelease => \A t \in Thread : prio'[t] > prio[t] => resources'[t] = 0]_vars

\* The scheduler knows every thread under its current priority, except while
\* the thread that changes it is between its two sections.
SchedulerFollows ==
  \A t \in Thread :
    rq[t] = prio[t] \/ (change.thread = t /\ change.latest)

\* The holder of an inheritance mutex is at least as important as the threads
\* that wait for it and hold nothing themselves, as long as nobody sets the
\* priority of a waiting thread.
DirectInheritance ==
  OwnersRelease /\ NewPriorities = {} => \A m \in Mutex, t \in Thread :
    Discipline[m] = "inherit" /\ resources[t] = 0 /\ InQueue(t, m)
      => prio[holder[m]] <= prio[t]

\* The holder of a ceiling mutex runs at the ceiling or above it once its seize
\* is over, and so does the one it was handed to.
CeilingReached ==
  OwnersRelease => \A m \in Mutex :
    Discipline[m] = "ceiling" /\ holder[m] # NoThread
      => \/ prio[holder[m]] <= Ceiling[m]
         \/ pc[holder[m]] = "raise_self" /\ want[holder[m]] = m

\* The books of _CORE_mutex_Seize, _CORE_mutex_Surrender and
\* _Thread_Change_priority agree between any two of their sections: holders and
\* counts, queues and priorities, priorities and the scheduler.
MutexConsistent ==
  TypeOK /\ NoIdleMutex /\ ResourcesCounted /\ QueueInOrder /\ SchedulerFollows

\* No priority inversion by a thread that waits for one mutex only: the holder
\* has the priority that the protocol of the mutex gives it, in a system where
\* only the holder of a mutex releases it.  Beside a semaphore that others
\* release both parts fail: a thread preempted in front of its Restore lowers the
\* former holder of the semaphore after that one has inherited anew.
NoInversion == DirectInheritance /\ CeilingReached
=============================================================================
