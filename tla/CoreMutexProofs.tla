-------------------------- MODULE CoreMutexProofs --------------------------
(***************************************************************************)
(* The mutex keeps its books, restores priorities and avoids inversion,    *)
(* for every set of threads and mutexes, all disciplines, ceilings and     *)
(* priorities, and whatever interrupts do between the sections.            *)
(***************************************************************************)
EXTENDS CoreMutex, OrderedQueueProofs, FiniteSetTheorems

-----------------------------------------------------------------------------
(***************************************************************************)
(* The inductive invariant.                                                *)
(***************************************************************************)

\* A thread on a wait queue waits, is there once, on no other queue, and does
\* not hold the mutex.
QueuesInv ==
  \A m \in Mutex :
    /\ NoRepetition(order[m])
    /\ \A t \in ToSet(order[m]) : pc[t] = "wait" /\ holder[m] # t
    /\ \A n \in Mutex, t \in ToSet(order[m]) : t \in ToSet(order[n]) => n = m

HoldersInv == \A m \in Mutex : nest[m] = 0 <=> holder[m] = NoThread

\* A thread is between the look at the holder and the enqueueing, or has already
\* lent its priority there.
Lent(t) == pc[t] = "enqueue" \/ (pc[t] = "update" /\ change.after = "enqueue")
Seizing(t) == pc[t] = "raise" \/ Lent(t)

\* At most one thread has dispatching disabled; what its local variables mean.
SectionsInv ==
  /\ \A t, u \in Thread : pc[t] \in Undispatchable /\ pc[u] \in Undispatchable => t = u
  /\ \A t \in Thread : pc[t] = "update" <=> change.by = t
  /\ change.latest => prio[change.thread] = change.prio
  /\ \A t \in Thread :
       /\ Seizing(t) => /\ want[t] \in Mutex /\ Discipline[want[t]] = "inherit"
                        /\ holder[want[t]] \in Thread \ {t}
       /\ pc[t] = "raise" => other[t] = holder[want[t]]
       /\ pc[t] = "raise_self" => /\ want[t] \in Mutex /\ Discipline[want[t]] = "ceiling"
                                  /\ holder[want[t]] = t
       /\ pc[t] \in {"check", "restore"} => other[t] \in Thread

\* A priority that differs from the thread's own is marked for restoration.
HintInv == \A t \in Thread : prio[t] # real[t] => hint[t]

\* Without new priorities threads only ever become more important than they are.
RaisedInv == NewPriorities = {} => \A t \in Thread : prio[t] <= real[t]

\* Where only holders release, a thread only ever restores itself.
OwnInv ==
  OwnersRelease => \A t \in Thread :
    /\ pc[t] \in {"check", "restore"} => other[t] = t
    /\ pc[t] = "restore" => resources[t] = 0

\* A thread that is about to enqueue has lent its priority.
LentInv ==
  OwnersRelease /\ NewPriorities = {} => \A t \in Thread :
    Lent(t) => prio[holder[want[t]]] <= prio[t]

MutexInv ==
  /\ system \in Systems /\ MutexConsistent
  /\ QueuesInv /\ HoldersInv /\ SectionsInv /\ HintInv /\ RaisedInv /\ OwnInv /\ LentInv
  /\ PriorityRestored /\ NoInversion
-----------------------------------------------------------------------------
(***************************************************************************)
(* Facts used by every step.                                               *)
(***************************************************************************)
LEMMA SystemFacts ==
  ASSUME system \in Systems
  PROVE  /\ NoThread \notin Thread /\ NoMutex \notin Mutex
         /\ BasePriority \in [Thread -> Priorities] /\ Priorities \subseteq Nat
         /\ Discipline \in [Mutex -> {"fifo", "priority", "inherit", "ceiling"}]
         /\ \A m \in Mutex : Ceiling[m] \in Priorities
         /\ NewPriorities \subseteq Priorities
         /\ MaxNest \in Nat /\ MaxNest >= 1 /\ IsFiniteSet(Mutex)
<1>1. /\ NoThread \notin Thread /\ NoMutex \notin Mutex /\ IsFiniteSet(Mutex)
      /\ BasePriority \in [Thread -> Nat]
      /\ Discipline \in [Mutex -> {"fifo", "priority", "inherit", "ceiling"}]
      /\ Ceiling \in [Mutex -> Nat] /\ NewPriorities \subseteq Nat /\ MaxNest \in Nat \ {0}
  BY MutexAssumption DEF Thread, Mutex, BasePriority, Discipline, Ceiling, NewPriorities, MaxNest
<1>2. /\ Priorities \subseteq Nat /\ NewPriorities \subseteq Priorities
      /\ (\A m \in Mutex : Ceiling[m] \in Priorities)
      /\ \A t \in Thread : BasePriority[t] \in Priorities
  BY <1>1 DEF Priorities
<1>3. BasePriority \in [Thread -> Priorities]
  BY <1>1, <1>2
<1>4. MaxNest >= 1
  BY <1>1
<1> QED BY <1>1, <1>2, <1>3, <1>4

LEMMA SameSystem ==
  ASSUME UNCHANGED system
  PROVE  /\ Thread' = Thread /\ Mutex' = Mutex /\ Priorities' = Priorities
         /\ Discipline' = Discipline /\ Ceiling' = Ceiling /\ MaxNest' = MaxNest
         /\ NewPriorities' = NewPriorities /\ OwnersRelease' = OwnersRelease
  BY DEF Thread, Mutex, Priorities, Discipline, Ceiling, MaxNest, NewPriorities, BasePriority,
         OwnersRelease, HasProtocol

\* A thread that runs is the only one with dispatching disabled, and between its
\* sections no other priority changes.
LEMMA RunsAlone ==
  ASSUME MutexInv, NEW t \in Thread, Runs(t), pc[t] # "update"
  PROVE  /\ change = NoChange /\ \A u \in Thread : pc[u] \in Undispatchable => u = t
<1>1. \A u \in Thread : pc[u] \in Undispatchable => u = t
  BY DEF Runs, MutexInv, SectionsInv
<1>2. change.by \notin Thread
  BY <1>1 DEF MutexInv, SectionsInv, Undispatchable
<1>3. change = NoChange
  BY <1>2 DEF MutexInv, MutexConsistent, TypeOK
<1> QED BY <1>1, <1>3

LEMMA NoChangeFields ==
  /\ NoChange.by = NoThread /\ NoChange.thread = NoThread /\ NoChange.latest = FALSE
  BY DEF NoChange

\* A chain is in the order of any other value that agrees on its nodes.
LEMMA InOrderAgrees ==
  ASSUME NEW S, NEW s \in Seq(S), NEW f, NEW g, InOrder(s, f), \A x \in ToSet(s) : f[x] = g[x]
  PROVE  InOrder(s, g)
<1>1. \A i \in DOMAIN s : f[s[i]] = g[s[i]]
  BY DEF ToSet
<1> QED BY <1>1 DEF InOrder

\* What the requeueing of a thread leaves of the queues.
LEMMA RequeuedFacts ==
  ASSUME system \in Systems, NEW q \in [Mutex -> Seq(Thread)], NEW u \in Thread,
         NEW f, NEW g \in [Thread -> Priorities], \A x \in Thread : x # u => f[x] = g[x],
         \A m \in Mutex : NoRepetition(q[m]),
         \A m \in Mutex : Discipline[m] # "fifo" => InOrder(q[m], f)
  PROVE  /\ Requeued(q, u, g) \in [Mutex -> Seq(Thread)]
         /\ \A m \in Mutex : /\ ToSet(Requeued(q, u, g)[m]) = ToSet(q[m])
                             /\ NoRepetition(Requeued(q, u, g)[m])
                             /\ Discipline[m] # "fifo" => InOrder(Requeued(q, u, g)[m], g)
<1> DEFINE r == Requeued(q, u, g)
<1>1. \A x \in Thread : g[x] \in Int
  BY SystemFacts
<1>2. ASSUME NEW m \in Mutex, Discipline[m] # "fifo", u \in ToSet(q[m])
      PROVE  /\ r[m] \in Seq(Thread) /\ ToSet(r[m]) = ToSet(q[m]) /\ NoRepetition(r[m])
             /\ InOrder(r[m], g)
  <2> DEFINE e == Extracted(q[m], u)
  <2>1. r[m] = InsertOrdered(e, u, g)
    BY <1>2 DEF Requeued
  <2>2. e \in Seq(Thread) /\ NoRepetition(e) /\ ToSet(e) = ToSet(q[m]) \ {u}
    BY ExtractedShrinks
  <2>3. InOrder(e, f)
    BY <1>2, ExtractedInOrder
  <2>4. \A x \in ToSet(e) : f[x] = g[x]
    BY <2>2, ChainMembers
  <2> HIDE DEF e
  <2>5. InOrder(e, g)
    BY <2>2, <2>3, <2>4, InOrderAgrees
  <2>6. InsertOrdered(e, u, g) \in Seq(Thread) /\ Inserts(e, InsertOrdered(e, u, g), u, Walk(e, u, g))
    BY <1>1, <2>2, InsertOrderedInserts
  <2>7. InOrder(InsertOrdered(e, u, g), g)
    BY <1>1, <2>2, <2>5, InsertOrderedInOrder
  <2>8. ToSet(r[m]) = ToSet(e) \cup {u} /\ NoRepetition(r[m])
    BY <2>1, <2>2, <2>6, Grows
  <2> QED BY <1>2, <2>1, <2>2, <2>6, <2>7, <2>8
<1>3. ASSUME NEW m \in Mutex, Discipline[m] = "fifo" \/ u \notin ToSet(q[m])
      PROVE  /\ r[m] = q[m] /\ (Discipline[m] # "fifo" => InOrder(q[m], g))
  <2>1. r[m] = q[m]
    BY <1>3 DEF Requeued
  <2>2. ASSUME Discipline[m] # "fifo" PROVE InOrder(q[m], g)
    <3>1. \A x \in ToSet(q[m]) : f[x] = g[x]
      BY <1>3, <2>2, ChainMembers
    <3> QED BY <2>2, <3>1, InOrderAgrees
  <2> QED BY <2>1, <2>2
<1>4. \A m \in Mutex : r[m] \in Seq(Thread)
  BY <1>2, <1>3
<1>5. r \in [Mutex -> Seq(Thread)]
  BY <1>4 DEF Requeued
<1> QED BY <1>2, <1>3, <1>5

\* What putting a thread on a queue leaves of it.
LEMMA InsertedFacts ==
  ASSUME system \in Systems, NEW m \in Mutex, NEW s \in Seq(Thread), NEW t \in Thread,
         NEW f \in [Thread -> Priorities], NoRepetition(s), t \notin ToSet(s),
         Discipline[m] # "fifo" => InOrder(s, f)
  PROVE  /\ Inserted(m, s, t, f) \in Seq(Thread) /\ NoRepetition(Inserted(m, s, t, f))
         /\ ToSet(Inserted(m, s, t, f)) = ToSet(s) \cup {t}
         /\ Discipline[m] # "fifo" => InOrder(Inserted(m, s, t, f), f)
<1>1. CASE Discipline[m] = "fifo"
  <2>1. Inserted(m, s, t, f) = Append(s, t)
    BY <1>1 DEF Inserted
  <2>2. /\ Append(s, t) \in Seq(Thread) /\ NoRepetition(Append(s, t))
        /\ ToSet(Append(s, t)) = ToSet(s) \cup {t}
    BY AppendGrows
  <2> QED BY <1>1, <2>1, <2>2, Zenon
<1>2. CASE Discipline[m] # "fifo"
  <2>1. \A x \in Thread : f[x] \in Int
    BY SystemFacts
  <2>2. Inserted(m, s, t, f) = InsertOrdered(s, t, f)
    BY <1>2 DEF Inserted
  <2>3. InsertOrdered(s, t, f) \in Seq(Thread) /\ Inserts(s, InsertOrdered(s, t, f), t, Walk(s, t, f))
    BY <2>1, InsertOrderedInserts
  <2>4. InOrder(InsertOrdered(s, t, f), f)
    BY <1>2, <2>1, InsertOrderedInOrder
  <2> QED BY <2>2, <2>3, <2>4, Grows
<1> QED BY <1>1, <1>2
-----------------------------------------------------------------------------
(***************************************************************************)
(* One lemma per section of the code, one step per part of the invariant.  *)
(***************************************************************************)
LEMMA InitMutexInv == Init => MutexInv
<1> SUFFICES ASSUME Init PROVE MutexInv
  OBVIOUS
<1>1. system \in Systems
  BY DEF Init
<1>2. /\ NoThread \notin Thread /\ BasePriority \in [Thread -> Priorities] /\ Priorities \subseteq Nat
      /\ MaxNest \in Nat
  BY <1>1, SystemFacts
<1>3. TypeOK
  BY <1>2 DEF Init, TypeOK
<1>4. \A m \in Mutex : order[m] = <<>> /\ ToSet(order[m]) = {}
  BY EmptyChain DEF Init
<1>5. NoIdleMutex /\ QueueInOrder /\ SchedulerFollows
  BY <1>4, EmptyChain DEF Init, NoIdleMutex, QueueInOrder, SchedulerFollows
<1>6. ResourcesCounted
  <2>1. \A t \in Thread : {m \in Mutex : HasProtocol(m) /\ holder[m] = t} = {}
    BY <1>2 DEF Init
  <2>2. Cardinality({}) = 0
    BY FS_EmptySet
  <2> QED BY <2>1, <2>2 DEF Init, ResourcesCounted
<1>7. QueuesInv /\ HoldersInv
  BY <1>4, EmptyChain DEF Init, QueuesInv, HoldersInv
<1>8. SectionsInv
  BY <1>2, NoChangeFields DEF Init, SectionsInv, Seizing, Lent, Undispatchable
<1>9. HintInv /\ RaisedInv
  <2>1. \A t \in Thread : BasePriority[t] \in Nat
    BY <1>2
  <2> QED BY <2>1 DEF Init, HintInv, RaisedInv
<1>10. OwnInv /\ LentInv /\ PriorityRestored
  BY DEF Init, OwnInv, LentInv, Lent, PriorityRestored
<1>11. NoInversion
  BY <1>4 DEF Init, NoInversion, DirectInheritance, CeilingReached, InQueue
<1> QED BY <1>1, <1>3, <1>5, <1>6, <1>7, <1>8, <1>9, <1>10, <1>11 DEF MutexInv, MutexConsistent

LEMMA SeizeNestedInv ==
  ASSUME MutexInv, NEW t \in Thread, NEW m \in Mutex, SeizeNested(t, m), UNCHANGED system
  PROVE  MutexInv'
<1>1. /\ holder[m] = t /\ nest[m] < MaxNest /\ nest' = [nest EXCEPT ![m] = @ + 1]
      /\ UNCHANGED <<system, holder, order, prio, real, hint, rq, change, resources, pc, want, other>>
  BY DEF SeizeNested, prioVars, localVars
<1>2. /\ Thread' = Thread /\ Mutex' = Mutex /\ Priorities' = Priorities
      /\ Discipline' = Discipline /\ Ceiling' = Ceiling /\ MaxNest' = MaxNest
      /\ NewPriorities' = NewPriorities /\ OwnersRelease' = OwnersRelease
  BY SameSystem
<1>3. TypeOK /\ MaxNest \in Nat /\ NoThread \notin Thread
  BY SystemFacts DEF MutexInv, MutexConsistent
<1>4. nest'[m] \in 1 .. MaxNest /\ nest[m] # 0
  BY <1>1, <1>3 DEF TypeOK, MutexInv, HoldersInv
<1>5. TypeOK'
  BY <1>1, <1>2, <1>3, <1>4 DEF TypeOK
<1>6. NoIdleMutex' /\ HoldersInv'
  BY <1>1, <1>2, <1>3, <1>4 DEF MutexInv, MutexConsistent, NoIdleMutex, HoldersInv, TypeOK
<1>7. ResourcesCounted' /\ QueueInOrder' /\ SchedulerFollows'
  BY <1>1, <1>2 DEF MutexInv, MutexConsistent, ResourcesCounted, QueueInOrder, SchedulerFollows, HasProtocol
<1>8. QueuesInv' /\ SectionsInv' /\ HintInv' /\ RaisedInv'
  BY <1>1, <1>2 DEF MutexInv, QueuesInv, SectionsInv, HintInv, RaisedInv, Seizing, Lent
<1>9. OwnInv' /\ LentInv' /\ PriorityRestored' /\ NoInversion'
  BY <1>1, <1>2 DEF MutexInv, OwnInv, LentInv, Lent, PriorityRestored, NoInversion,
                    DirectInheritance, CeilingReached, InQueue
<1> QED BY <1>1, <1>5, <1>6, <1>7, <1>8, <1>9 DEF MutexInv, MutexConsistent

\* Only a program counter changes, between places where the thread is on its
\* own: Sleep and Wake.
LEMMA PauseInv ==
  ASSUME MutexInv, UNCHANGED system, NEW t \in Thread,
         pc[t] \in {"run", "asleep"}, NEW l \in {"run", "asleep"}, Goto(t, l),
         UNCHANGED <<mutexVars, order, prioVars, resources, localVars>>
  PROVE  MutexInv'
<1>1. /\ pc' = [pc EXCEPT ![t] = l]
      /\ UNCHANGED <<system, holder, nest, order, prio, real, hint, rq, change, resources, want, other>>
  BY DEF Goto, mutexVars, prioVars, localVars
<1>2. /\ Thread' = Thread /\ Mutex' = Mutex /\ Priorities' = Priorities
      /\ Discipline' = Discipline /\ Ceiling' = Ceiling /\ MaxNest' = MaxNest
      /\ NewPriorities' = NewPriorities /\ OwnersRelease' = OwnersRelease
  BY SameSystem
<1>3. TypeOK /\ pc \in [Thread -> {"run", "raise", "raise_self", "update", "enqueue", "wait",
                        "check", "restore", "asleep", "flush"}]
  BY DEF MutexInv, MutexConsistent, TypeOK
<1>4. TypeOK'
  BY <1>1, <1>2, <1>3 DEF TypeOK
<1>5. NoIdleMutex' /\ HoldersInv' /\ ResourcesCounted' /\ QueueInOrder' /\ SchedulerFollows'
  BY <1>1, <1>2 DEF MutexInv, MutexConsistent, NoIdleMutex, HoldersInv, ResourcesCounted,
                    QueueInOrder, SchedulerFollows, HasProtocol
<1>6. QueuesInv'
  BY <1>1, <1>2, <1>3 DEF MutexInv, QueuesInv
<1>7. SectionsInv'
  BY <1>1, <1>2, <1>3 DEF MutexInv, SectionsInv, Seizing, Lent, Undispatchable
<1>8. HintInv' /\ RaisedInv'
  BY <1>1, <1>2 DEF MutexInv, HintInv, RaisedInv
<1>9. OwnInv' /\ LentInv'
  BY <1>1, <1>2, <1>3 DEF MutexInv, OwnInv, LentInv, Lent
<1>10. PriorityRestored'
  <2>1. \A u \in Thread : pc[u] \in {"check", "restore"} => pc'[u] = pc[u]
    BY <1>1, <1>3
  <2> QED BY <1>1, <1>2, <2>1 DEF MutexInv, PriorityRestored
<1>11. NoInversion'
  <2>1. \A u \in Thread : pc[u] = "raise_self" => pc'[u] = pc[u]
    BY <1>1, <1>3
  <2>2. \A x \in Mutex : holder[x] \in Thread \cup {NoThread}
    BY <1>3 DEF TypeOK
  <2> QED BY <1>1, <1>2, <2>1, <2>2 DEF MutexInv, NoInversion, DirectInheritance, CeilingReached, InQueue
<1> QED BY <1>1, <1>4, <1>5, <1>6, <1>7, <1>8, <1>9, <1>10, <1>11 DEF MutexInv, MutexConsistent

\* Threads whose wait ends without the mutex: time-out and flush.
LEMMA LeaveInv ==
  ASSUME MutexInv, NEW L, L \subseteq Thread, \A u \in L : pc[u] = "wait",
         pc' = [u \in Thread |-> IF u \in L THEN "run" ELSE pc[u]],
         order' \in [Mutex -> Seq(Thread)],
         \A m \in Mutex : /\ ToSet(order'[m]) = ToSet(order[m]) \ L /\ NoRepetition(order'[m])
                          /\ Discipline[m] # "fifo" => InOrder(order'[m], prio),
         UNCHANGED <<system, mutexVars, prioVars, resources, localVars>>
  PROVE  MutexInv'
<1>1. UNCHANGED <<system, holder, nest, prio, real, hint, rq, change, resources, want, other>>
  BY DEF mutexVars, prioVars, localVars
<1>2. /\ Thread' = Thread /\ Mutex' = Mutex /\ Priorities' = Priorities
      /\ Discipline' = Discipline /\ Ceiling' = Ceiling /\ MaxNest' = MaxNest
      /\ NewPriorities' = NewPriorities /\ OwnersRelease' = OwnersRelease
  BY <1>1, SameSystem
<1>3. TypeOK /\ pc \in [Thread -> {"run", "raise", "raise_self", "update", "enqueue", "wait",
                        "check", "restore", "asleep", "flush"}]
  BY DEF MutexInv, MutexConsistent, TypeOK
<1>4. \A u \in Thread : pc'[u] # pc[u] => pc[u] = "wait" /\ pc'[u] = "run" /\ u \in L
  OBVIOUS
<1>5. \A m \in Mutex : order'[m] # <<>> => order[m] # <<>>
  BY <1>3, ChainMembers DEF TypeOK
<1>6. TypeOK'
  BY <1>1, <1>2, <1>3 DEF TypeOK
<1>7. NoIdleMutex' /\ HoldersInv' /\ ResourcesCounted' /\ QueueInOrder' /\ SchedulerFollows'
  BY <1>1, <1>2, <1>5 DEF MutexInv, MutexConsistent, NoIdleMutex, HoldersInv, ResourcesCounted,
                          QueueInOrder, SchedulerFollows, HasProtocol
<1>8. QueuesInv'
  <2>1. \A m \in Mutex : \A u \in ToSet(order'[m]) : u \in ToSet(order[m]) /\ u \in Thread /\ pc'[u] = pc[u]
    BY <1>3, ChainMembers DEF TypeOK
  <2>2. \A m \in Mutex : NoRepetition(order'[m])
    OBVIOUS
  <2>3. \A m \in Mutex : \A u \in ToSet(order'[m]) : pc'[u] = "wait" /\ holder'[m] # u
    BY <1>1, <2>1 DEF MutexInv, QueuesInv
  <2>4. ASSUME NEW m \in Mutex, NEW n \in Mutex, NEW u \in ToSet(order'[m]), u \in ToSet(order'[n])
        PROVE  n = m
    BY <2>1, <2>4 DEF MutexInv, QueuesInv
  <2> QED BY <1>2, <2>2, <2>3, <2>4 DEF QueuesInv
<1>9. SectionsInv'
  <2>1. \A u \in Thread : pc'[u] \in Undispatchable \cup {"check", "restore"} => pc'[u] = pc[u]
    BY DEF Undispatchable
  <2>2. \A u \in Thread : pc[u] \in Undispatchable \cup {"check", "restore"} => pc'[u] = pc[u]
    BY DEF Undispatchable
  <2> QED BY <1>1, <1>2, <2>1, <2>2 DEF MutexInv, SectionsInv, Seizing, Lent, Undispatchable
<1>10. HintInv' /\ RaisedInv'
  BY <1>1, <1>2 DEF MutexInv, HintInv, RaisedInv
<1>11. OwnInv' /\ LentInv'
  BY <1>1, <1>2, <1>4 DEF MutexInv, OwnInv, LentInv, Lent
<1>12. PriorityRestored'
  <2>1. \A u \in Thread : pc[u] \in {"check", "restore"} => pc'[u] = pc[u]
    BY <1>4
  <2> QED BY <1>1, <1>2, <2>1 DEF MutexInv, PriorityRestored
<1>13. NoInversion'
  <2>1. DirectInheritance'
    BY <1>1, <1>2 DEF MutexInv, NoInversion, DirectInheritance, InQueue
  <2>2. CeilingReached'
    <3>1. \A u \in Thread : pc[u] = "raise_self" => pc'[u] = pc[u]
      BY <1>4
    <3>2. \A x \in Mutex : holder[x] \in Thread \cup {NoThread}
      BY <1>3 DEF TypeOK
    <3> QED BY <1>1, <1>2, <3>1, <3>2 DEF MutexInv, NoInversion, CeilingReached
  <2> QED BY <2>1, <2>2 DEF NoInversion
<1> QED BY <1>1, <1>6, <1>7, <1>8, <1>9, <1>10, <1>11, <1>12, <1>13 DEF MutexInv, MutexConsistent

LEMMA TimeoutInv ==
  ASSUME MutexInv, NEW t \in Thread, Timeout(t), UNCHANGED system
  PROVE  MutexInv'
<1>1. /\ pc[t] = "wait" /\ order' = [m \in Mutex |-> Extracted(order[m], t)]
      /\ UNCHANGED <<system, mutexVars, prioVars, resources, localVars>>
  BY DEF Timeout
<1>2. pc' = [u \in Thread |-> IF u \in {t} THEN "run" ELSE pc[u]]
  BY DEF Timeout, Goto, MutexInv, MutexConsistent, TypeOK
<1>3. \A m \in Mutex : order[m] \in Seq(Thread) /\ NoRepetition(order[m])
  BY DEF MutexInv, MutexConsistent, TypeOK, QueuesInv
<1>4. \A m \in Mutex : /\ order'[m] \in Seq(Thread) /\ NoRepetition(order'[m])
                       /\ ToSet(order'[m]) = ToSet(order[m]) \ {t}
  BY <1>1, <1>3, ExtractedShrinks
<1>5. \A m \in Mutex : Discipline[m] # "fifo" => InOrder(order'[m], prio)
  BY <1>1, <1>3, ExtractedInOrder DEF MutexInv, MutexConsistent, QueueInOrder
<1>6. order' \in [Mutex -> Seq(Thread)]
  BY <1>1, <1>4
<1>7. {t} \subseteq Thread /\ \A u \in {t} : pc[u] = "wait"
  BY <1>1
<1> QED BY <1>1, <1>2, <1>4, <1>5, <1>6, <1>7, LeaveInv

\* The flush begins or ends.
LEMMA FlushTurnInv ==
  ASSUME MutexInv, UNCHANGED system, NEW t \in Thread, Runs(t), pc[t] \in {"run", "flush"},
         NEW l \in {"run", "flush"}, Goto(t, l),
         NEW x \in Mutex \cup {NoMutex}, want' = [want EXCEPT ![t] = x],
         UNCHANGED <<mutexVars, order, prioVars, resources, other>>
  PROVE  MutexInv'
<1>1. /\ pc' = [pc EXCEPT ![t] = l]
      /\ UNCHANGED <<system, holder, nest, order, prio, real, hint, rq, change, resources, other>>
  BY DEF Goto, mutexVars, prioVars
<1>2. /\ Thread' = Thread /\ Mutex' = Mutex /\ Priorities' = Priorities
      /\ Discipline' = Discipline /\ Ceiling' = Ceiling /\ MaxNest' = MaxNest
      /\ NewPriorities' = NewPriorities /\ OwnersRelease' = OwnersRelease
  BY SameSystem
<1>3. TypeOK /\ pc \in [Thread -> {"run", "raise", "raise_self", "update", "enqueue", "wait",
                        "check", "restore", "asleep", "flush"}]
  BY DEF MutexInv, MutexConsistent, TypeOK
<1>4. \A u \in Thread : u # t => pc'[u] = pc[u] /\ want'[u] = want[u]
  BY <1>1, <1>3 DEF TypeOK
<1>5. pc'[t] \in {"run", "flush"}
  BY <1>1, <1>3
<1>6. TypeOK'
  <2>1. want' \in [Thread -> Mutex \cup {NoMutex}]
    BY <1>3 DEF TypeOK
  <2> QED BY <1>1, <1>2, <1>3, <2>1 DEF TypeOK
<1>7. NoIdleMutex' /\ HoldersInv' /\ ResourcesCounted' /\ QueueInOrder' /\ SchedulerFollows'
  BY <1>1, <1>2 DEF MutexInv, MutexConsistent, NoIdleMutex, HoldersInv, ResourcesCounted,
                    QueueInOrder, SchedulerFollows, HasProtocol
<1>8. QueuesInv'
  BY <1>1, <1>2, <1>3 DEF MutexInv, QueuesInv
<1>9. SectionsInv'
  <2>1. /\ change = NoChange /\ \A u \in Thread : pc[u] \in Undispatchable => u = t
    BY RunsAlone
  <2>2. \A u \in Thread : pc'[u] \in Undispatchable => u = t /\ pc'[u] = "flush"
    BY <1>4, <1>5, <2>1 DEF Undispatchable
  <2>3. \A u \in Thread : pc'[u] \notin {"raise", "raise_self", "update", "enqueue"} /\ ~Seizing(u)'
    BY <2>2 DEF Undispatchable, Seizing, Lent
  <2>4. \A u \in Thread : change.by # u
    BY <2>1, SystemFacts, NoChangeFields DEF MutexInv
  <2>5. \A u \in Thread : pc'[u] \in {"check", "restore"} => other'[u] \in Thread
    BY <1>1, <1>4, <1>5 DEF MutexInv, SectionsInv
  <2>6. change'.latest => prio'[change'.thread] = change'.prio
    BY <1>1 DEF MutexInv, SectionsInv
  <2> QED BY <1>1, <1>2, <2>2, <2>3, <2>4, <2>5, <2>6 DEF SectionsInv
<1>10. HintInv' /\ RaisedInv'
  BY <1>1, <1>2 DEF MutexInv, HintInv, RaisedInv
<1>11. OwnInv' /\ LentInv'
  BY <1>1, <1>2, <1>4, <1>5 DEF MutexInv, OwnInv, LentInv, Lent
<1>12. PriorityRestored'
  <2>1. \A u \in Thread : pc[u] \in {"check", "restore"} => pc'[u] = pc[u]
    BY <1>4
  <2> QED BY <1>1, <1>2, <2>1 DEF MutexInv, PriorityRestored
<1>13. NoInversion'
  <2>1. \A u \in Thread : pc[u] = "raise_self" => pc'[u] = pc[u] /\ want'[u] = want[u]
    BY <1>4
  <2>2. \A y \in Mutex : holder[y] \in Thread \cup {NoThread}
    BY <1>3 DEF TypeOK
  <2> QED BY <1>1, <1>2, <2>1, <2>2 DEF MutexInv, NoInversion, DirectInheritance, CeilingReached, InQueue
<1> QED BY <1>1, <1>6, <1>7, <1>8, <1>9, <1>10, <1>11, <1>12, <1>13 DEF MutexInv, MutexConsistent

LEMMA FlushInv ==
  ASSUME MutexInv, NEW t \in Thread, NEW m \in Mutex, Flush(t, m), UNCHANGED system
  PROVE  MutexInv'
  BY FlushTurnInv DEF Flush, At

\* One round.
LEMMA FlushNextInv ==
  ASSUME MutexInv, NEW t \in Thread, NEW m \in Mutex, FlushNext(t, m), UNCHANGED system
  PROVE  MutexInv'
<1>1. CASE order[m] = <<>>
  BY <1>1, FlushTurnInv DEF FlushNext, At
<1>2. CASE order[m] # <<>>
  <2> DEFINE u == Head(order[m])
  <2>1. order \in [Mutex -> Seq(Thread)] /\ \A x \in Mutex : NoRepetition(order[x])
    BY DEF MutexInv, MutexConsistent, TypeOK, QueuesInv
  <2>2. u \in Thread /\ u \in ToSet(order[m])
    BY <1>2, <2>1, TailShrinks DEF ToSet
  <2> HIDE DEF u
  <2>3. /\ order' = [order EXCEPT ![m] = Extracted(@, u)] /\ pc' = [pc EXCEPT ![u] = "run"]
        /\ UNCHANGED <<mutexVars, prioVars, resources, localVars>>
    BY <1>2 DEF FlushNext, First, Goto, localVars, u
  <2>4. pc' = [v \in Thread |-> IF v \in {u} THEN "run" ELSE pc[v]]
    BY <2>3 DEF MutexInv, MutexConsistent, TypeOK
  <2>5. {u} \subseteq Thread /\ \A v \in {u} : pc[v] = "wait"
    BY <2>2 DEF MutexInv, QueuesInv
  <2>6. ASSUME NEW x \in Mutex
        PROVE  /\ order'[x] \in Seq(Thread) /\ NoRepetition(order'[x])
               /\ ToSet(order'[x]) = ToSet(order[x]) \ {u}
               /\ Discipline[x] # "fifo" => InOrder(order'[x], prio)
    <3>1. CASE x = m
      <4>1. order'[x] = Extracted(order[x], u)
        BY <2>1, <2>3, <3>1
      <4>2. /\ order'[x] \in Seq(Thread) /\ NoRepetition(order'[x])
            /\ ToSet(order'[x]) = ToSet(order[x]) \ {u}
        BY <2>1, <2>2, <4>1, ExtractedShrinks
      <4>3. Discipline[x] # "fifo" => InOrder(order'[x], prio)
        BY <2>1, <2>2, <4>1, ExtractedInOrder DEF MutexInv, MutexConsistent, QueueInOrder
      <4> QED BY <4>2, <4>3
    <3>2. CASE x # m
      <4>1. order'[x] = order[x]
        BY <2>1, <2>3, <3>2
      <4>2. u \notin ToSet(order[x])
        BY <2>2, <3>2 DEF MutexInv, QueuesInv
      <4> QED BY <2>1, <4>1, <4>2 DEF MutexInv, MutexConsistent, QueueInOrder
    <3> QED BY <3>1, <3>2
  <2>7. order' \in [Mutex -> Seq(Thread)]
    BY <2>1, <2>3, <2>6
  <2> QED BY <2>3, <2>4, <2>5, <2>6, <2>7, LeaveInv
<1> QED BY <1>1, <1>2

\* The former holder is to be restored, or needs no restoration.
LEMMA CheckInv ==
  ASSUME MutexInv, NEW t \in Thread, Check(t), UNCHANGED system
  PROVE  MutexInv'
<1> DEFINE restores == resources[other[t]] = 0 /\ hint[other[t]]
<1>1. /\ pc[t] = "check"
      /\ pc' = [pc EXCEPT ![t] = IF restores THEN "restore" ELSE "run"]
      /\ other' = IF restores THEN other ELSE [other EXCEPT ![t] = NoThread]
      /\ UNCHANGED <<system, holder, nest, order, prio, real, hint, rq, change, resources, want>>
  BY DEF Check, At, OwnsNothing, Goto, mutexVars, prioVars
<1>2. /\ Thread' = Thread /\ Mutex' = Mutex /\ Priorities' = Priorities
      /\ Discipline' = Discipline /\ Ceiling' = Ceiling /\ MaxNest' = MaxNest
      /\ NewPriorities' = NewPriorities /\ OwnersRelease' = OwnersRelease
  BY <1>1, SameSystem
<1>3. TypeOK /\ pc \in [Thread -> {"run", "raise", "raise_self", "update", "enqueue", "wait",
                        "check", "restore", "asleep", "flush"}]
      /\ other[t] \in Thread
  BY <1>1 DEF MutexInv, MutexConsistent, TypeOK, SectionsInv
<1>4. \A u \in Thread : u # t => pc'[u] = pc[u] /\ other'[u] = other[u]
  BY <1>1, <1>3 DEF TypeOK
<1>5. \/ restores /\ pc'[t] = "restore" /\ other'[t] = other[t]
      \/ ~restores /\ pc'[t] = "run" /\ other'[t] = NoThread
  BY <1>1, <1>3 DEF TypeOK
<1>6. TypeOK'
  BY <1>1, <1>2, <1>3 DEF TypeOK
<1>7. NoIdleMutex' /\ HoldersInv' /\ ResourcesCounted' /\ QueueInOrder' /\ SchedulerFollows'
  BY <1>1, <1>2 DEF MutexInv, MutexConsistent, NoIdleMutex, HoldersInv, ResourcesCounted,
                    QueueInOrder, SchedulerFollows, HasProtocol
<1>8. QueuesInv'
  BY <1>1, <1>2, <1>3, <1>4 DEF MutexInv, QueuesInv
<1>9. SectionsInv'
  BY <1>1, <1>2, <1>3, <1>4, <1>5 DEF MutexInv, SectionsInv, Seizing, Lent, Undispatchable
<1>10. HintInv' /\ RaisedInv'
  BY <1>1, <1>2 DEF MutexInv, HintInv, RaisedInv
<1>11. OwnInv' /\ LentInv'
  BY <1>1, <1>2, <1>4, <1>5 DEF MutexInv, OwnInv, LentInv, Lent
<1>12. PriorityRestored'
  <2> SUFFICES ASSUME NEW u \in Thread, resources[u] = 0, prio[u] # real[u]
               PROVE  \E v \in Thread : pc'[v] \in {"check", "restore"} /\ other'[v] = u
    BY <1>1, <1>2 DEF PriorityRestored
  <2>1. hint[u]
    BY DEF MutexInv, HintInv
  <2>2. PICK v \in Thread : pc[v] \in {"check", "restore"} /\ other[v] = u
    BY DEF MutexInv, PriorityRestored
  <2>3. CASE v = t
    BY <1>5, <2>1, <2>2, <2>3
  <2>4. CASE v # t
    BY <1>4, <2>2, <2>4
  <2> QED BY <2>3, <2>4
<1>13. NoInversion'
  <2>1. \A u \in Thread : pc[u] = "raise_self" => pc'[u] = pc[u]
    BY <1>1, <1>4
  <2>2. \A x \in Mutex : holder[x] \in Thread \cup {NoThread}
    BY <1>3 DEF TypeOK
  <2> QED BY <1>1, <1>2, <2>1, <2>2 DEF MutexInv, NoInversion, DirectInheritance, CeilingReached, InQueue
<1> QED BY <1>1, <1>6, <1>7, <1>8, <1>9, <1>10, <1>11, <1>12, <1>13 DEF MutexInv, MutexConsistent

\* The scheduler learns of a changed priority.
LEMMA UpdateInv ==
  ASSUME MutexInv, Update, UNCHANGED system
  PROVE  MutexInv'
<1> DEFINE b == change.by
<1>1. /\ change # NoChange /\ change' = NoChange
      /\ rq' = IF change.latest THEN [rq EXCEPT ![change.thread] = change.prio] ELSE rq
      /\ pc' = [pc EXCEPT ![b] = change.after]
      /\ UNCHANGED <<system, holder, nest, order, prio, real, hint, resources, want, other>>
  BY DEF Update, Goto, mutexVars, localVars
<1>2. /\ Thread' = Thread /\ Mutex' = Mutex /\ Priorities' = Priorities
      /\ Discipline' = Discipline /\ Ceiling' = Ceiling /\ MaxNest' = MaxNest
      /\ NewPriorities' = NewPriorities /\ OwnersRelease' = OwnersRelease
  BY <1>1, SameSystem
<1>3. TypeOK /\ pc \in [Thread -> {"run", "raise", "raise_self", "update", "enqueue", "wait",
                        "check", "restore", "asleep", "flush"}]
      /\ change \in [by : Thread, thread : Thread, prio : Priorities,
                     latest : BOOLEAN, after : {"run", "enqueue"}]
  BY <1>1 DEF MutexInv, MutexConsistent, TypeOK
<1>4. /\ b \in Thread /\ pc[b] = "update" /\ change.after \in {"run", "enqueue"}
      /\ change.thread \in Thread /\ change.prio \in Priorities /\ change.latest \in BOOLEAN
  BY <1>3 DEF MutexInv, SectionsInv
<1>5. /\ pc'[b] = change.after /\ (\A u \in Thread : u # b => pc'[u] = pc[u] /\ pc[u] # "update")
      /\ \A u \in Thread : u # b => pc[u] \notin Undispatchable
  BY <1>1, <1>3, <1>4 DEF MutexInv, SectionsInv, Undispatchable
<1> HIDE DEF b
<1>6. TypeOK'
  BY <1>1, <1>2, <1>3, <1>4 DEF TypeOK
<1>7. NoIdleMutex' /\ HoldersInv' /\ ResourcesCounted' /\ QueueInOrder'
  BY <1>1, <1>2 DEF MutexInv, MutexConsistent, NoIdleMutex, HoldersInv, ResourcesCounted,
                    QueueInOrder, HasProtocol
<1>8. SchedulerFollows'
  <2> SUFFICES ASSUME NEW u \in Thread PROVE rq'[u] = prio[u]
    BY <1>1, <1>2 DEF SchedulerFollows
  <2>1. CASE change.latest /\ u = change.thread
    BY <1>1, <1>3, <2>1 DEF MutexInv, SectionsInv, TypeOK
  <2>2. CASE ~(change.latest /\ u = change.thread)
    <3>1. rq'[u] = rq[u]
      BY <1>1, <1>3, <1>4, <2>2 DEF TypeOK
    <3> QED BY <2>2, <3>1 DEF MutexInv, MutexConsistent, SchedulerFollows
  <2> QED BY <2>1, <2>2
<1>9. QueuesInv'
  <2>1. \A m \in Mutex : b \notin ToSet(order[m])
    BY <1>4 DEF MutexInv, QueuesInv
  <2>2. \A m \in Mutex : \A u \in ToSet(order[m]) : u \in Thread /\ pc'[u] = pc[u]
    BY <1>3, <1>5, <2>1, ChainMembers DEF TypeOK
  <2> QED BY <1>1, <1>2, <2>2 DEF MutexInv, QueuesInv
<1>10. SectionsInv'
  <2>1. change'.by \notin Thread /\ ~change'.latest
    BY <1>1, NoChangeFields, SystemFacts DEF MutexInv
  <2>2. \A u \in Thread : pc'[u] # "update" /\ (pc'[u] \in Undispatchable => u = b)
    BY <1>4, <1>5 DEF Undispatchable
  <2>3. \A u \in Thread : /\ Seizing(u)' => Seizing(u)
                          /\ pc'[u] \in {"raise", "raise_self", "check", "restore"} => pc'[u] = pc[u]
    <3>1. ASSUME NEW u \in Thread, Seizing(u)' PROVE Seizing(u)
      <4>1. pc'[u] = "raise" \/ pc'[u] = "enqueue"
        BY <2>2, <3>1 DEF Seizing, Lent
      <4>2. CASE u = b
        <5>1. pc[u] = "update" /\ change.after = "enqueue"
          BY <1>4, <1>5, <4>1, <4>2
        <5> QED BY <5>1 DEF Seizing, Lent
      <4>3. CASE u # b
        BY <1>5, <4>1, <4>3 DEF Seizing, Lent
      <4> QED BY <4>2, <4>3
    <3>2. ASSUME NEW u \in Thread, pc'[u] \in {"raise", "raise_self", "check", "restore"}
          PROVE  pc'[u] = pc[u]
      BY <1>4, <1>5, <3>2
    <3> QED BY <3>1, <3>2
  <2>4. \A u \in Thread :
          /\ Seizing(u)' => /\ want[u] \in Mutex /\ Discipline[want[u]] = "inherit"
                            /\ holder[want[u]] \in Thread \ {u}
          /\ pc'[u] = "raise" => other[u] = holder[want[u]]
          /\ pc'[u] = "raise_self" => /\ want[u] \in Mutex /\ Discipline[want[u]] = "ceiling"
                                      /\ holder[want[u]] = u
          /\ pc'[u] \in {"check", "restore"} => other[u] \in Thread
    BY <2>3 DEF MutexInv, SectionsInv
  <2> QED BY <1>1, <1>2, <2>1, <2>2, <2>4 DEF SectionsInv
<1>11. HintInv' /\ RaisedInv'
  BY <1>1, <1>2 DEF MutexInv, HintInv, RaisedInv
<1>12. OwnInv'
  BY <1>1, <1>2, <1>4, <1>5 DEF MutexInv, OwnInv
<1>13. LentInv'
  <2>1. \A u \in Thread : Lent(u)' => Lent(u)
    BY <1>4, <1>5 DEF Lent, b
  <2> QED BY <1>1, <1>2, <2>1 DEF MutexInv, LentInv
<1>14. PriorityRestored'
  <2>1. \A u \in Thread : pc[u] \in {"check", "restore"} => pc'[u] = pc[u]
    BY <1>4, <1>5
  <2> QED BY <1>1, <1>2, <2>1 DEF MutexInv, PriorityRestored
<1>15. NoInversion'
  <2>1. \A u \in Thread : pc[u] = "raise_self" => pc'[u] = pc[u]
    BY <1>4, <1>5
  <2>2. \A x \in Mutex : holder[x] \in Thread \cup {NoThread}
    BY <1>3 DEF TypeOK
  <2> QED BY <1>1, <1>2, <2>1, <2>2 DEF MutexInv, NoInversion, DirectInheritance, CeilingReached, InQueue
<1> QED BY <1>1, <1>6, <1>7, <1>8, <1>9, <1>10, <1>11, <1>12, <1>13, <1>14, <1>15
        DEF MutexInv, MutexConsistent
\* A mutex that changes hands is counted for its new holder and no longer for
\* its old one.
LEMMA HandedOver ==
  ASSUME system \in Systems, UNCHANGED system, ResourcesCounted, resources \in [Thread -> Nat],
         holder \in [Mutex -> Thread \cup {NoThread}],
         NEW m \in Mutex, NEW h \in Thread \cup {NoThread}, h # holder[m],
         holder' = [holder EXCEPT ![m] = h],
         resources' = [u \in Thread |->
                         IF ~HasProtocol(m) THEN resources[u]
                         ELSE IF u = holder[m] THEN resources[u] - 1
                         ELSE IF u = h THEN resources[u] + 1 ELSE resources[u]]
  PROVE  resources' \in [Thread -> Nat] /\ ResourcesCounted'
<1> DEFINE Held(f, u) == {x \in Mutex : HasProtocol(x) /\ f[x] = u}
<1>1. IsFiniteSet(Mutex) /\ NoThread \notin Thread
  BY SystemFacts
<1>2. ASSUME NEW u \in Thread
      PROVE  /\ IsFiniteSet(Held(holder, u)) /\ Cardinality(Held(holder, u)) = resources[u]
             /\ resources[u] \in Nat
  <2>1. Held(holder, u) \subseteq Mutex
    OBVIOUS
  <2>2. IsFiniteSet(Held(holder, u))
    BY <1>1, <2>1, FS_Subset, Zenon
  <2> QED BY <2>2 DEF ResourcesCounted
<1>3. ASSUME NEW u \in Thread
      PROVE  resources'[u] \in Nat /\ resources'[u] = Cardinality(Held(holder', u))
  <2>1. \A x \in Mutex : x # m => holder'[x] = holder[x]
    OBVIOUS
  <2>2. holder'[m] = h
    OBVIOUS
  <2>3. CASE ~HasProtocol(m) \/ u \notin {h, holder[m]}
    <3>1. Held(holder', u) = Held(holder, u)
      BY <2>1, <2>2, <2>3
    <3>2. resources'[u] = resources[u]
      BY <2>3
    <3> QED BY <1>2, <3>1, <3>2
  <2>4. CASE HasProtocol(m) /\ u = h
    <3>1. Held(holder', u) = Held(holder, u) \cup {m} /\ m \notin Held(holder, u)
      BY <2>1, <2>2, <2>4
    <3>2. Cardinality(Held(holder, u) \cup {m}) = Cardinality(Held(holder, u)) + 1
      <4> HIDE DEF Held
      <4> QED BY <1>2, <3>1, FS_AddElement
    <3>3. resources'[u] = resources[u] + 1
      BY <2>4
    <3>4. resources[u] \in Nat /\ Cardinality(Held(holder, u)) = resources[u]
      BY <1>2
    <3>5. Cardinality(Held(holder', u)) = resources[u] + 1
      BY <3>1, <3>2, <3>4
    <3> HIDE DEF Held
    <3> QED BY <3>3, <3>4, <3>5
  <2>5. CASE HasProtocol(m) /\ u = holder[m]
    <3>1. Held(holder', u) = Held(holder, u) \ {m} /\ m \in Held(holder, u)
      BY <2>1, <2>2, <2>5
    <3>2. Cardinality(Held(holder, u) \ {m}) = Cardinality(Held(holder, u)) - 1
      <4> HIDE DEF Held
      <4> QED BY <1>2, <3>1, FS_RemoveElement
    <3>3. Cardinality(Held(holder, u) \ {m}) \in Nat
      <4> HIDE DEF Held
      <4> QED BY <1>2, FS_RemoveElement, FS_CardinalityType
    <3>4. resources'[u] = resources[u] - 1
      BY <2>5
    <3> HIDE DEF Held
    <3> QED BY <1>2, <3>1, <3>2, <3>3, <3>4
  <2> QED BY <2>3, <2>4, <2>5
<1>4. resources' \in [Thread -> Nat]
  BY <1>3
<1>5. ResourcesCounted'
  <2>1. Thread' = Thread /\ Mutex' = Mutex /\ \A x \in Mutex : HasProtocol(x)' = HasProtocol(x)
    BY SameSystem DEF HasProtocol
  <2>2. \A u \in Thread : {x \in Mutex' : HasProtocol(x)' /\ holder'[x] = u} = Held(holder', u)
    BY <2>1
  <2> QED BY <1>3, <2>1, <2>2 DEF ResourcesCounted
<1> QED BY <1>4, <1>5

\* A thread that holds a mutex of a protocol owns resources.
LEMMA HoldersOwn ==
  ASSUME MutexInv, NEW m \in Mutex, HasProtocol(m), holder[m] \in Thread
  PROVE  resources[holder[m]] >= 1 /\ resources[holder[m]] # 0
<1> DEFINE H == {x \in Mutex : HasProtocol(x) /\ holder[x] = holder[m]}
<1>1. IsFiniteSet(Mutex)
  BY SystemFacts DEF MutexInv
<1>2. H \subseteq Mutex /\ m \in H
  OBVIOUS
<1>3. IsFiniteSet(H)
  BY <1>1, <1>2, FS_Subset, Zenon
<1>4. resources[holder[m]] = Cardinality(H) /\ resources[holder[m]] \in Nat
  BY DEF MutexInv, MutexConsistent, ResourcesCounted, TypeOK
<1> HIDE DEF H
<1>5. Cardinality(H) # 0
  BY <1>2, <1>3, FS_EmptySet
<1> QED BY <1>4, <1>5
\* A free mutex is taken; nobody waits for it.
LEMMA SeizeFreeInv ==
  ASSUME MutexInv, NEW t \in Thread, NEW m \in Mutex, SeizeFree(t, m), UNCHANGED system
  PROVE  MutexInv'
<1> DEFINE raises == Discipline[m] = "ceiling" /\ prio[t] > Ceiling[m]
<1>1. /\ pc[t] = "run" /\ Runs(t) /\ holder[m] = NoThread
      /\ holder' = [holder EXCEPT ![m] = t] /\ nest' = [nest EXCEPT ![m] = 1]
      /\ resources' = IF HasProtocol(m) THEN [resources EXCEPT ![t] = @ + 1] ELSE resources
      /\ pc' = IF raises THEN [pc EXCEPT ![t] = "raise_self"] ELSE pc
      /\ want' = IF raises THEN [want EXCEPT ![t] = m] ELSE want
      /\ UNCHANGED <<system, order, prio, real, hint, rq, change, other>>
  BY DEF SeizeFree, At, Own, Goto, prioVars
<1>2. /\ Thread' = Thread /\ Mutex' = Mutex /\ Priorities' = Priorities
      /\ Discipline' = Discipline /\ Ceiling' = Ceiling /\ MaxNest' = MaxNest
      /\ NewPriorities' = NewPriorities /\ OwnersRelease' = OwnersRelease
  BY <1>1, SameSystem
<1>3. /\ TypeOK /\ NoThread \notin Thread /\ MaxNest \in Nat /\ MaxNest >= 1
      /\ system \in Systems /\ Priorities \subseteq Nat
  BY SystemFacts DEF MutexInv, MutexConsistent
<1>4. /\ change = NoChange /\ \A u \in Thread : pc[u] \in Undispatchable => u = t
  BY <1>1, RunsAlone
<1>5. order[m] = <<>> /\ ToSet(order[m]) = {}
  <2>1. nest[m] = 0
    BY <1>1 DEF MutexInv, HoldersInv
  <2> QED BY <2>1, EmptyChain DEF MutexInv, MutexConsistent, NoIdleMutex
<1>6. /\ holder'[m] = t /\ nest'[m] = 1
      /\ \A x \in Mutex : x # m => holder'[x] = holder[x] /\ nest'[x] = nest[x]
  BY <1>1, <1>3 DEF TypeOK
<1>7. /\ \A u \in Thread : u # t => pc'[u] = pc[u] /\ want'[u] = want[u]
      /\ raises => pc'[t] = "raise_self" /\ want'[t] = m
      /\ ~raises => pc'[t] = "run" /\ want'[t] = want[t]
  BY <1>1, <1>3 DEF TypeOK
<1>8. resources' \in [Thread -> Nat] /\ ResourcesCounted'
  <2>1. resources' = [u \in Thread |->
                         IF ~HasProtocol(m) THEN resources[u]
                         ELSE IF u = holder[m] THEN resources[u] - 1
                         ELSE IF u = t THEN resources[u] + 1 ELSE resources[u]]
    BY <1>1, <1>3 DEF TypeOK
  <2>2. ResourcesCounted /\ resources \in [Thread -> Nat]
        /\ holder \in [Mutex -> Thread \cup {NoThread}]
    BY <1>3 DEF MutexInv, MutexConsistent, TypeOK
  <2>3. t # holder[m] /\ t \in Thread \cup {NoThread}
    BY <1>1, <1>3
  <2> QED BY <1>1, <1>3, <2>1, <2>2, <2>3, HandedOver
<1>9. \A u \in Thread : /\ u # t => resources'[u] = resources[u]
                        /\ resources'[u] = 0 => resources[u] = 0
  BY <1>1, <1>3 DEF TypeOK
<1>10. TypeOK'
  BY <1>1, <1>2, <1>3, <1>8 DEF TypeOK
<1>11. NoIdleMutex' /\ HoldersInv' /\ QueueInOrder' /\ SchedulerFollows'
  BY <1>1, <1>2, <1>3, <1>6 DEF MutexInv, MutexConsistent, NoIdleMutex, HoldersInv,
                    QueueInOrder, SchedulerFollows
<1>12. QueuesInv'
  <2>1. \A x \in Mutex : t \notin ToSet(order[x])
    BY <1>1 DEF MutexInv, QueuesInv
  <2>2. \A x \in Mutex : \A u \in ToSet(order[x]) : u \in Thread /\ pc'[u] = pc[u] /\ x # m
    BY <1>3, <1>5, <1>7, <2>1, ChainMembers DEF TypeOK
  <2> QED BY <1>1, <1>2, <1>6, <2>2 DEF MutexInv, QueuesInv
<1>13. SectionsInv'
  <2>1. \A u \in Thread : pc'[u] \in Undispatchable => u = t /\ pc'[u] = "raise_self"
    BY <1>1, <1>4, <1>7 DEF Undispatchable
  <2>2. \A u \in Thread : pc'[u] \in {"check", "restore"} => pc[u] = pc'[u]
    BY <1>1, <1>7
  <2>3. change'.by \notin Thread /\ ~change'.latest
    BY <1>1, <1>3, <1>4, NoChangeFields
  <2>4. \A u \in Thread : ~Seizing(u)' /\ pc'[u] # "raise" /\ pc'[u] # "update"
    BY <2>1 DEF Seizing, Lent, Undispatchable
  <2>5. \A u \in Thread : pc'[u] = "raise_self" =>
          want'[u] \in Mutex /\ Discipline[want'[u]] = "ceiling" /\ holder'[want'[u]] = u
    BY <1>6, <1>7, <2>1 DEF Undispatchable
  <2>6. \A u \in Thread : pc'[u] \in {"check", "restore"} => other'[u] \in Thread
    BY <1>1, <2>2 DEF MutexInv, SectionsInv
  <2> QED BY <1>2, <2>1, <2>3, <2>4, <2>5, <2>6 DEF SectionsInv
<1>14. HintInv' /\ RaisedInv'
  BY <1>1, <1>2 DEF MutexInv, HintInv, RaisedInv
<1>15. OwnInv' /\ LentInv'
  <2>1. \A u \in Thread : pc'[u] \in {"check", "restore"} => pc[u] = pc'[u] /\ u # t
    BY <1>1, <1>7
  <2>2. \A u \in Thread : ~Lent(u)'
    BY <1>1, <1>4, <1>7 DEF Lent, Undispatchable
  <2> QED BY <1>1, <1>2, <1>9, <2>1, <2>2 DEF MutexInv, OwnInv, LentInv
<1>16. PriorityRestored'
  <2>1. \A u \in Thread : pc[u] \in {"check", "restore"} => pc'[u] = pc[u]
    BY <1>1, <1>7
  <2> QED BY <1>1, <1>2, <1>9, <2>1 DEF MutexInv, PriorityRestored
<1>17. DirectInheritance'
  BY <1>1, <1>2, <1>5, <1>6, <1>9 DEF MutexInv, NoInversion, DirectInheritance, InQueue
<1>18. CeilingReached'
  <2> SUFFICES ASSUME OwnersRelease, NEW x \in Mutex, Discipline[x] = "ceiling", holder'[x] # NoThread
               PROVE  \/ prio[holder'[x]] <= Ceiling[x]
                      \/ pc'[holder'[x]] = "raise_self" /\ want'[holder'[x]] = x
    BY <1>1, <1>2 DEF CeilingReached
  <2>1. CASE x = m
    <3>1. prio[t] \in Nat /\ Ceiling[m] \in Nat
      BY <1>3, SystemFacts DEF TypeOK
    <3> QED BY <1>6, <1>7, <2>1, <3>1
  <2>2. CASE x # m
    <3>1. holder'[x] = holder[x] /\ holder[x] \in Thread
      BY <1>3, <1>6, <2>2 DEF TypeOK
    <3>2. pc[holder[x]] # "raise_self"
      BY <1>1, <1>4, <3>1 DEF Undispatchable
    <3> QED BY <3>1, <3>2 DEF MutexInv, NoInversion, CeilingReached
  <2> QED BY <2>1, <2>2
<1> QED BY <1>1, <1>3, <1>8, <1>10, <1>11, <1>12, <1>13, <1>14, <1>15, <1>16, <1>17, <1>18
        DEF MutexInv, MutexConsistent, NoInversion
\* The running thread puts itself on the queue of a mutex that another holds.
LEMMA WaitInv ==
  ASSUME MutexInv, NEW t \in Thread, NEW m \in Mutex, Runs(t), pc[t] \in {"run", "enqueue"},
         holder[m] \in Thread \ {t},
         OwnersRelease /\ NewPriorities = {} /\ Discipline[m] = "inherit"
           => prio[holder[m]] <= prio[t],
         Goto(t, "wait"), order' = [order EXCEPT ![m] = Inserted(m, @, t, prio)],
         want' \in {want, [want EXCEPT ![t] = NoMutex]},
         UNCHANGED <<system, mutexVars, prioVars, resources, other>>
  PROVE  MutexInv'
<1>1. /\ pc' = [pc EXCEPT ![t] = "wait"]
      /\ UNCHANGED <<system, holder, nest, prio, real, hint, rq, change, resources, other>>
  BY DEF Goto, mutexVars, prioVars
<1>2. /\ Thread' = Thread /\ Mutex' = Mutex /\ Priorities' = Priorities
      /\ Discipline' = Discipline /\ Ceiling' = Ceiling /\ MaxNest' = MaxNest
      /\ NewPriorities' = NewPriorities /\ OwnersRelease' = OwnersRelease
  BY <1>1, SameSystem
<1>3. /\ TypeOK /\ NoThread \notin Thread /\ system \in Systems
  BY SystemFacts DEF MutexInv, MutexConsistent
<1>4. /\ change = NoChange /\ \A u \in Thread : pc[u] \in Undispatchable => u = t
  BY RunsAlone
<1>5. \A x \in Mutex : /\ order[x] \in Seq(Thread) /\ NoRepetition(order[x]) /\ t \notin ToSet(order[x])
                       /\ (Discipline[x] # "fifo" => InOrder(order[x], prio))
  BY <1>3 DEF MutexInv, MutexConsistent, TypeOK, QueuesInv, QueueInOrder
<1>6. /\ order'[m] = Inserted(m, order[m], t, prio)
      /\ \A x \in Mutex : x # m => order'[x] = order[x]
  BY <1>3 DEF TypeOK
<1>7. /\ order'[m] \in Seq(Thread) /\ NoRepetition(order'[m])
      /\ ToSet(order'[m]) = ToSet(order[m]) \cup {t}
      /\ (Discipline[m] # "fifo" => InOrder(order'[m], prio))
  BY <1>3, <1>5, <1>6, InsertedFacts DEF TypeOK
<1>8. pc'[t] = "wait" /\ \A u \in Thread : u # t => pc'[u] = pc[u] /\ want'[u] = want[u]
  BY <1>1, <1>3 DEF TypeOK
<1>9. TypeOK'
  <2>1. order' \in [Mutex -> Seq(Thread)]
    BY <1>3, <1>6, <1>7 DEF TypeOK
  <2>2. want' \in [Thread -> Mutex \cup {NoMutex}]
    BY <1>3 DEF TypeOK
  <2> QED BY <1>1, <1>2, <1>3, <2>1, <2>2 DEF TypeOK
<1>10. NoIdleMutex' /\ HoldersInv'
  <2>1. nest[m] > 0
    BY <1>3, SystemFacts DEF MutexInv, HoldersInv, TypeOK
  <2> QED BY <1>1, <1>2, <1>6, <2>1 DEF MutexInv, MutexConsistent, NoIdleMutex, HoldersInv
<1>11. ResourcesCounted' /\ SchedulerFollows'
  BY <1>1, <1>2 DEF MutexInv, MutexConsistent, ResourcesCounted, SchedulerFollows, HasProtocol
<1>12. QueueInOrder'
  BY <1>1, <1>2, <1>5, <1>6, <1>7 DEF QueueInOrder
<1>13. QueuesInv'
  <2>1. \A x \in Mutex : NoRepetition(order'[x])
    BY <1>5, <1>6, <1>7
  <2>2. \A x \in Mutex : \A u \in ToSet(order'[x]) :
          \/ x = m /\ u = t
          \/ u \in ToSet(order[x]) /\ u \in Thread /\ u # t
    BY <1>5, <1>6, <1>7, ChainMembers
  <2>3. \A x \in Mutex : \A u \in ToSet(order'[x]) : pc'[u] = "wait" /\ holder'[x] # u
    BY <1>1, <1>8, <2>2 DEF MutexInv, QueuesInv
  <2>4. ASSUME NEW x \in Mutex, NEW n \in Mutex, NEW u \in ToSet(order'[x]), u \in ToSet(order'[n])
        PROVE  n = x
    BY <2>2, <2>4 DEF MutexInv, QueuesInv
  <2> QED BY <1>2, <2>1, <2>3, <2>4 DEF QueuesInv
<1>14. SectionsInv'
  <2>1. \A u \in Thread : pc'[u] \notin Undispatchable
    BY <1>4, <1>8 DEF Undispatchable
  <2>2. \A u \in Thread : pc'[u] \in {"check", "restore"} => other'[u] \in Thread
    BY <1>1, <1>8 DEF MutexInv, SectionsInv
  <2>3. change'.by \notin Thread /\ ~change'.latest
    BY <1>1, <1>3, <1>4, NoChangeFields
  <2>4. \A u \in Thread : ~Seizing(u)' /\ pc'[u] \notin {"raise", "raise_self", "update"}
    BY <2>1 DEF Seizing, Lent, Undispatchable
  <2> QED BY <1>2, <2>1, <2>2, <2>3, <2>4 DEF SectionsInv
<1>15. HintInv' /\ RaisedInv'
  BY <1>1, <1>2 DEF MutexInv, HintInv, RaisedInv
<1>16. OwnInv' /\ LentInv'
  <2>1. \A u \in Thread : pc'[u] \in {"check", "restore"} => pc[u] = pc'[u]
    BY <1>8
  <2>2. \A u \in Thread : ~Lent(u)'
    BY <1>4, <1>8 DEF Lent, Undispatchable
  <2> QED BY <1>1, <1>2, <2>1, <2>2 DEF MutexInv, OwnInv, LentInv
<1>17. PriorityRestored'
  <2>1. \A u \in Thread : pc[u] \in {"check", "restore"} => pc'[u] = pc[u]
    BY <1>8
  <2> QED BY <1>1, <1>2, <2>1 DEF MutexInv, PriorityRestored
<1>18. DirectInheritance'
  BY <1>1, <1>2, <1>6, <1>7 DEF MutexInv, NoInversion, DirectInheritance, InQueue
<1>19. CeilingReached'
  <2>1. \A x \in Mutex : holder[x] \in Thread => pc[holder[x]] # "raise_self"
    BY <1>4 DEF Undispatchable
  <2>2. \A x \in Mutex : holder[x] # NoThread => holder[x] \in Thread
    BY <1>3 DEF TypeOK
  <2> QED BY <1>1, <1>2, <2>1, <2>2 DEF MutexInv, NoInversion, CeilingReached
<1> QED BY <1>1, <1>3, <1>9, <1>10, <1>11, <1>12, <1>13, <1>14, <1>15, <1>16, <1>17, <1>18, <1>19
        DEF MutexInv, MutexConsistent, NoInversion

LEMMA EnqueueInv ==
  ASSUME MutexInv, NEW t \in Thread, Enqueue(t), UNCHANGED system
  PROVE  MutexInv'
<1> DEFINE m == want[t]
<1>1. /\ pc[t] = "enqueue" /\ Runs(t) /\ Goto(t, "wait")
      /\ order' = [order EXCEPT ![m] = Inserted(m, @, t, prio)]
      /\ want' \in {want, [want EXCEPT ![t] = NoMutex]}
      /\ UNCHANGED <<system, mutexVars, prioVars, resources, other>>
  BY DEF Enqueue, At
<1>2. Lent(t) /\ Seizing(t)
  BY <1>1 DEF Lent, Seizing
<1>3. m \in Mutex /\ holder[m] \in Thread \ {t}
  BY <1>2 DEF MutexInv, SectionsInv
<1>4. OwnersRelease /\ NewPriorities = {} => prio[holder[m]] <= prio[t]
  BY <1>2 DEF MutexInv, LentInv
<1> HIDE DEF m
<1> QED BY <1>1, <1>3, <1>4, WaitInv

\* The mutex has a holder: wait at once, or first look who is to be raised.
LEMMA SeizeWaitInv ==
  ASSUME MutexInv, NEW t \in Thread, NEW m \in Mutex, SeizeWait(t, m), UNCHANGED system
  PROVE  MutexInv'
<1>1. /\ pc[t] = "run" /\ Runs(t) /\ holder[m] \in Thread \ {t}
      /\ UNCHANGED <<system, mutexVars, prioVars, resources>>
  BY DEF SeizeWait, At, MutexInv, MutexConsistent, TypeOK
<1>2. CASE Discipline[m] # "inherit"
  <2>1. /\ Goto(t, "wait") /\ order' = [order EXCEPT ![m] = Inserted(m, @, t, prio)]
        /\ UNCHANGED <<want, other>>
    BY <1>2 DEF SeizeWait, localVars
  <2> QED BY <1>1, <1>2, <2>1, WaitInv
<1>3. CASE Discipline[m] = "inherit"
  <2>1. /\ pc' = [pc EXCEPT ![t] = "raise"] /\ want' = [want EXCEPT ![t] = m]
        /\ other' = [other EXCEPT ![t] = holder[m]]
        /\ UNCHANGED <<system, order, holder, nest, prio, real, hint, rq, change, resources>>
    BY <1>1, <1>3 DEF SeizeWait, Goto, mutexVars, prioVars
  <2>2. /\ Thread' = Thread /\ Mutex' = Mutex /\ Priorities' = Priorities
        /\ Discipline' = Discipline /\ Ceiling' = Ceiling /\ MaxNest' = MaxNest
        /\ NewPriorities' = NewPriorities /\ OwnersRelease' = OwnersRelease
    BY <2>1, SameSystem
  <2>3. TypeOK /\ NoThread \notin Thread
    BY SystemFacts DEF MutexInv, MutexConsistent
  <2>4. /\ change = NoChange /\ \A u \in Thread : pc[u] \in Undispatchable => u = t
    BY <1>1, RunsAlone
  <2>5. /\ pc'[t] = "raise" /\ want'[t] = m /\ other'[t] = holder[m]
        /\ \A u \in Thread : u # t => pc'[u] = pc[u] /\ want'[u] = want[u] /\ other'[u] = other[u]
    BY <2>1, <2>3 DEF TypeOK
  <2>6. TypeOK'
    BY <1>1, <2>1, <2>2, <2>3 DEF TypeOK
  <2>7. NoIdleMutex' /\ HoldersInv' /\ ResourcesCounted' /\ QueueInOrder' /\ SchedulerFollows'
    BY <2>1, <2>2 DEF MutexInv, MutexConsistent, NoIdleMutex, HoldersInv, ResourcesCounted,
                      QueueInOrder, SchedulerFollows, HasProtocol
  <2>8. QueuesInv'
    BY <1>1, <2>1, <2>2, <2>3 DEF MutexInv, QueuesInv, TypeOK
  <2>9. SectionsInv'
    <3>1. \A u \in Thread : pc'[u] \in Undispatchable => u = t
      BY <2>4, <2>5
    <3>2. \A u \in Thread : pc'[u] \in {"check", "restore"} => other'[u] \in Thread
      BY <2>1, <2>5 DEF MutexInv, SectionsInv
    <3>3. change'.by \notin Thread /\ ~change'.latest
      BY <2>1, <2>3, <2>4, NoChangeFields
    <3>4. \A u \in Thread : pc'[u] # "update" /\ pc'[u] # "raise_self"
      BY <2>5, <3>1 DEF Undispatchable
    <3>5. \A u \in Thread : (Seizing(u)' \/ pc'[u] = "raise") => u = t
      BY <3>1 DEF Seizing, Lent, Undispatchable
    <3>6. want'[t] \in Mutex /\ Discipline[want'[t]] = "inherit" /\ holder'[want'[t]] \in Thread \ {t}
          /\ other'[t] = holder'[want'[t]]
      BY <1>1, <1>3, <2>1, <2>5
    <3> QED BY <2>2, <3>1, <3>2, <3>3, <3>4, <3>5, <3>6 DEF SectionsInv
  <2>10. HintInv' /\ RaisedInv'
    BY <2>1, <2>2 DEF MutexInv, HintInv, RaisedInv
  <2>11. OwnInv' /\ LentInv'
    <3>1. \A u \in Thread : pc'[u] \in {"check", "restore"} => pc[u] = pc'[u] /\ u # t
      BY <2>5
    <3>2. \A u \in Thread : ~Lent(u)'
      BY <2>4, <2>5 DEF Lent, Undispatchable
    <3> QED BY <2>1, <2>2, <2>5, <3>1, <3>2 DEF MutexInv, OwnInv, LentInv
  <2>12. PriorityRestored'
    <3>1. \A u \in Thread : pc[u] \in {"check", "restore"} => pc'[u] = pc[u] /\ u # t
      BY <1>1, <2>5
    <3> QED BY <2>1, <2>2, <2>5, <3>1 DEF MutexInv, PriorityRestored
  <2>13. DirectInheritance'
    BY <2>1, <2>2 DEF MutexInv, NoInversion, DirectInheritance, InQueue
  <2>14. CeilingReached'
    <3>1. \A x \in Mutex : holder[x] \in Thread => pc[holder[x]] # "raise_self"
      BY <1>1, <2>4 DEF Undispatchable
    <3>2. \A x \in Mutex : holder[x] # NoThread => holder[x] \in Thread
      BY <2>3 DEF TypeOK
    <3> QED BY <2>1, <2>2, <3>1, <3>2 DEF MutexInv, NoInversion, CeilingReached
  <2> QED BY <2>1, <2>6, <2>7, <2>8, <2>9, <2>10, <2>11, <2>12, <2>13, <2>14
          DEF MutexInv, MutexConsistent, NoInversion
<1> QED BY <1>2, <1>3
\* What the callers of _Thread_Change_priority know about its filter, the hint and
\* their local variables when thread t gives u the priority p.
SoundChange(t, u, p, filter, hints, after) ==
  /\ real' \in [Thread -> Priorities]
  /\ \A x \in Thread : x # u => real'[x] = real[x] /\ hints[x] = hint[x]
  /\ want' \in [Thread -> Mutex \cup {NoMutex}] /\ other' \in [Thread -> Thread \cup {NoThread}]
  /\ \A x \in Thread : x # t => want'[x] = want[x] /\ other'[x] = other[x]
  /\ pc[t] = "restore" => other[t] = u
  /\ pc[t] = "raise_self" => u = t /\ p = Ceiling[want[t]] /\ (filter <=> prio[u] > p)
  /\ after = "enqueue" => /\ want'[t] \in Mutex /\ Discipline[want'[t]] = "inherit"
                          /\ holder[want'[t]] = u /\ u # t
                          /\ p = prio[t] /\ (filter <=> prio[u] > p)
  /\ hints[u] \/ (IF filter THEN p ELSE prio[u]) = real'[u]
  /\ NewPriorities = {} => real'[u] = real[u] /\ (filter => p <= real[u])
  /\ resources[u] = 0 => (IF filter THEN p ELSE prio[u]) = real'[u]
  /\ OwnersRelease /\ filter => p < prio[u] \/ resources[u] = 0
  /\ OwnersRelease /\ NewPriorities = {} /\ filter /\ resources[u] = 0 => u = t

\* The first section of _Thread_Change_priority, whoever called it.
LEMMA ChangeInv ==
  ASSUME MutexInv, NEW t \in Thread, Runs(t), pc[t] \in {"run", "raise_self", "raise", "restore"},
         NEW u \in Thread, NEW p \in Priorities, NEW filter \in BOOLEAN,
         NEW hints \in [Thread -> BOOLEAN], NEW after \in {"run", "enqueue"},
         ChangePriority(t, u, p, filter, hints, after),
         SoundChange(t, u, p, filter, hints, after),
         UNCHANGED <<system, mutexVars, resources>>
  PROVE  MutexInv'
<1> USE DEF SoundChange
<1>1. /\ hint' = hints
      /\ prio' = IF filter THEN [prio EXCEPT ![u] = p] ELSE prio
      /\ order' = IF filter THEN Requeued(order, u, prio') ELSE order
      /\ change' = IF filter THEN [by |-> t, thread |-> u, prio |-> p, latest |-> TRUE,
                                   after |-> after]
                   ELSE change
      /\ pc' = [pc EXCEPT ![t] = IF filter THEN "update" ELSE after]
      /\ UNCHANGED <<system, holder, nest, rq, resources>>
  BY DEF ChangePriority, Goto, mutexVars
<1>2. /\ Thread' = Thread /\ Mutex' = Mutex /\ Priorities' = Priorities
      /\ Discipline' = Discipline /\ Ceiling' = Ceiling /\ MaxNest' = MaxNest
      /\ NewPriorities' = NewPriorities /\ OwnersRelease' = OwnersRelease
  BY <1>1, SameSystem
<1>3. /\ TypeOK /\ NoThread \notin Thread /\ system \in Systems /\ Priorities \subseteq Nat
  BY SystemFacts DEF MutexInv, MutexConsistent
<1>4. /\ change = NoChange /\ \A x \in Thread : pc[x] \in Undispatchable => x = t
  BY RunsAlone
<1>5. /\ prio'[u] = (IF filter THEN p ELSE prio[u]) /\ prio' \in [Thread -> Priorities]
      /\ \A x \in Thread : x # u => prio'[x] = prio[x]
  BY <1>1, <1>3 DEF TypeOK
<1>6. /\ pc'[t] = (IF filter THEN "update" ELSE after)
      /\ \A x \in Thread : x # t => pc'[x] = pc[x]
  BY <1>1, <1>3 DEF TypeOK
<1>7. /\ order' \in [Mutex -> Seq(Thread)]
      /\ \A m \in Mutex : /\ ToSet(order'[m]) = ToSet(order[m])
                          /\ NoRepetition(order'[m])
                          /\ (Discipline[m] # "fifo" => InOrder(order'[m], prio'))
  <2>1. /\ order \in [Mutex -> Seq(Thread)] /\ \A m \in Mutex : NoRepetition(order[m])
        /\ \A m \in Mutex : Discipline[m] # "fifo" => InOrder(order[m], prio)
    BY <1>3 DEF MutexInv, MutexConsistent, TypeOK, QueuesInv, QueueInOrder
  <2>2. CASE ~filter
    BY <1>1, <2>1, <2>2
  <2>3. CASE filter
    <3>1. order' = Requeued(order, u, prio') /\ \A x \in Thread : x # u => prio[x] = prio'[x]
      BY <1>1, <1>5, <2>3
    <3>2. PICK g : g = prio'
      OBVIOUS
    <3>3. /\ Requeued(order, u, g) \in [Mutex -> Seq(Thread)]
          /\ \A m \in Mutex : /\ ToSet(Requeued(order, u, g)[m]) = ToSet(order[m])
                              /\ NoRepetition(Requeued(order, u, g)[m])
                              /\ (Discipline[m] # "fifo" => InOrder(Requeued(order, u, g)[m], g))
      <4>1. g \in [Thread -> Priorities] /\ \A x \in Thread : x # u => prio[x] = g[x]
        BY <1>5, <3>2
      <4> QED BY <1>3, <2>1, <4>1, RequeuedFacts
    <3> QED BY <3>1, <3>2, <3>3
  <2> QED BY <2>2, <2>3
<1>8. TypeOK'
  <2>1. change' \in {NoChange} \cup [by : Thread, thread : Thread, prio : Priorities,
                                 latest : BOOLEAN, after : {"run", "enqueue"}]
    BY <1>1, <1>3 DEF TypeOK
  <2>2. NoChange' = NoChange
    BY DEF NoChange
  <2> QED BY <1>1, <1>2, <1>3, <1>5, <1>7, <2>1, <2>2 DEF TypeOK
<1>9. NoIdleMutex' /\ HoldersInv' /\ ResourcesCounted'
  <2>1. \A m \in Mutex : order'[m] # <<>> => order[m] # <<>>
    BY <1>3, <1>7, ChainMembers DEF TypeOK
  <2>2. NoIdleMutex'
    BY <1>1, <1>2, <2>1 DEF MutexInv, MutexConsistent, NoIdleMutex
  <2>3. HoldersInv' /\ ResourcesCounted'
    BY <1>1, <1>2 DEF MutexInv, MutexConsistent, HoldersInv, ResourcesCounted, HasProtocol
  <2> QED BY <2>2, <2>3
<1>10. QueueInOrder'
  BY <1>2, <1>7 DEF QueueInOrder
<1>11. SchedulerFollows'
  <2>1. \A x \in Thread : rq[x] = prio[x]
    BY <1>4, NoChangeFields DEF MutexInv, MutexConsistent, SchedulerFollows
  <2>2. filter => change'.thread = u /\ change'.latest
    BY <1>1
  <2> QED BY <1>1, <1>2, <1>5, <2>1, <2>2 DEF SchedulerFollows
<1>12. QueuesInv'
  <2>1. \A m \in Mutex : t \notin ToSet(order[m])
    BY DEF MutexInv, QueuesInv
  <2>2. \A m \in Mutex : \A x \in ToSet(order[m]) : x \in Thread /\ pc'[x] = pc[x]
    BY <1>3, <1>6, <2>1, ChainMembers DEF TypeOK
  <2>3. ASSUME NEW m \in Mutex, NEW x \in ToSet(order'[m])
        PROVE  pc'[x] = "wait" /\ holder'[m] # x
    <3>1. x \in ToSet(order[m])
      BY <1>7
    <3>2. pc[x] = "wait" /\ holder[m] # x
      BY <3>1 DEF MutexInv, QueuesInv
    <3> QED BY <1>1, <2>2, <3>1, <3>2
  <2>4. ASSUME NEW m \in Mutex, NEW n \in Mutex, NEW x \in ToSet(order'[m]), x \in ToSet(order'[n])
        PROVE  n = m
    <3>1. x \in ToSet(order[m]) /\ x \in ToSet(order[n])
      BY <1>7, <2>4
    <3> QED BY <3>1 DEF MutexInv, QueuesInv
  <2>5. \A m \in Mutex : NoRepetition(order'[m])
    BY <1>7
  <2> QED BY <1>2, <2>3, <2>4, <2>5 DEF QueuesInv
<1>13. \A x \in Thread : /\ pc'[x] \in Undispatchable => x = t
                         /\ pc'[x] \notin {"raise", "raise_self"}
                         /\ pc'[x] \in {"check", "restore"} => x # t /\ pc'[x] = pc[x]
                         /\ Lent(x)' => x = t /\ after = "enqueue"
                         /\ Seizing(x)' => Lent(x)'
  <2>1. \A x \in Thread : /\ pc'[x] \in Undispatchable => x = t
                          /\ pc'[x] \notin {"raise", "raise_self"}
                          /\ pc'[x] \in {"check", "restore"} => x # t /\ pc'[x] = pc[x]
    BY <1>4, <1>6 DEF Undispatchable
  <2>2. \A x \in Thread : Lent(x)' => x = t
    BY <2>1 DEF Lent, Undispatchable
  <2>3. Lent(t)' => after = "enqueue"
    <3>1. CASE filter
      BY <1>1, <1>6, <3>1 DEF Lent
    <3>2. CASE ~filter
      BY <1>6, <3>2 DEF Lent
    <3> QED BY <3>1, <3>2
  <2> QED BY <2>1, <2>2, <2>3 DEF Seizing
<1>14. SectionsInv'
  <2>1. \A x \in Thread : pc'[x] = "update" <=> change'.by = x
    <3>1. CASE filter
      BY <1>1, <1>6, <1>13, <3>1 DEF Undispatchable
    <3>2. CASE ~filter
      BY <1>1, <1>3, <1>4, <1>6, <1>13, <3>2, NoChangeFields DEF Undispatchable
    <3> QED BY <3>1, <3>2
  <2>2. change'.latest => prio'[change'.thread] = change'.prio
    <3>1. CASE filter
      BY <1>1, <1>5, <3>1
    <3>2. CASE ~filter
      BY <1>1, <1>4, <3>2, NoChangeFields
    <3> QED BY <3>1, <3>2
  <2>3. \A x \in Thread : pc'[x] \in {"check", "restore"} => other'[x] \in Thread
    BY <1>13 DEF MutexInv, SectionsInv
  <2>4. \A x \in Thread : Seizing(x)' => /\ want'[x] \in Mutex /\ Discipline[want'[x]] = "inherit"
                                         /\ holder'[want'[x]] \in Thread \ {x}
    BY <1>1, <1>13
  <2> QED BY <1>2, <1>13, <2>1, <2>2, <2>3, <2>4 DEF SectionsInv
<1>15. HintInv'
  BY <1>1, <1>2, <1>5 DEF MutexInv, HintInv
<1>16. RaisedInv'
  BY <1>2, <1>5 DEF MutexInv, RaisedInv
<1>17. OwnInv'
  BY <1>1, <1>2, <1>13 DEF MutexInv, OwnInv
<1>18. LentInv'
  <2>1. after = "enqueue" => prio'[holder[want'[t]]] <= prio'[t]
    <3>1. prio[t] \in Nat /\ prio[u] \in Nat
      BY <1>3 DEF TypeOK
    <3> SUFFICES ASSUME after = "enqueue" PROVE prio'[u] <= prio'[t]
      OBVIOUS
    <3>2. prio'[t] = prio[t] /\ prio'[u] = (IF filter THEN prio[t] ELSE prio[u])
      BY <1>5
    <3>3. filter <=> prio[u] > prio[t]
      OBVIOUS
    <3> QED BY <3>1, <3>2, <3>3
  <2> QED BY <1>1, <1>2, <1>13, <2>1 DEF LentInv
<1>19. PriorityRestored'
  <2> SUFFICES ASSUME NEW x \in Thread, resources[x] = 0, prio'[x] # real'[x]
               PROVE  \E v \in Thread : pc'[v] \in {"check", "restore"} /\ other'[v] = x
    BY <1>1, <1>2 DEF PriorityRestored
  <2>1. x # u
    BY <1>5
  <2>2. PICK v \in Thread : pc[v] \in {"check", "restore"} /\ other[v] = x
    BY <1>5, <2>1 DEF MutexInv, PriorityRestored
  <2>3. v # t
    BY <2>1, <2>2
  <2> QED BY <1>6, <2>2, <2>3
<1>20. DirectInheritance'
  <2> SUFFICES ASSUME OwnersRelease, NewPriorities = {}, NEW m \in Mutex, NEW x \in Thread,
                      Discipline[m] = "inherit", resources[x] = 0, x \in ToSet(order[m])
               PROVE  prio'[holder[m]] <= prio'[x]
    <3>1. \A m \in Mutex, x \in Thread : InQueue(x, m)' => x \in ToSet(order[m])
      BY <1>7 DEF InQueue
    <3>2. holder' = holder /\ resources' = resources
      BY <1>1
    <3> QED BY <1>2, <3>1, <3>2 DEF DirectInheritance
  <2>1. prio[holder[m]] <= prio[x]
    BY DEF MutexInv, NoInversion, DirectInheritance, InQueue
  <2>2. holder[m] \in Thread
    <3>1. order[m] # <<>>
      BY EmptyChain
    <3>2. nest[m] > 0
      BY <3>1 DEF MutexInv, MutexConsistent, NoIdleMutex
    <3> QED BY <1>3, <3>2 DEF MutexInv, HoldersInv, TypeOK
  <2>3. resources[holder[m]] # 0
    BY <2>2, HoldersOwn DEF HasProtocol
  <2>4. x # t
    BY DEF MutexInv, QueuesInv
  <2>5. prio'[x] = prio[x]
    BY <1>5, <2>4
  <2>6. prio[holder[m]] \in Nat /\ prio[x] \in Nat /\ p \in Nat
    BY <1>3, <2>2 DEF TypeOK
  <2>7. prio'[holder[m]] <= prio[holder[m]] /\ prio'[holder[m]] \in Nat
    BY <1>5, <2>2, <2>3, <2>6
  <2> QED BY <2>1, <2>5, <2>6, <2>7
<1>21. CeilingReached'
  <2> SUFFICES ASSUME OwnersRelease, NEW m \in Mutex, Discipline[m] = "ceiling", holder[m] # NoThread
               PROVE  prio'[holder[m]] <= Ceiling[m]
    BY <1>1, <1>2 DEF CeilingReached
  <2> DEFINE h == holder[m]
  <2>1. h \in Thread
    BY <1>3 DEF TypeOK
  <2>2. resources[h] # 0
    BY <2>1, HoldersOwn DEF HasProtocol
  <2>3. prio[h] <= Ceiling[m] \/ (pc[h] = "raise_self" /\ want[h] = m)
    BY DEF MutexInv, NoInversion, CeilingReached
  <2>4. prio[h] \in Nat /\ p \in Nat /\ Ceiling[m] \in Nat
    BY <1>3, <2>1, SystemFacts DEF TypeOK
  <2>5. prio'[h] <= prio[h] /\ prio'[h] \in Nat
    BY <1>5, <2>1, <2>2, <2>4
  <2>6. CASE prio[h] <= Ceiling[m]
    BY <2>4, <2>5, <2>6
  <2>7. CASE pc[h] = "raise_self" /\ want[h] = m
    <3>1. h = t
      BY <1>4, <2>1, <2>7 DEF Undispatchable
    <3>2. u = t /\ p = Ceiling[m] /\ (filter <=> prio[h] > p)
      BY <2>7, <3>1
    <3>3. prio'[h] = (IF filter THEN p ELSE prio[h])
      BY <1>5, <3>1, <3>2
    <3>4. CASE filter
      BY <2>4, <3>2, <3>3, <3>4
    <3>5. CASE ~filter
      BY <2>4, <3>2, <3>3, <3>5
    <3> QED BY <3>4, <3>5
  <2> QED BY <2>3, <2>6, <2>7
<1> QED BY <1>1, <1>3, <1>8, <1>9, <1>10, <1>11, <1>12, <1>14, <1>15, <1>16, <1>17, <1>18, <1>19,
           <1>20, <1>21
        DEF MutexInv, MutexConsistent, NoInversion
\* The priority of a thread that holds mutexes is only made better.
LEMMA SetPriorityInv ==
  ASSUME MutexInv, NEW t \in Thread, NEW u \in Thread, NEW p \in NewPriorities,
         SetPriority(t, u, p), UNCHANGED system
  PROVE  MutexInv'
<1>1. TypeOK /\ system \in Systems /\ p \in Priorities
  BY SystemFacts DEF MutexInv, MutexConsistent
<1>2. PICK filter \in BOOLEAN : filter <=> (prio[u] > p \/ resources[u] = 0)
  OBVIOUS
<1>3. PICK hints : hints = [hint EXCEPT ![u] = TRUE]
  OBVIOUS
<1>4. /\ hints \in [Thread -> BOOLEAN] /\ hints[u] /\ \A x \in Thread : x # u => hints[x] = hint[x]
  BY <1>1, <1>3 DEF TypeOK
<1>5. ChangePriority(t, u, p, filter, hints, "run")
  BY <1>2, <1>3 DEF SetPriority, SetPriorityFilter, HintAfter, ChangePriority
<1>6. /\ pc[t] = "run" /\ Runs(t) /\ real' = [real EXCEPT ![u] = p]
      /\ UNCHANGED <<system, mutexVars, resources, want, other>>
  BY DEF SetPriority, At, localVars
<1>7. /\ real' \in [Thread -> Priorities] /\ real'[u] = p
      /\ \A x \in Thread : x # u => real'[x] = real[x]
  BY <1>1, <1>6 DEF TypeOK
<1>8. /\ want' \in [Thread -> Mutex \cup {NoMutex}] /\ other' \in [Thread -> Thread \cup {NoThread}]
      /\ \A x \in Thread : want'[x] = want[x] /\ other'[x] = other[x]
  BY <1>1, <1>6 DEF TypeOK
<1>9. /\ resources[u] = 0 => (IF filter THEN p ELSE prio[u]) = real'[u]
      /\ filter => p < prio[u] \/ resources[u] = 0
  <2>1. p \in Nat /\ prio[u] \in Nat
    BY <1>1, SystemFacts DEF TypeOK
  <2> QED BY <1>2, <1>7, <2>1
<1>10. NewPriorities # {}
  OBVIOUS
<1>11. hints[u] \/ (IF filter THEN p ELSE prio[u]) = real'[u]
  BY <1>4
<1>12. SoundChange(t, u, p, filter, hints, "run")
  BY <1>4, <1>6, <1>7, <1>8, <1>9, <1>10, <1>11 DEF SoundChange
<1> QED BY <1>1, <1>4, <1>5, <1>6, <1>12, ChangeInv

\* The thread that took a ceiling mutex raises itself.
LEMMA RaiseSelfInv ==
  ASSUME MutexInv, NEW t \in Thread, RaiseSelf(t), UNCHANGED system
  PROVE  MutexInv'
<1> DEFINE m == want[t]
           p == Ceiling[m]
<1>1. /\ pc[t] = "raise_self" /\ Runs(t) /\ want' = [want EXCEPT ![t] = NoMutex]
      /\ UNCHANGED <<system, mutexVars, real, resources, other>>
  BY DEF RaiseSelf, At
<1>2. m \in Mutex /\ Discipline[m] = "ceiling" /\ holder[m] = t
  BY <1>1 DEF MutexInv, SectionsInv
<1>3. TypeOK /\ system \in Systems /\ p \in Priorities /\ Priorities \subseteq Nat
  BY <1>2, SystemFacts DEF MutexInv, MutexConsistent
<1>4. resources[t] # 0
  BY <1>2, HoldersOwn DEF HasProtocol
<1>5. PICK filter \in BOOLEAN : filter <=> prio[t] > p
  OBVIOUS
<1>6. PICK hints : hints = [hint EXCEPT ![t] = TRUE]
  OBVIOUS
<1>7. /\ hints \in [Thread -> BOOLEAN] /\ hints[t] /\ \A x \in Thread : x # t => hints[x] = hint[x]
  BY <1>3, <1>6 DEF TypeOK
<1>8. ChangePriority(t, t, p, filter, hints, "run")
  BY <1>5, <1>6 DEF RaiseSelf, RaisePriority, HintAfter, ChangePriority
<1>9. real' \in [Thread -> Priorities] /\ \A x \in Thread : real'[x] = real[x]
  BY <1>1, <1>3 DEF TypeOK
<1>10. /\ want' \in [Thread -> Mutex \cup {NoMutex}] /\ other' \in [Thread -> Thread \cup {NoThread}]
       /\ \A x \in Thread : x # t => want'[x] = want[x] /\ other'[x] = other[x]
  BY <1>1, <1>3 DEF TypeOK
<1>11. /\ filter => p < prio[t]
       /\ NewPriorities = {} /\ filter => p <= real[t]
  <2>1. p \in Nat /\ prio[t] \in Nat /\ real[t] \in Nat
    BY <1>3 DEF TypeOK
  <2>2. NewPriorities = {} => prio[t] <= real[t]
    BY DEF MutexInv, RaisedInv
  <2> HIDE DEF p
  <2> QED BY <1>5, <2>1, <2>2
<1>12. p = Ceiling[want[t]]
  OBVIOUS
<1>13. /\ hints[t] \/ (IF filter THEN p ELSE prio[t]) = real'[t]
       /\ resources[t] = 0 => (IF filter THEN p ELSE prio[t]) = real'[t]
  BY <1>4, <1>7
<1> HIDE DEF m, p
<1>14. SoundChange(t, t, p, filter, hints, "run")
  BY <1>1, <1>4, <1>5, <1>7, <1>9, <1>10, <1>11, <1>12, <1>13 DEF SoundChange
<1> QED BY <1>1, <1>3, <1>7, <1>8, <1>14, ChangeInv

\* A thread that is about to wait lends its priority to the holder.
LEMMA RaiseHolderInv ==
  ASSUME MutexInv, NEW t \in Thread, RaiseHolder(t), UNCHANGED system
  PROVE  MutexInv'
<1>1. /\ pc[t] = "raise" /\ Runs(t) /\ other' = [other EXCEPT ![t] = NoThread]
      /\ UNCHANGED <<system, mutexVars, real, resources, want>>
  BY DEF RaiseHolder, At
<1>2. TypeOK /\ system \in Systems /\ Priorities \subseteq Nat
  BY SystemFacts DEF MutexInv, MutexConsistent
<1>3. PICK m \in Mutex : m = want[t] /\ Discipline[m] = "inherit"
  BY <1>1 DEF MutexInv, SectionsInv, Seizing
<1>4. PICK u \in Thread : u = other[t] /\ holder[m] = u /\ u # t
  BY <1>1, <1>3 DEF MutexInv, SectionsInv, Seizing
<1>5. PICK p \in Priorities : p = prio[t]
  BY <1>2 DEF TypeOK
<1>6. PICK filter \in BOOLEAN : filter <=> prio[u] > p
  OBVIOUS
<1>7. PICK hints : hints = [hint EXCEPT ![u] = TRUE]
  OBVIOUS
<1>8. /\ hints \in [Thread -> BOOLEAN] /\ hints[u] /\ \A x \in Thread : x # u => hints[x] = hint[x]
  BY <1>2, <1>7 DEF TypeOK
<1>9. ChangePriority(t, u, p, filter, hints, "enqueue")
  BY <1>4, <1>5, <1>6, <1>7 DEF RaiseHolder, RaisePriority, HintAfter, ChangePriority
<1>10. real' \in [Thread -> Priorities] /\ \A x \in Thread : real'[x] = real[x]
  BY <1>1, <1>2 DEF TypeOK
<1>11. /\ want' \in [Thread -> Mutex \cup {NoMutex}] /\ other' \in [Thread -> Thread \cup {NoThread}]
       /\ \A x \in Thread : x # t => want'[x] = want[x] /\ other'[x] = other[x]
  BY <1>1, <1>2 DEF TypeOK
<1>12. resources[u] # 0
  BY <1>3, <1>4, HoldersOwn DEF HasProtocol
<1>13. /\ filter => p < prio[u]
       /\ NewPriorities = {} => real'[u] = real[u] /\ (filter => p <= real[u])
  <2>1. p \in Nat /\ prio[u] \in Nat /\ real[u] \in Nat
    BY <1>2 DEF TypeOK
  <2>2. NewPriorities = {} => prio[u] <= real[u]
    BY DEF MutexInv, RaisedInv
  <2> QED BY <1>6, <1>10, <2>1, <2>2
<1>14. /\ want'[t] \in Mutex /\ Discipline[want'[t]] = "inherit" /\ holder[want'[t]] = u /\ u # t
       /\ p = prio[t] /\ (filter <=> prio[u] > p)
  BY <1>1, <1>3, <1>4, <1>5, <1>6
<1>15. hints[u] \/ (IF filter THEN p ELSE prio[u]) = real'[u]
  BY <1>8
<1>16. SoundChange(t, u, p, filter, hints, "enqueue")
  BY <1>1, <1>8, <1>10, <1>11, <1>12, <1>13, <1>14, <1>15 DEF SoundChange
<1> QED BY <1>1, <1>8, <1>9, <1>16, ChangeInv

\* The former holder gets its own priority back.
LEMMA RestoreInv ==
  ASSUME MutexInv, NEW t \in Thread, Restore(t), UNCHANGED system
  PROVE  MutexInv'
<1> DEFINE u == other[t]
           p == real[u]
<1>1. /\ pc[t] = "restore" /\ Runs(t) /\ other' = [other EXCEPT ![t] = NoThread]
      /\ UNCHANGED <<system, mutexVars, real, resources, want>>
  BY DEF Restore, At
<1>2. u \in Thread
  BY <1>1 DEF MutexInv, SectionsInv
<1>3. TypeOK /\ system \in Systems /\ p \in Priorities /\ Priorities \subseteq Nat
  BY <1>2, SystemFacts DEF MutexInv, MutexConsistent, TypeOK
<1>4. OwnersRelease => u = t /\ resources[u] = 0
  BY <1>1 DEF MutexInv, OwnInv
<1>5. PICK filter \in BOOLEAN : filter <=> p # prio[u]
  OBVIOUS
<1>6. PICK hints : hints = [hint EXCEPT ![u] = FALSE]
  OBVIOUS
<1>7. /\ hints \in [Thread -> BOOLEAN] /\ \A x \in Thread : x # u => hints[x] = hint[x]
  BY <1>2, <1>3, <1>6 DEF TypeOK
<1>8. ChangePriority(t, u, p, filter, hints, "run")
  BY <1>5, <1>6 DEF Restore, RestorePriority, ChangePriority
<1>9. /\ real' \in [Thread -> Priorities] /\ (\A x \in Thread : real'[x] = real[x])
      /\ real'[u] = p
  BY <1>1, <1>2, <1>3 DEF TypeOK
<1>10. /\ want' \in [Thread -> Mutex \cup {NoMutex}] /\ other' \in [Thread -> Thread \cup {NoThread}]
       /\ \A x \in Thread : x # t => want'[x] = want[x] /\ other'[x] = other[x]
  BY <1>1, <1>3 DEF TypeOK
<1>11. p \in Nat /\ p <= real[u]
  <2>1. p \in Nat /\ real[u] = p
    BY <1>3
  <2> HIDE DEF p, u
  <2> QED BY <2>1
<1>12. other[t] = u /\ (IF filter THEN p ELSE prio[u]) = real'[u]
  BY <1>5, <1>9
<1> HIDE DEF p, u
<1>13. SoundChange(t, u, p, filter, hints, "run")
  BY <1>1, <1>4, <1>7, <1>9, <1>10, <1>11, <1>12 DEF SoundChange
<1> QED BY <1>1, <1>2, <1>3, <1>7, <1>8, <1>13, ChangeInv
\* The thread a mutex goes to, and the queue it leaves.
LEMMA FirstFacts ==
  ASSUME MutexInv, NEW m \in Mutex, nest[m] # 0
  PROVE  /\ holder[m] \in Thread /\ First(m) \in Thread \cup {NoThread} /\ First(m) # holder[m]
         /\ First(m) = NoThread <=> order[m] = <<>>
         /\ First(m) \in Thread => /\ First(m) \in ToSet(order[m]) /\ pc[First(m)] = "wait"
                                   /\ First(m) = order[m][1]
<1>1. TypeOK /\ NoThread \notin Thread
  BY SystemFacts DEF MutexInv, MutexConsistent
<1>2. holder[m] \in Thread
  BY <1>1 DEF MutexInv, HoldersInv, TypeOK
<1>3. CASE order[m] = <<>>
  BY <1>1, <1>2, <1>3 DEF First
<1>4. CASE order[m] # <<>>
  <2>1. order[m] \in Seq(Thread) /\ 1 \in DOMAIN order[m] /\ Head(order[m]) = order[m][1]
    BY <1>1, <1>4 DEF TypeOK
  <2>2. First(m) = order[m][1] /\ order[m][1] \in ToSet(order[m]) /\ order[m][1] \in Thread
    BY <1>4, <2>1 DEF First, ToSet
  <2>3. pc[First(m)] = "wait" /\ holder[m] # First(m)
    BY <2>2 DEF MutexInv, QueuesInv
  <2> QED BY <1>1, <1>2, <1>4, <2>2, <2>3
<1> QED BY <1>3, <1>4

\* The queues once the first waiter for m, if there is one, is off its queue.
WithoutFirst(m) == [order EXCEPT ![m] = Extracted(@, First(m))]

\* What is left of the queues keeps its order and loses only that waiter.
LEMMA QueueLeft ==
  ASSUME MutexInv, NEW m \in Mutex, nest[m] # 0
  PROVE  /\ WithoutFirst(m) \in [Mutex -> Seq(Thread)]
         /\ \A x \in Mutex :
               /\ NoRepetition(WithoutFirst(m)[x])
               /\ ToSet(WithoutFirst(m)[x]) = ToSet(order[x]) \ {First(m)}
               /\ (Discipline[x] # "fifo" => InOrder(WithoutFirst(m)[x], prio))
<1> DEFINE w == First(m)
           q == WithoutFirst(m)
<1>1. /\ order \in [Mutex -> Seq(Thread)] /\ \A x \in Mutex : NoRepetition(order[x])
      /\ \A x \in Mutex : Discipline[x] # "fifo" => InOrder(order[x], prio)
  BY DEF MutexInv, MutexConsistent, TypeOK, QueuesInv, QueueInOrder
<1>2. /\ q \in [Mutex -> {q[x] : x \in Mutex}]
      /\ q[m] = Extracted(order[m], w) /\ \A x \in Mutex : x # m => q[x] = order[x]
  BY <1>1 DEF WithoutFirst
<1> HIDE DEF w, q
<1>3. CASE w \in Thread
  <2>1. /\ q[m] \in Seq(Thread) /\ NoRepetition(q[m]) /\ ToSet(q[m]) = ToSet(order[m]) \ {w}
    BY <1>1, <1>2, <1>3, ExtractedShrinks
  <2>2. Discipline[m] # "fifo" => InOrder(q[m], prio)
    BY <1>1, <1>2, <1>3, ExtractedInOrder
  <2>3. \A x \in Mutex : x # m => w \notin ToSet(order[x])
    BY <1>3, FirstFacts DEF MutexInv, QueuesInv, w
  <2> QED BY <1>1, <1>2, <2>1, <2>2, <2>3 DEF w, q
<1>4. CASE w \notin Thread
  <2>1. \A x \in Mutex : w \notin ToSet(order[x])
    BY <1>1, <1>4, ChainMembers
  <2>2. q[m] = order[m]
    BY <1>1, <1>2, <2>1, ExtractedNothing
  <2> QED BY <1>1, <1>2, <2>1, <2>2 DEF w, q
<1> QED BY <1>3, <1>4

\* A release that only counts down leaves everything else alone.
LEMMA SurrenderNestedInv ==
  ASSUME MutexInv, NEW m \in Mutex, SurrenderNested(m), UNCHANGED system
  PROVE  MutexInv'
<1>1. /\ nest[m] > 1 /\ nest' = [nest EXCEPT ![m] = @ - 1]
      /\ UNCHANGED <<system, holder, order, prio, real, hint, rq, change, resources, pc, want, other>>
  BY DEF SurrenderNested, prioVars, localVars
<1>2. /\ Thread' = Thread /\ Mutex' = Mutex /\ Priorities' = Priorities
      /\ Discipline' = Discipline /\ Ceiling' = Ceiling /\ MaxNest' = MaxNest
      /\ NewPriorities' = NewPriorities /\ OwnersRelease' = OwnersRelease
  BY SameSystem
<1>3. TypeOK /\ MaxNest \in Nat
  BY SystemFacts DEF MutexInv, MutexConsistent
<1>4. nest'[m] \in 1 .. MaxNest /\ nest[m] # 0
  BY <1>1, <1>3 DEF TypeOK
<1>5. TypeOK'
  BY <1>1, <1>2, <1>3, <1>4 DEF TypeOK
<1>6. NoIdleMutex' /\ HoldersInv'
  BY <1>1, <1>2, <1>3, <1>4 DEF MutexInv, MutexConsistent, NoIdleMutex, HoldersInv, TypeOK
<1>7. ResourcesCounted' /\ QueueInOrder' /\ SchedulerFollows'
  BY <1>1, <1>2 DEF MutexInv, MutexConsistent, ResourcesCounted, QueueInOrder, SchedulerFollows, HasProtocol
<1>8. QueuesInv' /\ SectionsInv' /\ HintInv' /\ RaisedInv'
  BY <1>1, <1>2 DEF MutexInv, QueuesInv, SectionsInv, HintInv, RaisedInv, Seizing, Lent
<1>9. OwnInv' /\ LentInv' /\ PriorityRestored' /\ NoInversion'
  BY <1>1, <1>2 DEF MutexInv, OwnInv, LentInv, Lent, PriorityRestored, NoInversion,
                    DirectInheritance, CeilingReached, InQueue
<1> QED BY <1>1, <1>5, <1>6, <1>7, <1>8, <1>9 DEF MutexInv, MutexConsistent
\* A thread gives the mutex to the first one that waits, and raises that one to
\* the ceiling in the same section.
LEMMA SurrenderInv ==
  ASSUME MutexInv, NEW t \in Thread, NEW m \in Mutex, Surrender(t, m), ~SurrenderNested(m),
         UNCHANGED system
  PROVE  MutexInv'
<1>1. PICK w : w = First(m)
  OBVIOUS
<1>2. PICK o : o = holder[m]
  OBVIOUS
<1>3. PICK raised \in BOOLEAN :
        raised <=> Discipline[m] = "ceiling" /\ w # NoThread /\ prio[w] > Ceiling[m]
  OBVIOUS
<1>4. /\ pc[t] = "run" /\ Runs(t) /\ nest[m] = 1 /\ (HasProtocol(m) => o = t)
      /\ holder' = [holder EXCEPT ![m] = w]
      /\ nest' = [nest EXCEPT ![m] = IF w = NoThread THEN 0 ELSE 1]
      /\ resources' = [u \in Thread |->
                         IF ~HasProtocol(m) THEN resources[u]
                         ELSE IF u = holder[m] THEN resources[u] - 1
                         ELSE IF u = w THEN resources[u] + 1 ELSE resources[u]]
  BY <1>1, <1>2 DEF Surrender, HandOver, At, MayRelease
<1>5. /\ TypeOK /\ system \in Systems /\ NoThread \notin Thread /\ Priorities \subseteq Nat
      /\ MaxNest \in Nat /\ MaxNest >= 1
  BY SystemFacts DEF MutexInv, MutexConsistent
<1>6. holder'[m] = w
  BY <1>4, <1>5 DEF TypeOK
<1>7. /\ order' = [order EXCEPT ![m] = Extracted(@, w)]
      /\ pc' = [u \in Thread |-> IF u = t THEN "check" ELSE IF u = w THEN "run" ELSE pc[u]]
      /\ other' = [other EXCEPT ![t] = o]
      /\ prio' = [u \in Thread |-> IF raised /\ u = w THEN Ceiling[m] ELSE prio[u]]
      /\ rq' = [u \in Thread |-> IF raised /\ u = w THEN Ceiling[m] ELSE rq[u]]
      /\ hint' = IF Discipline[m] = "ceiling" /\ w # NoThread
                 THEN [hint EXCEPT ![w] = TRUE] ELSE hint
      /\ UNCHANGED <<system, real, change, want>>
  BY <1>2, <1>3, <1>6 DEF Surrender, CeilingRaises, HintAfter
<1>8. /\ Thread' = Thread /\ Mutex' = Mutex /\ Priorities' = Priorities
      /\ Discipline' = Discipline /\ Ceiling' = Ceiling /\ MaxNest' = MaxNest
      /\ NewPriorities' = NewPriorities /\ OwnersRelease' = OwnersRelease
  BY SameSystem
<1>9. /\ change = NoChange /\ \A u \in Thread : pc[u] \notin Undispatchable
  BY <1>4, RunsAlone DEF Undispatchable
<1>10. /\ o \in Thread /\ w \in Thread \cup {NoThread} /\ w # o
       /\ (w = NoThread <=> order[m] = <<>>)
       /\ (w \in Thread => w \in ToSet(order[m]) /\ pc[w] = "wait" /\ w # t /\ w = order[m][1])
  BY <1>1, <1>2, <1>4, FirstFacts
<1>11. /\ order' \in [Mutex -> Seq(Thread)]
       /\ \A x \in Mutex : /\ NoRepetition(order'[x]) /\ ToSet(order'[x]) = ToSet(order[x]) \ {w}
                           /\ (Discipline[x] # "fifo" => InOrder(order'[x], prio))
  <2>1. order' = WithoutFirst(m) /\ nest[m] # 0
    BY <1>1, <1>4, <1>7 DEF WithoutFirst
  <2> QED BY <1>1, <2>1, QueueLeft
<1>12. /\ pc'[t] = "check" /\ other'[t] = o
       /\ (\A u \in Thread : u # t => other'[u] = other[u])
       /\ (w \in Thread => pc'[w] = "run")
       /\ \A u \in Thread : u \notin {t, w} => pc'[u] = pc[u]
  BY <1>5, <1>7, <1>10 DEF TypeOK
<1>13. /\ \A u \in Thread : ~(raised /\ u = w) => prio'[u] = prio[u] /\ rq'[u] = rq[u]
       /\ raised => w \in Thread /\ prio'[w] = Ceiling[m] /\ rq'[w] = Ceiling[m]
       /\ Ceiling[m] \in Nat /\ Ceiling[m] \in Priorities
       /\ prio \in [Thread -> Nat] /\ real \in [Thread -> Nat]
  <2>1. Ceiling[m] \in Nat /\ Ceiling[m] \in Priorities
    BY <1>5, SystemFacts
  <2>2. prio \in [Thread -> Nat] /\ real \in [Thread -> Nat]
    BY <1>5 DEF TypeOK
  <2>3. raised => w \in Thread
    BY <1>3, <1>10
  <2> QED BY <1>7, <2>1, <2>2, <2>3
<1>14. resources' \in [Thread -> Nat] /\ ResourcesCounted'
  <2>1. ResourcesCounted /\ resources \in [Thread -> Nat]
        /\ holder \in [Mutex -> Thread \cup {NoThread}] /\ w # holder[m]
    BY <1>2, <1>5, <1>10 DEF MutexInv, MutexConsistent, TypeOK
  <2> QED BY <1>4, <1>5, <1>10, <2>1, HandedOver
<1>15. /\ \A u \in Thread : u \notin {o, w} => resources'[u] = resources[u]
       /\ w \in Thread /\ HasProtocol(m) => resources'[w] # 0
       /\ ~HasProtocol(m) => \A u \in Thread : resources'[u] = resources[u]
  <2>1. w \in Thread => resources[w] \in Nat
    BY <1>5 DEF TypeOK
  <2> QED BY <1>2, <1>4, <1>10, <2>1
<1>16. raised => HasProtocol(m)
  BY <1>3 DEF HasProtocol
<1>17. TypeOK'
  <2>1. prio' \in [Thread -> Priorities] /\ rq' \in [Thread -> Priorities]
    BY <1>5, <1>7, <1>13 DEF TypeOK
  <2>2. hint' \in [Thread -> BOOLEAN]
    BY <1>5, <1>7 DEF TypeOK
  <2>3. holder' \in [Mutex -> Thread \cup {NoThread}] /\ nest' \in [Mutex -> 0 .. MaxNest]
    BY <1>4, <1>5, <1>10 DEF TypeOK
  <2>4. pc' \in [Thread -> {"run", "raise", "raise_self", "update", "enqueue", "wait",
                        "check", "restore", "asleep", "flush"}]
        /\ other' \in [Thread -> Thread \cup {NoThread}]
    BY <1>5, <1>7, <1>10 DEF TypeOK
  <2>5. NoChange' = NoChange
    BY DEF NoChange
  <2> QED BY <1>5, <1>7, <1>8, <1>11, <1>14, <2>1, <2>2, <2>3, <2>4, <2>5 DEF TypeOK
<1>18. NoIdleMutex' /\ HoldersInv'
  <2>1. \A x \in Mutex : order'[x] # <<>> => order[x] # <<>>
    BY <1>5, <1>11, ChainMembers DEF TypeOK
  <2>2. /\ nest'[m] = (IF w = NoThread THEN 0 ELSE 1)
        /\ \A x \in Mutex : x # m => nest'[x] = nest[x] /\ holder'[x] = holder[x]
    BY <1>4, <1>5 DEF TypeOK
  <2>3. NoIdleMutex'
    BY <1>8, <1>10, <2>1, <2>2 DEF MutexInv, MutexConsistent, NoIdleMutex
  <2>4. HoldersInv'
    BY <1>6, <1>8, <2>2 DEF MutexInv, HoldersInv
  <2> QED BY <2>3, <2>4
<1>19. QueueInOrder'
  <2> SUFFICES ASSUME NEW x \in Mutex, Discipline[x] # "fifo" PROVE InOrder(order'[x], prio')
    BY <1>8 DEF QueueInOrder
  <2>1. \A y \in ToSet(order'[x]) : prio[y] = prio'[y]
    <3>1. order'[x] \in Seq(Thread) /\ ToSet(order'[x]) = ToSet(order[x]) \ {w}
      BY <1>11
    <3>2. ToSet(order'[x]) \subseteq Thread
      BY <3>1, ChainMembers
    <3> QED BY <1>13, <3>1, <3>2
  <2>2. PICK g : g = prio'
    OBVIOUS
  <2>3. PICK s : s = order'[x]
    OBVIOUS
  <2>4. s \in Seq(Thread) /\ InOrder(s, prio) /\ \A y \in ToSet(s) : prio[y] = g[y]
    BY <1>11, <2>1, <2>2, <2>3
  <2>5. InOrder(s, g)
    BY <2>4, InOrderAgrees
  <2> QED BY <2>2, <2>3, <2>5
<1>20. SchedulerFollows'
  <2>1. \A u \in Thread : rq[u] = prio[u]
    BY <1>9, NoChangeFields DEF MutexInv, MutexConsistent, SchedulerFollows
  <2> QED BY <1>8, <1>13, <2>1 DEF SchedulerFollows
<1>21. QueuesInv'
  <2>1. \A x \in Mutex : \A u \in ToSet(order'[x]) : u \in ToSet(order[x]) /\ u \in Thread /\ u # w
    BY <1>5, <1>11, ChainMembers DEF TypeOK
  <2>2. \A x \in Mutex : \A u \in ToSet(order'[x]) : pc[u] = "wait" /\ holder[x] # u
    BY <2>1 DEF MutexInv, QueuesInv
  <2>3. ASSUME NEW x \in Mutex, NEW u \in ToSet(order'[x])
        PROVE  pc'[u] = "wait" /\ holder'[x] # u
    <3>1. u \in Thread /\ u # w /\ u # t
      BY <1>4, <2>1, <2>2
    <3>2. holder'[x] \in {w, holder[x]}
      BY <1>4, <1>5 DEF TypeOK
    <3> QED BY <1>12, <2>2, <3>1, <3>2
  <2>4. ASSUME NEW x \in Mutex, NEW n \in Mutex, NEW u \in ToSet(order'[x]), u \in ToSet(order'[n])
        PROVE  n = x
    BY <2>1, <2>4 DEF MutexInv, QueuesInv
  <2>5. \A x \in Mutex : NoRepetition(order'[x])
    BY <1>11
  <2> QED BY <1>8, <2>3, <2>4, <2>5 DEF QueuesInv
<1>22. \A u \in Thread : pc'[u] \notin Undispatchable /\ ~Lent(u)' /\ ~Seizing(u)'
  <2>1. \A u \in Thread : pc'[u] \notin Undispatchable
    BY <1>7, <1>9 DEF Undispatchable
  <2> QED BY <2>1 DEF Seizing, Lent, Undispatchable
<1>23. SectionsInv'
  <2>1. change'.by \notin Thread /\ ~change'.latest
    BY <1>5, <1>7, <1>9, NoChangeFields
  <2>2. \A u \in Thread : pc'[u] \in {"check", "restore"} => other'[u] \in Thread
    BY <1>10, <1>12 DEF MutexInv, SectionsInv
  <2>3. \A u \in Thread : pc'[u] \notin {"raise", "raise_self", "update"}
    BY <1>22 DEF Undispatchable
  <2> QED BY <1>8, <1>22, <2>1, <2>2, <2>3 DEF SectionsInv
<1>24. HintInv'
  <2>1. \A u \in Thread : (hint[u] => hint'[u]) /\ (raised /\ u = w => hint'[u])
    BY <1>3, <1>5, <1>7 DEF TypeOK
  <2> QED BY <1>7, <1>8, <1>13, <2>1 DEF MutexInv, HintInv
<1>25. RaisedInv'
  <2> SUFFICES ASSUME NewPriorities = {}, NEW u \in Thread PROVE prio'[u] <= real[u]
    BY <1>7, <1>8 DEF RaisedInv
  <2>1. prio[u] <= real[u]
    BY DEF MutexInv, RaisedInv
  <2> QED BY <1>3, <1>13, <2>1
<1>26. OwnInv'
  <2>1. ASSUME OwnersRelease PROVE HasProtocol(m)
    BY <2>1 DEF OwnersRelease
  <2>2. \A u \in Thread : pc'[u] \in {"check", "restore"} => u = t \/ (u \notin {t, w} /\ pc'[u] = pc[u])
    BY <1>12
  <2>3. \A u \in Thread : pc'[u] = "restore" => u \notin {t, w} /\ pc[u] = "restore"
    BY <1>12
  <2> QED BY <1>4, <1>8, <1>12, <1>15, <2>1, <2>2, <2>3 DEF MutexInv, OwnInv
<1>27. LentInv'
  BY <1>8, <1>22 DEF LentInv
<1>28. PriorityRestored'
  <2> SUFFICES ASSUME NEW x \in Thread, resources'[x] = 0, prio'[x] # real[x]
               PROVE  \E v \in Thread : pc'[v] \in {"check", "restore"} /\ other'[v] = x
    BY <1>7, <1>8 DEF PriorityRestored
  <2>1. CASE x = o
    BY <1>12, <2>1
  <2>2. CASE x # o
    <3>1. prio'[x] = prio[x]
      BY <1>13, <1>15, <1>16
    <3>2. resources[x] = 0
      BY <1>15, <2>2
    <3>3. PICK v \in Thread : pc[v] \in {"check", "restore"} /\ other[v] = x
      BY <3>1, <3>2 DEF MutexInv, PriorityRestored
    <3>4. v # t /\ v # w
      BY <1>4, <1>10, <3>3
    <3> QED BY <1>12, <3>3, <3>4
  <2> QED BY <2>1, <2>2
<1>29. \A u \in Thread : prio'[u] <= prio[u] /\ prio'[u] \in Nat /\ prio[u] \in Nat
  BY <1>3, <1>13
<1>30. DirectInheritance'
  <2> SUFFICES ASSUME OwnersRelease, NewPriorities = {}, NEW x \in Mutex, NEW y \in Thread,
                      Discipline[x] = "inherit", resources'[y] = 0, y \in ToSet(order'[x])
               PROVE  prio'[holder'[x]] <= prio'[y]
    BY <1>8 DEF DirectInheritance, InQueue
  <2>1. y \in ToSet(order[x]) /\ y # w
    BY <1>11
  <2>2. y # t /\ pc[y] = "wait"
    BY <1>4, <2>1 DEF MutexInv, QueuesInv
  <2>3. prio'[y] = prio[y]
    BY <1>13, <2>1
  <2>4. CASE x = m
    <3>1. w \in Thread
      BY <1>10, <2>1, <2>4, EmptyChain
    <3>2. PICK j \in DOMAIN order[m] : order[m][j] = y
      BY <2>1, <2>4 DEF ToSet
    <3>3. order[m] \in Seq(Thread) /\ InOrder(order[m], prio)
      BY <1>5, <2>4 DEF MutexInv, MutexConsistent, TypeOK, QueueInOrder
    <3>4. 1 \in DOMAIN order[m] /\ 1 <= j /\ j # 1
      BY <1>10, <2>1, <3>1, <3>2, <3>3
    <3>5. prio[w] <= prio[y]
      BY <1>10, <3>1, <3>2, <3>3, <3>4 DEF InOrder
    <3> QED BY <1>6, <1>29, <2>3, <2>4, <3>1, <3>5
  <2>5. CASE x # m
    <3>1. holder'[x] = holder[x]
      BY <1>4, <1>5, <2>5 DEF TypeOK
    <3>2. holder[x] \in Thread
      <4>1. order[x] # <<>>
        BY <2>1, EmptyChain
      <4>2. nest[x] > 0
        BY <4>1 DEF MutexInv, MutexConsistent, NoIdleMutex
      <4>3. nest[x] \in Nat
        BY <1>5 DEF TypeOK
      <4>4. nest[x] # 0
        BY <4>2, <4>3
      <4> QED BY <4>4, FirstFacts
    <3>3. resources[y] = 0
      <4>1. HasProtocol(m)
        BY DEF OwnersRelease
      <4> QED BY <1>4, <1>15, <2>1, <2>2, <4>1
    <3>4. prio[holder[x]] <= prio[y]
      BY <2>1, <3>3 DEF MutexInv, NoInversion, DirectInheritance, InQueue
    <3> QED BY <1>29, <2>3, <3>1, <3>2, <3>4
  <2> QED BY <2>4, <2>5
<1>31. CeilingReached'
  <2> SUFFICES ASSUME OwnersRelease, NEW x \in Mutex, Discipline[x] = "ceiling", holder'[x] # NoThread
               PROVE  prio'[holder'[x]] <= Ceiling[x]
    BY <1>8 DEF CeilingReached
  <2>1. CASE x = m
    <3>1. w \in Thread
      BY <1>6, <1>10, <2>1
    <3> QED BY <1>3, <1>5, <1>6, <1>13, <2>1, <3>1
  <2>2. CASE x # m
    <3>1. holder'[x] = holder[x] /\ holder[x] \in Thread
      BY <1>4, <1>5, <2>2 DEF TypeOK
    <3>2. pc[holder[x]] # "raise_self"
      BY <1>9, <3>1 DEF Undispatchable
    <3>3. prio[holder[x]] <= Ceiling[x]
      BY <3>1, <3>2 DEF MutexInv, NoInversion, CeilingReached
    <3>4. Ceiling[x] \in Nat
      BY <1>5, SystemFacts
    <3> QED BY <1>29, <3>1, <3>3, <3>4
  <2> QED BY <2>1, <2>2
<1> QED BY <1>5, <1>7, <1>14, <1>17, <1>18, <1>19, <1>20, <1>21, <1>23, <1>24, <1>25, <1>26, <1>27,
           <1>28, <1>30, <1>31
        DEF MutexInv, MutexConsistent, NoInversion
\* The whole surrender of a mutex without a protocol in an interrupt handler, in
\* whatever section the interrupted thread is.
LEMMA IsrSurrenderInv ==
  ASSUME MutexInv, NEW m \in Mutex, IsrSurrender(m), ~SurrenderNested(m), UNCHANGED system
  PROVE  MutexInv'
<1>1. PICK w : w = First(m)
  OBVIOUS
<1>2. PICK h : h = holder[m]
  OBVIOUS
<1>3. PICK restores \in BOOLEAN : restores <=> nest[m] = 1 /\ resources[h] = 0 /\ hint[h]
  OBVIOUS
<1>4. PICK changes \in BOOLEAN : changes <=> restores /\ real[h] # prio[h]
  OBVIOUS
<1>5. PICK q : q = [order EXCEPT ![m] = Extracted(@, w)]
  OBVIOUS
<1>6. /\ nest[m] = 1 /\ ~HasProtocol(m)
      /\ holder' = [holder EXCEPT ![m] = w]
      /\ nest' = [nest EXCEPT ![m] = IF w = NoThread THEN 0 ELSE 1]
      /\ resources' = [u \in Thread |-> resources[u]]
  BY <1>1 DEF IsrSurrender, HandOver, MayIsrRelease
<1>7. /\ pc' = [u \in Thread |-> IF u = w THEN "run" ELSE pc[u]]
      /\ hint' = IF restores THEN [hint EXCEPT ![h] = FALSE] ELSE hint
      /\ prio' = IF changes THEN [prio EXCEPT ![h] = real[h]] ELSE prio
      /\ rq' = IF changes THEN [rq EXCEPT ![h] = real[h]] ELSE rq
      /\ order' = IF changes THEN Requeued(q, h, prio') ELSE q
      /\ change' = IF changes /\ change.thread = h
                   THEN [change EXCEPT !.latest = FALSE] ELSE change
      /\ UNCHANGED <<system, real, want, other>>
  BY <1>1, <1>2, <1>3, <1>4, <1>5 DEF IsrSurrender, localVars
<1>8. /\ Thread' = Thread /\ Mutex' = Mutex /\ Priorities' = Priorities
      /\ Discipline' = Discipline /\ Ceiling' = Ceiling /\ MaxNest' = MaxNest
      /\ NewPriorities' = NewPriorities /\ OwnersRelease' = OwnersRelease
  BY SameSystem
<1>9. /\ TypeOK /\ system \in Systems /\ NoThread \notin Thread /\ Priorities \subseteq Nat
      /\ MaxNest \in Nat /\ MaxNest >= 1 /\ ~OwnersRelease
  BY <1>6, SystemFacts DEF MutexInv, MutexConsistent, OwnersRelease
<1>10. /\ h \in Thread /\ w \in Thread \cup {NoThread} /\ w # h
       /\ (w = NoThread <=> order[m] = <<>>)
       /\ (w \in Thread => w \in ToSet(order[m]) /\ pc[w] = "wait")
  BY <1>1, <1>2, <1>6, FirstFacts
<1>11. /\ prio' \in [Thread -> Priorities] /\ (\A u \in Thread : u # h => prio'[u] = prio[u] /\ rq'[u] = rq[u])
       /\ (changes => prio'[h] = real[h] /\ rq'[h] = real[h])
       /\ (~changes => prio' = prio /\ rq' = rq)
       /\ (restores => prio'[h] = real[h])
  BY <1>4, <1>7, <1>9, <1>10 DEF TypeOK
<1>12. /\ q \in [Mutex -> Seq(Thread)]
       /\ \A x \in Mutex : /\ NoRepetition(q[x]) /\ ToSet(q[x]) = ToSet(order[x]) \ {w}
                           /\ (Discipline[x] # "fifo" => InOrder(q[x], prio))
  <2>1. q = WithoutFirst(m) /\ nest[m] # 0
    BY <1>1, <1>5, <1>6 DEF WithoutFirst
  <2> QED BY <1>1, <2>1, QueueLeft
<1>13. /\ order' \in [Mutex -> Seq(Thread)]
       /\ \A x \in Mutex : /\ NoRepetition(order'[x]) /\ ToSet(order'[x]) = ToSet(order[x]) \ {w}
                           /\ (Discipline[x] # "fifo" => InOrder(order'[x], prio'))
  <2>1. CASE ~changes
    BY <1>7, <1>12, <2>1
  <2>2. CASE changes
    <3>1. PICK g : g = prio'
      OBVIOUS
    <3>2. g \in [Thread -> Priorities] /\ \A x \in Thread : x # h => prio[x] = g[x]
      BY <1>11, <3>1
    <3>3. /\ Requeued(q, h, g) \in [Mutex -> Seq(Thread)]
          /\ \A x \in Mutex : /\ ToSet(Requeued(q, h, g)[x]) = ToSet(q[x])
                              /\ NoRepetition(Requeued(q, h, g)[x])
                              /\ (Discipline[x] # "fifo" => InOrder(Requeued(q, h, g)[x], g))
      BY <1>9, <1>10, <1>12, <3>2, RequeuedFacts
    <3>4. order' = Requeued(q, h, g)
      BY <1>7, <2>2, <3>1
    <3> QED BY <1>12, <3>1, <3>3, <3>4
  <2> QED BY <2>1, <2>2
<1>14. /\ (w \in Thread => pc'[w] = "run") /\ \A u \in Thread : u # w => pc'[u] = pc[u]
  BY <1>7
<1>15. /\ change'.by = change.by /\ change'.thread = change.thread /\ change'.after = change.after
       /\ (change'.latest => change.latest /\ ~(changes /\ change.thread = h))
       /\ (change.thread # h => change' = change)
       /\ change' \in {NoChange} \cup [by : Thread, thread : Thread, prio : Priorities,
                                       latest : BOOLEAN, after : {"run", "enqueue"}]
  <2>1. change \in {NoChange} \cup [by : Thread, thread : Thread, prio : Priorities,
                                 latest : BOOLEAN, after : {"run", "enqueue"}]
    BY <1>9 DEF TypeOK
  <2>2. CASE changes /\ change.thread = h
    <3>1. change # NoChange
      BY <1>9, <1>10, <2>2, NoChangeFields
    <3>2. change \in [by : Thread, thread : Thread, prio : Priorities,
                      latest : BOOLEAN, after : {"run", "enqueue"}]
      BY <2>1, <3>1
    <3> QED BY <1>7, <2>2, <3>2
  <2>3. CASE ~(changes /\ change.thread = h)
    BY <1>7, <2>1, <2>3
  <2> QED BY <2>2, <2>3
<1>16. resources' = resources
  BY <1>6, <1>9 DEF TypeOK
<1>17. /\ holder'[m] = w /\ nest'[m] = (IF w = NoThread THEN 0 ELSE 1)
       /\ \A x \in Mutex : x # m => nest'[x] = nest[x] /\ holder'[x] = holder[x]
  BY <1>6, <1>9 DEF TypeOK
<1>18. TypeOK'
  <2>1. rq' \in [Thread -> Priorities] /\ hint' \in [Thread -> BOOLEAN]
    BY <1>7, <1>9, <1>10 DEF TypeOK
  <2>2. holder' \in [Mutex -> Thread \cup {NoThread}] /\ nest' \in [Mutex -> 0 .. MaxNest]
    BY <1>6, <1>9, <1>10 DEF TypeOK
  <2>3. pc' \in [Thread -> {"run", "raise", "raise_self", "update", "enqueue", "wait",
                        "check", "restore", "asleep", "flush"}]
    BY <1>7, <1>9 DEF TypeOK
  <2>4. NoChange' = NoChange
    BY DEF NoChange
  <2> QED BY <1>7, <1>8, <1>9, <1>11, <1>13, <1>15, <1>16, <2>1, <2>2, <2>3, <2>4 DEF TypeOK
<1>19. NoIdleMutex' /\ HoldersInv'
  <2>1. \A x \in Mutex : order'[x] # <<>> => order[x] # <<>>
    BY <1>9, <1>13, ChainMembers DEF TypeOK
  <2>2. NoIdleMutex'
    BY <1>8, <1>10, <1>17, <2>1 DEF MutexInv, MutexConsistent, NoIdleMutex
  <2>3. HoldersInv'
    BY <1>8, <1>17 DEF MutexInv, HoldersInv
  <2> QED BY <2>2, <2>3
<1>20. ResourcesCounted'
  <2>1. \A u \in Thread : {x \in Mutex : HasProtocol(x)' /\ holder'[x] = u}
                        = {x \in Mutex : HasProtocol(x) /\ holder[x] = u}
    BY <1>6, <1>8, <1>17 DEF HasProtocol
  <2> QED BY <1>8, <1>16, <2>1 DEF MutexInv, MutexConsistent, ResourcesCounted
<1>21. QueueInOrder'
  BY <1>8, <1>13 DEF QueueInOrder
<1>22. SchedulerFollows'
  <2> SUFFICES ASSUME NEW u \in Thread
               PROVE  rq'[u] = prio'[u] \/ (change'.thread = u /\ change'.latest)
    BY <1>8 DEF SchedulerFollows
  <2>1. rq[u] = prio[u] \/ (change.thread = u /\ change.latest)
    BY DEF MutexInv, MutexConsistent, SchedulerFollows
  <2>2. CASE u = h /\ changes
    BY <1>11, <2>2
  <2>3. CASE u = h /\ ~changes
    BY <1>7, <1>11, <2>1, <2>3
  <2>4. CASE u # h
    BY <1>11, <1>15, <2>1, <2>4
  <2> QED BY <2>2, <2>3, <2>4
<1>23. QueuesInv'
  <2>1. \A x \in Mutex : \A u \in ToSet(order'[x]) : u \in ToSet(order[x]) /\ u \in Thread /\ u # w
    BY <1>9, <1>13, ChainMembers DEF TypeOK
  <2>2. \A x \in Mutex : \A u \in ToSet(order'[x]) : pc[u] = "wait" /\ holder[x] # u
    BY <2>1 DEF MutexInv, QueuesInv
  <2>3. ASSUME NEW x \in Mutex, NEW u \in ToSet(order'[x])
        PROVE  pc'[u] = "wait" /\ holder'[x] # u
    BY <1>14, <1>17, <2>1, <2>2
  <2>4. ASSUME NEW x \in Mutex, NEW n \in Mutex, NEW u \in ToSet(order'[x]), u \in ToSet(order'[n])
        PROVE  n = x
    BY <2>1, <2>4 DEF MutexInv, QueuesInv
  <2>5. \A x \in Mutex : NoRepetition(order'[x])
    BY <1>13
  <2> QED BY <1>8, <2>3, <2>4, <2>5 DEF QueuesInv
<1>24. \A u \in Thread : /\ pc'[u] \in Undispatchable \cup {"check", "restore"} => pc'[u] = pc[u]
                         /\ pc[u] \in Undispatchable \cup {"check", "restore"} => pc'[u] = pc[u]
                         /\ Seizing(u)' => Seizing(u)
  <2>1. \A u \in Thread : /\ pc'[u] \in Undispatchable \cup {"check", "restore"} => pc'[u] = pc[u]
                          /\ pc[u] \in Undispatchable \cup {"check", "restore"} => pc'[u] = pc[u]
    BY <1>10, <1>14 DEF Undispatchable
  <2> QED BY <1>15, <2>1 DEF Seizing, Lent, Undispatchable
<1>25. SectionsInv'
  <2>1. \A u, v \in Thread : pc'[u] \in Undispatchable /\ pc'[v] \in Undispatchable => u = v
    BY <1>24 DEF MutexInv, SectionsInv
  <2>2. \A u \in Thread : pc'[u] = "update" <=> change'.by = u
    BY <1>15, <1>24 DEF MutexInv, SectionsInv, Undispatchable
  <2>3. change'.latest => prio'[change'.thread] = change'.prio
    <3> SUFFICES ASSUME change'.latest PROVE prio'[change.thread] = change'.prio
      BY <1>15
    <3>1. change' = change /\ ~(changes /\ change.thread = h)
      BY <1>7, <1>15
    <3>2. prio[change.thread] = change.prio
      BY <1>15 DEF MutexInv, SectionsInv
    <3>3. change.thread \in Thread
      BY <1>9, <1>15, NoChangeFields DEF TypeOK
    <3>4. prio'[change.thread] = prio[change.thread]
      BY <1>11, <3>1, <3>3
    <3> QED BY <3>1, <3>2, <3>4
  <2>4. \A u \in Thread : Seizing(u)' =>
          /\ want[u] \in Mutex /\ Discipline[want[u]] = "inherit" /\ holder[want[u]] \in Thread \ {u}
    BY <1>24 DEF MutexInv, SectionsInv
  <2>5. Discipline[m] # "inherit" /\ Discipline[m] # "ceiling"
    BY <1>6 DEF HasProtocol
  <2>6. \A u \in Thread : Seizing(u)' =>
          /\ want'[u] \in Mutex /\ Discipline[want'[u]] = "inherit" /\ holder'[want'[u]] \in Thread \ {u}
          /\ holder'[want'[u]] = holder[want[u]]
    BY <1>7, <1>17, <2>4, <2>5
  <2>7. \A u \in Thread : pc'[u] = "raise" => other'[u] = holder'[want'[u]]
    <3>1. \A u \in Thread : pc'[u] = "raise" => Seizing(u)' /\ pc[u] = "raise"
      BY <1>24 DEF Seizing, Undispatchable
    <3> QED BY <1>7, <2>6, <3>1 DEF MutexInv, SectionsInv
  <2>8. \A u \in Thread : pc'[u] = "raise_self" => /\ want'[u] \in Mutex /\ Discipline[want'[u]] = "ceiling"
                                                   /\ holder'[want'[u]] = u
    <3>1. \A u \in Thread : pc'[u] = "raise_self" =>
            want[u] \in Mutex /\ Discipline[want[u]] = "ceiling" /\ holder[want[u]] = u
      BY <1>24 DEF MutexInv, SectionsInv, Undispatchable
    <3> QED BY <1>7, <1>17, <2>5, <3>1
  <2>9. \A u \in Thread : pc'[u] \in {"check", "restore"} => other'[u] \in Thread
    BY <1>7, <1>24 DEF MutexInv, SectionsInv
  <2> QED BY <1>8, <2>1, <2>2, <2>3, <2>6, <2>7, <2>8, <2>9 DEF SectionsInv
<1>26. HintInv'
  <2> SUFFICES ASSUME NEW u \in Thread, prio'[u] # real[u] PROVE hint'[u]
    BY <1>7, <1>8 DEF HintInv
  <2>1. CASE u = h
    <3>1. ~restores
      BY <1>11, <2>1
    <3>2. hint' = hint /\ prio' = prio
      BY <1>4, <1>7, <3>1
    <3> QED BY <3>2 DEF MutexInv, HintInv
  <2>2. CASE u # h
    <3>1. prio[u] # real[u]
      BY <1>11, <2>2
    <3>2. hint[u]
      BY <3>1 DEF MutexInv, HintInv
    <3> QED BY <1>7, <1>9, <2>2, <3>2 DEF TypeOK
  <2> QED BY <2>1, <2>2
<1>27. RaisedInv'
  <2> SUFFICES ASSUME NewPriorities = {}, NEW u \in Thread PROVE prio'[u] <= real[u]
    BY <1>7, <1>8 DEF RaisedInv
  <2>1. prio[u] <= real[u]
    BY DEF MutexInv, RaisedInv
  <2>2. real[u] \in Nat
    BY <1>9 DEF TypeOK
  <2>3. prio'[u] = prio[u] \/ prio'[u] = real[u]
    BY <1>11
  <2> QED BY <2>1, <2>2, <2>3
<1>28. OwnInv' /\ LentInv' /\ NoInversion'
  BY <1>8, <1>9 DEF OwnInv, LentInv, NoInversion, DirectInheritance, CeilingReached
<1>29. PriorityRestored'
  <2> SUFFICES ASSUME NEW x \in Thread, resources[x] = 0, prio'[x] # real[x]
               PROVE  \E v \in Thread : pc'[v] \in {"check", "restore"} /\ other'[v] = x
    BY <1>7, <1>8, <1>16 DEF PriorityRestored
  <2>1. prio'[x] = prio[x]
    BY <1>11
  <2>2. PICK v \in Thread : pc[v] \in {"check", "restore"} /\ other[v] = x
    BY <2>1 DEF MutexInv, PriorityRestored
  <2> QED BY <1>7, <1>24, <2>2
<1> QED BY <1>7, <1>9, <1>18, <1>19, <1>20, <1>21, <1>22, <1>23, <1>25, <1>26, <1>27, <1>28, <1>29
        DEF MutexInv, MutexConsistent

LEMMA NextMutexInv == MutexInv /\ [Next]_vars => MutexInv'
<1> SUFFICES ASSUME MutexInv, [Next]_vars PROVE MutexInv'
  OBVIOUS
<1>1. CASE UNCHANGED vars
  <2>1. UNCHANGED <<system, holder, nest, order, prio, real, hint, rq, change, resources, pc, want, other>>
    BY <1>1 DEF vars, prioVars, localVars
  <2>2. /\ Thread' = Thread /\ Mutex' = Mutex /\ Priorities' = Priorities
        /\ Discipline' = Discipline /\ Ceiling' = Ceiling /\ MaxNest' = MaxNest
        /\ NewPriorities' = NewPriorities /\ OwnersRelease' = OwnersRelease
    BY <2>1, SameSystem
  <2>3. MutexConsistent'
    BY <2>1, <2>2 DEF MutexInv, MutexConsistent, TypeOK, NoIdleMutex, ResourcesCounted, HasProtocol,
                      QueueInOrder, SchedulerFollows, NoChange
  <2>4. QueuesInv' /\ HoldersInv' /\ SectionsInv' /\ HintInv' /\ RaisedInv'
    BY <2>1, <2>2 DEF MutexInv, QueuesInv, HoldersInv, SectionsInv, HintInv, RaisedInv, Seizing, Lent
  <2>5. OwnInv' /\ LentInv' /\ PriorityRestored' /\ NoInversion'
    BY <2>1, <2>2 DEF MutexInv, OwnInv, LentInv, Lent, PriorityRestored, NoInversion,
                      DirectInheritance, CeilingReached, InQueue
  <2> QED BY <2>1, <2>3, <2>4, <2>5 DEF MutexInv
<1>2. CASE Next
  <2>1. UNCHANGED system /\ Step
    BY <1>2 DEF Next
  <2>2. ASSUME NEW t \in Thread, NEW m \in Mutex, SeizeFree(t, m) PROVE MutexInv'
    BY <2>1, <2>2, SeizeFreeInv
  <2>3. ASSUME NEW t \in Thread, NEW m \in Mutex, SeizeNested(t, m) PROVE MutexInv'
    BY <2>1, <2>3, SeizeNestedInv
  <2>4. ASSUME NEW t \in Thread, NEW m \in Mutex, SeizeWait(t, m) PROVE MutexInv'
    BY <2>1, <2>4, SeizeWaitInv
  <2>5. ASSUME NEW t \in Thread, NEW m \in Mutex, Surrender(t, m) PROVE MutexInv'
    BY <2>1, <2>5, SurrenderInv, SurrenderNestedInv
  <2>6. ASSUME NEW t \in Thread, NEW m \in Mutex, Flush(t, m) \/ FlushNext(t, m) PROVE MutexInv'
    BY <2>1, <2>6, FlushInv, FlushNextInv
  <2>7. ASSUME NEW t \in Thread, NEW u \in Thread, NEW p \in NewPriorities, SetPriority(t, u, p)
        PROVE  MutexInv'
    BY <2>1, <2>7, SetPriorityInv
  <2>8. ASSUME NEW t \in Thread, RaiseSelf(t) PROVE MutexInv'
    BY <2>1, <2>8, RaiseSelfInv
  <2>9. ASSUME NEW t \in Thread, RaiseHolder(t) PROVE MutexInv'
    BY <2>1, <2>9, RaiseHolderInv
  <2>10. ASSUME NEW t \in Thread, Enqueue(t) PROVE MutexInv'
    BY <2>1, <2>10, EnqueueInv
  <2>11. ASSUME NEW t \in Thread, Check(t) PROVE MutexInv'
    BY <2>1, <2>11, CheckInv
  <2>12. ASSUME NEW t \in Thread, Restore(t) PROVE MutexInv'
    BY <2>1, <2>12, RestoreInv
  <2>13. ASSUME NEW t \in Thread, Timeout(t) PROVE MutexInv'
    BY <2>1, <2>13, TimeoutInv
  <2>14. ASSUME NEW t \in Thread, Sleep(t) PROVE MutexInv'
    BY <2>1, <2>14, PauseInv DEF Sleep, At
  <2>15. ASSUME NEW t \in Thread, Wake(t) PROVE MutexInv'
    BY <2>1, <2>15, PauseInv DEF Wake
  <2>16. ASSUME Update PROVE MutexInv'
    BY <2>1, <2>16, UpdateInv
  <2>17. ASSUME NEW m \in Mutex, IsrSurrender(m) PROVE MutexInv'
    BY <2>1, <2>17, IsrSurrenderInv, SurrenderNestedInv
  <2> QED BY <2>1, <2>2, <2>3, <2>4, <2>5, <2>6, <2>7, <2>8, <2>9, <2>10, <2>11, <2>12, <2>13,
             <2>14, <2>15, <2>16, <2>17 DEF Step
<1> QED BY <1>1, <1>2

-----------------------------------------------------------------------------
\* Every section of _CORE_mutex_Seize, _CORE_mutex_Surrender, _CORE_mutex_Flush
\* and _Thread_Change_priority preserves the invariant.
THEOREM MutexInvariant == Spec => []MutexInv
  BY InitMutexInv, NextMutexInv, PTL DEF Spec

\* The books agree between any two sections: holders and nest counts, resource
\* counts, the order of the wait queues, the priorities the scheduler knows.
THEOREM MutexIsConsistent == Spec => []MutexConsistent
<1>1. MutexInv => MutexConsistent
  BY DEF MutexInv
<1> QED BY <1>1, MutexInvariant, PTL

\* A thread that gave its last mutex back has its own priority again, or somebody
\* is about to restore it.
THEOREM PrioritiesRestored == Spec => []PriorityRestored
<1>1. MutexInv => PriorityRestored
  BY DEF MutexInv
<1> QED BY <1>1, MutexInvariant, PTL

\* The holder has the priority that inheritance or the ceiling gives it.
THEOREM NoPriorityInversion == Spec => []NoInversion
<1>1. MutexInv => NoInversion
  BY DEF MutexInv
<1> QED BY <1>1, MutexInvariant, PTL

LEMMA StepLowers ==
  ASSUME MutexInv, Next, OwnersRelease, NEW x \in Thread, prio'[x] > prio[x]
  PROVE  resources'[x] = 0
<1>1. /\ TypeOK /\ Priorities \subseteq Nat /\ Step /\ UNCHANGED system /\ system \in Systems
      /\ prio[x] \in Nat /\ real[x] \in Nat
  BY SystemFacts DEF MutexInv, MutexConsistent, Next, TypeOK
<1>2. prio' # prio
  BY <1>1
<1>3. ASSUME NEW t \in Thread, NEW u \in Thread, NEW p \in NewPriorities, SetPriority(t, u, p)
      PROVE  resources'[x] = 0
  <2>1. PICK filter \in BOOLEAN : filter <=> (prio[u] > p \/ resources[u] = 0)
    OBVIOUS
  <2>2. ChangePriority(t, u, p, filter, [hint EXCEPT ![u] = TRUE], "run") /\ resources' = resources
    BY <1>3, <2>1 DEF SetPriority, SetPriorityFilter, HintAfter, ChangePriority
  <2>3. prio'[x] = IF filter /\ x = u THEN p ELSE prio[x]
    BY <1>1, <2>2 DEF ChangePriority, TypeOK
  <2>4. p \in Nat
    BY <1>1, SystemFacts
  <2> QED BY <1>1, <2>1, <2>2, <2>3, <2>4
<1>4. ASSUME NEW t \in Thread, RaiseSelf(t) PROVE resources'[x] = 0
  <2>1. PICK p : p = Ceiling[want[t]]
    OBVIOUS
  <2>2. PICK filter \in BOOLEAN : filter <=> prio[t] > p
    OBVIOUS
  <2>3. ChangePriority(t, t, p, filter, [hint EXCEPT ![t] = TRUE], "run")
    BY <1>4, <2>1, <2>2 DEF RaiseSelf, RaisePriority, HintAfter, ChangePriority
  <2>4. prio'[x] = IF filter /\ x = t THEN p ELSE prio[x]
    BY <1>1, <2>3 DEF ChangePriority, TypeOK
  <2>5. p \in Nat
    BY <1>1, <1>4, <2>1, SystemFacts DEF RaiseSelf, At, MutexInv, SectionsInv
  <2> QED BY <1>1, <2>2, <2>4, <2>5
<1>5. ASSUME NEW t \in Thread, RaiseHolder(t) PROVE resources'[x] = 0
  <2>1. PICK u \in Thread : u = other[t]
    BY <1>5 DEF RaiseHolder, At, MutexInv, SectionsInv, Seizing
  <2>2. PICK p \in Nat : p = prio[t]
    BY <1>1 DEF TypeOK
  <2>3. PICK filter \in BOOLEAN : filter <=> prio[u] > p
    OBVIOUS
  <2>4. ChangePriority(t, u, p, filter, [hint EXCEPT ![u] = TRUE], "enqueue")
    BY <1>5, <2>1, <2>2, <2>3 DEF RaiseHolder, RaisePriority, HintAfter, ChangePriority
  <2>5. prio'[x] = IF filter /\ x = u THEN p ELSE prio[x]
    BY <1>1, <2>4 DEF ChangePriority, TypeOK
  <2> QED BY <1>1, <2>2, <2>3, <2>5
<1>6. ASSUME NEW t \in Thread, Restore(t) PROVE resources'[x] = 0
  <2>1. other[t] = t /\ resources[t] = 0 /\ resources' = resources
    BY <1>6 DEF Restore, At, MutexInv, OwnInv
  <2>2. PICK filter \in BOOLEAN : filter <=> real[t] # prio[t]
    OBVIOUS
  <2>3. PICK p : p = real[t]
    OBVIOUS
  <2>4. ChangePriority(t, t, p, filter, [hint EXCEPT ![t] = FALSE], "run")
    BY <1>6, <2>1, <2>2, <2>3 DEF Restore, RestorePriority, ChangePriority
  <2>5. prio'[x] = IF filter /\ x = t THEN p ELSE prio[x]
    BY <1>1, <2>4 DEF ChangePriority, TypeOK
  <2> QED BY <1>1, <2>1, <2>5
<1>7. ASSUME NEW t \in Thread, NEW m \in Mutex, Surrender(t, m) PROVE resources'[x] = 0
  <2>1. CASE SurrenderNested(m)
    BY <1>2, <2>1 DEF SurrenderNested, prioVars
  <2>2. CASE ~SurrenderNested(m)
    <3>1. Ceiling[m] \in Nat
      BY <1>1, SystemFacts
    <3>2. prio'[x] = prio[x] \/ (prio'[x] = Ceiling[m] /\ prio[x] > Ceiling[m])
      BY <1>7, <2>2 DEF Surrender, CeilingRaises
    <3> QED BY <1>1, <3>1, <3>2
  <2> QED BY <2>1, <2>2
<1>8. ASSUME NEW m \in Mutex, IsrSurrender(m) PROVE resources'[x] = 0
  BY <1>8 DEF IsrSurrender, MayIsrRelease, OwnersRelease
<1>9. ASSUME NEW t \in Thread, NEW m \in Mutex,
             \/ SeizeFree(t, m) \/ SeizeNested(t, m) \/ SeizeWait(t, m)
             \/ Flush(t, m) \/ FlushNext(t, m)
      PROVE  resources'[x] = 0
  BY <1>2, <1>9 DEF SeizeFree, SeizeNested, SeizeWait, Flush, FlushNext, prioVars
<1>10. ASSUME NEW t \in Thread,
              Enqueue(t) \/ Check(t) \/ Timeout(t) \/ Sleep(t) \/ Wake(t) \/ Update
       PROVE  resources'[x] = 0
  BY <1>2, <1>10 DEF Enqueue, Check, Timeout, Sleep, Wake, Update, prioVars
<1> QED BY <1>1, <1>3, <1>4, <1>5, <1>6, <1>7, <1>8, <1>9, <1>10 DEF Step

\* A priority is lowered only when the last mutex of a protocol is given back,
\* where only the holder of a mutex releases it.
THEOREM PriorityLoweredWithLast == Spec => LoweredWithLast
<1>1. MutexInv /\ [Next]_vars
      => [OwnersRelease => \A t \in Thread : prio'[t] > prio[t] => resources'[t] = 0]_vars
  BY StepLowers
<1> QED BY <1>1, MutexInvariant, PTL DEF Spec, LoweredWithLast
=============================================================================
