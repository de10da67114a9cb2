------------------------ MODULE CoreSemaphoreProofs ------------------------
(***************************************************************************)
(* The counting semaphore keeps the invariant of the blocking protocol and *)
(* its own accounting, for every number of threads, every timeout, both    *)
(* queue disciplines, and with or without nested interrupts; and it        *)
(* implements AbstractSemaphore.                                           *)
(***************************************************************************)
EXTENDS CoreSemaphore, SequenceTheorems, FiniteSetTheorems, TLAPS

-----------------------------------------------------------------------------
(***************************************************************************)
(* The blocking protocol: KernelInv is preserved by every step of it.  One *)
(* lemma per action, one step per conjunct of the invariant.               *)
(***************************************************************************)
\* A thread's step happens outside every interrupt.
LEMMA ThreadRuns ==
  ASSUME KernelInv, NEW c \in Thread \cup {Idle}, NEW l, At(c, l)
  PROVE  /\ isrStack = <<>> /\ executing = c /\ pc[c] = l
         /\ pc[TickIsr] = "off" /\ pc[DevIsr] = "off"
<1>1. isrStack \in Seq(Isr)
  BY DEF KernelInv, KernelTypeOK
<1>2. isrStack = <<>>
  <2> SUFFICES ASSUME isrStack # <<>> PROVE FALSE
    OBVIOUS
  <2>1. Len(isrStack) \in Nat \ {0}
    BY <1>1, EmptySeq
  <2>2. isrStack[Len(isrStack)] \in Isr
    BY <1>1, <2>1, ElementOfSeq
  <2> QED
    BY <2>2, ContextAssumption DEF At, Running, Isr
<1> QED
  BY <1>2, ContextAssumption DEF KernelInv, StackInv, At, Running

\* Popping a frame of the interrupt stack leaves the frames below it.
LEMMA ButLast ==
  ASSUME NEW s \in Seq(Isr), Len(s) \in {1, 2}
  PROVE  /\ Len(SubSeq(s, 1, Len(s) - 1)) = Len(s) - 1
         /\ \A k \in 1 .. Len(s) - 1 : SubSeq(s, 1, Len(s) - 1)[k] = s[k]
<1>1. CASE Len(s) = 1
  <2>1. SubSeq(s, 1, 0) = <<>>
    BY SubSeqEmpty
  <2> QED
    BY <1>1, <2>1
<1>2. CASE Len(s) = 2
  <2>1. \A k \in 1 .. 1 : s[k] \in Isr
    BY <1>2, ElementOfSeq
  <2>2. /\ Len(SubSeq(s, 1, 1)) = 1
        /\ \A k \in 1 .. 1 : SubSeq(s, 1, 1)[k] = s[k]
    BY <2>1, SubSeqProperties
  <2> QED
    BY <1>2, <2>2
<1> QED
  BY <1>1, <1>2

\* At most both interrupts are in progress.
LEMMA StackLength ==
  ASSUME KernelInv
  PROVE  isrStack \in Seq(Isr) /\ Len(isrStack) \in {0, 1, 2}
<1>1. isrStack \in Seq(Isr)
  BY DEF KernelInv, KernelTypeOK
<1>2. Len(isrStack) \in Nat
  BY <1>1, LenProperties
<1>3. Len(isrStack) <= 2
  BY DEF KernelInv, StackInv
<1>4. \A n \in Nat : n <= 2 => n \in {0, 1, 2}
  OBVIOUS
<1> QED
  BY <1>1, <1>2, <1>3, <1>4

\* The executing thread that blocks leaves another, ready heir to dispatch.
LEMMA SetStateHeir ==
  ASSUME KernelInv, NEW t \in Thread, executing = t, state[t] = "ready", SetState(t)
  PROVE  /\ heir' \in (Thread \cup {Idle}) \ {t} /\ necessary' = TRUE
         /\ heir' \in Thread => state[heir'] = "ready"
BY ContextAssumption
   DEF KernelInv, KernelTypeOK, PendingDispatch, SetState, SchedulerBlock,
       UpdateHeir, ReadyThreads

\* An unblocked thread becomes the heir, to be dispatched, or nothing changes.
LEMMA ClearStateHeir ==
  ASSUME KernelInv, NEW t \in Thread, state[t] = "waiting", ClearState(t)
  PROVE  \/ heir' = heir /\ necessary' = necessary
         \/ heir' = t /\ necessary' = TRUE
BY DEF KernelInv, KernelTypeOK, ClearState, SchedulerUnblock, UpdateHeir

\* The section of _Thread_queue_Enqueue_critical that sets the waiting state
\* leaves the executing thread with another heir to dispatch.
LEMMA EnqueueSetStateInv ==
  ASSUME KernelInv, NEW t \in Thread, EnqueueSetState(t)
  PROVE  KernelInv'
<1> USE ContextAssumption
<1>0. /\ isrStack = <<>> /\ executing = t /\ pc[t] = "set_state"
      /\ pc[TickIsr] = "off" /\ pc[DevIsr] = "off"
  BY ThreadRuns DEF EnqueueSetState
<1>1. /\ pc' = [pc EXCEPT ![t] = IF ticks[t] = 0 THEN "try_block" ELSE "insert_timer"]
      /\ heir' \in (Thread \cup {Idle}) \ {t} /\ necessary' = TRUE
      /\ heir' \in Thread => state[heir'] = "ready"
      /\ state' = [state EXCEPT ![t] = "waiting"]
      /\ UNCHANGED <<executing, level, isrStack, cur, op, queue, ahead, flags, ret,
                   armed, ticks>>
  BY <1>0, SetStateHeir
  DEF EnqueueSetState, SetState, Goto, waitVars, timerVars, KernelInv,
      KernelTypeOK, WaitInv, Context
<1>a. \A c \in Context, u \in Thread :
        /\ Unblocks(c, u)' <=> Unblocks(c, u)
        /\ Disarms(c, u)' <=> Disarms(c, u)
  BY <1>0, <1>1 DEF KernelInv, KernelTypeOK, Unblocks, Disarms, UnblockingPc,
     Context, Isr
<1>2. KernelTypeOK'
  BY <1>0, <1>1 DEF KernelInv, KernelTypeOK, Context, Isr, ThreadPc, IsrPc,
     ThreadState
<1>3. ControlInv'
  BY <1>0, <1>1 DEF KernelInv, KernelTypeOK, ControlInv, ThreadPc, TickPc,
     DevPc, Context, Isr
<1>4. StackInv'
  BY <1>0, <1>1 DEF KernelInv, KernelTypeOK, StackInv, Context, Isr
<1>5. WaitInv'
  BY <1>0, <1>1 DEF KernelInv, KernelTypeOK, WaitInv, UndoingPc, Context, Isr
<1>6. HoldInv'
  BY <1>0, <1>1 DEF KernelInv, KernelTypeOK, HoldInv, UnblockingPc, Context,
     Isr
<1>7. HandInv'
  BY <1>0, <1>1 DEF KernelInv, KernelTypeOK, HandInv, Context, Isr
<1>8. EndedInv'
  BY <1>0, <1>1, <1>a DEF KernelInv, KernelTypeOK, EndedInv, Context, Isr
<1>9. TimerInv'
  BY <1>0, <1>1, <1>a DEF KernelInv, KernelTypeOK, TimerInv, WaitInv,
     UndoingPc, Context, Isr
<1>10. NoStrandedThread'
  BY <1>0, <1>1, <1>a DEF KernelInv, KernelTypeOK, NoStrandedThread,
     UndoingPc, Context, Isr, WaitInv
<1>11. SingleUnblocker'
  BY <1>0, <1>1, <1>a DEF KernelInv, KernelTypeOK, SingleUnblocker
<1>12. PendingDispatch' /\ RunsReady'
  BY <1>0, <1>1 DEF KernelInv, KernelTypeOK, PendingDispatch, RunsReady,
     Context, Isr, LevelBalanced, ThreadLevel, IsrLevel
<1>13. LevelBalanced'
  BY <1>0, <1>1 DEF KernelInv, KernelTypeOK, LevelBalanced, ThreadLevel,
     IsrLevel, Context, Isr
<1> QED
  BY <1>2, <1>3, <1>4, <1>5, <1>6, <1>7, <1>8, <1>9, <1>10, <1>11, <1>12,
     <1>13 DEF KernelInv

\* Arming the timer of a thread whose wait may have ended already is safe: the
\* thread is still to pass its try_block section, which disarms it.
LEMMA EnqueueInsertTimerInv ==
  ASSUME KernelInv, NEW t \in Thread, EnqueueInsertTimer(t)
  PROVE  KernelInv'
<1> USE ContextAssumption
<1>0. /\ isrStack = <<>> /\ executing = t /\ pc[t] = "insert_timer"
      /\ pc[TickIsr] = "off" /\ pc[DevIsr] = "off"
  BY ThreadRuns DEF EnqueueInsertTimer
<1>1. /\ pc' = [pc EXCEPT ![t] = "try_block"] /\ armed' = armed \cup {t}
      /\ UNCHANGED <<executing, heir, necessary, level, isrStack, cur, op, queue,
                   ahead, flags, ret, state, ticks>>
  BY DEF EnqueueInsertTimer, Goto, cpuVars, waitVars
<1>a. \A c \in Context, u \in Thread :
        /\ Unblocks(c, u)' <=> Unblocks(c, u)
        /\ Disarms(c, u)' <=> Disarms(c, u)
  BY <1>0, <1>1 DEF KernelInv, KernelTypeOK, Unblocks, Disarms, UnblockingPc,
     Context, Isr
<1>2. KernelTypeOK'
  BY <1>0, <1>1 DEF KernelInv, KernelTypeOK, Context, Isr, ThreadPc, IsrPc
<1>3. ControlInv'
  BY <1>0, <1>1 DEF KernelInv, KernelTypeOK, ControlInv, ThreadPc, TickPc,
     DevPc, Context, Isr
<1>4. StackInv'
  BY <1>0, <1>1 DEF KernelInv, KernelTypeOK, StackInv, Context, Isr
<1>5. WaitInv'
  BY <1>0, <1>1 DEF KernelInv, KernelTypeOK, WaitInv, UndoingPc, Context, Isr
<1>6. HoldInv'
  BY <1>0, <1>1 DEF KernelInv, KernelTypeOK, HoldInv, UnblockingPc, Context,
     Isr
<1>7. HandInv'
  BY <1>0, <1>1 DEF KernelInv, KernelTypeOK, HandInv, Context, Isr
<1>8. EndedInv'
  BY <1>0, <1>1, <1>a DEF KernelInv, KernelTypeOK, EndedInv, Context, Isr
<1>9. TimerInv'
  BY <1>0, <1>1, <1>a DEF KernelInv, KernelTypeOK, TimerInv, WaitInv,
     UndoingPc, Context, Isr
<1>10. NoStrandedThread'
  BY <1>0, <1>1, <1>a DEF KernelInv, KernelTypeOK, NoStrandedThread,
     UndoingPc, Context, Isr, WaitInv
<1>11. SingleUnblocker'
  BY <1>0, <1>1, <1>a DEF KernelInv, KernelTypeOK, SingleUnblocker
<1>12. PendingDispatch' /\ RunsReady'
  BY <1>0, <1>1 DEF KernelInv, KernelTypeOK, PendingDispatch, RunsReady,
     Context, Isr
<1>13. LevelBalanced'
  BY <1>0, <1>1 DEF KernelInv, KernelTypeOK, LevelBalanced, ThreadLevel,
     IsrLevel, Context, Isr
<1> QED
  BY <1>2, <1>3, <1>4, <1>5, <1>6, <1>7, <1>8, <1>9, <1>10, <1>11, <1>12,
     <1>13 DEF KernelInv

\* Nobody ended the wait: the thread blocks and stays on the queue.
LEMMA EnqueueBlocks ==
  ASSUME KernelInv, NEW t \in Thread, EnqueueTryBlock(t),
         flags[t] = "intend_to_block"
  PROVE  KernelInv'
<1> USE ContextAssumption
<1>0. /\ isrStack = <<>> /\ executing = t /\ pc[t] = "try_block"
      /\ pc[TickIsr] = "off" /\ pc[DevIsr] = "off"
  BY ThreadRuns DEF EnqueueTryBlock
<1>1. /\ pc' = [pc EXCEPT ![t] = "enable"]
      /\ flags' = [flags EXCEPT ![t] = "blocked"]
      /\ UNCHANGED <<executing, heir, necessary, level, isrStack, cur, op, queue,
                   ahead, ret, state, armed, ticks>>
  BY DEF EnqueueTryBlock, Goto, cpuVars, timerVars
<1>a. \A c \in Context, u \in Thread :
        /\ Unblocks(c, u)' <=> Unblocks(c, u)
        /\ Disarms(c, u)' <=> Disarms(c, u)
  BY <1>0, <1>1 DEF KernelInv, KernelTypeOK, Unblocks, Disarms, UnblockingPc,
     Context, Isr
<1>2. KernelTypeOK'
  BY <1>0, <1>1 DEF KernelInv, KernelTypeOK, Context, Isr, ThreadPc, IsrPc,
     WaitFlags
<1>3. ControlInv'
  BY <1>0, <1>1 DEF KernelInv, KernelTypeOK, ControlInv, ThreadPc, TickPc,
     DevPc, Context, Isr
<1>4. StackInv'
  BY <1>0, <1>1 DEF KernelInv, KernelTypeOK, StackInv, Context, Isr
<1>5. WaitInv'
  BY <1>0, <1>1 DEF KernelInv, KernelTypeOK, WaitInv, UndoingPc, Context, Isr
<1>6. HoldInv'
  BY <1>0, <1>1 DEF KernelInv, KernelTypeOK, HoldInv, UnblockingPc, Context,
     Isr
<1>7. HandInv'
  BY <1>0, <1>1 DEF KernelInv, KernelTypeOK, HandInv, Context, Isr
<1>8. EndedInv'
  BY <1>0, <1>1, <1>a DEF KernelInv, KernelTypeOK, EndedInv, Context, Isr
<1>9. TimerInv'
  BY <1>0, <1>1, <1>a DEF KernelInv, KernelTypeOK, TimerInv, WaitInv,
     UndoingPc, Context, Isr
<1>10. NoStrandedThread'
  BY <1>0, <1>1, <1>a DEF KernelInv, KernelTypeOK, NoStrandedThread,
     UndoingPc, Context, Isr, WaitInv
<1>11. SingleUnblocker'
  BY <1>0, <1>1, <1>a DEF KernelInv, KernelTypeOK, SingleUnblocker
<1>12. PendingDispatch' /\ RunsReady'
  BY <1>0, <1>1 DEF KernelInv, KernelTypeOK, PendingDispatch, RunsReady,
     Context, Isr
<1>13. LevelBalanced'
  BY <1>0, <1>1 DEF KernelInv, KernelTypeOK, LevelBalanced, ThreadLevel,
     IsrLevel, Context, Isr
<1> QED
  BY <1>2, <1>3, <1>4, <1>5, <1>6, <1>7, <1>8, <1>9, <1>10, <1>11, <1>12,
     <1>13 DEF KernelInv

\* An interrupt ended the wait: the thread takes on its own unblocking.
LEMMA EnqueueUndoes ==
  ASSUME KernelInv, NEW t \in Thread, EnqueueTryBlock(t),
         flags[t] # "intend_to_block"
  PROVE  KernelInv'
<1> USE ContextAssumption
<1>0. /\ isrStack = <<>> /\ executing = t /\ pc[t] = "try_block"
      /\ pc[TickIsr] = "off" /\ pc[DevIsr] = "off"
  BY ThreadRuns DEF EnqueueTryBlock
<1>1. /\ pc' = [pc EXCEPT ![t] = "remove_timer"] /\ cur' = [cur EXCEPT ![t] = t]
      /\ UNCHANGED <<executing, heir, necessary, level, isrStack, op, queue, ahead,
                   flags, ret, state, armed, ticks>>
  BY DEF EnqueueTryBlock, Goto, cpuVars, timerVars
<1>a. \A c \in Context, u \in Thread :
        /\ Unblocks(c, u)' <=> Unblocks(c, u) \/ (c = t /\ u = t)
        /\ Disarms(c, u)' <=> Disarms(c, u) \/ (c = t /\ u = t)
  BY <1>0, <1>1 DEF KernelInv, KernelTypeOK, HandInv, Unblocks, Disarms,
     UnblockingPc, Context, Isr
<1>b. \A c \in Context : ~Unblocks(c, t)
  BY <1>0 DEF KernelInv, EndedInv, Unblocks, UnblockingPc
<1>2. KernelTypeOK'
  BY <1>0, <1>1 DEF KernelInv, KernelTypeOK, Context, Isr, ThreadPc, IsrPc
<1>3. ControlInv'
  BY <1>0, <1>1 DEF KernelInv, KernelTypeOK, ControlInv, ThreadPc, TickPc,
     DevPc, Context, Isr
<1>4. StackInv'
  BY <1>0, <1>1 DEF KernelInv, KernelTypeOK, StackInv, Context, Isr
<1>5. WaitInv'
  BY <1>0, <1>1 DEF KernelInv, KernelTypeOK, WaitInv, UndoingPc, Context, Isr
<1>6. HoldInv'
  BY <1>0, <1>1 DEF KernelInv, KernelTypeOK, HoldInv, UnblockingPc, Context,
     Isr
<1>7. HandInv'
  BY <1>0, <1>1 DEF KernelInv, KernelTypeOK, HandInv, Context, Isr, WaitInv,
     UndoingPc
<1>8. EndedInv'
  BY <1>0, <1>1, <1>a DEF KernelInv, KernelTypeOK, EndedInv, Context, Isr,
     WaitInv, UndoingPc
<1>9. TimerInv'
  BY <1>0, <1>1, <1>a DEF KernelInv, KernelTypeOK, TimerInv, WaitInv,
     UndoingPc, Context, Isr
<1>10. NoStrandedThread'
  <2> SUFFICES ASSUME NEW u \in Thread, state'[u] = "waiting"
               PROVE  \/ u \in queue' \/ pc'[u] \in UndoingPc
                      \/ \E c \in Context : Unblocks(c, u)'
    BY DEF NoStrandedThread
  <2>1. CASE u = t
    BY <1>a, <2>1 DEF Context
  <2>2. CASE u # t
    <3>1. pc'[u] = pc[u]
      BY <1>1, <2>2 DEF KernelInv, KernelTypeOK, Context
    <3> QED
      BY <1>1, <1>a, <3>1 DEF KernelInv, NoStrandedThread
  <2> QED
    BY <2>1, <2>2
<1>11. SingleUnblocker'
  BY <1>0, <1>1, <1>a, <1>b DEF KernelInv, KernelTypeOK, SingleUnblocker,
     Context
<1>12. PendingDispatch' /\ RunsReady'
  BY <1>0, <1>1 DEF KernelInv, KernelTypeOK, PendingDispatch, RunsReady,
     Context, Isr
<1>13. LevelBalanced'
  BY <1>0, <1>1 DEF KernelInv, KernelTypeOK, LevelBalanced, ThreadLevel,
     IsrLevel, Context, Isr
<1> QED
  BY <1>2, <1>3, <1>4, <1>5, <1>6, <1>7, <1>8, <1>9, <1>10, <1>11, <1>12,
     <1>13 DEF KernelInv

\* Both outcomes of the wait flags exchange preserve the invariant.
LEMMA EnqueueTryBlockInv ==
  ASSUME KernelInv, NEW t \in Thread, EnqueueTryBlock(t)
  PROVE  KernelInv'
BY EnqueueBlocks, EnqueueUndoes

\* A step of a context that can surrender: an interrupt, or the executing thread.
LEMMA ContextRuns ==
  ASSUME KernelInv, NEW c \in Thread \cup {DevIsr}, NEW l, At(c, l)
  PROVE  pc[c] = l /\ (c = DevIsr \/ executing = c)
BY ThreadRuns DEF At

\* _Thread_queue_Unblock, first half: the timer is removed by the one context
\* that unblocks the thread.
LEMMA UnblockRemoveTimerInv ==
  ASSUME KernelInv, NEW c \in Thread \cup {DevIsr}, UnblockRemoveTimer(c)
  PROVE  KernelInv'
<1> USE ContextAssumption
<1>0. /\ pc[c] = "remove_timer" /\ (c = DevIsr \/ executing = c)
      /\ cur[c] \in Thread
  BY ContextRuns
  DEF UnblockRemoveTimer, KernelInv, KernelTypeOK, HoldInv, UnblockingPc, Context, Isr
<1>1. /\ pc' = [pc EXCEPT ![c] = "unblock"] /\ armed' = armed \ {cur[c]}
      /\ UNCHANGED <<executing, heir, necessary, level, isrStack, cur, op, queue,
                   ahead, flags, ret, state, ticks>>
  BY DEF UnblockRemoveTimer, Goto, cpuVars, waitVars
<1>a. \A d \in Context, u \in Thread :
        /\ Unblocks(d, u)' <=> Unblocks(d, u)
        /\ Disarms(d, u)' <=> Disarms(d, u) /\ d # c
  BY <1>0, <1>1 DEF KernelInv, KernelTypeOK, Unblocks, Disarms, UnblockingPc,
     Context, Isr
<1>b. \A u \in Thread : Disarms(c, u) => u = cur[c]
  BY DEF Disarms
<1>c. c \notin armed'
  BY <1>0, <1>1 DEF KernelInv, KernelTypeOK, WaitInv
<1>2. KernelTypeOK'
  BY <1>0, <1>1 DEF KernelInv, KernelTypeOK, Context, Isr, ThreadPc, IsrPc
<1>3. ControlInv'
  BY <1>0, <1>1 DEF KernelInv, KernelTypeOK, ControlInv, ThreadPc, TickPc,
     DevPc, Context, Isr
<1>4. StackInv'
  BY <1>0, <1>1 DEF KernelInv, KernelTypeOK, StackInv, Context, Isr
<1>5. WaitInv'
  BY <1>0, <1>1 DEF KernelInv, KernelTypeOK, WaitInv, UndoingPc, Context, Isr
<1>6. HoldInv'
  BY <1>0, <1>1 DEF KernelInv, KernelTypeOK, HoldInv, UnblockingPc, Context,
     Isr
<1>7. HandInv'
  BY <1>0, <1>1 DEF KernelInv, KernelTypeOK, HandInv, Context, Isr
<1>8. EndedInv'
  BY <1>0, <1>1, <1>a DEF KernelInv, KernelTypeOK, EndedInv, Context, Isr
<1>9. TimerInv'
  <2>1. ASSUME NEW u \in armed'
        PROVE  /\ pc'[u] \in {"try_block", "remove_timer", "enable"}
               /\ \/ u \in queue \/ pc'[u] = "try_block"
                  \/ \E d \in Context : Disarms(d, u)'
    <3>1. u \in armed /\ u \in Thread /\ u # cur[c] /\ pc'[u] = pc[u]
      BY <1>0, <1>1, <1>c DEF KernelInv, KernelTypeOK, Context
    <3> QED
      BY <1>a, <1>b, <3>1 DEF KernelInv, TimerInv
  <2>2. pc'[TickIsr] = pc[TickIsr]
    BY <1>0, <1>1 DEF KernelInv, KernelTypeOK, Context, Isr
  <2> QED
    BY <1>1, <2>1, <2>2 DEF KernelInv, TimerInv
<1>10. NoStrandedThread'
  BY <1>0, <1>1, <1>a DEF KernelInv, KernelTypeOK, NoStrandedThread,
     UndoingPc, Context, Isr, WaitInv
<1>11. SingleUnblocker'
  BY <1>0, <1>1, <1>a DEF KernelInv, KernelTypeOK, SingleUnblocker
<1>12. PendingDispatch' /\ RunsReady'
  BY <1>0, <1>1 DEF KernelInv, KernelTypeOK, PendingDispatch, RunsReady,
     Context, Isr
<1>13. LevelBalanced'
  BY <1>0, <1>1 DEF KernelInv, KernelTypeOK, LevelBalanced, ThreadLevel,
     IsrLevel, Context, Isr
<1> QED
  BY <1>2, <1>3, <1>4, <1>5, <1>6, <1>7, <1>8, <1>9, <1>10, <1>11, <1>12,
     <1>13 DEF KernelInv

\* _Thread_queue_Unblock, second half: the thread is made ready, and the
\* scheduler's choice of the heir is recorded as a necessary dispatch.
LEMMA UnblockClearStateInv ==
  ASSUME KernelInv, NEW c \in Thread \cup {DevIsr}, UnblockClearState(c)
  PROVE  KernelInv'
<1> USE ContextAssumption
<1>0. /\ pc[c] = "unblock" /\ (c = DevIsr \/ executing = c)
      /\ cur[c] \in Thread /\ state[cur[c]] = "waiting"
      /\ flags[cur[c]] = "ready_again" /\ op[cur[c]] = "seize"
      /\ cur[c] = c \/ pc[cur[c]] = "enable"
      /\ level > 0
  BY ContextRuns
  DEF UnblockClearState, KernelInv, KernelTypeOK, HoldInv, HandInv, EndedInv, Unblocks,
      UnblockingPc, LevelBalanced, ThreadLevel, IsrLevel, Context, Isr
<1>1. /\ pc' = [pc EXCEPT ![c] = IF cur[c] = c THEN "enable" ELSE "enable_inner"]
      /\ cur' = [cur EXCEPT ![c] = NoThread]
      /\ state' = [state EXCEPT ![cur[c]] = "ready"]
      /\ \/ heir' = heir /\ necessary' = necessary
         \/ heir' = cur[c] /\ necessary' = TRUE
      /\ UNCHANGED <<executing, level, isrStack, op, queue, ahead, flags, ret, armed,
                   ticks>>
  BY <1>0, ClearStateHeir
  DEF UnblockClearState, ClearState, Goto, waitVars, timerVars
<1>a. \A d \in Context, u \in Thread :
        /\ Unblocks(d, u)' <=> Unblocks(d, u) /\ d # c
        /\ Disarms(d, u)' <=> Disarms(d, u)
  BY <1>0, <1>1 DEF KernelInv, KernelTypeOK, Unblocks, Disarms, UnblockingPc,
     Context, Isr
<1>b. \A d \in Context, u \in Thread : Unblocks(d, u) /\ d # c => u # cur[c] /\ u # c
  BY <1>0 DEF KernelInv, SingleUnblocker, EndedInv, Unblocks, UnblockingPc, Context, Isr
<1>c. \A u \in Thread : Unblocks(c, u) => u = cur[c]
  BY DEF Unblocks
<1>2. KernelTypeOK'
  BY <1>0, <1>1 DEF KernelInv, KernelTypeOK, Context, Isr, ThreadPc, IsrPc,
     ThreadState
<1>3. ControlInv'
  BY <1>0, <1>1 DEF KernelInv, KernelTypeOK, ControlInv, ThreadPc, TickPc,
     DevPc, Context, Isr
<1>4. StackInv'
  BY <1>0, <1>1 DEF KernelInv, KernelTypeOK, StackInv, Context, Isr
<1>5. WaitInv'
  BY <1>0, <1>1 DEF KernelInv, KernelTypeOK, WaitInv, UndoingPc, Context, Isr
<1>6. HoldInv'
  BY <1>0, <1>1 DEF KernelInv, KernelTypeOK, HoldInv, UnblockingPc, Context,
     Isr
<1>7. HandInv'
  BY <1>0, <1>1 DEF KernelInv, KernelTypeOK, HandInv, Context, Isr
<1>8. EndedInv'
  BY <1>0, <1>1, <1>a, <1>b DEF KernelInv, KernelTypeOK, EndedInv, Context,
     Isr
<1>9. TimerInv'
  BY <1>0, <1>1, <1>a DEF KernelInv, KernelTypeOK, TimerInv, WaitInv,
     UndoingPc, Context, Isr
<1>10. NoStrandedThread'
  <2> SUFFICES ASSUME NEW u \in Thread, state'[u] = "waiting"
               PROVE  \/ u \in queue \/ pc'[u] \in UndoingPc
                      \/ \E d \in Context : Unblocks(d, u)'
    BY <1>1 DEF NoStrandedThread
  <2>1. u # cur[c] /\ state[u] = "waiting"
    BY <1>0, <1>1 DEF KernelInv, KernelTypeOK
  <2>2. pc[u] \in UndoingPc => pc'[u] = pc[u]
    BY <1>0, <1>1 DEF UndoingPc, KernelInv, KernelTypeOK, Context
  <2> QED
    BY <1>a, <1>c, <2>1, <2>2 DEF KernelInv, NoStrandedThread
<1>11. SingleUnblocker'
  BY <1>0, <1>1, <1>a DEF KernelInv, KernelTypeOK, SingleUnblocker
<1>12. PendingDispatch' /\ RunsReady'
  BY <1>0, <1>1 DEF KernelInv, KernelTypeOK, PendingDispatch, RunsReady,
     Context, Isr
<1>13. LevelBalanced'
  BY <1>0, <1>1 DEF KernelInv, KernelTypeOK, LevelBalanced, ThreadLevel,
     IsrLevel, Context, Isr
<1> QED
  BY <1>2, <1>3, <1>4, <1>5, <1>6, <1>7, <1>8, <1>9, <1>10, <1>11, <1>12,
     <1>13 DEF KernelInv

\* An enable of dispatching that is not the outermost one.
LEMMA DispatchUnnestInv ==
  ASSUME KernelInv, NEW c \in Thread \cup {DevIsr}, DispatchUnnest(c)
  PROVE  KernelInv'
<1> USE ContextAssumption
<1>0. /\ c = DevIsr \/ executing = c
      /\ pc[c] = "enable_inner" \/ (pc[c] = "enable" /\ c = DevIsr)
      /\ level \in Nat /\ level > 1
  BY ContextRuns
  DEF DispatchUnnest, KernelInv, KernelTypeOK, LevelBalanced, ThreadLevel,
      IsrLevel, Isr
<1>1. /\ level' = level - 1
      /\ pc' = [pc EXCEPT ![c] = IF pc[c] = "enable" THEN "exit"
                                ELSE IF op[c] = "flush" THEN "flush" ELSE "enable"]
      /\ UNCHANGED <<executing, heir, necessary, isrStack, cur, op, queue,
                   ahead, flags, ret, state, armed, ticks>>
  BY <1>0 DEF DispatchUnnest, At, Goto, waitVars, timerVars
<1>a. \A d \in Context, u \in Thread :
        /\ Unblocks(d, u)' <=> Unblocks(d, u)
        /\ Disarms(d, u)' <=> Disarms(d, u)
  BY <1>0, <1>1 DEF KernelInv, KernelTypeOK, Unblocks, Disarms, UnblockingPc,
     Context, Isr
<1>b. c \notin armed
  <2>1. CASE c = DevIsr
    BY <2>1 DEF KernelInv, KernelTypeOK
  <2>2. CASE c \in Thread
    BY <1>0, <2>2 DEF KernelInv, WaitInv
  <2> QED
    BY <2>1, <2>2
<1>c. /\ \A u \in armed : u # c /\ pc'[u] = pc[u]
      /\ pc'[TickIsr] = pc[TickIsr]
  BY <1>0, <1>1, <1>b DEF KernelInv, KernelTypeOK, Context, Isr
<1>2. KernelTypeOK'
  BY <1>0, <1>1 DEF KernelInv, KernelTypeOK, Context, Isr, ThreadPc, IsrPc
<1>3. ControlInv'
  BY <1>0, <1>1 DEF KernelInv, KernelTypeOK, ControlInv, ThreadPc, TickPc,
     DevPc, Context, Isr
<1>4. StackInv'
  BY <1>0, <1>1 DEF KernelInv, KernelTypeOK, StackInv, Context, Isr
<1>5. WaitInv'
  BY <1>0, <1>1 DEF KernelInv, KernelTypeOK, WaitInv, UndoingPc, Context, Isr
<1>6. HoldInv'
  BY <1>0, <1>1 DEF KernelInv, KernelTypeOK, HoldInv, UnblockingPc, Context,
     Isr
<1>7. HandInv'
  BY <1>0, <1>1 DEF KernelInv, KernelTypeOK, HandInv, Context, Isr
<1>8. EndedInv'
  BY <1>0, <1>1, <1>a DEF KernelInv, KernelTypeOK, EndedInv, Context, Isr
<1>9. TimerInv'
  <2>1. armed \subseteq Thread
    BY DEF KernelInv, KernelTypeOK
  <2> QED
    BY <1>1, <1>a, <1>c, <2>1 DEF KernelInv, TimerInv
<1>10. NoStrandedThread'
  BY <1>0, <1>1, <1>a DEF KernelInv, KernelTypeOK, NoStrandedThread,
     UndoingPc, Context, Isr, WaitInv
<1>11. SingleUnblocker'
  BY <1>0, <1>1, <1>a DEF KernelInv, KernelTypeOK, SingleUnblocker
<1>12. PendingDispatch' /\ RunsReady'
  BY <1>0, <1>1 DEF KernelInv, KernelTypeOK, PendingDispatch, RunsReady,
     Context, Isr
<1>13. LevelBalanced'
  BY <1>0, <1>1 DEF KernelInv, KernelTypeOK, LevelBalanced, ThreadLevel,
     IsrLevel, Context, Isr, ControlInv
<1> QED
  BY <1>2, <1>3, <1>4, <1>5, <1>6, <1>7, <1>8, <1>9, <1>10, <1>11, <1>12,
     <1>13 DEF KernelInv

\* _Thread_Dispatch_enable returns to the caller, which is the heir and ready.
LEMMA DispatchReturns ==
  ASSUME KernelInv, NEW c \in Thread \cup {Idle}, DispatchEnable(c), heir = c
  PROVE  KernelInv'
<1> USE ContextAssumption
<1>0. /\ isrStack = <<>> /\ executing = c /\ pc[c] = "enable"
      /\ pc[TickIsr] = "off" /\ pc[DevIsr] = "off"
  BY ThreadRuns DEF DispatchEnable
<1>1. /\ necessary' = FALSE /\ level' = 0
      /\ pc' = [pc EXCEPT ![c] = "run"] /\ op' = [op EXCEPT ![c] = "none"]
      /\ UNCHANGED <<executing, heir, isrStack, cur, queue, ahead, flags, ret,
                   state, armed, ticks>>
  BY <1>0
  DEF DispatchEnable, DoDispatch, Goto, KernelInv, KernelTypeOK, waitVars, timerVars
<1>a. \A d \in Context, u \in Thread :
        /\ Unblocks(d, u)' <=> Unblocks(d, u)
        /\ Disarms(d, u)' <=> Disarms(d, u)
  BY <1>0, <1>1 DEF KernelInv, KernelTypeOK, Unblocks, Disarms, UnblockingPc,
     Context, Isr
<1>b. c \in Thread =>
        /\ state[c] = "ready" /\ c \notin armed
        /\ flags[c] \notin {"intend_to_block", "blocked"}
        /\ \A d \in Context : cur[d] # c
  <2> SUFFICES ASSUME c \in Thread
               PROVE  /\ state[c] = "ready" /\ c \notin armed
                      /\ flags[c] \notin {"intend_to_block", "blocked"}
                      /\ \A d \in Context : cur[d] # c
    OBVIOUS
  <2>1. state[c] = "ready" /\ flags[c] \notin {"intend_to_block", "blocked"}
    BY <1>0 DEF KernelInv, RunsReady, WaitInv, UndoingPc
  <2>2. \A d \in Context : cur[d] # c
    BY <1>0, <2>1 DEF KernelInv, KernelTypeOK, HoldInv, EndedInv, Unblocks,
       UnblockingPc, ControlInv, ThreadPc, DevPc, Context, Isr
  <2>3. c \notin armed
    BY <1>0, <2>1, <2>2 DEF KernelInv, TimerInv, WaitInv, Disarms
  <2> QED
    BY <2>1, <2>2, <2>3
<1>c. \A u \in armed : u # c /\ pc'[u] = pc[u]
  BY <1>0, <1>1, <1>b DEF KernelInv, KernelTypeOK, Context
<1>2. KernelTypeOK'
  BY <1>0, <1>1 DEF KernelInv, KernelTypeOK, Context, Isr, ThreadPc, IsrPc, Op
<1>3. ControlInv'
  BY <1>0, <1>1 DEF KernelInv, KernelTypeOK, ControlInv, ThreadPc, TickPc,
     DevPc, Context, Isr
<1>4. StackInv'
  BY <1>0, <1>1 DEF KernelInv, KernelTypeOK, StackInv, Context, Isr
<1>5. WaitInv'
  BY <1>0, <1>1, <1>b DEF KernelInv, KernelTypeOK, WaitInv, UndoingPc,
     Context, Isr
<1>6. HoldInv'
  BY <1>0, <1>1 DEF KernelInv, KernelTypeOK, HoldInv, UnblockingPc, Context,
     Isr
<1>7. HandInv'
  BY <1>0, <1>1, <1>b DEF KernelInv, KernelTypeOK, HandInv, Context, Isr
<1>8. EndedInv'
  BY <1>0, <1>1, <1>a, <1>b DEF KernelInv, KernelTypeOK, EndedInv, Context,
     Isr, Unblocks
<1>9. TimerInv'
  BY <1>0, <1>1, <1>a, <1>c DEF KernelInv, KernelTypeOK, TimerInv, WaitInv,
     UndoingPc, Context, Isr
<1>10. NoStrandedThread'
  BY <1>0, <1>1, <1>a DEF KernelInv, KernelTypeOK, NoStrandedThread,
     UndoingPc, Context, Isr, WaitInv
<1>11. SingleUnblocker'
  BY <1>0, <1>1, <1>a DEF KernelInv, KernelTypeOK, SingleUnblocker
<1>12. PendingDispatch' /\ RunsReady'
  BY <1>0, <1>1 DEF KernelInv, KernelTypeOK, PendingDispatch, RunsReady,
     Context, Isr
<1>13. LevelBalanced'
  BY <1>0, <1>1 DEF KernelInv, KernelTypeOK, LevelBalanced, ThreadLevel,
     IsrLevel, Context, Isr
<1> QED
  BY <1>2, <1>3, <1>4, <1>5, <1>6, <1>7, <1>8, <1>9, <1>10, <1>11, <1>12,
     <1>13 DEF KernelInv

\* _Thread_Dispatch_enable switches to another heir, which was itself switched
\* out with dispatching disabled once.
LEMMA DispatchSwitches ==
  ASSUME KernelInv, NEW c \in Thread \cup {Idle}, DispatchEnable(c), heir # c
  PROVE  KernelInv'
<1> USE ContextAssumption
<1>0. /\ isrStack = <<>> /\ executing = c /\ pc[c] = "enable"
      /\ pc[TickIsr] = "off" /\ pc[DevIsr] = "off"
  BY ThreadRuns DEF DispatchEnable
<1>1. /\ executing' = heir /\ necessary' = FALSE /\ level' = 1
      /\ pc[heir] = "enable"
      /\ UNCHANGED <<heir, isrStack, pc, cur, op, queue, ahead, flags, ret,
                   state, armed, ticks>>
  BY <1>0
  DEF DispatchEnable, DoDispatch, Goto, KernelInv, KernelTypeOK, ControlInv,
      PendingDispatch, waitVars, timerVars, Context
<1>a. \A d \in Context, u \in Thread :
        /\ Unblocks(d, u)' <=> Unblocks(d, u)
        /\ Disarms(d, u)' <=> Disarms(d, u)
  BY <1>0, <1>1 DEF KernelInv, KernelTypeOK, Unblocks, Disarms, UnblockingPc,
     Context, Isr
<1>2. KernelTypeOK'
  BY <1>0, <1>1 DEF KernelInv, KernelTypeOK, Context, Isr, ThreadPc, IsrPc
<1>3. ControlInv'
  BY <1>0, <1>1 DEF KernelInv, KernelTypeOK, ControlInv, ThreadPc, TickPc,
     DevPc, Context, Isr
<1>4. StackInv'
  BY <1>0, <1>1 DEF KernelInv, KernelTypeOK, StackInv, Context, Isr
<1>5. WaitInv'
  BY <1>0, <1>1 DEF KernelInv, KernelTypeOK, WaitInv, UndoingPc, Context, Isr
<1>6. HoldInv'
  BY <1>0, <1>1 DEF KernelInv, KernelTypeOK, HoldInv, UnblockingPc, Context,
     Isr
<1>7. HandInv'
  BY <1>0, <1>1 DEF KernelInv, KernelTypeOK, HandInv, Context, Isr
<1>8. EndedInv'
  BY <1>0, <1>1, <1>a DEF KernelInv, KernelTypeOK, EndedInv, Context, Isr
<1>9. TimerInv'
  BY <1>0, <1>1, <1>a DEF KernelInv, KernelTypeOK, TimerInv, WaitInv,
     UndoingPc, Context, Isr
<1>10. NoStrandedThread'
  BY <1>0, <1>1, <1>a DEF KernelInv, KernelTypeOK, NoStrandedThread,
     UndoingPc, Context, Isr, WaitInv
<1>11. SingleUnblocker'
  BY <1>0, <1>1, <1>a DEF KernelInv, KernelTypeOK, SingleUnblocker
<1>12. PendingDispatch' /\ RunsReady'
  BY <1>0, <1>1 DEF KernelInv, KernelTypeOK, PendingDispatch, RunsReady,
     Context, Isr
<1>13. LevelBalanced'
  BY <1>0, <1>1 DEF KernelInv, KernelTypeOK, LevelBalanced, ThreadLevel,
     IsrLevel, Context, Isr
<1> QED
  BY <1>2, <1>3, <1>4, <1>5, <1>6, <1>7, <1>8, <1>9, <1>10, <1>11, <1>12,
     <1>13 DEF KernelInv

\* _Thread_Dispatch_enable preserves the invariant.
LEMMA DispatchEnableInv ==
  ASSUME KernelInv, NEW c \in Thread \cup {Idle}, DispatchEnable(c)
  PROVE  KernelInv'
BY DispatchReturns, DispatchSwitches

\* Entering an interrupt, nested or not, preserves the invariant.
LEMMA IsrEnterInv ==
  ASSUME KernelInv, NEW i \in Isr, IsrEnter(i)
  PROVE  KernelInv'
<1> USE ContextAssumption
<1>0. /\ pc[i] = "off" /\ i \notin Thread /\ i # Idle
  BY ContextAssumption DEF IsrEnter, Isr
<1>1. /\ pc' = [pc EXCEPT ![i] = "body"] /\ level' = level + 1
      /\ isrStack' = Append(isrStack, i)
      /\ UNCHANGED <<executing, heir, necessary, cur, op, queue, ahead, flags,
                   ret, state, armed, ticks>>
  BY DEF IsrEnter, Goto, waitVars, timerVars
<1>a. \A c \in Context, u \in Thread :
        /\ Unblocks(c, u)' <=> Unblocks(c, u)
        /\ Disarms(c, u)' <=> Disarms(c, u)
  BY <1>0, <1>1 DEF KernelInv, KernelTypeOK, Unblocks, Disarms, UnblockingPc,
     Context, Isr
<1>2. KernelTypeOK'
  BY <1>0, <1>1 DEF KernelInv, KernelTypeOK, Context, Isr, ThreadPc, IsrPc
<1>3. ControlInv'
  BY <1>0, <1>1 DEF KernelInv, KernelTypeOK, ControlInv, ThreadPc, TickPc,
     DevPc, Context, Isr
<1>4. StackInv'
  <2>1. isrStack \in Seq(Isr) /\ Len(isrStack) \in Nat
    BY LenProperties DEF KernelInv, KernelTypeOK
  <2>2. /\ Len(isrStack') = Len(isrStack) + 1 /\ isrStack'[Len(isrStack) + 1] = i
        /\ \A k \in 1 .. Len(isrStack) : isrStack'[k] = isrStack[k]
    BY <1>1, <2>1
  <2>3. /\ pc'[i] = "body"
        /\ \A j \in Isr : j # i => pc'[j] = pc[j]
    BY <1>0, <1>1 DEF KernelInv, KernelTypeOK, Context
  <2>4. Len(isrStack) # 2
    BY <1>0, <2>1 DEF KernelInv, StackInv
  <2>5. CASE Len(isrStack) = 0
    BY <2>2, <2>3, <2>5 DEF KernelInv, StackInv, Isr
  <2>6. CASE Len(isrStack) = 1
    <3>1. isrStack'[2] = i /\ isrStack'[1] = isrStack[1] /\ isrStack[1] \in Isr
      BY <2>1, <2>2, <2>6
    <3>2. isrStack[1] # i /\ pc[isrStack[1]] # "off"
      BY <1>0, <2>6, <3>1 DEF KernelInv, StackInv
    <3> QED
      BY <2>2, <2>3, <2>6, <3>1, <3>2 DEF StackInv, Isr
  <2> QED
    BY <2>4, <2>5, <2>6, StackLength
<1>5. WaitInv'
  BY <1>0, <1>1 DEF KernelInv, KernelTypeOK, WaitInv, UndoingPc, Context, Isr
<1>6. HoldInv'
  BY <1>0, <1>1 DEF KernelInv, KernelTypeOK, HoldInv, UnblockingPc, Context,
     Isr
<1>7. HandInv'
  BY <1>0, <1>1 DEF KernelInv, KernelTypeOK, HandInv, Context, Isr
<1>8. EndedInv'
  BY <1>0, <1>1, <1>a DEF KernelInv, KernelTypeOK, EndedInv, Context, Isr
<1>9. TimerInv'
  BY <1>0, <1>1, <1>a DEF KernelInv, KernelTypeOK, TimerInv, WaitInv,
     UndoingPc, Context, Isr
<1>10. NoStrandedThread'
  BY <1>0, <1>1, <1>a DEF KernelInv, KernelTypeOK, NoStrandedThread,
     UndoingPc, Context, Isr, WaitInv
<1>11. SingleUnblocker'
  BY <1>0, <1>1, <1>a DEF KernelInv, KernelTypeOK, SingleUnblocker
<1>12. PendingDispatch' /\ RunsReady'
  BY <1>0, <1>1 DEF KernelInv, KernelTypeOK, PendingDispatch, RunsReady,
     Context, Isr
<1>13. LevelBalanced'
  BY <1>0, <1>1 DEF KernelInv, KernelTypeOK, LevelBalanced, ThreadLevel,
     IsrLevel, Context, Isr
<1> QED
  BY <1>2, <1>3, <1>4, <1>5, <1>6, <1>7, <1>8, <1>9, <1>10, <1>11, <1>12,
     <1>13 DEF KernelInv

\* A step of a handler is a step of the innermost interrupt.
LEMMA IsrRuns ==
  ASSUME KernelInv, NEW i \in Isr, NEW l, At(i, l)
  PROVE  /\ pc[i] = l /\ Len(isrStack) \in Nat \ {0}
         /\ isrStack[Len(isrStack)] = i
<1>1. isrStack \in Seq(Isr)
  BY DEF KernelInv, KernelTypeOK
<1>2. isrStack # <<>>
  BY ContextAssumption DEF At, Running, KernelInv, KernelTypeOK, Isr
<1> QED
  BY <1>1, <1>2, EmptySeq DEF At, Running

\* An interrupt that returns without a dispatch: nested, or with dispatching
\* disabled below it, or with none necessary.
LEMMA IsrReturns ==
  ASSUME KernelInv, NEW i \in Isr, IsrExit(i),
         ~(isrStack' = <<>> /\ level = 1 /\ necessary)
  PROVE  KernelInv'
<1> USE ContextAssumption
<1>0. /\ pc[i] = "exit" /\ i \notin Thread /\ i # Idle
      /\ Len(isrStack) \in Nat \ {0} /\ isrStack[Len(isrStack)] = i
      /\ level \in Nat /\ level > 0
  BY IsrRuns
  DEF IsrExit, Isr, KernelInv, KernelTypeOK, LevelBalanced, IsrLevel, ThreadLevel
<1>1. /\ isrStack' = SubSeq(isrStack, 1, Len(isrStack) - 1)
      /\ pc' = [pc EXCEPT ![i] = "off"] /\ level' = level - 1
      /\ op' = [op EXCEPT ![i] = "none"]
      /\ UNCHANGED <<executing, heir, necessary, cur, queue, ahead, flags, ret,
                   state, armed, ticks>>
  BY DEF IsrExit, Goto, waitVars, timerVars
<1>a. \A c \in Context, u \in Thread :
        /\ Unblocks(c, u)' <=> Unblocks(c, u)
        /\ Disarms(c, u)' <=> Disarms(c, u)
  BY <1>0, <1>1 DEF KernelInv, KernelTypeOK, Unblocks, Disarms, UnblockingPc,
     Context, Isr
<1>b. necessary => level' > 0
  <2> SUFFICES ASSUME necessary, level = 1 PROVE FALSE
    BY <1>0, <1>1
  <2>1. isrStack' # <<>>
    OBVIOUS
  <2>2. Len(isrStack) # 1
    <3> SUFFICES ASSUME Len(isrStack) = 1 PROVE FALSE
      OBVIOUS
    <3>1. isrStack' = SubSeq(isrStack, 1, 0)
      BY <1>1
    <3> QED
      BY <2>1, <3>1, SubSeqEmpty
  <2>3. Len(isrStack) = 2
    BY <1>0, <2>2, StackLength
  <2> QED
    BY <1>0, <2>3 DEF KernelInv, KernelTypeOK, StackInv, LevelBalanced, ThreadLevel,
       IsrLevel, Isr
<1>2. KernelTypeOK'
  BY <1>0, <1>1 DEF KernelInv, KernelTypeOK, Context, Isr, ThreadPc, IsrPc, Op
<1>3. ControlInv'
  BY <1>0, <1>1 DEF KernelInv, KernelTypeOK, ControlInv, ThreadPc, TickPc,
     DevPc, Context, Isr
<1>4. StackInv'
  <2>1. isrStack \in Seq(Isr) /\ Len(isrStack) \in {1, 2}
    BY <1>0, StackLength
  <2>2. /\ Len(isrStack') = Len(isrStack) - 1
        /\ \A k \in 1 .. Len(isrStack) - 1 : isrStack'[k] = isrStack[k]
    BY <1>1, <2>1, ButLast
  <2>3. pc'[i] = "off" /\ \A j \in Isr : j # i => pc'[j] = pc[j]
    BY <1>0, <1>1 DEF KernelInv, KernelTypeOK, Context, Isr
  <2>4. CASE Len(isrStack) = 1
    BY <1>0, <2>2, <2>3, <2>4 DEF KernelInv, StackInv, Isr
  <2>5. CASE Len(isrStack) = 2
    <3>1. isrStack'[1] = isrStack[1] /\ isrStack[1] # i /\ isrStack[1] \in Isr
      BY <1>0, <2>1, <2>2, <2>5 DEF KernelInv, StackInv
    <3> QED
      BY <2>2, <2>3, <2>5, <3>1 DEF KernelInv, StackInv, Isr
  <2> QED
    BY <2>1, <2>4, <2>5
<1>5. WaitInv'
  BY <1>0, <1>1 DEF KernelInv, KernelTypeOK, WaitInv, UndoingPc, Context, Isr
<1>6. HoldInv'
  BY <1>0, <1>1 DEF KernelInv, KernelTypeOK, HoldInv, UnblockingPc, Context,
     Isr
<1>7. HandInv'
  BY <1>0, <1>1 DEF KernelInv, KernelTypeOK, HandInv, Context, Isr
<1>8. EndedInv'
  BY <1>0, <1>1, <1>a DEF KernelInv, KernelTypeOK, EndedInv, Context, Isr
<1>9. TimerInv'
  BY <1>0, <1>1, <1>a DEF KernelInv, KernelTypeOK, TimerInv, WaitInv,
     UndoingPc, Context, Isr
<1>10. NoStrandedThread'
  BY <1>0, <1>1, <1>a DEF KernelInv, KernelTypeOK, NoStrandedThread,
     UndoingPc, Context, Isr, WaitInv
<1>11. SingleUnblocker'
  BY <1>0, <1>1, <1>a DEF KernelInv, KernelTypeOK, SingleUnblocker
<1>12. PendingDispatch' /\ RunsReady'
  BY <1>0, <1>1, <1>b DEF KernelInv, KernelTypeOK, PendingDispatch,
     RunsReady, Context, Isr
<1>13. LevelBalanced'
  BY <1>0, <1>1 DEF KernelInv, KernelTypeOK, LevelBalanced, ThreadLevel,
     IsrLevel, Context, Isr
<1> QED
  BY <1>2, <1>3, <1>4, <1>5, <1>6, <1>7, <1>8, <1>9, <1>10, <1>11, <1>12,
     <1>13 DEF KernelInv

\* The outermost interrupt preempts the executing thread, which is in its own
\* code because dispatching was enabled.
LEMMA IsrPreempts ==
  ASSUME KernelInv, NEW i \in Isr, IsrExit(i),
         isrStack' = <<>> /\ level = 1 /\ necessary
  PROVE  KernelInv'
<1> USE ContextAssumption
<1>0. /\ pc[i] = "exit" /\ i \notin Thread /\ i # Idle
      /\ Len(isrStack) \in Nat \ {0} /\ isrStack[Len(isrStack)] = i
      /\ level \in Nat /\ level > 0
  BY IsrRuns
  DEF IsrExit, Isr, KernelInv, KernelTypeOK, LevelBalanced, IsrLevel, ThreadLevel
<1>1. /\ isrStack' = SubSeq(isrStack, 1, Len(isrStack) - 1)
      /\ pc' = [pc EXCEPT ![i] = "off", ![executing] = "enable"] /\ level' = 1
      /\ op' = [op EXCEPT ![i] = "none"]
      /\ necessary = TRUE /\ level = 1
      /\ UNCHANGED <<executing, heir, necessary, cur, queue, ahead, flags, ret,
                   state, armed, ticks>>
  BY DEF IsrExit, Goto, waitVars, timerVars, KernelInv, KernelTypeOK
<1>b. pc[executing] = "run" /\ executing # i /\ executing \in Thread \cup {Idle}
  BY <1>0, <1>1 DEF KernelInv, KernelTypeOK, ControlInv, ThreadPc, LevelBalanced,
     ThreadLevel, IsrLevel, TickPc, DevPc, Context, Isr
<1>c. \A u \in armed : u # executing /\ pc'[u] = pc[u]
  BY <1>0, <1>1, <1>b DEF KernelInv, KernelTypeOK, TimerInv, Context, Isr
<1>a. \A c \in Context, u \in Thread :
        /\ Unblocks(c, u)' <=> Unblocks(c, u)
        /\ Disarms(c, u)' <=> Disarms(c, u)
  BY <1>0, <1>1, <1>b DEF KernelInv, KernelTypeOK, Unblocks, Disarms, UnblockingPc,
     Context, Isr
<1>2. KernelTypeOK'
  BY <1>0, <1>1 DEF KernelInv, KernelTypeOK, Context, Isr, ThreadPc, IsrPc, Op
<1>3. ControlInv'
  BY <1>0, <1>1 DEF KernelInv, KernelTypeOK, ControlInv, ThreadPc, TickPc,
     DevPc, Context, Isr
<1>4. StackInv'
  <2>1. pc'[TickIsr] = "off" /\ pc'[DevIsr] = "off"
    BY <1>0, <1>1, <1>b DEF KernelInv, KernelTypeOK, ControlInv, LevelBalanced,
       ThreadLevel, IsrLevel, TickPc, DevPc, Context, Isr
  <2> QED
    BY <2>1 DEF StackInv
<1>5. WaitInv'
  BY <1>0, <1>1, <1>b DEF KernelInv, KernelTypeOK, WaitInv, UndoingPc,
     Context, Isr
<1>6. HoldInv'
  BY <1>0, <1>1, <1>b DEF KernelInv, KernelTypeOK, HoldInv, UnblockingPc,
     Context, Isr
<1>7. HandInv'
  BY <1>0, <1>1 DEF KernelInv, KernelTypeOK, HandInv, Context, Isr
<1>8. EndedInv'
  BY <1>0, <1>1, <1>a, <1>b DEF KernelInv, KernelTypeOK, EndedInv, Context,
     Isr
<1>9. TimerInv'
  BY <1>0, <1>1, <1>a, <1>b, <1>c DEF KernelInv, KernelTypeOK, TimerInv,
     WaitInv, UndoingPc, Context, Isr
<1>10. NoStrandedThread'
  BY <1>0, <1>1, <1>a, <1>b DEF KernelInv, KernelTypeOK, NoStrandedThread,
     UndoingPc, Context, Isr
<1>11. SingleUnblocker'
  BY <1>0, <1>1, <1>a DEF KernelInv, KernelTypeOK, SingleUnblocker
<1>12. PendingDispatch' /\ RunsReady'
  BY <1>0, <1>1 DEF KernelInv, KernelTypeOK, PendingDispatch, RunsReady,
     Context, Isr
<1>13. LevelBalanced'
  BY <1>0, <1>1 DEF KernelInv, KernelTypeOK, LevelBalanced, ThreadLevel,
     IsrLevel, Context, Isr
<1> QED
  BY <1>2, <1>3, <1>4, <1>5, <1>6, <1>7, <1>8, <1>9, <1>10, <1>11, <1>12,
     <1>13 DEF KernelInv

\* Leaving an interrupt preserves the invariant.
LEMMA IsrExitInv ==
  ASSUME KernelInv, NEW i \in Isr, IsrExit(i)
  PROVE  KernelInv'
BY IsrReturns, IsrPreempts

\* The clock takes an expired timer off the chain and holds its thread.
LEMMA TickleFires ==
  ASSUME KernelInv, NEW left \in [Thread -> Nat], TickleStep(left),
         pc[TickIsr] \in {"body", "tickle"}, NEW t \in armed, armed' = armed \ {t},
         cur' = [cur EXCEPT ![TickIsr] = t], Goto(TickIsr, "timeout")
  PROVE  KernelInv'
<1> USE ContextAssumption
<1>0. /\ t \in Thread /\ op[t] = "seize"
      /\ TickIsr \notin Thread /\ TickIsr # Idle /\ TickIsr # DevIsr
  BY DEF KernelInv, KernelTypeOK, WaitInv, Isr
<1>1. /\ pc' = [pc EXCEPT ![TickIsr] = "timeout"] /\ ticks' = left
      /\ UNCHANGED <<executing, heir, necessary, level, isrStack, op, queue,
                   ahead, flags, ret, state>>
  BY DEF TickleStep, Goto, cpuVars, waitVars
<1>a. \A d \in Context, u \in Thread :
        /\ Unblocks(d, u)' <=> Unblocks(d, u)
        /\ Disarms(d, u)' <=> Disarms(d, u)
  BY <1>0, <1>1 DEF KernelInv, KernelTypeOK, Unblocks, Disarms, UnblockingPc,
     Context, Isr
<1>2. KernelTypeOK'
  BY <1>0, <1>1 DEF KernelInv, KernelTypeOK, Context, Isr, ThreadPc, IsrPc
<1>3. ControlInv'
  BY <1>0, <1>1 DEF KernelInv, KernelTypeOK, ControlInv, ThreadPc, TickPc,
     DevPc, Context, Isr
<1>4. StackInv'
  BY <1>0, <1>1 DEF KernelInv, KernelTypeOK, StackInv, Context, Isr
<1>5. WaitInv'
  BY <1>0, <1>1 DEF KernelInv, KernelTypeOK, WaitInv, UndoingPc, Context, Isr
<1>6. HoldInv'
  BY <1>0, <1>1 DEF KernelInv, KernelTypeOK, HoldInv, UnblockingPc, Context,
     Isr
<1>7. HandInv'
  BY <1>0, <1>1 DEF KernelInv, KernelTypeOK, HandInv, Context, Isr
<1>8. EndedInv'
  BY <1>0, <1>1, <1>a DEF KernelInv, KernelTypeOK, EndedInv, Context, Isr
<1>9. TimerInv'
  BY <1>0, <1>1, <1>a DEF KernelInv, KernelTypeOK, TimerInv, WaitInv,
     UndoingPc, Context, Isr
<1>10. NoStrandedThread'
  BY <1>0, <1>1, <1>a DEF KernelInv, KernelTypeOK, NoStrandedThread,
     UndoingPc, Context, Isr, WaitInv
<1>11. SingleUnblocker'
  BY <1>0, <1>1, <1>a DEF KernelInv, KernelTypeOK, SingleUnblocker
<1>12. PendingDispatch' /\ RunsReady'
  BY <1>0, <1>1 DEF KernelInv, KernelTypeOK, PendingDispatch, RunsReady,
     Context, Isr
<1>13. LevelBalanced'
  BY <1>0, <1>1 DEF KernelInv, KernelTypeOK, LevelBalanced, ThreadLevel,
     IsrLevel, Context, Isr
<1> QED
  BY <1>2, <1>3, <1>4, <1>5, <1>6, <1>7, <1>8, <1>9, <1>10, <1>11, <1>12,
     <1>13 DEF KernelInv

\* The clock finds no other expired timer.
LEMMA TickleEnds ==
  ASSUME KernelInv, NEW left \in [Thread -> Nat], TickleStep(left),
         pc[TickIsr] \in {"body", "tickle"}, armed' = armed, cur' = cur,
         Goto(TickIsr, "scheduler_tick")
  PROVE  KernelInv'
<1> USE ContextAssumption
<1>0. /\ TickIsr \notin Thread /\ TickIsr # Idle /\ TickIsr # DevIsr
  BY DEF Isr
<1>1. /\ pc' = [pc EXCEPT ![TickIsr] = "scheduler_tick"] /\ ticks' = left
      /\ UNCHANGED <<executing, heir, necessary, level, isrStack, cur, op,
                   queue, ahead, flags, ret, state, armed>>
  BY DEF TickleStep, Goto, cpuVars, waitVars
<1>a. \A d \in Context, u \in Thread :
        /\ Unblocks(d, u)' <=> Unblocks(d, u)
        /\ Disarms(d, u)' <=> Disarms(d, u)
  BY <1>0, <1>1 DEF KernelInv, KernelTypeOK, Unblocks, Disarms, UnblockingPc,
     Context, Isr
<1>2. KernelTypeOK'
  BY <1>0, <1>1 DEF KernelInv, KernelTypeOK, Context, Isr, ThreadPc, IsrPc
<1>3. ControlInv'
  BY <1>0, <1>1 DEF KernelInv, KernelTypeOK, ControlInv, ThreadPc, TickPc,
     DevPc, Context, Isr
<1>4. StackInv'
  BY <1>0, <1>1 DEF KernelInv, KernelTypeOK, StackInv, Context, Isr
<1>5. WaitInv'
  BY <1>0, <1>1 DEF KernelInv, KernelTypeOK, WaitInv, UndoingPc, Context, Isr
<1>6. HoldInv'
  BY <1>0, <1>1 DEF KernelInv, KernelTypeOK, HoldInv, UnblockingPc, Context,
     Isr
<1>7. HandInv'
  BY <1>0, <1>1 DEF KernelInv, KernelTypeOK, HandInv, Context, Isr
<1>8. EndedInv'
  BY <1>0, <1>1, <1>a DEF KernelInv, KernelTypeOK, EndedInv, Context, Isr
<1>9. TimerInv'
  BY <1>0, <1>1, <1>a DEF KernelInv, KernelTypeOK, TimerInv, WaitInv,
     UndoingPc, Context, Isr
<1>10. NoStrandedThread'
  BY <1>0, <1>1, <1>a DEF KernelInv, KernelTypeOK, NoStrandedThread,
     UndoingPc, Context, Isr, WaitInv
<1>11. SingleUnblocker'
  BY <1>0, <1>1, <1>a DEF KernelInv, KernelTypeOK, SingleUnblocker
<1>12. PendingDispatch' /\ RunsReady'
  BY <1>0, <1>1 DEF KernelInv, KernelTypeOK, PendingDispatch, RunsReady,
     Context, Isr
<1>13. LevelBalanced'
  BY <1>0, <1>1 DEF KernelInv, KernelTypeOK, LevelBalanced, ThreadLevel,
     IsrLevel, Context, Isr
<1> QED
  BY <1>2, <1>3, <1>4, <1>5, <1>6, <1>7, <1>8, <1>9, <1>10, <1>11, <1>12,
     <1>13 DEF KernelInv

\* One round of _Watchdog_Tickle preserves the invariant.
LEMMA TickleStepInv ==
  ASSUME KernelInv, NEW left \in [Thread -> Nat], TickleStep(left),
         pc[TickIsr] \in {"body", "tickle"}
  PROVE  KernelInv'
BY TickleFires, TickleEnds DEF TickleStep

\* The round that begins with the decrement of the timers.
LEMMA TickInv == ASSUME KernelInv, Tick PROVE KernelInv'
<1>1. [t \in Thread |-> IF t \in armed /\ ticks[t] # 0
                        THEN ticks[t] - 1 ELSE ticks[t]] \in [Thread -> Nat]
  BY DEF KernelInv, KernelTypeOK
<1> QED
  BY <1>1, TickleStepInv DEF Tick, At

\* The later rounds.
LEMMA TickleNextInv == ASSUME KernelInv, TickleNext PROVE KernelInv'
BY TickleStepInv DEF TickleNext, At, KernelInv, KernelTypeOK

\* The thread that is timed out is in its wait and its timer is off the chain.
LEMMA TimeoutHolds ==
  ASSUME KernelInv, Timeout
  PROVE  /\ pc[TickIsr] = "timeout"
         /\ cur[TickIsr] \in Thread /\ op[cur[TickIsr]] = "seize"
         /\ cur[TickIsr] \notin armed
<1>1. pc[TickIsr] = "timeout"
  BY DEF Timeout, At
<1>2. cur[TickIsr] \in Thread
  BY <1>1 DEF KernelInv, KernelTypeOK, HoldInv, UnblockingPc, Context, Isr
<1> QED
  BY <1>1, <1>2 DEF KernelInv, HandInv, TimerInv, Context, Isr

\* Taking a thread off the queue keeps the order typed.
LEMMA ExtractedType ==
  ASSUME KernelInv, NEW t \in Thread
  PROVE  Extracted(t) \in [Thread -> SUBSET Thread]
BY DEF KernelInv, KernelTypeOK, Extracted

\* A timeout that comes after the wait has ended changes nothing of the wait.
LEMMA TimeoutLate ==
  ASSUME KernelInv, NEW t, t = cur[TickIsr], Timeout, flags[t] = "ready_again"
  PROVE  KernelInv'
<1> USE ContextAssumption
<1>0. /\ pc[TickIsr] = "timeout" /\ t \in Thread /\ op[t] = "seize"
      /\ TickIsr \notin Thread /\ TickIsr # Idle /\ TickIsr # DevIsr
      /\ t # NoThread /\ t \notin armed
  BY TimeoutHolds DEF Context, Isr
<1>1. /\ pc' = [pc EXCEPT ![TickIsr] = "tickle"]
      /\ cur' = [cur EXCEPT ![TickIsr] = NoThread]
      /\ UNCHANGED <<executing, heir, necessary, level, isrStack, op, queue,
                   ahead, flags, ret, state, armed, ticks>>
  BY <1>0 DEF Timeout, Goto, cpuVars, waitVars, timerVars
<1>a. \A d \in Context, u \in Thread :
        /\ Unblocks(d, u)' <=> Unblocks(d, u)
        /\ Disarms(d, u)' <=> Disarms(d, u)
  BY <1>0, <1>1 DEF KernelInv, KernelTypeOK, Unblocks, Disarms, UnblockingPc,
     Context, Isr
<1>2. KernelTypeOK'
  BY <1>0, <1>1 DEF KernelInv, KernelTypeOK, Context, Isr, ThreadPc, IsrPc
<1>3. ControlInv'
  BY <1>0, <1>1 DEF KernelInv, KernelTypeOK, ControlInv, ThreadPc, TickPc,
     DevPc, Context, Isr
<1>4. StackInv'
  BY <1>0, <1>1 DEF KernelInv, KernelTypeOK, StackInv, Context, Isr
<1>5. WaitInv'
  BY <1>0, <1>1 DEF KernelInv, KernelTypeOK, WaitInv, UndoingPc, Context, Isr
<1>6. HoldInv'
  BY <1>0, <1>1 DEF KernelInv, KernelTypeOK, HoldInv, UnblockingPc, Context,
     Isr
<1>7. HandInv'
  BY <1>0, <1>1 DEF KernelInv, KernelTypeOK, HandInv, Context, Isr
<1>8. EndedInv'
  BY <1>0, <1>1, <1>a DEF KernelInv, KernelTypeOK, EndedInv, Context, Isr
<1>9. TimerInv'
  BY <1>0, <1>1, <1>a DEF KernelInv, KernelTypeOK, TimerInv, WaitInv,
     UndoingPc, Context, Isr
<1>10. NoStrandedThread'
  BY <1>0, <1>1, <1>a DEF KernelInv, KernelTypeOK, NoStrandedThread,
     UndoingPc, Context, Isr, WaitInv
<1>11. SingleUnblocker'
  BY <1>0, <1>1, <1>a DEF KernelInv, KernelTypeOK, SingleUnblocker
<1>12. PendingDispatch' /\ RunsReady'
  BY <1>0, <1>1 DEF KernelInv, KernelTypeOK, PendingDispatch, RunsReady,
     Context, Isr
<1>13. LevelBalanced'
  BY <1>0, <1>1 DEF KernelInv, KernelTypeOK, LevelBalanced, ThreadLevel,
     IsrLevel, Context, Isr
<1> QED
  BY <1>2, <1>3, <1>4, <1>5, <1>6, <1>7, <1>8, <1>9, <1>10, <1>11, <1>12,
     <1>13 DEF KernelInv

\* A timeout of a thread that only intends to block leaves the unblocking to
\* that thread.
LEMMA TimeoutIntends ==
  ASSUME KernelInv, NEW t, t = cur[TickIsr], Timeout, flags[t] = "intend_to_block"
  PROVE  KernelInv'
<1> USE ContextAssumption
<1>0. /\ pc[TickIsr] = "timeout" /\ t \in Thread /\ op[t] = "seize"
      /\ TickIsr \notin Thread /\ TickIsr # Idle /\ TickIsr # DevIsr
      /\ t # NoThread /\ t \notin armed
  BY TimeoutHolds DEF Context, Isr
<1>1. /\ pc' = [pc EXCEPT ![TickIsr] = "tickle"]
      /\ cur' = [cur EXCEPT ![TickIsr] = NoThread]
      /\ queue' = queue \ {t} /\ ahead' = Extracted(t)
      /\ flags' = [flags EXCEPT ![t] = "ready_again"]
      /\ ret' = [ret EXCEPT ![t] = "timeout"]
      /\ UNCHANGED <<executing, heir, necessary, level, isrStack, op, state,
                   armed, ticks>>
  BY <1>0 DEF Timeout, Extract, Goto, cpuVars, timerVars
<1>a. \A d \in Context, u \in Thread :
        /\ Unblocks(d, u)' <=> Unblocks(d, u)
        /\ Disarms(d, u)' <=> Disarms(d, u)
  BY <1>0, <1>1 DEF KernelInv, KernelTypeOK, Unblocks, Disarms, UnblockingPc,
     Context, Isr
<1>b. \A d \in Context : ~Unblocks(d, t)
  BY <1>0 DEF KernelInv, EndedInv
<1>2. KernelTypeOK'
  BY <1>0, <1>1, ExtractedType DEF KernelInv, KernelTypeOK, Context, Isr,
     ThreadPc, IsrPc, WaitFlags, Status
<1>3. ControlInv'
  BY <1>0, <1>1 DEF KernelInv, KernelTypeOK, ControlInv, ThreadPc, TickPc,
     DevPc, Context, Isr
<1>4. StackInv'
  BY <1>0, <1>1 DEF KernelInv, KernelTypeOK, StackInv, Context, Isr
<1>5. WaitInv'
  BY <1>0, <1>1 DEF KernelInv, KernelTypeOK, WaitInv, UndoingPc, Context, Isr
<1>6. HoldInv'
  BY <1>0, <1>1 DEF KernelInv, KernelTypeOK, HoldInv, UnblockingPc, Context,
     Isr
<1>7. HandInv'
  BY <1>0, <1>1 DEF KernelInv, KernelTypeOK, HandInv, Context, Isr
<1>8. EndedInv'
  BY <1>0, <1>1, <1>a, <1>b DEF KernelInv, KernelTypeOK, EndedInv, Context,
     Isr
<1>9. TimerInv'
  BY <1>0, <1>1, <1>a DEF KernelInv, KernelTypeOK, TimerInv, WaitInv,
     UndoingPc, Context, Isr
<1>10. NoStrandedThread'
  BY <1>0, <1>1, <1>a DEF KernelInv, KernelTypeOK, NoStrandedThread,
     UndoingPc, Context, Isr, WaitInv
<1>11. SingleUnblocker'
  BY <1>0, <1>1, <1>a DEF KernelInv, KernelTypeOK, SingleUnblocker
<1>12. PendingDispatch' /\ RunsReady'
  BY <1>0, <1>1 DEF KernelInv, KernelTypeOK, PendingDispatch, RunsReady,
     Context, Isr
<1>13. LevelBalanced'
  BY <1>0, <1>1 DEF KernelInv, KernelTypeOK, LevelBalanced, ThreadLevel,
     IsrLevel, Context, Isr
<1> QED
  BY <1>2, <1>3, <1>4, <1>5, <1>6, <1>7, <1>8, <1>9, <1>10, <1>11, <1>12,
     <1>13 DEF KernelInv

\* A timeout of a blocked thread takes on its unblocking.
LEMMA TimeoutUnblocks ==
  ASSUME KernelInv, NEW t, t = cur[TickIsr], Timeout,
         flags[t] \notin {"intend_to_block", "ready_again"}
  PROVE  KernelInv'
<1> USE ContextAssumption
<1>0. /\ pc[TickIsr] = "timeout" /\ t \in Thread /\ op[t] = "seize"
      /\ TickIsr \notin Thread /\ TickIsr # Idle /\ TickIsr # DevIsr
      /\ t # NoThread /\ t \notin armed
  BY TimeoutHolds DEF Context, Isr
<1>1. /\ flags[t] = "blocked"
      /\ pc' = [pc EXCEPT ![TickIsr] = "timeout_unblock"]
      /\ queue' = queue \ {t} /\ ahead' = Extracted(t)
      /\ flags' = [flags EXCEPT ![t] = "ready_again"]
      /\ ret' = [ret EXCEPT ![t] = "timeout"]
      /\ UNCHANGED <<executing, heir, necessary, level, isrStack, cur, op,
                   state, armed, ticks>>
  BY <1>0
  DEF Timeout, Extract, Goto, cpuVars, timerVars, KernelInv, KernelTypeOK, WaitInv,
      WaitFlags
<1>a. \A d \in Context, u \in Thread :
        /\ Unblocks(d, u)' <=> Unblocks(d, u) \/ (d = TickIsr /\ u = t)
        /\ Disarms(d, u)' <=> Disarms(d, u)
  BY <1>0, <1>1 DEF KernelInv, KernelTypeOK, Unblocks, Disarms, UnblockingPc,
     Context, Isr
<1>b. \A d \in Context : ~Unblocks(d, t)
  BY <1>0, <1>1 DEF KernelInv, EndedInv
<1>2. KernelTypeOK'
  BY <1>0, <1>1, ExtractedType DEF KernelInv, KernelTypeOK, Context, Isr,
     ThreadPc, IsrPc, WaitFlags, Status
<1>3. ControlInv'
  BY <1>0, <1>1 DEF KernelInv, KernelTypeOK, ControlInv, ThreadPc, TickPc,
     DevPc, Context, Isr
<1>4. StackInv'
  BY <1>0, <1>1 DEF KernelInv, KernelTypeOK, StackInv, Context, Isr
<1>5. WaitInv'
  BY <1>0, <1>1 DEF KernelInv, KernelTypeOK, WaitInv, UndoingPc, Context, Isr
<1>6. HoldInv'
  BY <1>0, <1>1 DEF KernelInv, KernelTypeOK, HoldInv, UnblockingPc, Context,
     Isr
<1>7. HandInv'
  BY <1>0, <1>1 DEF KernelInv, KernelTypeOK, HandInv, Context, Isr
<1>8. EndedInv'
  BY <1>0, <1>1, <1>a, <1>b DEF KernelInv, KernelTypeOK, EndedInv, Context,
     Isr, WaitInv
<1>9. TimerInv'
  BY <1>0, <1>1, <1>a DEF KernelInv, KernelTypeOK, TimerInv, WaitInv,
     UndoingPc, Context, Isr
<1>10. NoStrandedThread'
  BY <1>0, <1>1, <1>a DEF KernelInv, KernelTypeOK, NoStrandedThread,
     UndoingPc, Context, Isr, WaitInv
<1>11. SingleUnblocker'
  BY <1>0, <1>a, <1>b DEF KernelInv, SingleUnblocker
<1>12. PendingDispatch' /\ RunsReady'
  BY <1>0, <1>1 DEF KernelInv, KernelTypeOK, PendingDispatch, RunsReady,
     Context, Isr
<1>13. LevelBalanced'
  BY <1>0, <1>1 DEF KernelInv, KernelTypeOK, LevelBalanced, ThreadLevel,
     IsrLevel, Context, Isr
<1> QED
  BY <1>2, <1>3, <1>4, <1>5, <1>6, <1>7, <1>8, <1>9, <1>10, <1>11, <1>12,
     <1>13 DEF KernelInv

\* _Thread_Timeout preserves the invariant in its three cases.
LEMMA TimeoutInv == ASSUME KernelInv, Timeout PROVE KernelInv'
BY TimeoutLate, TimeoutIntends, TimeoutUnblocks

\* The unblocking at the end of _Thread_Timeout.
LEMMA TimeoutUnblockInv ==
  ASSUME KernelInv, TimeoutUnblock
  PROVE  KernelInv'
<1> USE ContextAssumption
<1>0. /\ pc[TickIsr] = "timeout_unblock" /\ cur[TickIsr] \in Thread
      /\ TickIsr \notin Thread /\ TickIsr # Idle /\ TickIsr # DevIsr
      /\ state[cur[TickIsr]] = "waiting" /\ flags[cur[TickIsr]] = "ready_again"
      /\ op[cur[TickIsr]] = "seize" /\ pc[cur[TickIsr]] = "enable"
      /\ level > 0
  BY DEF TimeoutUnblock, At, KernelInv, KernelTypeOK, HoldInv, HandInv, EndedInv,
     Unblocks, UnblockingPc, LevelBalanced, ThreadLevel, IsrLevel, Context, Isr
<1>1. /\ pc' = [pc EXCEPT ![TickIsr] = "tickle"]
      /\ cur' = [cur EXCEPT ![TickIsr] = NoThread]
      /\ state' = [state EXCEPT ![cur[TickIsr]] = "ready"]
      /\ \/ heir' = heir /\ necessary' = necessary
         \/ heir' = cur[TickIsr] /\ necessary' = TRUE
      /\ UNCHANGED <<executing, level, isrStack, op, queue, ahead, flags, ret,
                   armed, ticks>>
  BY <1>0, ClearStateHeir
  DEF TimeoutUnblock, ClearState, Goto, waitVars, timerVars
<1>a. \A d \in Context, u \in Thread :
        /\ Unblocks(d, u)' <=> Unblocks(d, u) /\ d # TickIsr
        /\ Disarms(d, u)' <=> Disarms(d, u)
  BY <1>0, <1>1 DEF KernelInv, KernelTypeOK, Unblocks, Disarms, UnblockingPc,
     Context, Isr
<1>b. \A d \in Context, u \in Thread : Unblocks(d, u) /\ d # TickIsr => u # cur[TickIsr]
  BY <1>0 DEF KernelInv, SingleUnblocker, Unblocks, UnblockingPc, Context, Isr
<1>c. \A u \in Thread : Unblocks(TickIsr, u) => u = cur[TickIsr]
  BY DEF Unblocks
<1>2. KernelTypeOK'
  BY <1>0, <1>1 DEF KernelInv, KernelTypeOK, Context, Isr, ThreadPc, IsrPc,
     ThreadState
<1>3. ControlInv'
  BY <1>0, <1>1 DEF KernelInv, KernelTypeOK, ControlInv, ThreadPc, TickPc,
     DevPc, Context, Isr
<1>4. StackInv'
  BY <1>0, <1>1 DEF KernelInv, KernelTypeOK, StackInv, Context, Isr
<1>5. WaitInv'
  BY <1>0, <1>1 DEF KernelInv, KernelTypeOK, WaitInv, UndoingPc, Context, Isr
<1>6. HoldInv'
  BY <1>0, <1>1 DEF KernelInv, KernelTypeOK, HoldInv, UnblockingPc, Context,
     Isr
<1>7. HandInv'
  BY <1>0, <1>1 DEF KernelInv, KernelTypeOK, HandInv, Context, Isr
<1>8. EndedInv'
  BY <1>0, <1>1, <1>a, <1>b DEF KernelInv, KernelTypeOK, EndedInv, Context,
     Isr
<1>9. TimerInv'
  BY <1>0, <1>1, <1>a DEF KernelInv, KernelTypeOK, TimerInv, WaitInv,
     UndoingPc, Context, Isr
<1>10. NoStrandedThread'
  <2> SUFFICES ASSUME NEW u \in Thread, state'[u] = "waiting"
               PROVE  \/ u \in queue \/ pc'[u] \in UndoingPc
                      \/ \E d \in Context : Unblocks(d, u)'
    BY <1>1 DEF NoStrandedThread
  <2>1. u # cur[TickIsr] /\ state[u] = "waiting"
    BY <1>0, <1>1 DEF KernelInv, KernelTypeOK
  <2>2. pc[u] \in UndoingPc => pc'[u] = pc[u]
    BY <1>0, <1>1 DEF UndoingPc, KernelInv, KernelTypeOK, Context
  <2> QED
    BY <1>a, <1>c, <2>1, <2>2 DEF KernelInv, NoStrandedThread
<1>11. SingleUnblocker'
  BY <1>0, <1>1, <1>a DEF KernelInv, KernelTypeOK, SingleUnblocker
<1>12. PendingDispatch' /\ RunsReady'
  BY <1>0, <1>1 DEF KernelInv, KernelTypeOK, PendingDispatch, RunsReady,
     Context, Isr
<1>13. LevelBalanced'
  BY <1>0, <1>1 DEF KernelInv, KernelTypeOK, LevelBalanced, ThreadLevel,
     IsrLevel, Context, Isr
<1> QED
  BY <1>2, <1>3, <1>4, <1>5, <1>6, <1>7, <1>8, <1>9, <1>10, <1>11, <1>12,
     <1>13 DEF KernelInv

\* The end of a time slice leaves a ready heir, with a dispatch recorded.
LEMMA SchedulerTickInv ==
  ASSUME KernelInv, SchedulerTick
  PROVE  KernelInv'
<1> USE ContextAssumption
<1>0. /\ TickIsr \notin Thread /\ TickIsr # Idle /\ TickIsr # DevIsr
      /\ pc[TickIsr] = "scheduler_tick" /\ level > 0
  BY DEF SchedulerTick, At, KernelInv, KernelTypeOK, LevelBalanced, ThreadLevel,
     IsrLevel, Isr
<1>1. /\ pc' = [pc EXCEPT ![TickIsr] = "exit"]
      /\ \/ heir' = heir /\ necessary' = necessary
         \/ heir' \in Thread /\ state[heir'] = "ready" /\ necessary' = TRUE
      /\ UNCHANGED <<executing, level, isrStack, cur, op, queue, ahead, flags, ret,
                   state, armed, ticks>>
  BY DEF SchedulerTick, UpdateHeir, ReadyThreads, Goto, waitVars, timerVars
<1>a. \A d \in Context, u \in Thread :
        /\ Unblocks(d, u)' <=> Unblocks(d, u)
        /\ Disarms(d, u)' <=> Disarms(d, u)
  BY <1>0, <1>1 DEF KernelInv, KernelTypeOK, Unblocks, Disarms, UnblockingPc,
     Context, Isr
<1>2. KernelTypeOK'
  BY <1>0, <1>1 DEF KernelInv, KernelTypeOK, Context, Isr, ThreadPc, IsrPc
<1>3. ControlInv'
  BY <1>0, <1>1 DEF KernelInv, KernelTypeOK, ControlInv, ThreadPc, TickPc,
     DevPc, Context, Isr
<1>4. StackInv'
  BY <1>0, <1>1 DEF KernelInv, KernelTypeOK, StackInv, Context, Isr
<1>5. WaitInv'
  BY <1>0, <1>1 DEF KernelInv, KernelTypeOK, WaitInv, UndoingPc, Context, Isr
<1>6. HoldInv'
  BY <1>0, <1>1 DEF KernelInv, KernelTypeOK, HoldInv, UnblockingPc, Context,
     Isr
<1>7. HandInv'
  BY <1>0, <1>1 DEF KernelInv, KernelTypeOK, HandInv, Context, Isr
<1>8. EndedInv'
  BY <1>0, <1>1, <1>a DEF KernelInv, KernelTypeOK, EndedInv, Context, Isr
<1>9. TimerInv'
  BY <1>0, <1>1, <1>a DEF KernelInv, KernelTypeOK, TimerInv, WaitInv,
     UndoingPc, Context, Isr
<1>10. NoStrandedThread'
  BY <1>0, <1>1, <1>a DEF KernelInv, KernelTypeOK, NoStrandedThread,
     UndoingPc, Context, Isr, WaitInv
<1>11. SingleUnblocker'
  BY <1>0, <1>1, <1>a DEF KernelInv, KernelTypeOK, SingleUnblocker
<1>12. PendingDispatch' /\ RunsReady'
  BY <1>0, <1>1 DEF KernelInv, KernelTypeOK, PendingDispatch, RunsReady,
     Context, Isr
<1>13. LevelBalanced'
  BY <1>0, <1>1 DEF KernelInv, KernelTypeOK, LevelBalanced, ThreadLevel,
     IsrLevel, Context, Isr
<1> QED
  BY <1>2, <1>3, <1>4, <1>5, <1>6, <1>7, <1>8, <1>9, <1>10, <1>11, <1>12,
     <1>13 DEF KernelInv

\* Putting a thread on the queue keeps the order typed.
LEMMA EnqueuedType ==
  ASSUME KernelInv, NEW t \in Thread
  PROVE  Enqueued(t) \in [Thread -> SUBSET Thread]
BY DEF KernelInv, KernelTypeOK, Enqueued

\* The section that an obtain shares with _Thread_queue_Enqueue_critical.
LEMMA EnqueueCriticalInv ==
  ASSUME KernelInv, NEW t \in Thread, NEW timeout \in Nat, At(t, "run"),
         EnqueueCritical(t, timeout), ret' \in [Thread -> Status],
         op' = [op EXCEPT ![t] = "seize"],
         UNCHANGED <<executing, heir, necessary, isrStack, cur, state, armed>>
  PROVE  KernelInv'
<1> USE ContextAssumption
<1>0. /\ isrStack = <<>> /\ executing = t /\ pc[t] = "run"
      /\ pc[TickIsr] = "off" /\ pc[DevIsr] = "off"
      /\ op[t] = "none" /\ state[t] = "ready" /\ t \notin armed
  BY ThreadRuns DEF KernelInv, WaitInv
<1>1. /\ queue' = queue \cup {t} /\ ahead' = Enqueued(t)
      /\ flags' = [flags EXCEPT ![t] = "intend_to_block"]
      /\ ticks' = [ticks EXCEPT ![t] = timeout] /\ level' = level + 1
      /\ pc' = [pc EXCEPT ![t] = "set_state"]
  BY DEF EnqueueCritical, Goto
<1>a. \A c \in Context, u \in Thread :
        /\ Unblocks(c, u)' <=> Unblocks(c, u)
        /\ Disarms(c, u)' <=> Disarms(c, u)
  BY <1>0, <1>1 DEF KernelInv, KernelTypeOK, Unblocks, Disarms, UnblockingPc,
     Context, Isr
<1>b. \A d \in Context : ~Unblocks(d, t)
  BY <1>0 DEF KernelInv, EndedInv
<1>c. \A u \in armed : u # t /\ pc'[u] = pc[u]
  BY <1>0, <1>1 DEF KernelInv, KernelTypeOK, Context
<1>2. KernelTypeOK'
  BY <1>0, <1>1, EnqueuedType DEF KernelInv, KernelTypeOK, Context, Isr,
     ThreadPc, IsrPc, WaitFlags, Op
<1>3. ControlInv'
  BY <1>0, <1>1 DEF KernelInv, KernelTypeOK, ControlInv, ThreadPc, TickPc,
     DevPc, Context, Isr
<1>4. StackInv'
  BY <1>0, <1>1 DEF KernelInv, KernelTypeOK, StackInv, Context, Isr
<1>5. WaitInv'
  BY <1>0, <1>1 DEF KernelInv, KernelTypeOK, WaitInv, UndoingPc, Context, Isr
<1>6. HoldInv'
  BY <1>0, <1>1 DEF KernelInv, KernelTypeOK, HoldInv, UnblockingPc, Context,
     Isr
<1>7. HandInv'
  BY <1>0, <1>1 DEF KernelInv, KernelTypeOK, HandInv, Context, Isr
<1>8. EndedInv'
  BY <1>0, <1>1, <1>a, <1>b DEF KernelInv, KernelTypeOK, EndedInv, Context,
     Isr
<1>9. TimerInv'
  BY <1>0, <1>1, <1>a, <1>c DEF KernelInv, KernelTypeOK, TimerInv, WaitInv,
     UndoingPc, Context, Isr
<1>10. NoStrandedThread'
  BY <1>0, <1>1, <1>a DEF KernelInv, KernelTypeOK, NoStrandedThread,
     UndoingPc, Context, Isr, WaitInv
<1>11. SingleUnblocker'
  BY <1>0, <1>1, <1>a DEF KernelInv, KernelTypeOK, SingleUnblocker
<1>12. PendingDispatch' /\ RunsReady'
  BY <1>0, <1>1 DEF KernelInv, KernelTypeOK, PendingDispatch, RunsReady,
     Context, Isr
<1>13. LevelBalanced'
  BY <1>0, <1>1 DEF KernelInv, KernelTypeOK, LevelBalanced, ThreadLevel,
     IsrLevel, Context, Isr
<1> QED
  BY <1>2, <1>3, <1>4, <1>5, <1>6, <1>7, <1>8, <1>9, <1>10, <1>11, <1>12,
     <1>13 DEF KernelInv

\* A surrender by an interrupt handler finds a thread that only intends to block.
LEMMA ExtractIntends ==
  ASSUME KernelInv, NEW t \in queue, flags[t] = "intend_to_block", At(DevIsr, "body"),
         ExtractCritical(DevIsr, t, 1, "enable"), op' = [op EXCEPT ![DevIsr] = "surrender"],
         ret' \in [Thread -> Status],
         UNCHANGED <<executing, heir, necessary, isrStack, state, armed, ticks>>
  PROVE  KernelInv'
<1> USE ContextAssumption
<1>0. /\ pc[DevIsr] = "body" /\ DevIsr \notin Thread /\ DevIsr # Idle
      /\ DevIsr # TickIsr /\ t \in Thread /\ pc[t] \in UndoingPc
  BY DEF At, KernelInv, KernelTypeOK, WaitInv, Isr
<1>1. /\ queue' = queue \ {t} /\ ahead' = Extracted(t)
      /\ flags' = [flags EXCEPT ![t] = "ready_again"]
      /\ pc' = [pc EXCEPT ![DevIsr] = "enable"] /\ level' = level + 1
      /\ UNCHANGED cur
  BY DEF ExtractCritical, Extract, Goto
<1>a. \A d \in Context, u \in Thread :
        /\ Unblocks(d, u)' <=> Unblocks(d, u)
        /\ Disarms(d, u)' <=> Disarms(d, u)
  BY <1>0, <1>1 DEF KernelInv, KernelTypeOK, Unblocks, Disarms, UnblockingPc,
     Context, Isr
<1>b. \A d \in Context : ~Unblocks(d, t)
  BY <1>0 DEF KernelInv, EndedInv
<1>2. KernelTypeOK'
  BY <1>0, <1>1, ExtractedType DEF KernelInv, KernelTypeOK, Context, Isr,
     ThreadPc, IsrPc, WaitFlags, Op
<1>3. ControlInv'
  BY <1>0, <1>1 DEF KernelInv, KernelTypeOK, ControlInv, ThreadPc, TickPc,
     DevPc, Context, Isr
<1>4. StackInv'
  BY <1>0, <1>1 DEF KernelInv, KernelTypeOK, StackInv, Context, Isr
<1>5. WaitInv'
  BY <1>0, <1>1 DEF KernelInv, KernelTypeOK, WaitInv, UndoingPc, Context, Isr
<1>6. HoldInv'
  BY <1>0, <1>1 DEF KernelInv, KernelTypeOK, HoldInv, UnblockingPc, Context,
     Isr
<1>7. HandInv'
  BY <1>0, <1>1 DEF KernelInv, KernelTypeOK, HandInv, Context, Isr
<1>8. EndedInv'
  BY <1>0, <1>1, <1>a, <1>b DEF KernelInv, KernelTypeOK, EndedInv, Context,
     Isr
<1>9. TimerInv'
  BY <1>0, <1>1, <1>a DEF KernelInv, KernelTypeOK, TimerInv, WaitInv,
     UndoingPc, Context, Isr
<1>10. NoStrandedThread'
  BY <1>0, <1>1, <1>a DEF KernelInv, KernelTypeOK, NoStrandedThread,
     UndoingPc, Context, Isr, WaitInv
<1>11. SingleUnblocker'
  BY <1>0, <1>1, <1>a DEF KernelInv, KernelTypeOK, SingleUnblocker
<1>12. PendingDispatch' /\ RunsReady'
  BY <1>0, <1>1 DEF KernelInv, KernelTypeOK, PendingDispatch, RunsReady,
     Context, Isr
<1>13. LevelBalanced'
  BY <1>0, <1>1 DEF KernelInv, KernelTypeOK, LevelBalanced, ThreadLevel,
     IsrLevel, Context, Isr
<1> QED
  BY <1>2, <1>3, <1>4, <1>5, <1>6, <1>7, <1>8, <1>9, <1>10, <1>11, <1>12,
     <1>13 DEF KernelInv

\* A surrender or a flush finds a thread that is blocked.
LEMMA ExtractBlocked ==
  ASSUME KernelInv, NEW t \in queue, flags[t] # "intend_to_block",
         NEW c \in Thread \cup {DevIsr}, NEW disables, NEW after,
         \/ /\ c \in Thread /\ At(c, "run") /\ disables = 1
            /\ op' = [op EXCEPT ![c] = "surrender"]
         \/ /\ c = DevIsr /\ At(c, "body") /\ disables = 1
            /\ op' = [op EXCEPT ![c] = "surrender"]
         \/ c \in Thread /\ At(c, "flush") /\ disables = 0 /\ op' = op,
         ExtractCritical(c, t, disables, after), ret' \in [Thread -> Status],
         UNCHANGED <<executing, heir, necessary, isrStack, state, armed, ticks>>
  PROVE  KernelInv'
<1> USE ContextAssumption
<1>0. /\ t \in Thread /\ flags[t] = "blocked" /\ pc[t] = "enable"
      /\ op[t] = "seize" /\ state[t] = "waiting"
      /\ c # t /\ t # NoThread /\ TickIsr # c
      /\ c \in Thread => executing = c /\ c \notin armed /\ op'[c] \in {"surrender", "flush"}
      /\ c \in Thread => op[c] # "seize"
      /\ \/ c \in Thread /\ pc[c] = "run" /\ disables = 1
         \/ c = DevIsr /\ pc[c] = "body" /\ disables = 1
         \/ c \in Thread /\ pc[c] = "flush" /\ disables = 0
  <2>1. /\ t \in Thread /\ flags[t] = "blocked" /\ pc[t] = "enable"
        /\ op[t] = "seize" /\ state[t] = "waiting"
    BY DEF KernelInv, KernelTypeOK, WaitInv
  <2>2. \/ c \in Thread /\ pc[c] = "run" /\ disables = 1
        \/ c = DevIsr /\ pc[c] = "body" /\ disables = 1
        \/ c \in Thread /\ pc[c] = "flush" /\ disables = 0
    BY DEF At
  <2>3. c # t /\ t # NoThread /\ TickIsr # c
    BY <2>1, <2>2 DEF Context, Isr
  <2>4. c \in Thread => executing = c
    BY ContextRuns
  <2>5. c \in Thread => op[c] # "seize" /\ c \notin armed
    <3> SUFFICES ASSUME c \in Thread PROVE op[c] # "seize" /\ c \notin armed
      OBVIOUS
    <3>1. pc[c] = "run" \/ pc[c] = "flush"
      BY <2>2
    <3> QED
      BY <3>1 DEF KernelInv, WaitInv
  <2>6. c \in Thread => op'[c] \in {"surrender", "flush"}
    <3>1. c \in Thread /\ At(c, "flush") => op[c] \in {"surrender", "flush"}
      BY DEF KernelInv, WaitInv, At
    <3>2. op \in [Context -> Op] /\ (c \in Thread => c \in Context)
      BY DEF KernelInv, KernelTypeOK, Context
    <3> QED
      BY <3>1, <3>2
  <2> QED
    BY <2>1, <2>2, <2>3, <2>4, <2>5, <2>6
<1>1. /\ queue' = queue \ {t} /\ ahead' = Extracted(t)
      /\ flags' = [flags EXCEPT ![t] = "ready_again"]
      /\ pc' = [pc EXCEPT ![c] = "remove_timer"] /\ level' = level + disables + 1
      /\ cur' = [cur EXCEPT ![c] = t]
      /\ op' = [op EXCEPT ![c] = op'[c]] /\ op' \in [Context -> Op]
  BY DEF ExtractCritical, Extract, Goto, KernelInv, KernelTypeOK, Op, Context
<1>a. \A d \in Context, u \in Thread :
        /\ Unblocks(d, u)' <=> Unblocks(d, u) \/ (d = c /\ u = t)
        /\ Disarms(d, u)' <=> Disarms(d, u) \/ (d = c /\ u = t)
  BY <1>0, <1>1 DEF KernelInv, KernelTypeOK, Unblocks, Disarms, UnblockingPc,
     HoldInv, Context, Isr
<1>b. \A d \in Context : ~Unblocks(d, t)
  BY <1>0 DEF KernelInv, EndedInv
<1>2. KernelTypeOK'
  BY <1>0, <1>1, ExtractedType DEF KernelInv, KernelTypeOK, Context, Isr,
     ThreadPc, IsrPc, WaitFlags
<1>3. ControlInv'
  BY <1>0, <1>1 DEF KernelInv, KernelTypeOK, ControlInv, ThreadPc, TickPc,
     DevPc, Context, Isr
<1>4. StackInv'
  BY <1>0, <1>1 DEF KernelInv, KernelTypeOK, StackInv, Context, Isr
<1>5. WaitInv'
  BY <1>0, <1>1 DEF KernelInv, KernelTypeOK, WaitInv, UndoingPc, Context, Isr
<1>6. HoldInv'
  BY <1>0, <1>1 DEF KernelInv, KernelTypeOK, HoldInv, UnblockingPc, Context,
     Isr
<1>7. HandInv'
  <2> SUFFICES ASSUME NEW d \in Context, NEW u \in Thread, cur'[d] = u
               PROVE  op'[u] = "seize"
    BY DEF HandInv
  <2>a. d # c => cur'[d] = cur[d]
    BY <1>1 DEF KernelInv, KernelTypeOK
  <2>b. d = c => u = t
    BY <1>1 DEF KernelInv, KernelTypeOK
  <2>1. op[u] = "seize"
    BY <1>0, <2>a, <2>b DEF KernelInv, HandInv
  <2>2. u # c
    BY <1>0, <2>1
  <2> QED
    BY <1>1, <2>1, <2>2 DEF KernelInv, KernelTypeOK, Context
<1>8. EndedInv'
  BY <1>0, <1>1, <1>a, <1>b DEF KernelInv, KernelTypeOK, EndedInv, Context,
     Isr
<1>9. TimerInv'
  <2>1. /\ armed \subseteq Thread /\ c \notin armed
        /\ pc'[TickIsr] = pc[TickIsr] /\ cur'[TickIsr] = cur[TickIsr]
    BY <1>0, <1>1 DEF KernelInv, KernelTypeOK, Context, Isr
  <2>2. \A u \in armed : pc'[u] = pc[u]
    BY <1>1, <2>1 DEF KernelInv, KernelTypeOK, Context
  <2>3. \A u \in armed : u \in queue => u \in queue' \/ Disarms(c, u)'
    BY <1>1, <1>a, <2>1 DEF Context, Isr
  <2> QED
    BY <1>1, <1>a, <2>1, <2>2, <2>3 DEF KernelInv, TimerInv, Context, Isr
<1>10. NoStrandedThread'
  <2> SUFFICES ASSUME NEW u \in Thread, state'[u] = "waiting"
               PROVE  \/ u \in queue' \/ pc'[u] \in UndoingPc
                      \/ \E d \in Context : Unblocks(d, u)'
    BY DEF NoStrandedThread
  <2>1. CASE u = t
    BY <1>a, <2>1 DEF Context, Isr
  <2>2. CASE u # t
    <3>1. pc[u] \in UndoingPc => pc'[u] = pc[u]
      BY <1>0, <1>1 DEF UndoingPc, KernelInv, KernelTypeOK, Context
    <3>2. u \in queue => u \in queue'
      BY <1>1, <2>2
    <3> QED
      BY <1>a, <3>1, <3>2 DEF KernelInv, NoStrandedThread
  <2> QED
    BY <2>1, <2>2
<1>11. SingleUnblocker'
  BY <1>0, <1>a, <1>b DEF KernelInv, SingleUnblocker
<1>12. PendingDispatch' /\ RunsReady'
  BY <1>0, <1>1 DEF KernelInv, KernelTypeOK, PendingDispatch, RunsReady,
     Context, Isr
<1>13. LevelBalanced'
  BY <1>0, <1>1 DEF KernelInv, KernelTypeOK, LevelBalanced, ThreadLevel,
     IsrLevel, Context, Isr
<1> QED
  BY <1>2, <1>3, <1>4, <1>5, <1>6, <1>7, <1>8, <1>9, <1>10, <1>11, <1>12,
     <1>13 DEF KernelInv

\* The last round of a flush only moves on to the enable of dispatching.
LEMMA FlushEnds ==
  ASSUME KernelInv, NEW t \in Thread, At(t, "flush"), Goto(t, "enable"),
         UNCHANGED <<cpuVars, cur, op, waitVars, state, timerVars>>
  PROVE  KernelInv'
<1> USE ContextAssumption
<1>0. /\ isrStack = <<>> /\ executing = t /\ pc[t] = "flush"
      /\ pc[TickIsr] = "off" /\ pc[DevIsr] = "off"
  BY ThreadRuns
<1>1. /\ pc' = [pc EXCEPT ![t] = "enable"]
      /\ UNCHANGED <<executing, heir, necessary, level, isrStack, cur, op,
                   queue, ahead, flags, ret, state, armed, ticks>>
  BY DEF Goto, cpuVars, waitVars, timerVars
<1>a. \A c \in Context, u \in Thread :
        /\ Unblocks(c, u)' <=> Unblocks(c, u)
        /\ Disarms(c, u)' <=> Disarms(c, u)
  BY <1>0, <1>1 DEF KernelInv, KernelTypeOK, Unblocks, Disarms, UnblockingPc,
     Context, Isr
<1>2. KernelTypeOK'
  BY <1>0, <1>1 DEF KernelInv, KernelTypeOK, Context, Isr, ThreadPc, IsrPc
<1>3. ControlInv'
  BY <1>0, <1>1 DEF KernelInv, KernelTypeOK, ControlInv, ThreadPc, TickPc,
     DevPc, Context, Isr
<1>4. StackInv'
  BY <1>0, <1>1 DEF KernelInv, KernelTypeOK, StackInv, Context, Isr
<1>5. WaitInv'
  BY <1>0, <1>1 DEF KernelInv, KernelTypeOK, WaitInv, UndoingPc, Context, Isr
<1>6. HoldInv'
  BY <1>0, <1>1 DEF KernelInv, KernelTypeOK, HoldInv, UnblockingPc, Context,
     Isr
<1>7. HandInv'
  BY <1>0, <1>1 DEF KernelInv, KernelTypeOK, HandInv, Context, Isr
<1>8. EndedInv'
  BY <1>0, <1>1, <1>a DEF KernelInv, KernelTypeOK, EndedInv, Context, Isr
<1>9. TimerInv'
  BY <1>0, <1>1, <1>a DEF KernelInv, KernelTypeOK, TimerInv, WaitInv,
     UndoingPc, Context, Isr
<1>10. NoStrandedThread'
  BY <1>0, <1>1, <1>a DEF KernelInv, KernelTypeOK, NoStrandedThread,
     UndoingPc, Context, Isr, WaitInv
<1>11. SingleUnblocker'
  BY <1>0, <1>1, <1>a DEF KernelInv, KernelTypeOK, SingleUnblocker
<1>12. PendingDispatch' /\ RunsReady'
  BY <1>0, <1>1 DEF KernelInv, KernelTypeOK, PendingDispatch, RunsReady,
     Context, Isr
<1>13. LevelBalanced'
  BY <1>0, <1>1 DEF KernelInv, KernelTypeOK, LevelBalanced, ThreadLevel,
     IsrLevel, Context, Isr
<1> QED
  BY <1>2, <1>3, <1>4, <1>5, <1>6, <1>7, <1>8, <1>9, <1>10, <1>11, <1>12,
     <1>13 DEF KernelInv

\* A thread that flushes finds no thread that only intends to block.
LEMMA FlushNextInv ==
  ASSUME KernelInv, NEW c \in Thread, FlushNext(c)
  PROVE  KernelInv'
<1>1. ASSUME NEW t \in Thread, First(t),
             ret' = [ret EXCEPT ![t] = "unsatisfied_nowait"],
             ExtractCritical(c, t, 0, "flush"),
             UNCHANGED <<executing, heir, necessary, isrStack, op, state, timerVars>>
      PROVE  KernelInv'
  <2>1. At(c, "flush") /\ t \in queue
    BY <1>1 DEF FlushNext, First
  <2>2. flags[t] # "intend_to_block"
    <3>1. executing = c /\ pc[c] = "flush"
      BY <2>1, ThreadRuns
    <3> QED
      BY <3>1, ContextAssumption DEF KernelInv, ControlInv, WaitInv, UndoingPc
  <2>3. ret' \in [Thread -> Status]
    BY <1>1 DEF KernelInv, KernelTypeOK, Status
  <2> QED
    BY <1>1, <2>1, <2>2, <2>3, ExtractBlocked DEF timerVars
<1>2. ASSUME Goto(c, "enable"),
             UNCHANGED <<cpuVars, cur, op, waitVars, state, timerVars>>
      PROVE  KernelInv'
  BY <1>2, FlushEnds DEF FlushNext
<1> QED
  BY <1>1, <1>2 DEF FlushNext

-----------------------------------------------------------------------------
\* The initial states satisfy the invariant.
LEMMA KernelInitInv == ASSUME KernelInit PROVE KernelInv
<1> USE ContextAssumption DEF KernelInit
<1>1. KernelTypeOK
  BY EmptySeq DEF KernelTypeOK, ThreadPc, IsrPc, WaitFlags, ThreadState, Status, Op,
     Context, Isr
<1>2. ControlInv
  BY DEF ControlInv, ThreadPc, TickPc, DevPc, Context, Isr
<1>3. StackInv
  BY DEF StackInv, Context, Isr
<1>4. WaitInv /\ HoldInv /\ HandInv /\ EndedInv
  BY DEF WaitInv, HoldInv, HandInv, EndedInv, Unblocks, UndoingPc, UnblockingPc,
     Context, Isr
<1>5. TimerInv /\ NoStrandedThread /\ SingleUnblocker
  BY DEF TimerInv, NoStrandedThread, SingleUnblocker, Unblocks, UnblockingPc,
     Context, Isr
<1>6. PendingDispatch /\ RunsReady /\ LevelBalanced
  BY DEF PendingDispatch, RunsReady, LevelBalanced, ThreadLevel, IsrLevel, Context, Isr
<1> QED
  BY <1>1, <1>2, <1>3, <1>4, <1>5, <1>6 DEF KernelInv

\* Every step of the protocol preserves the invariant.
LEMMA KernelStepInv == ASSUME KernelInv, KernelStep PROVE KernelInv'
<1>1. ASSUME NEW t \in Thread, ThreadStep(t) PROVE KernelInv'
  BY <1>1, EnqueueSetStateInv, EnqueueInsertTimerInv, EnqueueTryBlockInv, FlushNextInv
     DEF ThreadStep
<1>2. ASSUME NEW c \in Thread \cup {DevIsr}, ContextStep(c) PROVE KernelInv'
  BY <1>2, UnblockRemoveTimerInv, UnblockClearStateInv, DispatchUnnestInv
     DEF ContextStep
<1>3. ASSUME NEW c \in Thread \cup {Idle}, DispatchEnable(c) PROVE KernelInv'
  BY <1>3, DispatchEnableInv
<1>4. ASSUME NEW i \in Isr, IsrEnter(i) \/ IsrExit(i) PROVE KernelInv'
  BY <1>4, IsrEnterInv, IsrExitInv
<1>5. ASSUME TickStep PROVE KernelInv'
  BY <1>5, TickInv, TickleNextInv, TimeoutInv, TimeoutUnblockInv,
     SchedulerTickInv DEF TickStep
<1> QED
  BY <1>1, <1>2, <1>3, <1>4, <1>5 DEF KernelStep

\* The invariant says that a thread in its own code has left its wait.
LEMMA KernelInvCleanReturn == ASSUME KernelInv PROVE CleanReturn
<1> SUFFICES ASSUME NEW t \in Thread, pc[t] = "run"
             PROVE  /\ t \notin queue /\ t \notin armed /\ state[t] = "ready"
                    /\ \A c \in Context : cur[c] # t
  BY DEF CleanReturn
<1>1. op[t] = "none" /\ t \notin queue /\ t \notin armed /\ state[t] = "ready"
  BY DEF KernelInv, KernelTypeOK, WaitInv, UndoingPc
<1>2. \A c \in Context : cur[c] # t
  BY <1>1 DEF KernelInv, HandInv
<1> QED
  BY <1>1, <1>2

-----------------------------------------------------------------------------
(***************************************************************************)
(* The semaphore.                                                          *)
(***************************************************************************)
\* A directive that only sets the caller's return code does not disturb the
\* protocol.
LEMMA ReturnCodeInv ==
  ASSUME KernelInv, ret' \in [Thread -> Status],
         UNCHANGED <<cpuVars, stepVars, queue, ahead, flags, state, timerVars>>
  PROVE  KernelInv'
<1>1. UNCHANGED <<executing, heir, necessary, level, isrStack, pc, cur, op, queue,
                  ahead, flags, state, armed, ticks>>
  BY DEF cpuVars, stepVars, timerVars
<1>2. KernelTypeOK'
  BY <1>1 DEF KernelInv, KernelTypeOK
<1>3. ControlInv' /\ StackInv' /\ WaitInv'
  BY <1>1 DEF KernelInv, ControlInv, StackInv, WaitInv
<1>4. HoldInv' /\ HandInv' /\ EndedInv' /\ TimerInv'
  BY <1>1 DEF KernelInv, HoldInv, HandInv, EndedInv, TimerInv, Unblocks, Disarms
<1>5. NoStrandedThread' /\ SingleUnblocker'
  BY <1>1 DEF KernelInv, NoStrandedThread, SingleUnblocker, Unblocks
<1>6. PendingDispatch' /\ RunsReady' /\ LevelBalanced'
  BY <1>1 DEF KernelInv, PendingDispatch, RunsReady, LevelBalanced, ThreadLevel, IsrLevel
<1> QED
  BY <1>2, <1>3, <1>4, <1>5, <1>6 DEF KernelInv

\* A flush enters its loop with dispatching disabled.
LEMMA FlushInv ==
  ASSUME KernelInv, NEW t \in Thread, Flush(t)
  PROVE  KernelInv'
<1> USE ContextAssumption
<1>0. /\ isrStack = <<>> /\ executing = t /\ pc[t] = "run"
      /\ pc[TickIsr] = "off" /\ pc[DevIsr] = "off"
      /\ op[t] = "none" /\ state[t] = "ready" /\ t \notin armed /\ t \notin queue
  BY ThreadRuns DEF Flush, KernelInv, WaitInv, KernelTypeOK, UndoingPc
<1>1. /\ pc' = [pc EXCEPT ![t] = "flush"] /\ op' = [op EXCEPT ![t] = "flush"]
      /\ level' = level + 1
      /\ UNCHANGED <<executing, heir, necessary, isrStack, cur, queue, ahead, flags,
                     ret, state, armed, ticks>>
  BY DEF Flush, Goto, waitVars, timerVars
<1>a. \A c \in Context, u \in Thread :
        /\ Unblocks(c, u)' <=> Unblocks(c, u)
        /\ Disarms(c, u)' <=> Disarms(c, u)
  BY <1>0, <1>1 DEF KernelInv, KernelTypeOK, Unblocks, Disarms, UnblockingPc,
     Context, Isr
<1>b. \A d \in Context : cur[d] # t
  BY <1>0 DEF KernelInv, HandInv
<1>c. \A u \in armed : u # t /\ pc'[u] = pc[u]
  BY <1>0, <1>1 DEF KernelInv, KernelTypeOK, Context
<1>2. KernelTypeOK'
  BY <1>0, <1>1 DEF KernelInv, KernelTypeOK, Context, Isr, ThreadPc, IsrPc, Op
<1>3. ControlInv'
  BY <1>0, <1>1 DEF KernelInv, KernelTypeOK, ControlInv, ThreadPc, TickPc,
     DevPc, Context, Isr
<1>4. StackInv'
  BY <1>0, <1>1 DEF KernelInv, KernelTypeOK, StackInv, Context, Isr
<1>5. WaitInv'
  BY <1>0, <1>1 DEF KernelInv, KernelTypeOK, WaitInv, UndoingPc, Context, Isr
<1>6. HoldInv'
  BY <1>0, <1>1 DEF KernelInv, KernelTypeOK, HoldInv, UnblockingPc, Context, Isr
<1>7. HandInv'
  BY <1>0, <1>1, <1>b DEF KernelInv, KernelTypeOK, HandInv, Context, Isr
<1>8. EndedInv'
  BY <1>0, <1>1, <1>a, <1>b DEF KernelInv, KernelTypeOK, EndedInv, Unblocks, Context,
     Isr
<1>9. TimerInv'
  BY <1>0, <1>1, <1>a, <1>c DEF KernelInv, KernelTypeOK, TimerInv, WaitInv,
     UndoingPc, Context, Isr
<1>10. NoStrandedThread'
  BY <1>0, <1>1, <1>a DEF KernelInv, KernelTypeOK, NoStrandedThread,
     UndoingPc, Context, Isr, WaitInv
<1>11. SingleUnblocker'
  BY <1>0, <1>1, <1>a DEF KernelInv, KernelTypeOK, SingleUnblocker
<1>12. PendingDispatch' /\ RunsReady'
  BY <1>0, <1>1 DEF KernelInv, KernelTypeOK, PendingDispatch, RunsReady,
     Context, Isr
<1>13. LevelBalanced'
  BY <1>0, <1>1 DEF KernelInv, KernelTypeOK, LevelBalanced, ThreadLevel,
     IsrLevel, Context, Isr
<1> QED
  BY <1>2, <1>3, <1>4, <1>5, <1>6, <1>7, <1>8, <1>9, <1>10, <1>11, <1>12,
     <1>13 DEF KernelInv

\* A handler whose surrender found no waiter goes to its exit.
LEMMA HandlerEndsInv ==
  ASSUME KernelInv, At(DevIsr, "body"), Goto(DevIsr, "exit"),
         UNCHANGED <<cpuVars, cur, op, waitVars, state, timerVars>>
  PROVE  KernelInv'
<1> USE ContextAssumption
<1>0. pc[DevIsr] = "body" /\ DevIsr \notin Thread /\ DevIsr # Idle /\ DevIsr # TickIsr
  BY DEF At, Isr
<1>1. /\ pc' = [pc EXCEPT ![DevIsr] = "exit"]
      /\ UNCHANGED <<executing, heir, necessary, level, isrStack, cur, op, queue,
                     ahead, flags, ret, state, armed, ticks>>
  BY DEF Goto, cpuVars, waitVars, timerVars
<1>a. \A c \in Context, u \in Thread :
        /\ Unblocks(c, u)' <=> Unblocks(c, u)
        /\ Disarms(c, u)' <=> Disarms(c, u)
  BY <1>0, <1>1 DEF KernelInv, KernelTypeOK, Unblocks, Disarms, UnblockingPc,
     Context, Isr
<1>b. \A u \in Thread : pc'[u] = pc[u]
  BY <1>0, <1>1 DEF KernelInv, KernelTypeOK, Context
<1>2. KernelTypeOK'
  BY <1>0, <1>1 DEF KernelInv, KernelTypeOK, Context, Isr, ThreadPc, IsrPc
<1>3. ControlInv'
  BY <1>0, <1>1 DEF KernelInv, KernelTypeOK, ControlInv, ThreadPc, TickPc,
     DevPc, Context, Isr
<1>4. StackInv'
  BY <1>0, <1>1 DEF KernelInv, KernelTypeOK, StackInv, Context, Isr
<1>5. WaitInv'
  BY <1>0, <1>1 DEF KernelInv, KernelTypeOK, WaitInv, UndoingPc, Context, Isr
<1>6. HoldInv' /\ HandInv'
  BY <1>0, <1>1 DEF KernelInv, KernelTypeOK, HoldInv, HandInv, UnblockingPc, Context, Isr
<1>8. EndedInv'
  BY <1>0, <1>1, <1>a DEF KernelInv, KernelTypeOK, EndedInv, Context, Isr
<1>9. TimerInv'
  BY <1>0, <1>1, <1>a, <1>b DEF KernelInv, KernelTypeOK, TimerInv, Context, Isr
<1>10. NoStrandedThread'
  BY <1>1, <1>a, <1>b DEF KernelInv, NoStrandedThread
<1>11. SingleUnblocker'
  BY <1>a DEF KernelInv, SingleUnblocker
<1>12. PendingDispatch' /\ RunsReady'
  BY <1>0, <1>1 DEF KernelInv, KernelTypeOK, PendingDispatch, RunsReady,
     Context, Isr
<1>13. LevelBalanced'
  BY <1>0, <1>1 DEF KernelInv, KernelTypeOK, LevelBalanced, ThreadLevel,
     IsrLevel, Context, Isr
<1> QED
  BY <1>2, <1>3, <1>4, <1>5, <1>6, <1>8, <1>9, <1>10, <1>11,
     <1>12, <1>13 DEF KernelInv

\* A thread that surrenders finds no thread that only intends to block.
LEMMA NoneIntends ==
  ASSUME KernelInv, NEW c \in Thread, At(c, "run"), NEW t \in queue
  PROVE  flags[t] # "intend_to_block"
<1>1. executing = c /\ pc[c] = "run"
  BY ThreadRuns
<1> QED
  BY <1>1, ContextAssumption
     DEF KernelInv, KernelTypeOK, ControlInv, WaitInv, UndoingPc

\* A surrender, by a thread or by a handler, preserves the protocol.
LEMMA SurrenderInv ==
  ASSUME KernelInv, NEW c \in Thread \cup {DevIsr}, Surrender(c)
  PROVE  KernelInv'
<1> USE ContextAssumption
<1>0. \/ c \in Thread /\ At(c, "run")
      \/ c = DevIsr /\ At(c, "body")
  BY DEF Surrender
<1>1. ASSUME NEW t \in Thread, First(t), ExtractCritical(c, t, 1, "enable"),
             op' = [op EXCEPT ![c] = "surrender"],
             UNCHANGED <<executing, heir, necessary, isrStack, ret, state, timerVars>>
      PROVE  KernelInv'
  <2>1. t \in queue /\ ret' \in [Thread -> Status] /\ UNCHANGED <<armed, ticks>>
    BY <1>1 DEF First, KernelInv, KernelTypeOK, timerVars
  <2>2. CASE flags[t] = "intend_to_block"
    <3>1. c = DevIsr /\ At(DevIsr, "body")
      BY <1>0, <2>1, <2>2, NoneIntends
    <3> QED
      BY <1>1, <2>1, <2>2, <3>1, ExtractIntends
  <2>3. CASE flags[t] # "intend_to_block"
    BY <1>0, <1>1, <2>1, <2>3, ExtractBlocked
  <2> QED
    BY <2>2, <2>3
<1>2. ASSUME IF c = DevIsr THEN Goto(c, "exit") ELSE UNCHANGED pc,
             UNCHANGED <<cpuVars, cur, op, waitVars, state, timerVars>>
      PROVE  KernelInv'
  <2>1. CASE c = DevIsr
    <3>1. At(DevIsr, "body")
      BY <1>0, <2>1 DEF Isr
    <3> QED
      BY <1>2, <2>1, <3>1, HandlerEndsInv
  <2>2. CASE c # DevIsr
    <3>1. ret' \in [Thread -> Status]
      BY <1>2 DEF waitVars, KernelInv, KernelTypeOK
    <3> QED
      BY <1>2, <2>2, <3>1, ReturnCodeInv DEF stepVars, waitVars
  <2> QED
    BY <2>1, <2>2
<1> QED
  BY <1>1, <1>2 DEF Surrender

\* Every step of the semaphore preserves the invariant of the protocol.
LEMMA NextKernelInv ==
  ASSUME KernelInv, [Next]_vars
  PROVE  KernelInv'
<1>1. ASSUME NEW t \in Thread, SeizeAvailable(t) \/ SeizeNoWait(t) PROVE KernelInv'
  <2>1. ret' \in [Thread -> Status]
    BY <1>1 DEF SeizeAvailable, SeizeNoWait, KernelInv, KernelTypeOK, Status
  <2> QED
    BY <1>1, <2>1, ReturnCodeInv DEF SeizeAvailable, SeizeNoWait
<1>2. ASSUME NEW t \in Thread, NEW timeout \in 0 .. MaxTimeout, SeizeWait(t, timeout)
      PROVE  KernelInv'
  <2>1. ret' \in [Thread -> Status] /\ timeout \in Nat
    BY <1>2, ParameterAssumption DEF SeizeWait, KernelInv, KernelTypeOK, Status
  <2> QED
    BY <1>2, <2>1, EnqueueCriticalInv DEF SeizeWait
<1>3. ASSUME vars' = vars PROVE KernelInv'
  <2>1. ret' \in [Thread -> Status]
    BY <1>3 DEF vars, kernelVars, waitVars, KernelInv, KernelTypeOK
  <2> QED
    BY <1>3, <2>1, ReturnCodeInv DEF vars, kernelVars, waitVars
<1>4. ASSUME NEW c \in Thread \cup {DevIsr}, Surrender(c) PROVE KernelInv'
  BY <1>4, SurrenderInv
<1>5. ASSUME NEW t \in Thread, Flush(t) PROVE KernelInv'
  BY <1>5, FlushInv
<1>6. ASSUME Kernel PROVE KernelInv'
  BY <1>6, KernelStepInv DEF Kernel
<1> QED
  BY <1>1, <1>2, <1>3, <1>4, <1>5, <1>6 DEF Next, Directive

-----------------------------------------------------------------------------
(***************************************************************************)
(* What a step does to the waits, seen from the semaphore.                 *)
(***************************************************************************)

\* A timeout or a flush ends the wait of t without a unit.
Cancels(t) ==
  /\ t \in queue /\ queue' = queue \ {t}
  /\ flags' = [flags EXCEPT ![t] = "ready_again"]
  /\ \E r \in {"timeout", "unsatisfied_nowait"} : ret' = [ret EXCEPT ![t] = r]
  /\ \A u \in Thread : op'[u] = op[u]

\* The directive of t returns to its caller.
Returns(t) ==
  /\ t \notin queue /\ op'[t] = "none" /\ \A u \in Thread \ {t} : op'[u] = op[u]
  /\ UNCHANGED <<queue, flags, ret>>

\* No wait begins or ends.
Continues ==
  /\ \A u \in Thread : op'[u] = op[u]
  /\ \A u \in Thread : flags'[u] = "ready_again" <=> flags[u] = "ready_again"
  /\ UNCHANGED <<queue, ret>>

\* The sections of a thread on its way to block end no wait, a flush cancels.
LEMMA ThreadStepEffect ==
  ASSUME KernelInv, NEW c \in Thread, ThreadStep(c)
  PROVE  Continues \/ \E t \in Thread : Cancels(t)
<1>1. ASSUME EnqueueSetState(c) \/ EnqueueInsertTimer(c) PROVE Continues
  BY <1>1 DEF EnqueueSetState, EnqueueInsertTimer, Continues, waitVars
<1>2. ASSUME EnqueueTryBlock(c) PROVE Continues
  BY <1>2 DEF EnqueueTryBlock, Continues, KernelInv, KernelTypeOK
<1>3. ASSUME FlushNext(c) PROVE Continues \/ \E t \in Thread : Cancels(t)
  BY <1>3 DEF FlushNext, First, ExtractCritical, Extract, Cancels, Continues, waitVars
<1> QED
  BY <1>1, <1>2, <1>3 DEF ThreadStep

\* A dispatch ends a wait nowhere; the thread that comes out of it returns, and
\* is off the queue because an heir is ready.
LEMMA DispatchEffect ==
  ASSUME KernelInv, NEW c \in Thread \cup {Idle}, DispatchEnable(c)
  PROVE  Continues \/ \E t \in Thread : Returns(t)
<1>0. executing = c /\ pc[c] = "enable"
  BY ThreadRuns DEF DispatchEnable
<1>1. UNCHANGED <<queue, flags, ret>>
  BY DEF DispatchEnable, waitVars
<1>2. CASE op' = op
  BY <1>1, <1>2 DEF Continues
<1>3. CASE c = Idle /\ op' = [op EXCEPT ![c] = "none"]
  BY <1>1, <1>3, ContextAssumption DEF Continues, KernelInv, KernelTypeOK
<1>4. CASE c \in Thread /\ op' = [op EXCEPT ![c] = "none"] /\ heir = c
  <2>1. state[c] = "ready"
    BY <1>4 DEF KernelInv, RunsReady
  <2>2. c \notin queue
    BY <1>0, <1>4, <2>1 DEF KernelInv, KernelTypeOK, WaitInv, UndoingPc
  <2> QED
    BY <1>1, <1>4, <2>2 DEF Returns, KernelInv, KernelTypeOK, Context
<1>5. op' = op \/ (op' = [op EXCEPT ![c] = "none"] /\ heir = c)
  BY <1>0 DEF DispatchEnable, DoDispatch, KernelInv, PendingDispatch
<1> QED
  BY <1>2, <1>3, <1>4, <1>5

\* A timeout cancels the wait of a thread that has not been given a unit.
LEMMA TickEffect ==
  ASSUME KernelInv, TickStep
  PROVE  Continues \/ \E t \in Thread : Cancels(t)
<1>1. ASSUME Tick \/ TickleNext \/ TimeoutUnblock \/ SchedulerTick PROVE Continues
  BY <1>1 DEF Tick, TickleNext, TickleStep, TimeoutUnblock, SchedulerTick,
     Continues, waitVars
<1>2. ASSUME Timeout PROVE Continues \/ \E t \in Thread : Cancels(t)
  <2>1. cur[TickIsr] \in Thread /\ op[cur[TickIsr]] = "seize"
    BY <1>2, TimeoutHolds
  <2>2. CASE flags[cur[TickIsr]] = "ready_again"
    BY <1>2, <2>2 DEF Timeout, Continues, waitVars
  <2>3. CASE flags[cur[TickIsr]] # "ready_again"
    <3>1. cur[TickIsr] \in queue
      BY <2>1, <2>3 DEF KernelInv, KernelTypeOK, WaitInv, WaitFlags
    <3> QED
      BY <1>2, <2>1, <2>3, <3>1 DEF Timeout, Extract, Cancels
  <2> QED
    BY <2>2, <2>3
<1> QED
  BY <1>1, <1>2 DEF TickStep

\* Every step of the protocol cancels a wait, returns from a directive, or
\* leaves every wait as it is.
LEMMA KernelStepEffect ==
  ASSUME KernelInv, KernelStep
  PROVE  Continues \/ \E t \in Thread : Cancels(t) \/ Returns(t)
<1>1. ASSUME NEW c \in Thread \cup {DevIsr}, ContextStep(c) PROVE Continues
  BY <1>1 DEF ContextStep, UnblockRemoveTimer, UnblockClearState, DispatchUnnest,
     Continues, waitVars
<1>2. ASSUME NEW i \in Isr, IsrEnter(i) \/ IsrExit(i) PROVE Continues
  <2>1. \A u \in Thread : op'[u] = op[u]
    <3>1. i \notin Thread
      BY ContextAssumption DEF Isr
    <3> QED
      BY <1>2, <3>1 DEF IsrEnter, IsrExit, KernelInv, KernelTypeOK, Context
  <2>2. UNCHANGED <<queue, flags, ret>>
    BY <1>2 DEF IsrEnter, IsrExit, waitVars
  <2> QED
    BY <2>1, <2>2 DEF Continues
<1> QED
  BY <1>1, <1>2, ThreadStepEffect, DispatchEffect, TickEffect DEF KernelStep

-----------------------------------------------------------------------------
(***************************************************************************)
(* The units.                                                              *)
(***************************************************************************)

\* A thread in its own code waits for nothing.
LEMMA CallerIdle ==
  ASSUME KernelInv, NEW t \in Thread, At(t, "run")
  PROVE  op[t] = "none" /\ t \notin queue
BY KernelInvCleanReturn DEF CleanReturn, At, KernelInv, WaitInv

\* A thread on the queue is in an obtain that was given no unit yet.
LEMMA WaiterOp ==
  ASSUME KernelInv, NEW t \in queue
  PROVE  t \in Thread /\ op[t] = "seize" /\ flags[t] # "ready_again"
BY DEF KernelInv, KernelTypeOK, WaitInv

\* An obtain that is not on the queue has ended its wait.
LEMMA EndedOp ==
  ASSUME KernelInv, NEW t \in Thread, op[t] = "seize", t \notin queue
  PROVE  flags[t] = "ready_again"
BY DEF KernelInv, KernelTypeOK, WaitInv, WaitFlags

\* The units on their way can be counted.
LEMMA GrantedFinite ==
  IsFiniteSet(Granted) /\ Cardinality(Granted) \in Nat
<1>1. Granted \subseteq Thread
  BY DEF Granted
<1> QED
  BY <1>1, FiniteAssumption, FS_Subset, FS_CardinalityType

\* A step of the protocol neither makes nor loses a unit.
LEMMA KernelUnits ==
  ASSUME SemaphoreInv, Kernel
  PROVE  UnitConservation' /\ NoIdleUnit' /\ WaiterSucceeds' /\ balance' \in Int
<1>0. /\ KernelInv /\ UnitConservation /\ NoIdleUnit /\ WaiterSucceeds
      /\ count \in Nat /\ balance \in Int /\ queue \subseteq Thread
      /\ flags \in [Thread -> WaitFlags] /\ ret \in [Thread -> Status] /\ count' = count
      /\ balance' = IF \E c \in Thread : ReturnsUnit(c) THEN balance - 1 ELSE balance
  BY CountAssumption DEF SemaphoreInv, TypeOK, KernelTypeOK, Kernel
<1>1. CASE Continues
  <2>1. ~\E c \in Thread : ReturnsUnit(c)
    BY <1>1 DEF Continues, ReturnsUnit
  <2>2. Granted' = Granted
    BY <1>1 DEF Continues, Granted
  <2>3. queue' = queue /\ ret' = ret
    BY <1>1 DEF Continues
  <2> QED
    BY <1>0, <2>1, <2>2, <2>3 DEF UnitConservation, NoIdleUnit, WaiterSucceeds
<1>2. ASSUME NEW t \in Thread, Cancels(t)
      PROVE  UnitConservation' /\ NoIdleUnit' /\ WaiterSucceeds' /\ balance' \in Int
  <2>1. ~\E c \in Thread : ReturnsUnit(c)
    BY <1>2 DEF Cancels, ReturnsUnit
  <2>2. flags[t] # "ready_again"
    BY <1>0, <1>2, WaiterOp DEF Cancels
  <2>3. Granted' = Granted
    BY <1>0, <1>2, <2>2 DEF Cancels, Granted
  <2>4. queue' \subseteq queue /\ WaiterSucceeds'
    BY <1>0, <1>2 DEF Cancels, WaiterSucceeds
  <2> QED
    BY <1>0, <2>1, <2>3, <2>4 DEF UnitConservation, NoIdleUnit
<1>3. ASSUME NEW t \in Thread, Returns(t)
      PROVE  UnitConservation' /\ NoIdleUnit' /\ WaiterSucceeds' /\ balance' \in Int
  <2>1. Granted' = Granted \ {t}
    BY <1>3 DEF Returns, Granted
  <2>2. (\E c \in Thread : ReturnsUnit(c)) <=> t \in Granted
    BY <1>0, <1>3, EndedOp DEF Returns, Granted, ReturnsUnit
  <2>3. Cardinality(Granted') = IF t \in Granted THEN Cardinality(Granted) - 1
                                ELSE Cardinality(Granted)
    BY <2>1, GrantedFinite, FS_RemoveElement
  <2>4. queue' = queue /\ ret' = ret
    BY <1>3 DEF Returns
  <2> QED
    BY <1>0, <2>2, <2>3, <2>4, GrantedFinite
       DEF UnitConservation, NoIdleUnit, WaiterSucceeds
<1> QED
  BY <1>0, <1>1, <1>2, <1>3, KernelStepEffect DEF Kernel

\* A directive moves one unit between the semaphore, a waiter and its caller.
LEMMA DirectiveUnits ==
  ASSUME SemaphoreInv, Directive \/ Surrender(DevIsr)
  PROVE  /\ UnitConservation' /\ NoIdleUnit' /\ WaiterSucceeds'
         /\ balance' \in Int /\ count' \in 0 .. MaximumCount
<1> DEFINE Goal == /\ UnitConservation' /\ NoIdleUnit' /\ WaiterSucceeds'
                   /\ balance' \in Int /\ count' \in 0 .. MaximumCount
<1>0. /\ KernelInv /\ UnitConservation /\ NoIdleUnit /\ WaiterSucceeds
      /\ count \in Nat /\ count <= MaximumCount /\ MaximumCount \in Nat
      /\ balance \in Int /\ queue \subseteq Thread
      /\ flags \in [Thread -> WaitFlags] /\ ret \in [Thread -> Status]
      /\ op \in [Context -> Op] /\ Thread \subseteq Context
  BY CountAssumption DEF SemaphoreInv, TypeOK, KernelTypeOK, Context
<1>1. ASSUME NEW t \in Thread, SeizeAvailable(t) \/ SeizeNoWait(t) PROVE Goal
  <2>1. op[t] = "none" /\ t \notin queue
    BY <1>0, <1>1, CallerIdle DEF SeizeAvailable, SeizeNoWait
  <2>2. Granted' = Granted
    BY <1>0, <1>1, <2>1 DEF SeizeAvailable, SeizeNoWait, Granted, stepVars
  <2>3. WaiterSucceeds'
    BY <1>0, <1>1, <2>1 DEF SeizeAvailable, SeizeNoWait, WaiterSucceeds
  <2>4. queue' = queue
    BY <1>1 DEF SeizeAvailable, SeizeNoWait
  <2>5. \/ count # 0 /\ count' = count - 1 /\ balance' = balance - 1
        \/ UNCHANGED <<count, balance>>
    BY <1>1 DEF SeizeAvailable, SeizeNoWait
  <2> QED
    BY <1>0, <2>2, <2>3, <2>4, <2>5, GrantedFinite DEF UnitConservation, NoIdleUnit
<1>2. ASSUME NEW t \in Thread, NEW timeout \in 0 .. MaxTimeout, SeizeWait(t, timeout)
      PROVE  Goal
  <2>1. op[t] = "none" /\ t \notin queue
    BY <1>0, <1>2, CallerIdle DEF SeizeWait
  <2>2. Granted' = Granted
    BY <1>0, <1>2, <2>1 DEF SeizeWait, EnqueueCritical, Granted
  <2>3. WaiterSucceeds'
    BY <1>0, <1>2, <2>1 DEF SeizeWait, EnqueueCritical, WaiterSucceeds
  <2> QED
    BY <1>0, <1>2, <2>2, <2>3 DEF SeizeWait, UnitConservation, NoIdleUnit
<1>3. ASSUME NEW c \in Thread \cup {DevIsr}, Surrender(c) PROVE Goal
  <2>0. c \in Thread => op[c] = "none"
    BY <1>0, <1>3, CallerIdle, ContextAssumption DEF Surrender, Isr
  <2>1. ASSUME NEW t \in Thread, First(t), ExtractCritical(c, t, 1, "enable"),
               op' = [op EXCEPT ![c] = "surrender"], balance' = balance + 1,
               UNCHANGED <<ret, count>>
        PROVE  Goal
    <3>1. t \in queue /\ op[t] = "seize" /\ flags[t] # "ready_again" /\ ret[t] = "successful"
      BY <1>0, <2>1, WaiterOp DEF First, WaiterSucceeds
    <3>2. queue' = queue \ {t} /\ flags' = [flags EXCEPT ![t] = "ready_again"]
      BY <2>1 DEF ExtractCritical, Extract
    <3>3. Granted' = Granted \cup {t} /\ t \notin Granted
      BY <1>0, <2>0, <2>1, <3>1, <3>2 DEF Granted
    <3>4. Cardinality(Granted') = Cardinality(Granted) + 1
      BY <3>3, GrantedFinite, FS_AddElement
    <3>5. WaiterSucceeds' /\ NoIdleUnit'
      BY <1>0, <2>1, <3>1, <3>2 DEF WaiterSucceeds, NoIdleUnit
    <3> QED
      BY <1>0, <2>1, <3>4, <3>5, GrantedFinite DEF UnitConservation
  <2>2. ASSUME queue = {}, StoreUnit, UNCHANGED <<op, waitVars>>
        PROVE  Goal
    <3>1. Granted' = Granted /\ queue' = {} /\ WaiterSucceeds'
      BY <2>2 DEF Granted, waitVars, WaiterSucceeds
    <3> QED
      BY <1>0, <2>2, <3>1, GrantedFinite DEF StoreUnit, UnitConservation, NoIdleUnit
  <2> QED
    BY <1>3, <2>1, <2>2 DEF Surrender
<1>4. ASSUME NEW t \in Thread, Flush(t) PROVE Goal
  <2>1. op[t] = "none"
    BY <1>0, <1>4, CallerIdle DEF Flush
  <2>2. Granted' = Granted
    BY <1>0, <1>4, <2>1 DEF Flush, Granted, waitVars
  <2> QED
    BY <1>0, <1>4, <2>2 DEF Flush, waitVars, UnitConservation, NoIdleUnit, WaiterSucceeds
<1> QED
  BY <1>1, <1>2, <1>3, <1>4 DEF Directive

-----------------------------------------------------------------------------
\* The initial states satisfy the invariant.
LEMMA InitSemaphoreInv == ASSUME Init PROVE SemaphoreInv
<1>1. KernelInv
  BY KernelInitInv DEF Init
<1>2. Granted = {} /\ queue = {}
  BY ContextAssumption DEF Init, KernelInit, Granted, Context
<1>3. UnitConservation
  BY <1>2, FS_EmptySet, CountAssumption DEF Init, UnitConservation
<1> QED
  BY <1>1, <1>2, <1>3, CountAssumption
     DEF Init, SemaphoreInv, TypeOK, KernelInv, NoIdleUnit, WaiterSucceeds

\* Every step preserves it.
LEMMA NextSemaphoreInv == ASSUME SemaphoreInv, [Next]_vars PROVE SemaphoreInv'
<1>1. KernelInv'
  BY NextKernelInv DEF SemaphoreInv
<1>2. CASE Directive \/ Surrender(DevIsr)
  BY <1>1, <1>2, DirectiveUnits DEF SemaphoreInv, TypeOK, KernelInv
<1>3. CASE Kernel
  BY <1>1, <1>3, KernelUnits DEF SemaphoreInv, TypeOK, KernelInv, Kernel
<1>4. CASE vars' = vars
  <2>1. UNCHANGED <<queue, flags, ret, op, count, balance>>
    BY <1>4 DEF vars, kernelVars, stepVars, waitVars
  <2>2. Granted' = Granted
    BY <2>1 DEF Granted
  <2> QED
    BY <1>1, <2>1, <2>2 DEF SemaphoreInv, TypeOK, KernelInv, NoIdleUnit,
       WaiterSucceeds, UnitConservation
<1> QED
  BY <1>2, <1>3, <1>4 DEF Next

\* SemaphoreInv is an inductive invariant of the specification.
THEOREM SemaphoreInvariant == Spec => []SemaphoreInv
<1>1. Init => SemaphoreInv
  BY InitSemaphoreInv
<1>2. SemaphoreInv /\ [Next]_vars => SemaphoreInv'
  BY NextSemaphoreInv
<1> QED
  BY <1>1, <1>2, PTL DEF Spec

-----------------------------------------------------------------------------
(***************************************************************************)
(* What the invariant says of the semaphore and of the protocol.           *)
(***************************************************************************)

\* The variables of the semaphore and of the kernel keep their types; the count
\* stays between zero and the maximum.
THEOREM TypeCorrect == Spec => []TypeOK
BY SemaphoreInvariant, PTL DEF SemaphoreInv

\* No unit is lost or made up by any interleaving of obtains, surrenders,
\* flushes, timeouts and interrupts.
THEOREM UnitsConserved == Spec => []UnitConservation
BY SemaphoreInvariant, PTL DEF SemaphoreInv

\* No thread waits beside an available unit.
THEOREM UnitsUsed == Spec => []NoIdleUnit
BY SemaphoreInvariant, PTL DEF SemaphoreInv

\* No thread sleeps on after its wait has ended, whichever interrupt hits
\* _Thread_queue_Enqueue_critical.
THEOREM NoneStranded == Spec => []NoStrandedThread
BY SemaphoreInvariant, PTL DEF SemaphoreInv, KernelInv

\* A wait is ended by one context only.
THEOREM OneUnblocker == Spec => []SingleUnblocker
BY SemaphoreInvariant, PTL DEF SemaphoreInv, KernelInv

\* A thread that is back in its own code has left nothing of its wait behind.
THEOREM ReturnsClean == Spec => []CleanReturn
<1>1. SemaphoreInv => CleanReturn
  BY KernelInvCleanReturn DEF SemaphoreInv
<1> QED
  BY <1>1, SemaphoreInvariant, PTL

\* A new heir is never forgotten, and it is ready.
THEOREM HeirDispatched == Spec => [](PendingDispatch /\ RunsReady)
BY SemaphoreInvariant, PTL DEF SemaphoreInv, KernelInv

\* Every disable of dispatching is matched by one enable.
THEOREM LevelsBalance == Spec => []LevelBalanced
BY SemaphoreInvariant, PTL DEF SemaphoreInv, KernelInv

\* The outcome of a wait that has ended is settled.
THEOREM OutcomesSettled == Spec => OutcomeSettled
<1> DEFINE Settled == \A t \in Thread :
             op[t] = "seize" /\ flags[t] = "ready_again" /\ op'[t] = "seize"
               => ret'[t] = ret[t] /\ flags'[t] = flags[t]
<1>1. ASSUME SemaphoreInv, [Next]_vars PROVE [Settled]_vars
  <2>0. /\ KernelInv /\ queue \subseteq Thread
        /\ flags \in [Thread -> WaitFlags] /\ ret \in [Thread -> Status]
    BY <1>1 DEF SemaphoreInv, TypeOK, KernelTypeOK
  <2>1. ASSUME NEW t \in Thread,
               SeizeAvailable(t) \/ SeizeNoWait(t) \/ Flush(t)
                 \/ \E timeout \in 0 .. MaxTimeout : SeizeWait(t, timeout)
        PROVE  Settled
    <3>1. op[t] = "none"
      BY <2>0, <2>1, CallerIdle DEF SeizeAvailable, SeizeNoWait, Flush, SeizeWait
    <3> QED
      BY <2>0, <2>1, <3>1 DEF SeizeAvailable, SeizeNoWait, Flush, SeizeWait,
         EnqueueCritical, waitVars
  <2>2. ASSUME NEW c \in Thread \cup {DevIsr}, Surrender(c) PROVE Settled
    BY <2>0, <2>2 DEF Surrender, ExtractCritical, Extract, waitVars
  <2>3. ASSUME Kernel PROVE Settled
    <3>1. CASE Continues
      BY <3>1, <2>0 DEF Continues
    <3>2. ASSUME NEW t \in Thread, Cancels(t) PROVE Settled
      <4>1. flags[t] # "ready_again"
        BY <2>0, <3>2, WaiterOp DEF Cancels
      <4> QED
        BY <2>0, <3>2, <4>1 DEF Cancels
    <3>3. ASSUME NEW t \in Thread, Returns(t) PROVE Settled
      BY <3>3 DEF Returns
    <3> QED
      BY <2>0, <2>3, <3>1, <3>2, <3>3, KernelStepEffect DEF Kernel
  <2> QED
    BY <1>1, <2>1, <2>2, <2>3 DEF Next, Directive
<1>2. SemaphoreInv /\ [Next]_vars => [Settled]_vars
  BY <1>1
<1> QED
  BY <1>2, SemaphoreInvariant, PTL DEF Spec, OutcomeSettled

-----------------------------------------------------------------------------
(***************************************************************************)
(* The refinement.                                                         *)
(***************************************************************************)

\* A step of the protocol is a cancellation, a return or nothing for a caller.
LEMMA KernelRefines ==
  ASSUME SemaphoreInv, Kernel
  PROVE  [Abstract!Next]_(Abstract!absVars)
<1>0. KernelInv /\ queue \subseteq Thread /\ ret \in [Thread -> Status] /\ count' = count
  BY DEF SemaphoreInv, TypeOK, KernelTypeOK, Kernel
<1>1. CASE Continues
  <2>1. PendingCall' = PendingCall
    BY <1>1 DEF Continues, PendingCall
  <2> QED
    BY <1>0, <2>1 DEF Abstract!absVars
<1>2. ASSUME NEW t \in Thread, Cancels(t) PROVE Abstract!Cancel(t)
  <2>1. op[t] = "seize" /\ PendingCall[t] = "waiting"
    BY <1>0, <1>2, WaiterOp DEF Cancels, PendingCall
  <2>2. PICK r \in {"timeout", "unsatisfied_nowait"} : ret' = [ret EXCEPT ![t] = r]
    BY <1>2 DEF Cancels
  <2>3. PendingCall' = [PendingCall EXCEPT ![t] = r]
    BY <1>0, <1>2, <2>1, <2>2 DEF Cancels, PendingCall
  <2> QED
    BY <1>0, <2>1, <2>2, <2>3 DEF Abstract!Cancel, Abstract!Outcome
<1>3. ASSUME NEW t \in Thread, Returns(t)
      PROVE  Abstract!Return(t) \/ UNCHANGED Abstract!absVars
  <2>1. CASE op[t] = "seize"
    <3>1. PendingCall[t] = ret[t] /\ ret[t] \in Abstract!Outcome
      BY <1>0, <1>3, <2>1 DEF Returns, PendingCall, Status, Abstract!Outcome
    <3>2. PendingCall' = [PendingCall EXCEPT ![t] = "none"]
      BY <1>3, <2>1 DEF Returns, PendingCall
    <3> QED
      BY <1>0, <3>1, <3>2 DEF Abstract!Return
  <2>2. CASE op[t] # "seize"
    <3>1. PendingCall' = PendingCall
      BY <1>3, <2>2 DEF Returns, PendingCall
    <3> QED
      BY <1>0, <3>1 DEF Abstract!absVars
  <2> QED
    BY <2>1, <2>2
<1> QED
  BY <1>0, <1>1, <1>2, <1>3, KernelStepEffect DEF Kernel, Abstract!Next

\* A directive is one step of the abstract semaphore, or nothing.
LEMMA DirectiveRefines ==
  ASSUME SemaphoreInv, Directive \/ Surrender(DevIsr)
  PROVE  [Abstract!Next]_(Abstract!absVars)
<1>0. /\ KernelInv /\ queue \subseteq Thread /\ ret \in [Thread -> Status]
      /\ count \in Nat /\ NoIdleUnit /\ WaiterSucceeds
      /\ op \in [Context -> Op] /\ Thread \subseteq Context
  BY CountAssumption DEF SemaphoreInv, TypeOK, KernelTypeOK, Context
<1>1. ASSUME NEW t \in Thread, SeizeAvailable(t) \/ SeizeNoWait(t) \/ Flush(t)
      PROVE  Abstract!Take \/ UNCHANGED Abstract!absVars
  <2>1. op[t] = "none"
    BY <1>0, <1>1, CallerIdle DEF SeizeAvailable, SeizeNoWait, Flush
  <2>2. PendingCall' = PendingCall
    BY <1>0, <1>1, <2>1 DEF SeizeAvailable, SeizeNoWait, Flush, PendingCall, stepVars,
       waitVars
  <2> QED
    BY <1>0, <1>1, <2>2 DEF SeizeAvailable, SeizeNoWait, Flush, Abstract!Take,
       Abstract!absVars
<1>2. ASSUME NEW t \in Thread, NEW timeout \in 0 .. MaxTimeout, SeizeWait(t, timeout)
      PROVE  Abstract!Wait(t)
  <2>1. op[t] = "none"
    BY <1>0, <1>2, CallerIdle DEF SeizeWait
  <2>2. PendingCall[t] = "none" /\ PendingCall' = [PendingCall EXCEPT ![t] = "waiting"]
    BY <1>0, <1>2, <2>1 DEF SeizeWait, EnqueueCritical, PendingCall
  <2> QED
    BY <1>2, <2>2 DEF SeizeWait, Abstract!Wait
<1>3. ASSUME NEW c \in Thread \cup {DevIsr}, Surrender(c)
      PROVE  [Abstract!Next]_(Abstract!absVars)
  <2>0. c \in Thread => op[c] = "none"
    BY <1>0, <1>3, CallerIdle, ContextAssumption DEF Surrender, Isr
  <2>1. ASSUME NEW t \in Thread, First(t), ExtractCritical(c, t, 1, "enable"),
               op' = [op EXCEPT ![c] = "surrender"], UNCHANGED <<ret, count>>
        PROVE  Abstract!Hand(t)
    <3>1. t \in queue /\ op[t] = "seize" /\ ret[t] = "successful"
      BY <1>0, <2>1, WaiterOp DEF First, WaiterSucceeds
    <3>2. queue' = queue \ {t}
      BY <2>1 DEF ExtractCritical, Extract
    <3>3. PendingCall[t] = "waiting" /\ PendingCall' = [PendingCall EXCEPT ![t] = "successful"]
      BY <1>0, <2>0, <2>1, <3>1, <3>2 DEF PendingCall
    <3> QED
      BY <2>1, <3>3 DEF Abstract!Hand
  <2>2. ASSUME queue = {}, StoreUnit, UNCHANGED <<op, waitVars>>
        PROVE  Abstract!Store \/ UNCHANGED Abstract!absVars
    <3>1. PendingCall' = PendingCall
      BY <2>2 DEF PendingCall, waitVars
    <3>2. Abstract!Waiting = {}
      BY <1>0, <2>2 DEF Abstract!Waiting, PendingCall, Status
    <3> QED
      BY <2>2, <3>1, <3>2 DEF StoreUnit, Abstract!Store, Abstract!absVars
  <2> QED
    BY <1>3, <2>1, <2>2 DEF Surrender, Abstract!Next
<1> QED
  BY <1>1, <1>2, <1>3 DEF Directive, Abstract!Next

\* The semaphore, interrupts and all, implements the atomic one: whatever its
\* callers can observe is a behaviour of AbstractSemaphore.
THEOREM Refinement == Spec => ImplementsAbstract
<1>1. Init => Abstract!Init
  BY ContextAssumption DEF Init, KernelInit, Abstract!Init, PendingCall, Context
<1>2. SemaphoreInv /\ [Next]_vars => [Abstract!Next]_(Abstract!absVars)
  <2>1. ASSUME vars' = vars PROVE UNCHANGED Abstract!absVars
    BY <2>1 DEF vars, kernelVars, stepVars, waitVars, Abstract!absVars, PendingCall
  <2> QED
    BY <2>1, KernelRefines, DirectiveRefines DEF Next
<1> QED
  BY <1>1, <1>2, SemaphoreInvariant, PTL DEF Spec, ImplementsAbstract, Abstract!Spec

-----------------------------------------------------------------------------
(***************************************************************************)
(* The order of the queue.                                                 *)
(***************************************************************************)

\* The discipline is transitive, and a thread that does not go before another
\* one goes after it.
LEMMA BeforeOrder ==
  ASSUME NEW t \in Thread, NEW u \in Thread, NEW v \in Thread
  PROVE  /\ Before(t, u) /\ Before(u, v) => Before(t, v)
         /\ ~Before(t, u) => Before(u, t)
BY ParameterAssumption DEF Before

\* An insertion keeps the queue ordered.
LEMMA EnqueueOrder ==
  ASSUME KernelInv, QueueSorted, NEW t \in Thread \ queue,
         queue' = queue \cup {t}, ahead' = Enqueued(t)
  PROVE  QueueSorted'
<1>0. queue \subseteq Thread /\ ahead \in [Thread -> SUBSET Thread]
  BY DEF KernelInv, KernelTypeOK
<1>1. ahead'[t] = {v \in queue : Before(v, t)}
  BY DEF Enqueued
<1>2. \A u \in Thread \ {t} :
        ahead'[u] = IF u \in queue /\ ~Before(u, t) THEN ahead[u] \cup {t} ELSE ahead[u]
  BY DEF Enqueued
<1>3. \A u \in Thread \ queue' : ahead'[u] = {}
  BY <1>0, <1>2 DEF QueueSorted
<1>4. \A u \in queue' : ahead'[u] \subseteq queue' \ {u}
  <2>1. \A u \in queue : ahead[u] \subseteq queue \ {u}
    BY DEF QueueSorted
  <2>2. \A u \in queue : ahead'[u] \subseteq queue' \ {u}
    BY <1>0, <1>2, <2>1
  <2>3. ahead'[t] \subseteq queue' \ {t}
    BY <1>0, <1>1
  <2> QED
    BY <2>2, <2>3
<1>5. ASSUME NEW u \in queue', NEW v \in queue', u # v
      PROVE  (v \in ahead'[u]) # (u \in ahead'[v])
  <2>1. \A w \in queue : t \notin ahead[w]
    BY <1>0 DEF QueueSorted
  <2>2. CASE u = t
    BY <1>0, <1>1, <1>2, <1>5, <2>1, <2>2
  <2>3. CASE v = t
    BY <1>0, <1>1, <1>2, <1>5, <2>1, <2>3
  <2>4. CASE u # t /\ v # t
    <3>1. (v \in ahead[u]) # (u \in ahead[v])
      BY <1>5, <2>4 DEF QueueSorted
    <3>2. v \in ahead'[u] <=> v \in ahead[u]
      BY <1>0, <1>2, <2>4
    <3>3. u \in ahead'[v] <=> u \in ahead[v]
      BY <1>0, <1>2, <2>4
    <3> QED
      BY <3>1, <3>2, <3>3
  <2> QED
    BY <2>2, <2>3, <2>4
<1>6. ASSUME NEW u \in queue', NEW v \in queue', v \in ahead'[u]
      PROVE  Before(v, u) /\ ahead'[v] \subseteq ahead'[u]
  <2>1. CASE u = t
    <3>1. v \in queue /\ v # t /\ Before(v, t) /\ ahead'[v] = ahead[v]
      BY <1>0, <1>1, <1>2, <1>6, <2>1
    <3>2. \A w \in ahead[v] : w \in queue /\ Before(w, v)
      BY <3>1 DEF QueueSorted
    <3> QED
      BY <1>0, <1>1, <2>1, <3>1, <3>2, BeforeOrder
  <2>2. CASE u # t /\ v = t
    <3>1. u \in queue /\ ~Before(u, t) /\ ahead'[u] = ahead[u] \cup {t}
      BY <1>0, <1>2, <1>6, <2>2 DEF QueueSorted
    <3>2. \A w \in queue : Before(w, t) => w # u /\ ~Before(u, w)
      BY <1>0, <3>1, BeforeOrder
    <3>3. \A w \in queue : Before(w, t) => w \in ahead[u]
      BY <3>1, <3>2 DEF QueueSorted
    <3> QED
      BY <1>0, <1>1, <2>2, <3>1, <3>3, BeforeOrder
  <2>3. CASE u # t /\ v # t
    <3>1. u \in queue /\ v \in queue /\ v \in ahead[u]
      BY <1>0, <1>2, <1>6, <2>3
    <3>2. Before(v, u) /\ ahead[v] \subseteq ahead[u]
      BY <3>1 DEF QueueSorted
    <3>3. ~Before(v, t) => ~Before(u, t)
      BY <1>0, <3>1, <3>2, BeforeOrder
    <3> QED
      BY <1>0, <1>2, <2>3, <3>1, <3>2, <3>3
  <2> QED
    BY <2>1, <2>2, <2>3
<1>7. \A u, v \in queue' : v \in ahead'[u] => Before(v, u) /\ ahead'[v] \subseteq ahead'[u]
  BY <1>6
<1> QED
  BY <1>3, <1>4, <1>5, <1>7 DEF QueueSorted, Before

\* An extraction keeps the queue ordered.
LEMMA ExtractOrder ==
  ASSUME KernelInv, QueueSorted, NEW t \in Thread,
         queue' = queue \ {t}, ahead' = Extracted(t)
  PROVE  QueueSorted'
<1>0. queue \subseteq Thread
  BY DEF KernelInv, KernelTypeOK
<1>1. ahead'[t] = {} /\ \A u \in Thread \ {t} : ahead'[u] = ahead[u] \ {t}
  BY DEF Extracted
<1>2. \A u \in Thread \ queue' : ahead'[u] = {}
  BY <1>0, <1>1 DEF QueueSorted
<1>3. \A u \in queue' : ahead'[u] \subseteq queue' \ {u}
  BY <1>0, <1>1 DEF QueueSorted
<1>4. \A u, v \in queue' : u # v => (v \in ahead'[u]) # (u \in ahead'[v])
  BY <1>0, <1>1 DEF QueueSorted
<1>5. \A u, v \in queue' : v \in ahead'[u] => Before(v, u) /\ ahead'[v] \subseteq ahead'[u]
  BY <1>0, <1>1 DEF QueueSorted
<1> QED
  BY <1>2, <1>3, <1>4, <1>5 DEF QueueSorted, Before

\* A thread is extracted because it is the first or because of a timeout.
Leaves(t) ==
  /\ queue' = queue \ {t} /\ ahead' = Extracted(t)
  /\ ahead[t] = {} \/ ret'[t] = "timeout"

\* A step leaves the queue alone, inserts its caller or extracts a thread.
LEMMA QueueStep ==
  ASSUME KernelInv, [Next]_vars
  PROVE  \/ UNCHANGED <<queue, ahead>>
         \/ \E t \in Thread \ queue : queue' = queue \cup {t} /\ ahead' = Enqueued(t)
         \/ \E t \in Thread : Leaves(t)
<1> DEFINE Goal == \/ UNCHANGED <<queue, ahead>>
                   \/ \E t \in Thread : Leaves(t)
<1>1. ASSUME NEW t \in Thread, SeizeAvailable(t) \/ SeizeNoWait(t) \/ Flush(t)
      PROVE  Goal
  BY <1>1 DEF SeizeAvailable, SeizeNoWait, Flush, waitVars
<1>2. ASSUME NEW t \in Thread, NEW timeout \in 0 .. MaxTimeout, SeizeWait(t, timeout)
      PROVE  t \in Thread \ queue /\ queue' = queue \cup {t} /\ ahead' = Enqueued(t)
  BY <1>2, CallerIdle DEF SeizeWait, EnqueueCritical
<1>3. ASSUME NEW c, Surrender(c) PROVE Goal
  BY <1>3 DEF Surrender, ExtractCritical, Extract, First, Leaves, waitVars
<1>4. ASSUME NEW t \in Thread, ThreadStep(t) PROVE Goal
  BY <1>4 DEF ThreadStep, EnqueueSetState, EnqueueInsertTimer, EnqueueTryBlock,
     FlushNext, ExtractCritical, Extract, First, Leaves, waitVars
<1>5. ASSUME NEW c, ContextStep(c) \/ DispatchEnable(c) \/ IsrEnter(c) \/ IsrExit(c)
      PROVE  Goal
  BY <1>5 DEF ContextStep, UnblockRemoveTimer, UnblockClearState, DispatchUnnest,
     DispatchEnable, IsrEnter, IsrExit, waitVars
<1>6. ASSUME Tick \/ TickleNext \/ TimeoutUnblock \/ SchedulerTick PROVE Goal
  BY <1>6 DEF Tick, TickleNext, TickleStep, TimeoutUnblock, SchedulerTick, waitVars
<1>7. ASSUME Timeout PROVE Goal
  <2>1. ret \in [Thread -> Status]
    BY DEF KernelInv, KernelTypeOK
  <2> QED
    BY <1>7, <2>1, TimeoutHolds DEF Timeout, Extract, Leaves, waitVars
<1>8. ASSUME vars' = vars PROVE Goal
  BY <1>8 DEF vars, kernelVars, waitVars
<1>9. Kernel => Goal
  BY <1>4, <1>5, <1>6, <1>7 DEF Kernel, KernelStep, TickStep
<1> QED
  BY <1>1, <1>2, <1>3, <1>8, <1>9 DEF Next, Directive

\* A step lets nobody on the queue be overtaken.
LEMMA StepOvertakesNobody ==
  ASSUME KernelInv, [Next]_vars
  PROVE  NoOvertaking
<1>0. queue \subseteq Thread /\ ahead \in [Thread -> SUBSET Thread]
  BY DEF KernelInv, KernelTypeOK
<1>1. CASE UNCHANGED <<queue, ahead>>
  BY <1>1 DEF NoOvertaking
<1>2. ASSUME NEW t \in Thread \ queue, queue' = queue \cup {t}, ahead' = Enqueued(t)
      PROVE  NoOvertaking
  <2>1. ahead'[t] = {v \in queue : Fifo \/ Priority[v] <= Priority[t]}
    BY <1>2 DEF Enqueued, Before
  <2>2. \A u \in queue : ahead'[u] \in {ahead[u], ahead[u] \cup {t}}
    BY <1>0, <1>2 DEF Enqueued
  <2> QED
    BY <1>2, <2>1, <2>2 DEF NoOvertaking
<1>3. ASSUME NEW t \in Thread, Leaves(t)
      PROVE  NoOvertaking
  <2>1. queue' = queue \ {t} /\ (ahead[t] = {} \/ ret'[t] = "timeout")
    BY <1>3 DEF Leaves
  <2>2. \A u \in Thread \ {t} : ahead'[u] = ahead[u] \ {t}
    BY <1>3 DEF Leaves, Extracted
  <2> QED
    BY <1>0, <2>1, <2>2 DEF NoOvertaking
<1> QED
  BY <1>1, <1>2, <1>3, QueueStep

\* The thread that a surrender or a flush wakes first is the one the queue
\* discipline names, the longest waiting or the longest waiting of the most
\* important: nobody who waits is overtaken by an equal that came later.
THEOREM QueueOrdered == Spec => QueueOrder
<1>1. Init => QueueSorted
  BY DEF Init, KernelInit, QueueSorted
<1>2. SemaphoreInv /\ QueueSorted /\ [Next]_vars => QueueSorted'
  <2> SUFFICES ASSUME KernelInv, QueueSorted, [Next]_vars PROVE QueueSorted'
    BY DEF SemaphoreInv
  <2>1. CASE UNCHANGED <<queue, ahead>>
    BY <2>1 DEF QueueSorted, Before
  <2> QED
    BY <2>1, QueueStep, EnqueueOrder, ExtractOrder DEF Leaves
<1>3. SemaphoreInv /\ [Next]_vars => [NoOvertaking]_vars
  BY StepOvertakesNobody DEF SemaphoreInv
<1>4. SemaphoreInv /\ QueueSorted /\ [Next]_vars => [QueueSorted' /\ NoOvertaking]_vars
  BY <1>2, <1>3
<1> QED
  BY <1>1, <1>2, <1>4, SemaphoreInvariant, PTL DEF Spec, QueueOrder

=============================================================================
