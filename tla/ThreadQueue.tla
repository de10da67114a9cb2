---------------------------- MODULE ThreadQueue ----------------------------
(***************************************************************************)
(* The blocking protocol of the SuperCore: how a thread blocks on a thread *)
(* queue and how a surrender, a flush or a timeout makes it ready again,   *)
(* on one processor whose interrupts may arrive between any two critical   *)
(* sections.  One action is one section with interrupts disabled.          *)
(*                                                                         *)
(*   librtems/score/thread/threadqenqueue.c, threadqops.c, threadqflush.c, *)
(*   threadtimeout.c, threadsetstate.c, threadclearstate.c,                *)
(*   threaddispatch.c, include/rtems/score/threaddispatch.h,               *)
(*   libcpu/c66x/irq.c                                                     *)
(*                                                                         *)
(* The module declares the kernel's state and the steps that every         *)
(* blocking object shares; an object (CoreSemaphore) extends it with its   *)
(* own state and with the directives that start those steps.               *)
(*                                                                         *)
(* Which ready thread the scheduler prefers is left open, except that the  *)
(* idle thread comes last: the heir after a block is any ready thread, an  *)
(* unblocked thread may or may not become the heir, and the end of a time  *)
(* slice gives the processor to any ready thread.  What is shown here      *)
(* holds under every scheduler of the repository.  Every thread is         *)
(* preemptible, which is the default mode of a task.                       *)
(***************************************************************************)
EXTENDS Naturals, Sequences, FiniteSets

CONSTANTS
  Thread,      \* the application's threads
  Idle,        \* the idle thread: always ready, calls nothing that blocks
  TickIsr,     \* the clock interrupt, Clock_isr -> _Watchdog_Tick
  DevIsr,      \* a device interrupt whose handler calls directives
  NoThread,    \* NULL
  Priority,    \* current_priority, smaller is more important
  Fifo,        \* TRUE: _Thread_queue_Operations_FIFO, FALSE: ..._priority
  Nesting,     \* TRUE: handlers run with GIE set, so interrupts nest
  MaxTimeout   \* bound on the timeouts threads ask for, in ticks

Isr == {TickIsr, DevIsr}
Context == Thread \cup {Idle} \cup Isr

ASSUME ContextAssumption ==
  /\ Idle \notin Thread /\ TickIsr \notin Thread /\ DevIsr \notin Thread
  /\ Idle \notin Isr /\ TickIsr # DevIsr
  /\ NoThread \notin Context

ASSUME ParameterAssumption ==
  /\ Priority \in [Thread -> Nat]
  /\ Fifo \in BOOLEAN /\ Nesting \in BOOLEAN
  /\ MaxTimeout \in Nat

VARIABLES
  executing,   \* _Per_CPU_Information.executing
  heir,        \* _Per_CPU_Information.heir
  necessary,   \* _Per_CPU_Information.dispatch_necessary
  level,       \* _Per_CPU_Information.thread_dispatch_disable_level
  isrStack,    \* the interrupts being served; its length is _ISR_Nest_level
  pc,          \* per context, the next critical section it enters
  cur,         \* per context, the thread it is about to unblock
  op,          \* per context, the directive it is in
  queue,       \* the threads on the thread queue (Wait.queue # NULL)
  ahead,       \* per thread, the threads before it on the queue
  flags,       \* Wait.flags, thread queue class
  state,       \* current_state
  ret,         \* Wait.return_code
  armed,       \* the threads whose Timer is on the ticks chain
  ticks        \* the timeout argument, then the ticks left until it fires

cpuVars == <<executing, heir, necessary, level, isrStack>>
stepVars == <<pc, cur, op>>
waitVars == <<queue, ahead, flags, ret>>
timerVars == <<armed, ticks>>
kernelVars == <<cpuVars, stepVars, waitVars, state, timerVars>>

WaitFlags == {"initial", "intend_to_block", "blocked", "ready_again"}
ThreadState == {"ready", "waiting"}
Status == {"successful", "unsatisfied_nowait", "timeout"}
Op == {"none", "seize", "surrender", "flush"}

ThreadPc == {"run", "set_state", "insert_timer", "try_block", "remove_timer",
             "unblock", "enable_inner", "enable", "flush"}
IsrPc == {"off", "body", "tickle", "timeout", "timeout_unblock",
          "scheduler_tick", "remove_timer", "unblock", "enable_inner", "enable",
          "exit"}

\* A started thread that has not run yet is in _Thread_Handler, which enables
\* dispatching before it enters the thread's code.
KernelInit ==
  /\ executing \in Thread /\ heir = executing /\ necessary = FALSE
  /\ level = 0 /\ isrStack = <<>>
  /\ pc = [c \in Context |-> IF c \in Isr THEN "off"
                            ELSE IF c = executing THEN "run" ELSE "enable"]
  /\ cur = [c \in Context |-> NoThread]
  /\ op = [c \in Context |-> "none"]
  /\ queue = {} /\ ahead = [t \in Thread |-> {}]
  /\ flags = [t \in Thread |-> "initial"]
  /\ state = [t \in Thread |-> "ready"]
  /\ ret = [t \in Thread |-> "successful"]
  /\ armed = {} /\ ticks = [t \in Thread |-> 0]

(***************************************************************************)
(* The processor runs the innermost interrupt, or the executing thread.    *)
(***************************************************************************)
Running == IF isrStack = <<>> THEN executing ELSE isrStack[Len(isrStack)]

At(c, label) == Running = c /\ pc[c] = label

Goto(c, label) == pc' = [pc EXCEPT ![c] = label]

-----------------------------------------------------------------------------
(***************************************************************************)
(* Scheduler, seen through its heir.                                       *)
(***************************************************************************)
ReadyThreads == {t \in Thread : state[t] = "ready"}

\* Defect: the new heir is recorded and the dispatch is not requested.
UpdateHeirOnly(h) == heir' = h /\ UNCHANGED necessary

\* _Scheduler_Update_heir: a new heir makes a dispatch necessary.
UpdateHeir(h) ==
  /\ heir' = h
  /\ IF h = heir THEN UNCHANGED necessary ELSE necessary' = TRUE

\* _Scheduler_Generic_block: only the loss of the executing thread or of the
\* heir makes the scheduler look for another heir.
SchedulerBlock(t) ==
  IF t = executing \/ t = heir
  THEN LET others == ReadyThreads \ {t}
       IN \E h \in IF others = {} THEN {Idle} ELSE others : UpdateHeir(h)
  ELSE UNCHANGED <<heir, necessary>>

\* _Scheduler_Unblock: the thread becomes the heir if the policy prefers it.
SchedulerUnblock(t) ==
  \E h \in IF heir = Idle THEN {t} ELSE {heir, t} : UpdateHeir(h)

\* _Thread_Set_state with the waiting state of the queue.
SetState(t) ==
  /\ state' = [state EXCEPT ![t] = "waiting"]
  /\ IF state[t] = "ready" THEN SchedulerBlock(t)
                           ELSE UNCHANGED <<heir, necessary>>

\* _Thread_Unblock is _Thread_Clear_state( STATES_BLOCKED ).
ClearState(t) ==
  /\ state' = [state EXCEPT ![t] = "ready"]
  /\ IF state[t] = "waiting" THEN SchedulerUnblock(t)
                             ELSE UNCHANGED <<heir, necessary>>

-----------------------------------------------------------------------------
(***************************************************************************)
(* Thread queue operations: FIFO, or priority with FIFO among equals.      *)
(***************************************************************************)
\* Defect: a thread goes before the waiting threads of its own priority.
BeforeStrictly(u, t) == Fifo \/ Priority[u] < Priority[t]

Before(u, t) == Fifo \/ Priority[u] <= Priority[t]

First(t) == t \in queue /\ ahead[t] = {}

Enqueued(t) ==
  [u \in Thread |->
     IF u = t THEN {v \in queue : Before(v, t)}
     ELSE IF u \in queue /\ ~Before(u, t) THEN ahead[u] \cup {t}
     ELSE ahead[u]]

Extracted(t) == [u \in Thread |-> IF u = t THEN {} ELSE ahead[u] \ {t}]

Extract(t) ==
  /\ queue' = queue \ {t}
  /\ ahead' = Extracted(t)
  /\ flags' = [flags EXCEPT ![t] = "ready_again"]

-----------------------------------------------------------------------------
(***************************************************************************)
(* Dispatching.                                                            *)
(***************************************************************************)

\* _Thread_Do_dispatch, from the section that reads the heir to the next one
\* of the thread switched to.  A thread that is switched out stays at its
\* "enable" section: when it runs again it looks at dispatch_necessary once
\* more, exactly as when it first came there.
DoDispatch(c) ==
  /\ executing' = heir
  /\ necessary' = FALSE
  /\ IF heir = c
     THEN /\ Goto(c, "run") /\ op' = [op EXCEPT ![c] = "none"] /\ level' = 0
     ELSE /\ Goto(c, "enable") /\ level' = 1 /\ UNCHANGED op

\* _Thread_Dispatch_enable at the end of a directive of the thread c.
DispatchEnable(c) ==
  /\ At(c, "enable") /\ c \notin Isr
  /\ IF necessary
     THEN DoDispatch(c)
     ELSE /\ level' = 0 /\ Goto(c, "run") /\ op' = [op EXCEPT ![c] = "none"]
          /\ UNCHANGED <<executing, necessary>>
  /\ UNCHANGED <<heir, isrStack, cur, waitVars, state, timerVars>>

\* _Thread_Dispatch_enable with a disable level above one: the one that
\* closes _Thread_queue_Unblock_critical, and the one that closes a surrender
\* made by an interrupt handler.
DispatchUnnest(c) ==
  /\ \/ /\ At(c, "enable_inner")
        /\ Goto(c, IF op[c] = "flush" THEN "flush" ELSE "enable")
     \/ /\ At(c, "enable") /\ c \in Isr
        /\ Goto(c, "exit")
  /\ level' = level - 1
  /\ UNCHANGED <<executing, heir, necessary, isrStack, cur, op, waitVars,
                 state, timerVars>>

-----------------------------------------------------------------------------
(***************************************************************************)
(* __ISR_Handler around the handlers of the vector table.                  *)
(***************************************************************************)
IsrEnter(i) ==
  /\ pc[i] = "off"
  /\ isrStack = <<>> \/ Nesting
  /\ isrStack' = Append(isrStack, i)
  /\ level' = level + 1
  /\ Goto(i, "body")
  /\ UNCHANGED <<executing, heir, necessary, cur, op, waitVars, state,
                 timerVars>>

\* Defect: the interrupt returns without looking for a necessary dispatch.
IsrExitNoDispatch(i) ==
  /\ At(i, "exit")
  /\ isrStack' = SubSeq(isrStack, 1, Len(isrStack) - 1)
  /\ level' = level - 1 /\ Goto(i, "off")
  /\ op' = [op EXCEPT ![i] = "none"]
  /\ UNCHANGED <<executing, heir, necessary, cur, waitVars, state, timerVars>>

\* The outermost interrupt preempts the executing thread if dispatching is
\* enabled and necessary: _Thread_Dispatch on the stack of that thread.
IsrExit(i) ==
  /\ At(i, "exit")
  /\ isrStack' = SubSeq(isrStack, 1, Len(isrStack) - 1)
  /\ IF isrStack' = <<>> /\ level = 1 /\ necessary
     THEN /\ level' = 1
          /\ pc' = [pc EXCEPT ![i] = "off", ![executing] = "enable"]
     ELSE /\ level' = level - 1
          /\ Goto(i, "off")
  /\ op' = [op EXCEPT ![i] = "none"]
  /\ UNCHANGED <<executing, heir, necessary, cur, waitVars, state, timerVars>>

-----------------------------------------------------------------------------
(***************************************************************************)
(* _Thread_queue_Enqueue_critical.                                         *)
(***************************************************************************)

\* The section that is shared with the caller's: enqueue, announce the
\* intention, disable dispatching.
EnqueueCritical(t, timeout) ==
  /\ queue' = queue \cup {t}
  /\ ahead' = Enqueued(t)
  /\ flags' = [flags EXCEPT ![t] = "intend_to_block"]
  /\ ticks' = [ticks EXCEPT ![t] = timeout]
  /\ level' = level + 1
  /\ Goto(t, "set_state")

EnqueueSetState(t) ==
  /\ At(t, "set_state")
  /\ SetState(t)
  /\ Goto(t, IF ticks[t] = 0 THEN "try_block" ELSE "insert_timer")
  /\ UNCHANGED <<executing, level, isrStack, cur, op, waitVars, timerVars>>

EnqueueInsertTimer(t) ==
  /\ At(t, "insert_timer")
  /\ armed' = armed \cup {t}
  /\ Goto(t, "try_block")
  /\ UNCHANGED <<cpuVars, cur, op, waitVars, state, ticks>>

\* Defect: the thread blocks without asking whether its wait has ended.
EnqueueBlockAlways(t) ==
  /\ At(t, "try_block")
  /\ flags' = [flags EXCEPT ![t] = "blocked"]
  /\ Goto(t, "enable")
  /\ UNCHANGED <<cpuVars, cur, op, queue, ahead, ret, state, timerVars>>

EnqueueTryBlock(t) ==
  /\ At(t, "try_block")
  /\ IF flags[t] = "intend_to_block"
     THEN /\ flags' = [flags EXCEPT ![t] = "blocked"]
          /\ Goto(t, "enable")
          /\ UNCHANGED cur
     ELSE /\ cur' = [cur EXCEPT ![t] = t]
          /\ Goto(t, "remove_timer")
          /\ UNCHANGED flags
  /\ UNCHANGED <<cpuVars, op, queue, ahead, ret, state, timerVars>>

-----------------------------------------------------------------------------
(***************************************************************************)
(* _Thread_queue_Extract_critical and _Thread_queue_Unblock.               *)
(***************************************************************************)

\* A thread that only intends to block undoes its own blocking; one that is
\* blocked is unblocked by the context c with dispatching disabled once more
\* than the caller did (disables).  Where c continues is given by after.
ExtractCritical(c, t, disables, after) ==
  /\ Extract(t)
  /\ IF flags[t] = "intend_to_block"
     THEN /\ Goto(c, after) /\ level' = level + disables
          /\ UNCHANGED cur
     ELSE /\ Goto(c, "remove_timer") /\ level' = level + disables + 1
          /\ cur' = [cur EXCEPT ![c] = t]

\* Defect: a thread is unblocked and its timer stays on the chain.
UnblockKeepsTimer(c) ==
  /\ At(c, "remove_timer") /\ Goto(c, "unblock")
  /\ UNCHANGED <<cpuVars, cur, op, waitVars, state, timerVars>>

UnblockRemoveTimer(c) ==
  /\ At(c, "remove_timer")
  /\ armed' = armed \ {cur[c]}
  /\ Goto(c, "unblock")
  /\ UNCHANGED <<cpuVars, cur, op, waitVars, state, ticks>>

UnblockClearState(c) ==
  /\ At(c, "unblock")
  /\ ClearState(cur[c])
  /\ Goto(c, IF cur[c] = c THEN "enable" ELSE "enable_inner")
  /\ cur' = [cur EXCEPT ![c] = NoThread]
  /\ UNCHANGED <<executing, level, isrStack, op, waitVars, timerVars>>

-----------------------------------------------------------------------------
(***************************************************************************)
(* _Thread_queue_Flush, one round of its loop.  The directives that flush  *)
(* hold dispatching disabled from _Objects_Get to _Objects_Put.            *)
(***************************************************************************)
FlushNext(c) ==
  /\ At(c, "flush")
  /\ \/ \E t \in Thread :
          /\ First(t)
          /\ ret' = [ret EXCEPT ![t] = "unsatisfied_nowait"]
          /\ ExtractCritical(c, t, 0, "flush")
          /\ UNCHANGED <<executing, heir, necessary, isrStack, op, state,
                         timerVars>>
     \/ /\ queue = {}
        /\ Goto(c, "enable")
        /\ UNCHANGED <<cpuVars, cur, op, waitVars, state, timerVars>>

-----------------------------------------------------------------------------
(***************************************************************************)
(* _Watchdog_Tickle on the ticks chain and _Thread_Timeout, in the clock   *)
(* interrupt.  The chain itself is the subject of module Watchdog.         *)
(***************************************************************************)

\* Take one expired timer off the chain, or leave the loop.
TickleStep(left) ==
  /\ ticks' = left
  /\ \/ \E t \in armed :
          /\ left[t] = 0
          /\ armed' = armed \ {t}
          /\ cur' = [cur EXCEPT ![TickIsr] = t]
          /\ Goto(TickIsr, "timeout")
     \/ /\ \A t \in armed : left[t] # 0
        /\ Goto(TickIsr, "scheduler_tick")
        /\ UNCHANGED <<armed, cur>>
  /\ UNCHANGED <<cpuVars, op, waitVars, state>>

Tick ==
  /\ At(TickIsr, "body")
  /\ TickleStep([t \in Thread |->
                   IF t \in armed /\ ticks[t] # 0 THEN ticks[t] - 1 ELSE ticks[t]])

TickleNext == At(TickIsr, "tickle") /\ TickleStep(ticks)

\* Defect: a timeout does not ask whether the wait has ended already.
TimeoutUnchecked ==
  LET t == cur[TickIsr] IN
  /\ At(TickIsr, "timeout")
  /\ ret' = [ret EXCEPT ![t] = "timeout"] /\ Extract(t)
  /\ IF flags[t] # "intend_to_block"
     THEN Goto(TickIsr, "timeout_unblock") /\ UNCHANGED cur
     ELSE Goto(TickIsr, "tickle") /\ cur' = [cur EXCEPT ![TickIsr] = NoThread]
  /\ UNCHANGED <<cpuVars, op, state, timerVars>>

\* Defect: a timeout passes over a thread that is not blocked yet.
TimeoutBlockedOnly ==
  LET t == cur[TickIsr] IN
  /\ At(TickIsr, "timeout")
  /\ IF flags[t] = "blocked"
     THEN /\ ret' = [ret EXCEPT ![t] = "timeout"] /\ Extract(t)
          /\ Goto(TickIsr, "timeout_unblock") /\ UNCHANGED cur
     ELSE /\ Goto(TickIsr, "tickle") /\ cur' = [cur EXCEPT ![TickIsr] = NoThread]
          /\ UNCHANGED waitVars
  /\ UNCHANGED <<cpuVars, op, state, timerVars>>

Timeout ==
  LET t == cur[TickIsr] IN
  /\ At(TickIsr, "timeout")
  /\ IF flags[t] = "ready_again"
     THEN UNCHANGED waitVars
     ELSE ret' = [ret EXCEPT ![t] = "timeout"] /\ Extract(t)
  /\ IF flags[t] = "blocked"
     THEN Goto(TickIsr, "timeout_unblock") /\ UNCHANGED cur
     ELSE Goto(TickIsr, "tickle") /\ cur' = [cur EXCEPT ![TickIsr] = NoThread]
  /\ UNCHANGED <<cpuVars, op, state, timerVars>>

TimeoutUnblock ==
  /\ At(TickIsr, "timeout_unblock")
  /\ ClearState(cur[TickIsr])
  /\ Goto(TickIsr, "tickle")
  /\ cur' = [cur EXCEPT ![TickIsr] = NoThread]
  /\ UNCHANGED <<executing, level, isrStack, op, waitVars, timerVars>>

\* _Scheduler_Tick, the last call of _Watchdog_Tick: when the time slice of a
\* ready executing thread ends, it yields to any ready thread.
SchedulerTick ==
  /\ At(TickIsr, "scheduler_tick")
  /\ \/ UNCHANGED <<heir, necessary>>
     \/ executing \in ReadyThreads /\ \E h \in ReadyThreads : UpdateHeir(h)
  /\ Goto(TickIsr, "exit")
  /\ UNCHANGED <<executing, level, isrStack, cur, op, waitVars, state, timerVars>>

-----------------------------------------------------------------------------
(***************************************************************************)
(* Steps every object shares.                                              *)
(***************************************************************************)
ThreadStep(t) ==
  \/ EnqueueSetState(t) \/ EnqueueInsertTimer(t) \/ EnqueueTryBlock(t)
  \/ FlushNext(t)

ContextStep(c) ==
  \/ UnblockRemoveTimer(c) \/ UnblockClearState(c) \/ DispatchUnnest(c)

TickStep == Tick \/ TickleNext \/ Timeout \/ TimeoutUnblock \/ SchedulerTick

KernelStep ==
  \/ \E t \in Thread : ThreadStep(t)
  \/ \E c \in Thread \cup {DevIsr} : ContextStep(c)
  \/ \E c \in Thread \cup {Idle} : DispatchEnable(c)
  \/ \E i \in Isr : IsrEnter(i) \/ IsrExit(i)
  \/ TickStep

\* The step of one context: what that context does when the processor runs it.
StepOf(c) ==
  \/ c \in Thread /\ ThreadStep(c)
  \/ c \in Thread \cup {DevIsr} /\ ContextStep(c)
  \/ c \in Thread \cup {Idle} /\ DispatchEnable(c)
  \/ c \in Isr /\ IsrExit(c)
  \/ c = TickIsr /\ TickStep

-----------------------------------------------------------------------------
(***************************************************************************)
(* What the protocol guarantees, whatever the object.                      *)
(***************************************************************************)
KernelTypeOK ==
  /\ executing \in Thread \cup {Idle} /\ heir \in Thread \cup {Idle}
  /\ necessary \in BOOLEAN /\ level \in Nat /\ isrStack \in Seq(Isr)
  /\ pc \in [Context -> ThreadPc \cup IsrPc]
  /\ cur \in [Context -> Thread \cup {NoThread}]
  /\ op \in [Context -> Op]
  /\ queue \in SUBSET Thread /\ ahead \in [Thread -> SUBSET Thread]
  /\ flags \in [Thread -> WaitFlags]
  /\ state \in [Thread -> ThreadState]
  /\ ret \in [Thread -> Status]
  /\ armed \in SUBSET Thread /\ ticks \in [Thread -> Nat]

UndoingPc == {"set_state", "insert_timer", "try_block"}
UnblockingPc == {"remove_timer", "unblock", "timeout_unblock"}

\* Context c has taken it on itself to make t ready.
Unblocks(c, t) == cur[c] = t /\ pc[c] \in UnblockingPc

\* Context c is about to take the timer of t off the chain.
Disarms(c, t) == cur[c] = t /\ pc[c] = "remove_timer"

\* A thread in the waiting state is still on the queue, or is itself on the
\* way to undo its blocking, or some context is about to unblock it: whatever
\* interrupt hits _Thread_queue_Enqueue_critical, no thread sleeps forever
\* after its wait has ended.
NoStrandedThread ==
  \A t \in Thread :
    state[t] = "waiting" =>
      \/ t \in queue
      \/ pc[t] \in UndoingPc
      \/ \E c \in Context : Unblocks(c, t)

\* A wait is ended by one context only: of a surrender, a flush, a timeout and
\* the waiter's own undo, two never unblock the same thread.
SingleUnblocker ==
  \A t \in Thread : \A c, d \in Context :
    Unblocks(c, t) /\ Unblocks(d, t) => c = d

\* A thread that is back in its own code has left nothing of its wait behind:
\* it is off the queue and ready, its timer is off the chain, and no context
\* still holds it to unblock or to time out.  A timer left armed would end the
\* thread's next wait.
CleanReturn ==
  \A t \in Thread :
    pc[t] = "run" =>
      /\ t \notin queue /\ t \notin armed /\ state[t] = "ready"
      /\ \A c \in Context : cur[c] # t

\* An heir other than the executing thread is never forgotten: a dispatch is
\* recorded as necessary, and dispatching is disabled, so that the matching
\* enable or the exit of the interrupt will perform it.
PendingDispatch ==
  /\ executing # heir => necessary
  /\ necessary => level > 0

\* The processor is given to a ready thread, and a thread that has declared
\* itself waiting goes on running only with dispatching disabled.
RunsReady ==
  /\ heir \in Thread => state[heir] = "ready"
  /\ executing \in Thread /\ state[executing] = "waiting" => level > 0

\* What a context adds to the dispatch disable level from its pc on.
ThreadLevel(t) ==
  IF pc[t] \in {"set_state", "insert_timer", "try_block", "enable", "flush"} THEN 1
  ELSE IF pc[t] \in {"remove_timer", "unblock"} THEN IF cur[t] = t THEN 1 ELSE 2
  ELSE IF pc[t] = "enable_inner" THEN 2 ELSE 0
IsrLevel(i) ==
  IF pc[i] = "off" THEN 0
  ELSE IF pc[i] \in {"remove_timer", "unblock", "enable_inner"} THEN 3
  ELSE IF pc[i] = "enable" THEN 2 ELSE 1

\* Every disable of dispatching is matched by one enable, through blocking,
\* context switches and preemption: the level is the sum of what the executing
\* thread and the interrupts in progress still have to give back.
LevelBalanced ==
  level = ThreadLevel(executing) + IsrLevel(TickIsr) + IsrLevel(DevIsr)

\* The queue is a total order that follows the discipline of its operations;
\* the first thread is unique.
QueueSorted ==
  /\ \A t \in Thread \ queue : ahead[t] = {}
  /\ \A t \in queue : ahead[t] \subseteq queue \ {t}
  /\ \A t, u \in queue :
       t # u => (u \in ahead[t]) # (t \in ahead[u])
  /\ \A t, u \in queue : u \in ahead[t] => Before(u, t) /\ ahead[u] \subseteq ahead[t]

-----------------------------------------------------------------------------
(***************************************************************************)
(* The inductive invariant behind them.                                    *)
(***************************************************************************)
TickPc == {"off", "body", "tickle", "timeout", "timeout_unblock",
           "scheduler_tick", "exit"}
DevPc == {"off", "body", "remove_timer", "unblock", "enable_inner", "enable",
          "exit"}

\* Only the executing thread is inside a directive; every other one was
\* switched out in _Thread_Do_dispatch.
ControlInv ==
  /\ \A t \in Thread : pc[t] \in ThreadPc
  /\ pc[Idle] \in {"run", "enable"}
  /\ pc[TickIsr] \in TickPc /\ pc[DevIsr] \in DevPc /\ op[DevIsr] # "flush"
  /\ \A c \in Thread \cup {Idle} : c # executing => pc[c] = "enable"

\* The interrupts in progress are those on the stack.
StackInv ==
  /\ Len(isrStack) <= 2
  /\ Len(isrStack) = 0 => pc[TickIsr] = "off" /\ pc[DevIsr] = "off"
  /\ Len(isrStack) = 1 => \A i \in Isr : pc[i] # "off" <=> i = isrStack[1]
  /\ Len(isrStack) = 2 =>
       isrStack[1] # isrStack[2] /\ \A i \in Isr : pc[i] # "off"

\* The wait flags tell where the thread is in its wait.
WaitInv ==
  \A t \in Thread :
    /\ t \in queue <=> flags[t] \in {"intend_to_block", "blocked"}
    /\ flags[t] = "intend_to_block" => pc[t] \in UndoingPc
    /\ flags[t] = "blocked" =>
         op[t] = "seize" /\ pc[t] = "enable" /\ state[t] = "waiting"
    /\ pc[t] \in UndoingPc =>
         op[t] = "seize" /\ flags[t] \in {"intend_to_block", "ready_again"}
    /\ pc[t] = "set_state" => state[t] = "ready"
    /\ pc[t] \in {"insert_timer", "try_block"} => state[t] = "waiting"
    /\ pc[t] = "run" => op[t] = "none"
    /\ pc[t] \in {"enable_inner", "flush"} => op[t] \in {"surrender", "flush"}
    /\ pc[t] \in {"remove_timer", "unblock"} =>
         (IF cur[t] = t THEN op[t] = "seize" ELSE op[t] \in {"surrender", "flush"})
    /\ op[t] = "seize" => flags[t] # "initial"
    /\ op[t] # "seize" => state[t] = "ready" /\ t \notin armed

\* A context holds a thread exactly while it is about to unblock it or to
\* time it out.
HoldInv ==
  \A c \in Context :
    cur[c] = NoThread <=> pc[c] \notin UnblockingPc \cup {"timeout"}

\* A thread that is held is in its wait.
HandInv == \A c \in Context, t \in Thread : cur[c] = t => op[t] = "seize"

\* A thread that is about to be unblocked has ended its wait and was switched
\* out, or undoes its own blocking.
EndedInv ==
  \A c \in Context, t \in Thread :
    Unblocks(c, t) =>
      /\ state[t] = "waiting" /\ flags[t] = "ready_again"
      /\ c = t \/ pc[t] = "enable"

\* An armed timer belongs to a thread in its wait, and somebody will take it
\* off the chain before the thread returns.
TimerInv ==
  /\ \A t \in armed :
       /\ pc[t] \in {"try_block", "remove_timer", "enable"}
       /\ \/ t \in queue
          \/ pc[t] = "try_block"
          \/ \E c \in Context : Disarms(c, t)
  /\ \A t \in Thread :
       cur[TickIsr] = t /\ pc[TickIsr] \in {"timeout", "timeout_unblock"} => t \notin armed

KernelInv ==
  /\ KernelTypeOK /\ ControlInv /\ StackInv /\ WaitInv
  /\ HoldInv /\ HandInv /\ EndedInv /\ TimerInv
  /\ NoStrandedThread /\ SingleUnblocker
  /\ PendingDispatch /\ RunsReady /\ LevelBalanced

=============================================================================
