---------------------------- MODULE EventManager ----------------------------
(***************************************************************************)
(* The events of one task: rtems_event_receive and rtems_event_send, their *)
(* variants for system events, and the time-out of the wait.               *)
(*                                                                         *)
(*   librtems/rtems/event/eventseize.c, eventsurrender.c, eventreceive.c,  *)
(*   eventsend.c, librtems/rtems/systemeventreceive.c, systemeventsend.c,  *)
(*   librtems/score/thread/threadtimeout.c                                 *)
(*                                                                         *)
(* There is no thread queue: the task, its senders and the clock interrupt *)
(* meet on the wait flags alone.  One action is one section with           *)
(* interrupts disabled.  Threads move only while no handler is active, and *)
(* only one of them is inside a section pair with dispatching disabled;    *)
(* handlers interleave freely, which includes every nesting of them.       *)
(***************************************************************************)
EXTENDS Naturals

CONSTANTS
  Class,       \* THREAD_WAIT_CLASS_EVENT and THREAD_WAIT_CLASS_SYSTEM_EVENT
  Event,       \* the bits of an rtems_event_set
  TaskSender,  \* the threads that send
  IsrSender,   \* the interrupt handlers that send
  MaxTicks     \* bound on the ticks of a receive

ASSUME EventAssumption ==
  TaskSender \cap IsrSender = {} /\ MaxTicks \in Nat

Sender == TaskSender \cup IsrSender

VARIABLES
  pending,  \* api->Event and api->System_event, by class
  wclass,   \* the class in the wait flags
  wstate,   \* the state in the wait flags
  want,     \* Wait.count, the event condition
  any,      \* Wait.option is RTEMS_EVENT_ANY
  out,      \* *event_out
  code,     \* Wait.return_code
  timer,    \* the ticks until the timer of the task expires, 0 when inactive
  blocked,  \* the state of the task is not ready
  pc,       \* the next section of the task
  spc,      \* per sender, the next section
  tick      \* the next section of the clock interrupt

waitVars == <<wclass, wstate, want, any>>
resultVars == <<out, code>>
vars == <<pending, waitVars, resultVars, timer, blocked, pc, spc, tick>>

Init ==
  /\ pending = [c \in Class |-> {}]
  /\ wclass \in Class /\ wstate = "ready_again" /\ want = {} /\ any = FALSE
  /\ out = {} /\ code = "successful"
  /\ timer = 0 /\ blocked = FALSE
  /\ pc = "run" /\ spc = [s \in Sender |-> "idle"] /\ tick = "idle"

HandlersIdle == tick = "idle" /\ \A s \in IsrSender : spc[s] = "idle"

\* A thread moves: nobody else has dispatching disabled.
TaskMoves(s) ==
  HandlersIdle /\ pc \in {"run", "waiting"}
    /\ \A x \in TaskSender \ {s} : spc[x] = "idle"
ReceiverMoves ==
  HandlersIdle /\ ~blocked /\ \A s \in TaskSender : spc[s] = "idle"
\* Between the sections of its receive the task cannot be preempted.
ReceiverContinues == HandlersIdle /\ \A s \in TaskSender : spc[s] = "idle"
SenderMoves(s) == s \in IsrSender \/ TaskMoves(s)

-----------------------------------------------------------------------------
(***************************************************************************)
(* _Event_Seize.                                                           *)
(***************************************************************************)
Satisfied(p, w, a) == p \cap w # {} /\ (w \subseteq p \/ a)

\* The pending events satisfy the condition.
SeizePending(c, w, a) ==
  /\ pc = "run" /\ ReceiverMoves
  /\ Satisfied(pending[c], w, a)
  /\ out' = pending[c] \cap w /\ code' = "successful"
  /\ pending' = [pending EXCEPT ![c] = @ \ w]
  /\ UNCHANGED <<waitVars, timer, blocked, pc, spc, tick>>

SeizeNoWait(c, w, a) ==
  /\ pc = "run" /\ ReceiverMoves
  /\ w # {} /\ ~Satisfied(pending[c], w, a)
  /\ out' = pending[c] \cap w /\ code' = "unsatisfied"
  /\ UNCHANGED <<pending, waitVars, timer, blocked, pc, spc, tick>>

\* An empty condition asks which events are pending.
ReceiveCurrent(c) ==
  /\ pc = "run" /\ ReceiverMoves
  /\ out' = pending[c] /\ code' = "successful"
  /\ UNCHANGED <<pending, waitVars, timer, blocked, pc, spc, tick>>

\* Without the no wait option the task announces its wait.
SeizeWait(c, w, a) ==
  /\ pc = "run" /\ ReceiverMoves
  /\ w # {} /\ ~Satisfied(pending[c], w, a)
  /\ wclass' = c /\ wstate' = "intend" /\ want' = w /\ any' = a
  /\ code' = "successful"
  /\ pc' \in {"arm", "set_state"}
  /\ UNCHANGED <<pending, out, timer, blocked, spc, tick>>

InsertTimer ==
  /\ pc = "arm" /\ ReceiverContinues
  /\ timer' \in 1 .. MaxTicks
  /\ pc' = "set_state"
  /\ UNCHANGED <<pending, waitVars, resultVars, blocked, spc, tick>>

SetState ==
  /\ pc = "set_state" /\ ReceiverContinues
  /\ blocked' = TRUE /\ pc' = "try"
  /\ UNCHANGED <<pending, waitVars, resultVars, timer, spc, tick>>

TryBlock ==
  /\ pc = "try" /\ ReceiverContinues
  /\ IF wstate = "intend"
     THEN wstate' = "blocked" /\ pc' = "waiting"
     ELSE pc' = "cancel" /\ UNCHANGED wstate
  /\ UNCHANGED <<pending, wclass, want, any, resultVars, timer, blocked, spc, tick>>

\* Defect: the task forgets its timer.
RemoveTimerNot ==
  /\ pc = "cancel" /\ ReceiverContinues
  /\ pc' = "unblock"
  /\ UNCHANGED <<pending, waitVars, resultVars, timer, blocked, spc, tick>>

RemoveTimer ==
  /\ pc = "cancel" /\ ReceiverContinues
  /\ timer' = 0 /\ pc' = "unblock"
  /\ UNCHANGED <<pending, waitVars, resultVars, blocked, spc, tick>>

UnblockSelf ==
  /\ pc = "unblock" /\ ReceiverContinues
  /\ blocked' = FALSE /\ pc' = "waiting"
  /\ UNCHANGED <<pending, waitVars, resultVars, timer, spc, tick>>

\* _Thread_Dispatch_enable comes back once the task is ready.
Return ==
  /\ pc = "waiting" /\ ReceiverMoves
  /\ pc' = "run"
  /\ UNCHANGED <<pending, waitVars, resultVars, timer, blocked, spc, tick>>

-----------------------------------------------------------------------------
(***************************************************************************)
(* _Event_Surrender.                                                       *)
(***************************************************************************)
\* Defect: the class of the wait is not compared.
IsBlockingOnAny(c) == wstate \in {"intend", "blocked"}

IsBlockingOnEvent(c) == wclass = c /\ wstate \in {"intend", "blocked"}

\* Post the events; a task that waits for them gets them and becomes ready,
\* at the hands of the sender if it is blocked already.
Surrender(s, c, E) ==
  LET p == pending[c] \cup E IN
  /\ spc[s] = "idle" /\ SenderMoves(s)
  /\ IF IsBlockingOnEvent(c) /\ Satisfied(p, want, any)
     THEN /\ pending' = [pending EXCEPT ![c] = p \ want]
          /\ out' = p \cap want
          /\ wstate' = "ready_again"
          /\ spc' = [spc EXCEPT ![s] = IF wstate = "intend" THEN "idle" ELSE "remove"]
     ELSE /\ pending' = [pending EXCEPT ![c] = p]
          /\ UNCHANGED <<out, wstate, spc>>
  /\ UNCHANGED <<wclass, want, any, code, timer, blocked, pc, tick>>

SurrenderRemoveTimer(s) ==
  /\ spc[s] = "remove" /\ SenderMoves(s)
  /\ timer' = 0 /\ spc' = [spc EXCEPT ![s] = "unblock"]
  /\ UNCHANGED <<pending, waitVars, resultVars, blocked, pc, tick>>

SurrenderUnblock(s) ==
  /\ spc[s] = "unblock" /\ SenderMoves(s)
  /\ blocked' = FALSE /\ spc' = [spc EXCEPT ![s] = "idle"]
  /\ UNCHANGED <<pending, waitVars, resultVars, timer, pc, tick>>

-----------------------------------------------------------------------------
(***************************************************************************)
(* The clock interrupt and _Thread_Timeout.                                *)
(***************************************************************************)
Tickle ==
  /\ tick = "idle" /\ timer > 0
  /\ timer' = timer - 1
  /\ tick' = IF timer = 1 THEN "timeout" ELSE "idle"
  /\ UNCHANGED <<pending, waitVars, resultVars, blocked, pc, spc>>

\* Defect: a wait that is only announced is not ended.
TimeoutBlockedOnly ==
  /\ tick = "timeout"
  /\ IF wstate = "blocked"
     THEN code' = "timeout" /\ wstate' = "ready_again" /\ tick' = "unblock"
     ELSE tick' = "idle" /\ UNCHANGED <<code, wstate>>
  /\ UNCHANGED <<pending, wclass, want, any, out, timer, blocked, pc, spc>>

Timeout ==
  /\ tick = "timeout"
  /\ IF wstate # "ready_again"
     THEN /\ code' = "timeout" /\ wstate' = "ready_again"
          /\ tick' = IF wstate = "intend" THEN "idle" ELSE "unblock"
     ELSE tick' = "idle" /\ UNCHANGED <<code, wstate>>
  /\ UNCHANGED <<pending, wclass, want, any, out, timer, blocked, pc, spc>>

TimeoutUnblock ==
  /\ tick = "unblock"
  /\ blocked' = FALSE /\ tick' = "idle"
  /\ UNCHANGED <<pending, waitVars, resultVars, timer, pc, spc>>

-----------------------------------------------------------------------------
Receive(c, w, a) == SeizePending(c, w, a) \/ SeizeNoWait(c, w, a) \/ SeizeWait(c, w, a)
Continue == InsertTimer \/ SetState \/ TryBlock \/ RemoveTimer \/ UnblockSelf \/ Return
SenderContinues(s) == SurrenderRemoveTimer(s) \/ SurrenderUnblock(s)
ClockContinues == Tickle \/ Timeout \/ TimeoutUnblock

Next ==
  \/ \E c \in Class, w \in SUBSET Event, a \in BOOLEAN : Receive(c, w, a)
  \/ \E c \in Class : ReceiveCurrent(c)
  \/ Continue
  \/ \E s \in Sender, c \in Class, E \in SUBSET Event : Surrender(s, c, E)
  \/ \E s \in Sender : SenderContinues(s)
  \/ ClockContinues

Spec == Init /\ [][Next]_vars

\* What has begun goes on, and the clock ticks.
FairSpec ==
  /\ Spec /\ WF_vars(Continue) /\ WF_vars(ClockContinues)
  /\ \A s \in Sender : WF_vars(SenderContinues(s))

-----------------------------------------------------------------------------
TypeOK ==
  /\ pending \in [Class -> SUBSET Event]
  /\ wclass \in Class /\ wstate \in {"intend", "blocked", "ready_again"}
  /\ want \in SUBSET Event /\ any \in BOOLEAN
  /\ out \in SUBSET Event /\ code \in {"successful", "unsatisfied", "timeout"}
  /\ timer \in 0 .. MaxTicks /\ blocked \in BOOLEAN
  /\ pc \in {"run", "arm", "set_state", "try", "waiting", "cancel", "unblock"}
  /\ spc \in [Sender -> {"idle", "remove", "unblock"}]
  /\ tick \in {"idle", "timeout", "unblock"}

\* A task never waits for events that are pending already: no send is missed
\* between the look at the pending events and the block.
NoMissedEvent ==
  wstate \in {"intend", "blocked"} => ~Satisfied(pending[wclass], want, any)

Unblocks(s) == spc[s] # "idle"

\* A task that is not ready although its wait has ended is about to be
\* unblocked, by exactly one of a sender, the clock and itself.
OneUnblocker ==
  /\ blocked /\ wstate = "ready_again" =>
       pc \in {"try", "cancel", "unblock"} \/ tick = "unblock" \/ \E s \in Sender : Unblocks(s)
  /\ tick = "unblock" \/ (\E s \in Sender : Unblocks(s)) =>
       blocked /\ wstate = "ready_again" /\ pc = "waiting"
  /\ \A s \in Sender : Unblocks(s) =>
       tick # "unblock" /\ \A x \in Sender \ {s} : ~Unblocks(x)

\* When the receive returns its timer is off and no handler has it in hand,
\* so that it cannot end a later wait of the task.
CleanReturn ==
  pc = "run" => timer = 0 /\ tick = "idle"

\* Where the task stands, by its wait flags and its state.
Position ==
  /\ wstate = "intend" => pc \in {"arm", "set_state", "try"}
  /\ wstate = "blocked" => pc = "waiting" /\ blocked
  /\ wstate # "ready_again" => code = "successful"
  /\ pc \in {"run", "arm", "set_state"} => ~blocked
  /\ pc \in {"try", "cancel", "unblock"} => blocked

\* Whoever unblocks the task has taken its timer off before.
TimerStopped ==
  /\ tick # "idle" \/ pc \in {"arm", "unblock"} => timer = 0
  /\ pc = "arm" => tick = "idle"
  /\ \A s \in Sender : spc[s] = "unblock" => timer = 0
  /\ pc = "waiting" /\ wstate = "ready_again" /\ timer # 0 =>
       \E s \in Sender : spc[s] = "remove"

\* Together with the invariants above this is inductive.
EventInv ==
  TypeOK /\ NoMissedEvent /\ OneUnblocker /\ CleanReturn /\ Position /\ TimerStopped

\* A wait ends once: the status and the events it returns stay as they were
\* when it ended.
WaitEndsOnce ==
  [][wstate = "ready_again" /\ pc # "run" => UNCHANGED <<wstate, code, out>>]_vars

\* A receive with a timeout ends.
TimedWaitEnds == timer > 0 ~> pc = "run"

\* A receive that was satisfied returns.
SatisfiedReturns == wstate = "ready_again" /\ pc # "run" ~> pc = "run"

\* rtems_event_receive comes back: when its time-out passes, and when a send or
\* the clock has ended its wait before it was blocked.
ReceiveEnds == TimedWaitEnds /\ SatisfiedReturns

(***************************************************************************)
(* What the callers see: the wait flags decide whether the task waits.     *)
(***************************************************************************)
AbstractCall ==
  IF pc = "run" THEN [kind |-> "idle"]
  ELSE IF wstate # "ready_again"
       THEN [kind |-> "waits", class |-> wclass, want |-> want, any |-> any]
  ELSE IF code = "timeout" THEN [kind |-> "timed_out"]
  ELSE [kind |-> "received", events |-> out]

Abs == INSTANCE AbstractEvent WITH pend <- pending, call <- AbstractCall

\* The directives behave as if each were one step.
ImplementsAbstract == Abs!Spec
=============================================================================
