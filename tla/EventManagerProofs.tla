------------------------ MODULE EventManagerProofs ------------------------
(***************************************************************************)
(* EventInv is inductive, the safety properties of EventManager follow     *)
(* from it, and under it every step is a step of AbstractEvent or a        *)
(* stutter.                                                                *)
(***************************************************************************)
EXTENDS EventManager, TLAPS

\* The task starts with nothing pending and no wait.
LEMMA EventInitLemma == Init => EventInv
<1> SUFFICES ASSUME Init PROVE EventInv
  OBVIOUS
<1>1. TypeOK
  <2>1. timer \in 0 .. MaxTicks
    BY EventAssumption DEF Init
  <2>2. spc \in [Sender -> {"idle", "remove", "unblock"}] /\ pending \in [Class -> SUBSET Event]
    BY DEF Init
  <2> QED BY <2>1 DEF Init, TypeOK
<1>2. NoMissedEvent /\ CleanReturn /\ Position
  BY DEF Init, NoMissedEvent, CleanReturn, Position
<1>3. OneUnblocker /\ TimerStopped
  BY DEF Init, OneUnblocker, TimerStopped, Unblocks
<1> QED BY <1>1, <1>2, <1>3 DEF EventInv

\* SeizePending keeps the invariant.
LEMMA SeizePendingKeeps ==
  ASSUME EventInv, NEW c \in Class, NEW w \in SUBSET Event, NEW a \in BOOLEAN, SeizePending(c, w, a)
  PROVE  EventInv'
<1>1. TypeOK'
  BY DEF SeizePending, EventInv, TypeOK, waitVars
<1>2. NoMissedEvent'
  BY DEF SeizePending, EventInv, NoMissedEvent, waitVars, Satisfied
<1>3. OneUnblocker'
  BY DEF SeizePending, OneUnblocker, ReceiverMoves, HandlersIdle, Unblocks, Sender
<1>4. CleanReturn'
  BY DEF SeizePending, EventInv, CleanReturn
<1>5. Position'
  BY DEF SeizePending, EventInv, Position, waitVars
<1>6. TimerStopped'
  BY DEF SeizePending, TimerStopped, ReceiverMoves, HandlersIdle, Sender
<1> QED BY <1>1, <1>2, <1>3, <1>4, <1>5, <1>6 DEF EventInv

\* SeizeNoWait keeps the invariant.
LEMMA SeizeNoWaitKeeps ==
  ASSUME EventInv, NEW c \in Class, NEW w \in SUBSET Event, NEW a \in BOOLEAN, SeizeNoWait(c, w, a)
  PROVE  EventInv'
<1>1. TypeOK'
  BY DEF SeizeNoWait, EventInv, TypeOK, waitVars
<1>2. NoMissedEvent'
  BY DEF SeizeNoWait, EventInv, NoMissedEvent, waitVars
<1>3. OneUnblocker'
  BY DEF SeizeNoWait, OneUnblocker, ReceiverMoves, HandlersIdle, Unblocks, Sender
<1>4. CleanReturn'
  BY DEF SeizeNoWait, EventInv, CleanReturn
<1>5. Position'
  BY DEF SeizeNoWait, EventInv, TypeOK, Position, waitVars
<1>6. TimerStopped'
  BY DEF SeizeNoWait, TimerStopped, ReceiverMoves, HandlersIdle, Sender
<1> QED BY <1>1, <1>2, <1>3, <1>4, <1>5, <1>6 DEF EventInv

\* SeizeWait keeps the invariant.
LEMMA SeizeWaitKeeps ==
  ASSUME EventInv, NEW c \in Class, NEW w \in SUBSET Event, NEW a \in BOOLEAN, SeizeWait(c, w, a)
  PROVE  EventInv'
<1>1. TypeOK'
  BY DEF SeizeWait, EventInv, TypeOK
<1>2. NoMissedEvent'
  BY DEF SeizeWait, NoMissedEvent
<1>3. OneUnblocker'
  BY DEF SeizeWait, OneUnblocker, ReceiverMoves, HandlersIdle, Unblocks, Sender
<1>4. CleanReturn'
  BY DEF SeizeWait, CleanReturn
<1>5. Position'
  BY DEF SeizeWait, Position, ReceiverMoves
<1>6. TimerStopped'
  BY DEF SeizeWait, EventInv, CleanReturn, TimerStopped
<1> QED BY <1>1, <1>2, <1>3, <1>4, <1>5, <1>6 DEF EventInv

\* ReceiveCurrent keeps the invariant.
LEMMA ReceiveCurrentKeeps ==
  ASSUME EventInv, NEW c \in Class, ReceiveCurrent(c)
  PROVE  EventInv'
<1>1. TypeOK'
  BY DEF ReceiveCurrent, EventInv, TypeOK, waitVars
<1>2. NoMissedEvent'
  BY DEF ReceiveCurrent, EventInv, NoMissedEvent, waitVars
<1>3. OneUnblocker'
  BY DEF ReceiveCurrent, OneUnblocker, ReceiverMoves, HandlersIdle, Unblocks, Sender
<1>4. CleanReturn'
  BY DEF ReceiveCurrent, EventInv, CleanReturn
<1>5. Position'
  BY DEF ReceiveCurrent, EventInv, Position, waitVars
<1>6. TimerStopped'
  BY DEF ReceiveCurrent, TimerStopped, ReceiverMoves, HandlersIdle, Sender
<1> QED BY <1>1, <1>2, <1>3, <1>4, <1>5, <1>6 DEF EventInv

\* InsertTimer keeps the invariant.
LEMMA InsertTimerKeeps ==
  ASSUME EventInv, InsertTimer
  PROVE  EventInv'
<1>1. TypeOK'
  BY DEF InsertTimer, EventInv, TypeOK, waitVars, resultVars
<1>2. NoMissedEvent'
  BY DEF InsertTimer, EventInv, NoMissedEvent, waitVars
<1>3. OneUnblocker'
  BY DEF InsertTimer, EventInv, OneUnblocker, waitVars, Unblocks
<1>4. CleanReturn'
  BY DEF InsertTimer, CleanReturn
<1>5. Position'
  BY DEF InsertTimer, EventInv, Position, waitVars, resultVars
<1>6. TimerStopped'
  BY DEF InsertTimer, TimerStopped, ReceiverContinues, HandlersIdle, Sender
<1> QED BY <1>1, <1>2, <1>3, <1>4, <1>5, <1>6 DEF EventInv

\* SetState keeps the invariant.
LEMMA SetStateKeeps ==
  ASSUME EventInv, SetState
  PROVE  EventInv'
<1>1. TypeOK'
  BY DEF SetState, EventInv, TypeOK, waitVars, resultVars
<1>2. NoMissedEvent'
  BY DEF SetState, EventInv, NoMissedEvent, waitVars
<1>3. OneUnblocker'
  BY DEF SetState, OneUnblocker, ReceiverContinues, HandlersIdle, Unblocks, Sender
<1>4. CleanReturn'
  BY DEF SetState, CleanReturn
<1>5. Position'
  BY DEF SetState, EventInv, Position, waitVars, resultVars
<1>6. TimerStopped'
  BY DEF SetState, TimerStopped, ReceiverContinues, HandlersIdle, Sender
<1> QED BY <1>1, <1>2, <1>3, <1>4, <1>5, <1>6 DEF EventInv

\* TryBlock keeps the invariant.
LEMMA TryBlockKeeps ==
  ASSUME EventInv, TryBlock
  PROVE  EventInv'
<1>1. TypeOK'
  BY DEF TryBlock, EventInv, TypeOK, resultVars
<1>2. NoMissedEvent'
  BY DEF TryBlock, EventInv, NoMissedEvent
<1>3. OneUnblocker'
  BY DEF TryBlock, OneUnblocker, ReceiverContinues, HandlersIdle, Unblocks, Sender
<1>4. CleanReturn'
  BY DEF TryBlock, CleanReturn
<1>5. Position'
  BY DEF TryBlock, EventInv, Position, resultVars
<1>6. TimerStopped'
  BY DEF TryBlock, TimerStopped, ReceiverContinues, HandlersIdle, Sender
<1> QED BY <1>1, <1>2, <1>3, <1>4, <1>5, <1>6 DEF EventInv

\* RemoveTimer keeps the invariant.
LEMMA RemoveTimerKeeps ==
  ASSUME EventInv, RemoveTimer
  PROVE  EventInv'
<1>1. TypeOK'
  BY EventAssumption DEF RemoveTimer, EventInv, TypeOK, waitVars, resultVars
<1>2. NoMissedEvent'
  BY DEF RemoveTimer, EventInv, NoMissedEvent, waitVars
<1>3. OneUnblocker'
  BY DEF RemoveTimer, OneUnblocker, ReceiverContinues, HandlersIdle, Unblocks, Sender
<1>4. CleanReturn'
  BY DEF RemoveTimer, CleanReturn
<1>5. Position'
  BY DEF RemoveTimer, EventInv, Position, waitVars, resultVars
<1>6. TimerStopped'
  BY DEF RemoveTimer, TimerStopped
<1> QED BY <1>1, <1>2, <1>3, <1>4, <1>5, <1>6 DEF EventInv

\* UnblockSelf keeps the invariant.
LEMMA UnblockSelfKeeps ==
  ASSUME EventInv, UnblockSelf
  PROVE  EventInv'
<1>1. TypeOK'
  BY DEF UnblockSelf, EventInv, TypeOK, waitVars, resultVars
<1>2. NoMissedEvent'
  BY DEF UnblockSelf, EventInv, NoMissedEvent, waitVars
<1>3. OneUnblocker'
  BY DEF UnblockSelf, OneUnblocker, ReceiverContinues, HandlersIdle, Unblocks, Sender
<1>4. CleanReturn'
  BY DEF UnblockSelf, CleanReturn
<1>5. Position'
  BY DEF UnblockSelf, EventInv, Position, waitVars, resultVars
<1>6. TimerStopped'
  BY DEF UnblockSelf, EventInv, TimerStopped
<1> QED BY <1>1, <1>2, <1>3, <1>4, <1>5, <1>6 DEF EventInv

\* Return keeps the invariant.
LEMMA ReturnKeeps ==
  ASSUME EventInv, Return
  PROVE  EventInv'
<1>1. TypeOK'
  BY DEF Return, EventInv, TypeOK, waitVars, resultVars
<1>2. NoMissedEvent'
  BY DEF Return, EventInv, NoMissedEvent, waitVars
<1>3. OneUnblocker'
  BY DEF Return, OneUnblocker, ReceiverMoves, HandlersIdle, Unblocks, Sender
<1>4. CleanReturn'
  BY DEF Return, EventInv, TypeOK, OneUnblocker, CleanReturn, Position, TimerStopped,
      ReceiverMoves, HandlersIdle, Unblocks
<1>5. Position'
  BY DEF Return, EventInv, Position, waitVars, resultVars, ReceiverMoves
<1>6. TimerStopped'
  BY DEF Return, TimerStopped, ReceiverMoves, HandlersIdle, Sender
<1> QED BY <1>1, <1>2, <1>3, <1>4, <1>5, <1>6 DEF EventInv

\* Surrender keeps the invariant.
LEMMA SurrenderKeeps ==
  ASSUME EventInv, NEW s \in Sender, NEW c \in Class, NEW E \in SUBSET Event, Surrender(s, c, E)
  PROVE  EventInv'
<1>1. TypeOK'
  BY DEF Surrender, EventInv, TypeOK
<1>2. NoMissedEvent'
  BY DEF Surrender, EventInv, TypeOK, NoMissedEvent, IsBlockingOnEvent
<1>3. OneUnblocker'
  BY DEF Surrender, EventInv, TypeOK, OneUnblocker, Position, IsBlockingOnEvent,
      Unblocks
<1>4. CleanReturn'
  BY DEF Surrender, EventInv, CleanReturn
<1>5. Position'
  BY DEF Surrender, EventInv, Position
<1>6. TimerStopped'
  BY DEF Surrender, EventInv, TypeOK, Position, TimerStopped
<1> QED BY <1>1, <1>2, <1>3, <1>4, <1>5, <1>6 DEF EventInv

\* SurrenderRemoveTimer keeps the invariant.
LEMMA SurrenderRemoveTimerKeeps ==
  ASSUME EventInv, NEW s \in Sender, SurrenderRemoveTimer(s)
  PROVE  EventInv'
<1>1. TypeOK'
  BY EventAssumption DEF SurrenderRemoveTimer, EventInv, TypeOK, waitVars, resultVars
<1>2. NoMissedEvent'
  BY DEF SurrenderRemoveTimer, EventInv, NoMissedEvent, waitVars
<1>3. OneUnblocker'
  BY DEF SurrenderRemoveTimer, EventInv, OneUnblocker, waitVars, Unblocks
<1>4. CleanReturn'
  BY DEF SurrenderRemoveTimer, EventInv, CleanReturn
<1>5. Position'
  BY DEF SurrenderRemoveTimer, EventInv, Position, waitVars, resultVars
<1>6. TimerStopped'
  BY DEF SurrenderRemoveTimer, EventInv, TimerStopped
<1> QED BY <1>1, <1>2, <1>3, <1>4, <1>5, <1>6 DEF EventInv

\* SurrenderUnblock keeps the invariant.
LEMMA SurrenderUnblockKeeps ==
  ASSUME EventInv, NEW s \in Sender, SurrenderUnblock(s)
  PROVE  EventInv'
<1>1. TypeOK'
  BY DEF SurrenderUnblock, EventInv, TypeOK, waitVars, resultVars
<1>2. NoMissedEvent'
  BY DEF SurrenderUnblock, EventInv, NoMissedEvent, waitVars
<1>3. OneUnblocker'
  BY DEF SurrenderUnblock, EventInv, TypeOK, OneUnblocker, Unblocks
<1>4. CleanReturn'
  BY DEF SurrenderUnblock, EventInv, CleanReturn
<1>5. Position'
  BY DEF SurrenderUnblock, EventInv, OneUnblocker, Position, waitVars, Unblocks
<1>6. TimerStopped'
  BY DEF SurrenderUnblock, EventInv, TimerStopped
<1> QED BY <1>1, <1>2, <1>3, <1>4, <1>5, <1>6 DEF EventInv

\* Tickle keeps the invariant.
LEMMA TickleKeeps ==
  ASSUME EventInv, Tickle
  PROVE  EventInv'
<1>1. TypeOK'
  BY EventAssumption DEF Tickle, EventInv, TypeOK, waitVars, resultVars
<1>2. NoMissedEvent'
  BY DEF Tickle, EventInv, NoMissedEvent, waitVars
<1>3. OneUnblocker'
  BY DEF Tickle, EventInv, OneUnblocker, waitVars, Unblocks
<1>4. CleanReturn'
  BY DEF Tickle, EventInv, CleanReturn
<1>5. Position'
  BY DEF Tickle, EventInv, Position, waitVars, resultVars
<1>6. TimerStopped'
  BY DEF Tickle, EventInv, TimerStopped, waitVars
<1> QED BY <1>1, <1>2, <1>3, <1>4, <1>5, <1>6 DEF EventInv

\* Timeout keeps the invariant.
LEMMA TimeoutKeeps ==
  ASSUME EventInv, Timeout
  PROVE  EventInv'
<1>1. TypeOK'
  BY DEF Timeout, EventInv, TypeOK
<1>2. NoMissedEvent'
  BY DEF Timeout, NoMissedEvent
<1>3. OneUnblocker'
  BY DEF Timeout, EventInv, TypeOK, OneUnblocker, Position, Unblocks
<1>4. CleanReturn'
  BY DEF Timeout, EventInv, CleanReturn
<1>5. Position'
  BY DEF Timeout, EventInv, Position
<1>6. TimerStopped'
  BY DEF Timeout, EventInv, TimerStopped
<1> QED BY <1>1, <1>2, <1>3, <1>4, <1>5, <1>6 DEF EventInv

\* TimeoutUnblock keeps the invariant.
LEMMA TimeoutUnblockKeeps ==
  ASSUME EventInv, TimeoutUnblock
  PROVE  EventInv'
<1>1. TypeOK'
  BY DEF TimeoutUnblock, EventInv, TypeOK, waitVars, resultVars
<1>2. NoMissedEvent'
  BY DEF TimeoutUnblock, EventInv, NoMissedEvent, waitVars
<1>3. OneUnblocker'
  BY DEF TimeoutUnblock, EventInv, OneUnblocker, Unblocks
<1>4. CleanReturn'
  BY DEF TimeoutUnblock, EventInv, CleanReturn
<1>5. Position'
  BY DEF TimeoutUnblock, EventInv, OneUnblocker, Position, waitVars
<1>6. TimerStopped'
  BY DEF TimeoutUnblock, EventInv, TimerStopped
<1> QED BY <1>1, <1>2, <1>3, <1>4, <1>5, <1>6 DEF EventInv

\* Every step keeps the invariant.
LEMMA EventStep == EventInv /\ [Next]_vars => EventInv'
<1> SUFFICES ASSUME EventInv, [Next]_vars PROVE EventInv'
  OBVIOUS
<1>1. ASSUME NEW c \in Class, NEW w \in SUBSET Event, NEW a \in BOOLEAN, Receive(c, w, a)
      PROVE  EventInv'
  BY <1>1, SeizePendingKeeps, SeizeNoWaitKeeps, SeizeWaitKeeps DEF Receive
<1>2. ASSUME NEW c \in Class, ReceiveCurrent(c) PROVE EventInv'
  BY <1>2, ReceiveCurrentKeeps
<1>3. CASE Continue
  BY <1>3, InsertTimerKeeps, SetStateKeeps, TryBlockKeeps, RemoveTimerKeeps,
      UnblockSelfKeeps, ReturnKeeps DEF Continue
<1>4. ASSUME NEW s \in Sender, NEW c \in Class, NEW E \in SUBSET Event, Surrender(s, c, E)
      PROVE  EventInv'
  BY <1>4, SurrenderKeeps
<1>5. ASSUME NEW s \in Sender, SenderContinues(s) PROVE EventInv'
  BY <1>5, SurrenderRemoveTimerKeeps, SurrenderUnblockKeeps DEF SenderContinues
<1>6. CASE ClockContinues
  BY <1>6, TickleKeeps, TimeoutKeeps, TimeoutUnblockKeeps DEF ClockContinues
<1>7. CASE UNCHANGED vars
  BY <1>7 DEF vars, waitVars, resultVars, EventInv, TypeOK, NoMissedEvent,
      OneUnblocker, CleanReturn, Position, TimerStopped, Unblocks
<1> QED BY <1>1, <1>2, <1>3, <1>4, <1>5, <1>6, <1>7 DEF Next

\* The invariant holds in every state, whatever the events, the senders and
\* the time-outs.
THEOREM EventInvariant == Spec => []EventInv
BY EventInitLemma, EventStep, PTL DEF Spec

\* _Event_Seize and _Event_Surrender keep the types of the task's wait data.
THEOREM EventTypes == Spec => []TypeOK
<1>1. EventInv => TypeOK
  BY DEF EventInv
<1> QED BY <1>1, EventInvariant, PTL

\* No send is missed between the look of _Event_Seize at the pending events
\* and the block.
THEOREM EventNotMissed == Spec => []NoMissedEvent
<1>1. EventInv => NoMissedEvent
  BY DEF EventInv
<1> QED BY <1>1, EventInvariant, PTL

\* Exactly one of the sender, the clock and the task itself unblocks it.
THEOREM EventUnblockedOnce == Spec => []OneUnblocker
<1>1. EventInv => OneUnblocker
  BY DEF EventInv
<1> QED BY <1>1, EventInvariant, PTL

\* A receive leaves no timer behind.
THEOREM EventTimerOff == Spec => []CleanReturn
<1>1. EventInv => CleanReturn
  BY DEF EventInv
<1> QED BY <1>1, EventInvariant, PTL

\* What a wait returns is settled by the step that ends it.
THEOREM EventWaitEndsOnce == Spec => WaitEndsOnce
<1> DEFINE Once == wstate = "ready_again" /\ pc # "run" => UNCHANGED <<wstate, code, out>>
<1>1. ASSUME [Next]_vars PROVE [Once]_vars
  <2> SUFFICES ASSUME wstate = "ready_again", pc # "run" PROVE UNCHANGED <<wstate, code, out>>
    OBVIOUS
  <2>1. ASSUME NEW c \in Class, NEW w \in SUBSET Event, NEW a \in BOOLEAN, Receive(c, w, a)
        PROVE  FALSE
    BY <2>1 DEF Receive, SeizePending, SeizeNoWait, SeizeWait
  <2>2. ASSUME NEW c \in Class, ReceiveCurrent(c) PROVE FALSE
    BY <2>2 DEF ReceiveCurrent
  <2>3. CASE Continue
    BY <2>3 DEF Continue, InsertTimer, SetState, TryBlock, RemoveTimer, UnblockSelf,
        Return, waitVars, resultVars
  <2>4. ASSUME NEW s \in Sender, NEW c \in Class, NEW E \in SUBSET Event, Surrender(s, c, E)
        PROVE  UNCHANGED <<wstate, code, out>>
    BY <2>4 DEF Surrender, IsBlockingOnEvent
  <2>5. ASSUME NEW s \in Sender, SenderContinues(s) PROVE UNCHANGED <<wstate, code, out>>
    BY <2>5 DEF SenderContinues, SurrenderRemoveTimer, SurrenderUnblock, waitVars,
        resultVars
  <2>6. CASE ClockContinues
    BY <2>6 DEF ClockContinues, Tickle, Timeout, TimeoutUnblock, waitVars, resultVars
  <2>7. CASE UNCHANGED vars
    BY <2>7 DEF vars, waitVars, resultVars
  <2> QED BY <1>1, <2>1, <2>2, <2>3, <2>4, <2>5, <2>6, <2>7 DEF Next
<1> QED BY <1>1, PTL DEF Spec, WaitEndsOnce

-----------------------------------------------------------------------------
(***************************************************************************)
(* The refinement of AbstractEvent.                                        *)
(***************************************************************************)
\* A receive is a Take, a Wait or a stutter.
LEMMA ReceiveRefines ==
  ASSUME EventInv, NEW c \in Class, NEW w \in SUBSET Event, NEW a \in BOOLEAN, Receive(c, w, a)
  PROVE  [Abs!Next]_(Abs!absVars)
<1>1. CASE SeizePending(c, w, a)
  <2>1. Abs!Take(c, w)
    BY <1>1 DEF SeizePending, Abs!Take, AbstractCall
  <2> QED BY <2>1 DEF Abs!Next
<1>2. CASE SeizeNoWait(c, w, a)
  BY <1>2 DEF SeizeNoWait, AbstractCall, Abs!absVars
<1>3. CASE SeizeWait(c, w, a)
  <2>1. AbstractCall = [kind |-> "idle"]
    BY <1>3 DEF SeizeWait, AbstractCall
  <2>2. AbstractCall' = [kind |-> "waits", class |-> c, want |-> w, any |-> a]
    BY <1>3 DEF SeizeWait, AbstractCall
  <2>3. Abs!Wait(c, w, a)
    BY <1>3, <2>1, <2>2 DEF SeizeWait, Satisfied, Abs!Wait, Abs!Waits, Abs!Satisfies
  <2> QED BY <2>3 DEF Abs!Next
<1> QED BY <1>1, <1>2, <1>3 DEF Receive

\* A send posts its events or ends the wait they satisfy.
LEMMA SurrenderRefines ==
  ASSUME EventInv, NEW s \in Sender, NEW c \in Class, NEW E \in SUBSET Event, Surrender(s, c, E)
  PROVE  [Abs!Next]_(Abs!absVars)
<1> DEFINE p == pending[c] \cup E
<1>1. CASE IsBlockingOnEvent(c) /\ Satisfied(p, want, any)
  <2>1. AbstractCall = [kind |-> "waits", class |-> c, want |-> want, any |-> any]
    BY <1>1 DEF IsBlockingOnEvent, AbstractCall, EventInv, Position
  <2>2. AbstractCall' = [kind |-> "received", events |-> p \cap want]
    BY <1>1 DEF Surrender, IsBlockingOnEvent, AbstractCall, EventInv, Position
  <2>3. pending' = [pending EXCEPT ![c] = p \ want]
    BY <1>1 DEF Surrender
  <2>4. Abs!Send(c, E)
    BY <1>1, <2>1, <2>2, <2>3 DEF Satisfied, Abs!Send, Abs!Satisfies, Abs!Received
  <2> QED BY <2>4 DEF Abs!Next
<1>2. CASE ~(IsBlockingOnEvent(c) /\ Satisfied(p, want, any))
  <2>1. pending' = [pending EXCEPT ![c] = p] /\ AbstractCall' = AbstractCall
    BY <1>2 DEF Surrender, AbstractCall
  <2>2. ~(AbstractCall.kind = "waits" /\ AbstractCall.class = c /\ Abs!Satisfies(p, AbstractCall))
    BY <1>2 DEF AbstractCall, IsBlockingOnEvent, Satisfied, Abs!Satisfies, EventInv,
        TypeOK
  <2>3. Abs!Send(c, E)
    BY <2>1, <2>2 DEF Abs!Send
  <2> QED BY <2>3 DEF Abs!Next
<1> QED BY <1>1, <1>2

\* The time-out of a wait, and nothing else the clock does, is visible.
LEMMA TimeoutRefines ==
  ASSUME EventInv, Timeout
  PROVE  [Abs!Next]_(Abs!absVars)
<1>1. CASE wstate # "ready_again"
  <2>1. Abs!TimeOut
    BY <1>1 DEF Timeout, AbstractCall, EventInv, TypeOK, Position, Abs!TimeOut,
        Abs!TimedOut
  <2> QED BY <2>1 DEF Abs!Next
<1>2. CASE wstate = "ready_again"
  BY <1>2 DEF Timeout, AbstractCall, Abs!absVars
<1> QED BY <1>1, <1>2

\* The return hands the outcome over.
LEMMA ReturnRefines ==
  ASSUME EventInv, Return
  PROVE  [Abs!Next]_(Abs!absVars)
<1>1. wstate = "ready_again"
  BY DEF Return, ReceiverMoves, EventInv, TypeOK, Position
<1>2. Abs!Return
  BY <1>1 DEF Return, AbstractCall, Abs!Return, Abs!Idle
<1> QED BY <1>2 DEF Abs!Next

\* The other steps of the task are invisible.
LEMMA ContinueRefines ==
  ASSUME EventInv, Continue
  PROVE  [Abs!Next]_(Abs!absVars)
<1>1. CASE InsertTimer \/ SetState \/ RemoveTimer \/ UnblockSelf
  BY <1>1 DEF InsertTimer, SetState, RemoveTimer, UnblockSelf, AbstractCall, waitVars,
      resultVars, Abs!absVars
<1>2. CASE TryBlock
  BY <1>2 DEF TryBlock, AbstractCall, resultVars, Abs!absVars
<1> QED BY <1>1, <1>2, ReturnRefines DEF Continue

\* Every step of the event manager is a step of AbstractEvent or a stutter.
LEMMA RefinementStep ==
  ASSUME EventInv, [Next]_vars
  PROVE  [Abs!Next]_(Abs!absVars)
<1>1. ASSUME NEW c \in Class, ReceiveCurrent(c) PROVE UNCHANGED Abs!absVars
  BY <1>1 DEF ReceiveCurrent, AbstractCall, Abs!absVars
<1>2. ASSUME NEW s \in Sender, SenderContinues(s) PROVE UNCHANGED Abs!absVars
  BY <1>2 DEF SenderContinues, SurrenderRemoveTimer, SurrenderUnblock, AbstractCall,
      waitVars, resultVars, Abs!absVars
<1>3. CASE Tickle \/ TimeoutUnblock
  BY <1>3 DEF Tickle, TimeoutUnblock, AbstractCall, waitVars, resultVars, Abs!absVars
<1>4. CASE UNCHANGED vars
  BY <1>4 DEF vars, AbstractCall, waitVars, resultVars, Abs!absVars
<1> QED BY <1>1, <1>2, <1>3, <1>4, ReceiveRefines, SurrenderRefines, TimeoutRefines,
    ContinueRefines DEF Next, ClockContinues

\* The directives behave as if each send, each end of a wait and each return
\* were one step.
THEOREM EventRefinement == Spec => ImplementsAbstract
<1>1. Init => Abs!Init
  BY DEF Init, Abs!Init, AbstractCall, Abs!Idle
<1>2. EventInv /\ [Next]_vars => [Abs!Next]_(Abs!absVars)
  BY RefinementStep
<1> QED BY <1>1, <1>2, EventInvariant, PTL DEF Spec, Abs!Spec, ImplementsAbstract
=============================================================================
