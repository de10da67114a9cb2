--------------------------- MODULE AbstractEvent ---------------------------
(***************************************************************************)
(* What rtems_event_send and rtems_event_receive promise: every send, every *)
(* end of a wait and every return is one step, an event is pending until a  *)
(* receive takes it, and a wait ends with a satisfying set or a time-out.   *)
(***************************************************************************)
CONSTANTS Class, Event

VARIABLES
  pend,    \* the events sent and not yet received, by class
  call     \* the receive of the task

absVars == <<pend, call>>

Satisfies(p, c) == p \cap c.want # {} /\ (c.any \/ c.want \subseteq p)

Idle == [kind |-> "idle"]
Waits(cl, w, a) == [kind |-> "waits", class |-> cl, want |-> w, any |-> a]
Received(E) == [kind |-> "received", events |-> E]
TimedOut == [kind |-> "timed_out"]

Init == pend = [cl \in Class |-> {}] /\ call = Idle

\* The events become pending, and end the wait they satisfy.
Send(cl, E) ==
  LET p == pend[cl] \cup E IN
  IF call.kind = "waits" /\ call.class = cl /\ Satisfies(p, call)
  THEN /\ call' = Received(p \cap call.want)
       /\ pend' = [pend EXCEPT ![cl] = p \ call.want]
  ELSE pend' = [pend EXCEPT ![cl] = p] /\ UNCHANGED call

\* A receive that waits was not satisfied by the pending events.
Wait(cl, w, a) ==
  /\ call.kind = "idle" /\ ~Satisfies(pend[cl], Waits(cl, w, a))
  /\ call' = Waits(cl, w, a)
  /\ UNCHANGED pend

\* A receive that is satisfied at once takes its events in one step.
Take(cl, w) ==
  /\ call.kind = "idle"
  /\ pend' = [pend EXCEPT ![cl] = @ \ w]
  /\ UNCHANGED call

TimeOut == call.kind = "waits" /\ call' = TimedOut /\ UNCHANGED pend
Return == call.kind \in {"received", "timed_out"} /\ call' = Idle /\ UNCHANGED pend

Next ==
  \/ \E cl \in Class, E \in SUBSET Event : Send(cl, E) \/ Take(cl, E)
  \/ \E cl \in Class, w \in SUBSET Event, a \in BOOLEAN : Wait(cl, w, a)
  \/ TimeOut \/ Return

Spec == Init /\ [][Next]_absVars
=============================================================================
