---------------------------- MODULE MessageQueue ----------------------------
(***************************************************************************)
(* The SuperCore message queue behind rtems_message_queue_* and mq_*.      *)
(*                                                                         *)
(*   librtems/score/core/coremsgsubmit.c, coremsgseize.c, coremsginsert.c, *)
(*   coremsgbroadcast.c, coremsgflush.c,                                   *)
(*   include/rtems/score/coremsgimpl.h,                                    *)
(*   librtems/posix/mqueue/mqueuesendsupp.c                                *)
(*                                                                         *)
(* One action is one section under the lock of the queue.  A wait begins   *)
(* and ends in one step (see ThreadQueue for what is inside it).  A queue  *)
(* is used through one API: either broadcast and flush, or sends that      *)
(* block.                                                                  *)
(***************************************************************************)
EXTENDS OrderedQueue

CONSTANTS
  Thread,
  Message,       \* the messages of a run; each is submitted at most once
  NoMessage,
  Nobody,        \* no broadcast is in progress
  SendRequest,   \* CORE_MESSAGE_QUEUE_SEND_REQUEST, INT_MAX
  UrgentRequest, \* CORE_MESSAGE_QUEUE_URGENT_REQUEST, INT_MIN
  Queues         \* the queues to look at, see QueueAssumption

\* Of a queue: the submit type of each message (SendRequest, UrgentRequest or a
\* priority between them), maximum_pending_messages, whether it is used through the API with
\* blocking sends, and whether its lock disables dispatching too because
\* RTEMS_MULTIPROCESSING is defined.
ASSUME QueueAssumption ==
  /\ NoMessage \notin Message /\ Nobody \notin Thread
  /\ SendRequest \in Int /\ UrgentRequest \in Int /\ UrgentRequest < SendRequest
  /\ Queues \subseteq [type : [Message -> UrgentRequest .. SendRequest], max : Nat \ {0},
                       blocking : BOOLEAN, multiprocessing : BOOLEAN]

VARIABLES
  control,    \* the attributes of the queue
  pending,    \* Pending_messages
  number,     \* number_of_pending_messages
  inactive,   \* the length of Inactive_messages
  queue,      \* Wait_queue, first come first served
  pc,         \* per thread: running, waiting in a directive, or back from it
  status,     \* per thread, Wait.return_code
  mine,       \* per thread, the message it sends or has received
  submitted,  \* the messages used so far
  got,        \* per message and thread, how often it was delivered
  caster,     \* the thread in _CORE_message_queue_Broadcast
  cast        \* the message it broadcasts

queueVars == <<pending, number, inactive>>
threadVars == <<queue, pc, status, mine>>
vars == <<control, queueVars, threadVars, submitted, got, caster, cast>>

SubmitType == control.type
MaxPending == control.max
BlockingSend == control.blocking
Multiprocessing == control.multiprocessing

Init ==
  /\ control \in Queues
  /\ pending = <<>> /\ number = 0 /\ inactive = MaxPending
  /\ queue = <<>>
  /\ pc = [t \in Thread |-> "run"]
  /\ status = [t \in Thread |-> "successful"]
  /\ mine = [t \in Thread |-> NoMessage]
  /\ submitted = {} /\ got = [m \in Message |-> [t \in Thread |-> 0]]
  /\ caster = Nobody /\ cast = NoMessage

\* A thread may run unless another one has dispatching disabled.
Runs(t) == caster \in {Nobody, t} \/ ~Multiprocessing

Deliver(m, t) ==
  /\ got' = [got EXCEPT ![m][t] = @ + 1]
  /\ mine' = [mine EXCEPT ![t] = m]

-----------------------------------------------------------------------------
(***************************************************************************)
(* _CORE_message_queue_Insert_message.                                     *)
(***************************************************************************)
\* Defect: a message goes before those of its own priority.
InsertedBeforeEqual(s, m) ==
  CASE SubmitType[m] = SendRequest -> Append(s, m)
    [] SubmitType[m] = UrgentRequest -> <<m>> \o s
    [] OTHER -> InsertOrdered(s, m, [SubmitType EXCEPT ![m] = @ - 1])

Inserted(s, m) ==
  CASE SubmitType[m] = SendRequest -> Append(s, m)
    [] SubmitType[m] = UrgentRequest -> <<m>> \o s
    [] OTHER -> InsertOrdered(s, m, SubmitType)

(***************************************************************************)
(* _CORE_message_queue_Submit, with the executing thread or a handler's    *)
(* _Thread_Executing.                                                      *)
(***************************************************************************)
\* Defect: the last waiting receiver is overlooked.
FindsReceiverSeveral == number = 0 /\ Len(queue) > 1

\* _CORE_message_queue_Dequeue_receiver: with messages pending the threads
\* that wait are senders.
FindsReceiver == number = 0 /\ queue # <<>>

\* Copy to the buffer of the first receiver and unblock it.
HandOver(m) ==
  /\ FindsReceiver
  /\ Deliver(m, Head(queue))
  /\ queue' = Tail(queue) /\ pc' = [pc EXCEPT ![Head(queue)] = "received"]
  /\ UNCHANGED <<queueVars, status>>

Enqueue(m) ==
  /\ ~FindsReceiver /\ inactive > 0
  /\ pending' = Inserted(pending, m) /\ number' = number + 1
  /\ inactive' = inactive - 1
  /\ UNCHANGED <<threadVars, got>>

Submit(m) ==
  /\ m \notin submitted
  /\ HandOver(m) \/ Enqueue(m)
  /\ submitted' = submitted \cup {m}
  /\ UNCHANGED <<caster, cast>>

\* A thread sends; TOO_MANY without a free buffer leaves everything as it is.
Send(t, m) == pc[t] = "run" /\ Runs(t) /\ Submit(m)

IsrSend(m) == Submit(m)

\* Without a free buffer a sender that may block waits.  Its return code is
\* left as the last wait of the thread set it.
SendBlocking(t, m) ==
  /\ BlockingSend
  /\ pc[t] = "run" /\ Runs(t) /\ m \notin submitted
  /\ ~FindsReceiver /\ inactive = 0
  /\ queue' = Append(queue, t) /\ pc' = [pc EXCEPT ![t] = "send"]
  /\ mine' = [mine EXCEPT ![t] = m] /\ submitted' = submitted \cup {m}
  /\ UNCHANGED <<queueVars, status, got, caster, cast>>

-----------------------------------------------------------------------------
(***************************************************************************)
(* _CORE_message_queue_Seize.                                              *)
(***************************************************************************)
FreedBuffers == IF queue = <<>> THEN inactive + 1 ELSE inactive

\* Take the first message; a waiting sender's message goes into its buffer.
Receive(t) ==
  LET m == Head(pending) IN
  /\ pc[t] = "run" /\ Runs(t) /\ number > 0
  /\ got' = [got EXCEPT ![m][t] = @ + 1]
  /\ status' = [status EXCEPT ![t] = "successful"]
  /\ inactive' = FreedBuffers
  /\ IF queue = <<>>
     THEN /\ pending' = Tail(pending) /\ number' = number - 1
          /\ pc' = [pc EXCEPT ![t] = "received"]
          /\ mine' = [mine EXCEPT ![t] = m] /\ UNCHANGED queue
     ELSE /\ pending' = Inserted(Tail(pending), mine[Head(queue)])
          /\ queue' = Tail(queue)
          /\ pc' = [pc EXCEPT ![Head(queue)] = "sent", ![t] = "received"]
          /\ mine' = [mine EXCEPT ![t] = m]
          /\ UNCHANGED number
  /\ UNCHANGED <<submitted, caster, cast>>

ReceiveNoWait(t) ==
  /\ pc[t] = "run" /\ Runs(t) /\ number = 0
  /\ status' = [status EXCEPT ![t] = "unsatisfied_nowait"]
  /\ UNCHANGED <<queueVars, queue, pc, mine, submitted, got, caster, cast>>

ReceiveWait(t) ==
  /\ pc[t] = "run" /\ Runs(t) /\ number = 0
  /\ status' = [status EXCEPT ![t] = "successful"]
  /\ queue' = Append(queue, t) /\ pc' = [pc EXCEPT ![t] = "receive"]
  /\ UNCHANGED <<queueVars, mine, submitted, got, caster, cast>>

Accepted(m) ==
  m \in ToSet(pending) \/ \E t \in Thread : got[m][t] > 0

\* The caller looks at the status and at its buffer; a message that was not
\* accepted may be sent again.
Return(t) ==
  /\ pc[t] \in {"received", "sent"} /\ Runs(t)
  /\ pc' = [pc EXCEPT ![t] = "run"] /\ mine' = [mine EXCEPT ![t] = NoMessage]
  /\ submitted' = IF pc[t] = "sent" /\ ~Accepted(mine[t])
                  THEN submitted \ {mine[t]} ELSE submitted
  /\ UNCHANGED <<queueVars, queue, status, got, caster, cast>>

\* Defect: the thread that timed out stays on the queue.
TimeoutKeepsQueued(t) ==
  /\ pc[t] \in {"send", "receive"}
  /\ status' = [status EXCEPT ![t] = "timeout"]
  /\ pc' = [pc EXCEPT ![t] = IF @ = "send" THEN "sent" ELSE "received"]
  /\ UNCHANGED <<queueVars, queue, mine, submitted, got, caster, cast>>

Timeout(t) ==
  /\ pc[t] \in {"send", "receive"}
  /\ queue' = Extracted(queue, t)
  /\ status' = [status EXCEPT ![t] = "timeout"]
  /\ pc' = [pc EXCEPT ![t] = IF @ = "send" THEN "sent" ELSE "received"]
  /\ UNCHANGED <<queueVars, mine, submitted, got, caster, cast>>

-----------------------------------------------------------------------------
(***************************************************************************)
(* _CORE_message_queue_Broadcast: the lock is released for every thread.   *)
(***************************************************************************)
BroadcastBegin(t, m) ==
  /\ ~BlockingSend
  /\ pc[t] = "run" /\ caster = Nobody /\ m \notin submitted
  /\ submitted' = submitted \cup {m}
  /\ caster' = t /\ cast' = m /\ pc' = [pc EXCEPT ![t] = "broadcast"]
  /\ UNCHANGED <<queueVars, queue, status, mine, got>>

BroadcastNext ==
  /\ caster # Nobody
  /\ \/ HandOver(cast) /\ UNCHANGED <<submitted, caster, cast>>
     \/ /\ ~FindsReceiver
        /\ caster' = Nobody /\ cast' = NoMessage
        /\ pc' = [pc EXCEPT ![caster] = "run"]
        /\ UNCHANGED <<queueVars, queue, status, mine, submitted, got>>

\* _CORE_message_queue_Flush: the pending chain joins the inactive one.
Flush(t) ==
  /\ ~BlockingSend
  /\ pc[t] = "run" /\ Runs(t) /\ number > 0
  /\ pending' = <<>> /\ number' = 0 /\ inactive' = inactive + number
  /\ UNCHANGED <<threadVars, submitted, got, caster, cast>>

Step ==
  \/ \E t \in Thread, m \in Message :
       Send(t, m) \/ SendBlocking(t, m) \/ BroadcastBegin(t, m)
  \/ \E m \in Message : IsrSend(m)
  \/ \E t \in Thread :
       Receive(t) \/ ReceiveNoWait(t) \/ ReceiveWait(t) \/ Return(t) \/ Timeout(t) \/ Flush(t)
  \/ BroadcastNext

Next == Step /\ UNCHANGED control

Spec == Init /\ [][Next]_vars

-----------------------------------------------------------------------------
TypeOK ==
  /\ pending \in Seq(Message) /\ number \in 0 .. MaxPending /\ inactive \in 0 .. MaxPending
  /\ queue \in Seq(Thread)
  /\ pc \in [Thread -> {"run", "receive", "send", "received", "sent", "broadcast"}]
  /\ status \in [Thread -> {"successful", "unsatisfied_nowait", "timeout"}]
  /\ mine \in [Thread -> Message \cup {NoMessage}]
  /\ submitted \subseteq Message /\ got \in [Message -> [Thread -> Nat]]
  /\ caster \in Thread \cup {Nobody} /\ cast \in Message \cup {NoMessage}

\* Every buffer is on exactly one of the two chains, through hand-overs to
\* waiting senders and flushes, and the counter agrees with the chain.
BuffersConserved == number = Len(pending) /\ number + inactive = MaxPending

\* "If there are pending messages, then there can't be threads waiting for us
\* to send them a message", and senders only wait while there is no buffer.
WaitersAgree ==
  \A t \in Thread :
    /\ t \in ToSet(queue) <=> pc[t] \in {"receive", "send"}
    /\ pc[t] = "receive" => number = 0
    /\ pc[t] = "send" => inactive = 0

\* The pending messages are in the order of their priorities.
PendingInOrder == InOrder(pending, SubmitType)

\* Where a message is: pending, with a sender that waits or gave up, or with
\* the thread that received it.
Places(m) ==
  {<<"pending", i>> : i \in {i \in DOMAIN pending : pending[i] = m}}
    \cup {<<"sender", t>> : t \in {t \in Thread :
             mine[t] = m /\ (pc[t] = "send" \/ (pc[t] = "sent" /\ ~Accepted(m)))}}
    \cup UNION {{<<t, k>> : k \in 1 .. got[m][t]} : t \in Thread}

\* No message is lost or duplicated by a hand-over, a time-out or a sender's
\* message taking the buffer of a received one (a queue with broadcast copies
\* messages and flushes them); a receive that timed out has
\* no message.
NothingLost ==
  /\ BlockingSend => \A m \in submitted : Cardinality(Places(m)) = 1
  /\ \A t \in Thread : pc[t] = "received" /\ mine[t] # NoMessage => status[t] = "successful"

Before(s, m, x) ==
  \E i \in DOMAIN s : s[i] = m /\ \A j \in DOMAIN s : s[j] = x => i < j

\* Messages of one priority are received in the order in which they got their
\* buffers: none is delivered while an earlier one is pending, or overtakes it.
FifoWithinPriority ==
  [][\A m, x \in Message :
       /\ m # x /\ SubmitType[m] = SubmitType[x] /\ SubmitType[m] # UrgentRequest
       /\ Before(pending, m, x)
       => /\ got'[x] = got[x]
          /\ m \in ToSet(pending') => Before(pending', m, x)]_vars

\* "This function sends a message for every thread waiting on the queue": a
\* broadcast reaches a thread once, where the lock keeps the threads it has woken
\* from waiting again.
BroadcastOnce == Multiprocessing => \A m \in Message, t \in Thread : got[m][t] <= 1

\* Buffers, counter, order and waiting threads agree at every release of the
\* lock of the queue, also where a hand-over skips the pending messages.
QueueConsistent == TypeOK /\ BuffersConserved /\ WaitersAgree /\ PendingInOrder

\* What is sent is received once, by submit and seize as by broadcast.
DeliveredOnce == NothingLost /\ BroadcastOnce
=============================================================================
