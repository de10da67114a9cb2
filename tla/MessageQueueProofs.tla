------------------------- MODULE MessageQueueProofs -------------------------
(***************************************************************************)
(* The message queue keeps its books, delivers every message once and in   *)
(* order, for every number of threads, messages and buffers, through       *)
(* either API.                                                             *)
(***************************************************************************)
EXTENDS MessageQueue, OrderedQueueProofs, FiniteSetTheorems

-----------------------------------------------------------------------------
(***************************************************************************)
(* The inductive invariant.                                                *)
(***************************************************************************)

\* Neither chain holds anything twice.
ChainsInv == NoRepetition(pending) /\ NoRepetition(queue)

\* What a thread has in hand at each point of its call.
CallsInv ==
  \A t \in Thread :
    /\ pc[t] \in {"run", "receive", "broadcast"} => mine[t] = NoMessage
    /\ pc[t] = "receive" => status[t] = "successful"
    /\ pc[t] = "received" /\ mine[t] # NoMessage => status[t] = "successful"
    /\ pc[t] = "broadcast" <=> caster = t
    /\ pc[t] \in {"send", "sent"} => BlockingSend /\ mine[t] \in submitted

\* A message that is broadcast never becomes pending.
CastInv ==
  caster # Nobody => ~BlockingSend /\ cast \in submitted /\ cast \notin ToSet(pending)

\* A message that is not submitted or still pending was delivered to nobody.
FreshInv ==
  /\ ToSet(pending) \subseteq submitted
  /\ \A m \in Message, t \in Thread :
       m \notin submitted \/ m \in ToSet(pending) => got[m][t] = 0

\* A sender has its message for itself; that of a waiting one is nowhere else.
SendersInv ==
  /\ \A t, u \in Thread :
       pc[t] \in {"send", "sent"} /\ pc[u] \in {"send", "sent"} /\ mine[t] = mine[u] => t = u
  /\ \A t \in Thread :
       pc[t] = "send" => mine[t] \notin ToSet(pending) /\ \A u \in Thread : got[mine[t]][u] = 0

\* Without broadcasts a message is delivered at most once, and is somewhere.
OnceInv ==
  BlockingSend =>
    /\ \A m \in Message, t, u \in Thread :
         /\ got[m][t] <= 1
         /\ got[m][t] > 0 /\ got[m][u] > 0 => t = u
    /\ \A m \in submitted :
         Accepted(m) \/ \E t \in Thread : pc[t] \in {"send", "sent"} /\ mine[t] = m

\* A thread still waiting has not got the message of the broadcast yet.
WaitingInv ==
  Multiprocessing /\ caster # Nobody =>
    \A t \in Thread : pc[t] = "receive" => got[cast][t] = 0

MessageInv ==
  /\ control \in Queues /\ QueueConsistent
  /\ ChainsInv /\ CallsInv /\ CastInv /\ FreshInv /\ SendersInv /\ OnceInv
  /\ WaitingInv /\ BroadcastOnce

-----------------------------------------------------------------------------
(***************************************************************************)
(* The attributes of the queue, and an insertion by them.                  *)
(***************************************************************************)
LEMMA Attributes ==
  ASSUME control \in Queues
  PROVE  /\ SubmitType \in [Message -> Int]
         /\ \A m \in Message : UrgentRequest <= SubmitType[m] /\ SubmitType[m] <= SendRequest
         /\ MaxPending \in Nat /\ MaxPending > 0
         /\ BlockingSend \in BOOLEAN /\ Multiprocessing \in BOOLEAN
<1>1. control \in [type : [Message -> UrgentRequest .. SendRequest], max : Nat \ {0},
                   blocking : BOOLEAN, multiprocessing : BOOLEAN]
  BY QueueAssumption
<1>2. SubmitType \in [Message -> UrgentRequest .. SendRequest]
  BY <1>1 DEF SubmitType
<1>3. \A m \in Message : /\ SubmitType[m] \in Int
                         /\ UrgentRequest <= SubmitType[m] /\ SubmitType[m] <= SendRequest
  BY <1>2, QueueAssumption
<1>4. SubmitType \in [Message -> Int]
  BY <1>2, <1>3
<1> QED BY <1>1, <1>3, <1>4 DEF MaxPending, BlockingSend, Multiprocessing

\* Where a message goes: behind all those of its type unless it is urgent.
LEMMA InsertedInserts ==
  ASSUME control \in Queues, NEW s \in Seq(Message), NEW m \in Message, InOrder(s, SubmitType)
  PROVE  /\ Inserted(s, m) \in Seq(Message) /\ InOrder(Inserted(s, m), SubmitType)
         /\ \E p : /\ Inserts(s, Inserted(s, m), m, p)
                   /\ SubmitType[m] # UrgentRequest =>
                        \A i \in DOMAIN s : SubmitType[s[i]] = SubmitType[m] => i <= p
<1> DEFINE value == SubmitType
           r == Inserted(s, m)
           Fits(p) == /\ p \in Nat /\ p <= Len(s)
                      /\ \A i \in 1 .. p : value[s[i]] <= value[m]
                      /\ p < Len(s) => value[s[p + 1]] >= value[m]
           Behind(p) == \A i \in DOMAIN s : value[s[i]] = value[m] => i <= p
<1>1. /\ \A x \in Message : value[x] \in Int
      /\ \A x \in Message : UrgentRequest <= value[x] /\ value[x] <= SendRequest
  BY Attributes
<1> HIDE DEF value
<1>2. Len(s) \in Nat /\ DOMAIN s = 1 .. Len(s) /\ \A i \in DOMAIN s : s[i] \in Message
  BY Lengths
<1>3. ASSUME NEW p, Fits(p), r \in Seq(Message), Inserts(s, r, m, p) PROVE InOrder(r, value)
  <2>1. value[m] \in Int /\ InOrder(s, value)
    BY <1>1 DEF value
  <2> HIDE DEF r
  <2> QED BY <1>1, <1>3, <2>1, InsertionInOrder
<1>4. CASE value[m] = SendRequest
  <2>0. value[m] # UrgentRequest
    BY <1>4, QueueAssumption
  <2>1. r = Append(s, m)
    BY <1>4, <2>0 DEF Inserted, value
  <2>2. r \in Seq(Message) /\ Inserts(s, r, m, Len(s))
    BY <2>1, AppendInserts
  <2>3. Fits(Len(s)) /\ Behind(Len(s))
    BY <1>1, <1>2, <1>4
  <2> QED BY <1>3, <2>2, <2>3 DEF value
<1>5. CASE value[m] # SendRequest /\ value[m] = UrgentRequest
  <2>1. r = <<m>> \o s
    BY <1>5 DEF Inserted, value
  <2>2. r \in Seq(Message) /\ Inserts(s, r, m, 0)
    BY <2>1, PrependInserts
  <2>3. Fits(0)
    BY <1>1, <1>2, <1>5
  <2> QED BY <1>3, <1>5, <2>2, <2>3 DEF value
<1>6. CASE value[m] # SendRequest /\ value[m] # UrgentRequest
  <2>1. r = InsertOrdered(s, m, value)
    BY <1>6 DEF Inserted, value
  <2> DEFINE p == Walk(s, m, value)
  <2>2. r \in Seq(Message) /\ Inserts(s, r, m, p)
    BY <1>1, <2>1, InsertOrderedInserts
  <2>3. /\ p \in Nat /\ p <= Len(s)
        /\ \A i \in 1 .. p : value[s[i]] <= value[m]
        /\ p < Len(s) => value[s[p + 1]] > value[m]
    BY <1>1, WalkEnds
  <2> HIDE DEF p
  <2>4. Fits(p)
    BY <1>1, <1>2, <2>3
  <2>5. ASSUME NEW i \in DOMAIN s, value[s[i]] = value[m] PROVE i <= p
    <3> SUFFICES ASSUME p < i PROVE FALSE
      BY <1>2, <2>3
    <3>1. p < Len(s) /\ p + 1 \in DOMAIN s /\ (i = p + 1 \/ p + 1 < i)
      BY <1>2, <2>3
    <3>2. value[s[p + 1]] > value[m] /\ value[s[p + 1]] \in Int /\ value[m] \in Int
      BY <1>1, <1>2, <2>3, <3>1
    <3>3. CASE i = p + 1
      BY <2>5, <3>2, <3>3
    <3>4. CASE p + 1 < i
      <4>1. value[s[p + 1]] <= value[s[i]]
        BY <3>1, <3>4 DEF InOrder, value
      <4> QED BY <2>5, <3>2, <4>1
    <3> QED BY <3>1, <3>3, <3>4
  <2>6. Behind(p)
    BY <2>5
  <2> QED BY <1>3, <2>2, <2>4, <2>6 DEF value
<1> QED BY <1>4, <1>5, <1>6 DEF value

LEMMA InsertedGrows ==
  ASSUME control \in Queues, NEW s \in Seq(Message), NEW m \in Message, InOrder(s, SubmitType),
         NoRepetition(s), m \notin ToSet(s)
  PROVE  /\ Inserted(s, m) \in Seq(Message) /\ InOrder(Inserted(s, m), SubmitType)
         /\ Len(Inserted(s, m)) = Len(s) + 1 /\ ToSet(Inserted(s, m)) = ToSet(s) \cup {m}
         /\ NoRepetition(Inserted(s, m))
<1>1. PICK p : Inserts(s, Inserted(s, m), m, p)
  BY InsertedInserts
<1>2. Inserted(s, m) \in Seq(Message) /\ InOrder(Inserted(s, m), SubmitType)
  BY InsertedInserts
<1> QED BY <1>1, <1>2, Grows
-----------------------------------------------------------------------------
(***************************************************************************)
(* One lemma per section of the code, one step per part of the invariant.  *)
(***************************************************************************)
LEMMA InitMessageInv == Init => MessageInv
<1> SUFFICES ASSUME Init PROVE MessageInv
  OBVIOUS
<1>1. control \in Queues /\ MaxPending \in Nat
  BY Attributes DEF Init
<1>2. pending = <<>> /\ queue = <<>> /\ ToSet(pending) = {} /\ ToSet(queue) = {}
  BY EmptyChain DEF Init
<1>3. TypeOK
  BY <1>1, QueueAssumption DEF Init, TypeOK
<1>4. BuffersConserved
  BY <1>1 DEF Init, BuffersConserved
<1>5. WaitersAgree /\ PendingInOrder /\ ChainsInv
  BY <1>2, EmptyChain DEF Init, WaitersAgree, PendingInOrder, ChainsInv
<1>6. CallsInv
  BY QueueAssumption DEF Init, CallsInv
<1>7. CastInv /\ FreshInv /\ SendersInv /\ WaitingInv
  BY <1>2 DEF Init, CastInv, FreshInv, SendersInv, WaitingInv
<1>8. OnceInv /\ BroadcastOnce
  BY DEF Init, OnceInv, BroadcastOnce
<1> QED BY <1>1, <1>3, <1>4, <1>5, <1>6, <1>7, <1>8 DEF MessageInv, QueueConsistent

\* Without pending messages the first waiting thread is a receiver.
LEMMA ReceiverFirst ==
  ASSUME MessageInv, FindsReceiver
  PROVE  /\ pending = <<>> /\ ToSet(pending) = {} /\ number = 0 /\ queue # <<>>
         /\ Head(queue) \in Thread /\ pc[Head(queue)] = "receive"
         /\ Tail(queue) \in Seq(Thread) /\ NoRepetition(Tail(queue))
         /\ ToSet(Tail(queue)) = ToSet(queue) \ {Head(queue)}
         /\ \A t \in Thread : pc[t] # "send"
<1>1. number = 0 /\ queue # <<>> /\ queue \in Seq(Thread) /\ pending \in Seq(Message)
  BY DEF FindsReceiver, MessageInv, QueueConsistent, TypeOK
<1>2. pending = <<>> /\ ToSet(pending) = {}
  BY <1>1, ChainMembers DEF MessageInv, QueueConsistent, BuffersConserved
<1>3. /\ Tail(queue) \in Seq(Thread) /\ NoRepetition(Tail(queue)) /\ Head(queue) \in Thread
      /\ ToSet(Tail(queue)) = ToSet(queue) \ {Head(queue)} /\ Head(queue) \in ToSet(queue)
  BY <1>1, TailShrinks DEF MessageInv, ChainsInv
<1>4. inactive > 0
  BY <1>1, Attributes DEF MessageInv, QueueConsistent, BuffersConserved, TypeOK
<1>5. \A t \in Thread : pc[t] # "send"
  BY <1>4 DEF MessageInv, QueueConsistent, WaitersAgree, TypeOK
<1> QED BY <1>1, <1>2, <1>3, <1>5 DEF MessageInv, QueueConsistent, WaitersAgree

\* A hand-over of a message just submitted, or by a broadcast.
LEMMA HandOverInv ==
  ASSUME MessageInv, NEW m \in Message, HandOver(m), UNCHANGED <<control, caster, cast>>,
         \/ m \notin submitted /\ submitted' = submitted \cup {m}
         \/ m = cast /\ caster # Nobody /\ UNCHANGED submitted
  PROVE  MessageInv'
<1> DEFINE h == Head(queue)
<1>1. /\ pending = <<>> /\ ToSet(pending) = {} /\ number = 0 /\ queue # <<>>
      /\ h \in Thread /\ pc[h] = "receive"
      /\ Tail(queue) \in Seq(Thread) /\ NoRepetition(Tail(queue))
      /\ ToSet(Tail(queue)) = ToSet(queue) \ {h}
      /\ \A t \in Thread : pc[t] # "send"
  BY ReceiverFirst DEF HandOver
<1> HIDE DEF h
<1>2. /\ got' = [got EXCEPT ![m][h] = @ + 1] /\ mine' = [mine EXCEPT ![h] = m]
      /\ queue' = Tail(queue) /\ pc' = [pc EXCEPT ![h] = "received"]
      /\ UNCHANGED <<pending, number, inactive, status, control, caster, cast>>
  BY DEF HandOver, Deliver, queueVars, h
<1>3. /\ TypeOK /\ got \in [Message -> [Thread -> Nat]]
      /\ \A x \in Message, u \in Thread : got[x][u] \in Nat
  BY DEF MessageInv, QueueConsistent, TypeOK
<1>4. \A x \in Message, u \in Thread :
        got'[x][u] = IF x = m /\ u = h THEN got[x][u] + 1 ELSE got[x][u]
  BY <1>1, <1>2, <1>3
<1>5. m \in submitted' /\ submitted \subseteq submitted' /\ submitted' \subseteq submitted \cup {m}
  BY DEF MessageInv, CastInv
<1>6. TypeOK'
  BY <1>1, <1>2, <1>3, <1>5 DEF TypeOK, MaxPending
<1>7. BuffersConserved' /\ PendingInOrder' /\ ChainsInv'
  BY <1>1, <1>2 DEF MessageInv, QueueConsistent, BuffersConserved, PendingInOrder, ChainsInv,
                    MaxPending, SubmitType
<1>8. WaitersAgree'
  BY <1>1, <1>2, <1>3 DEF MessageInv, QueueConsistent, WaitersAgree, TypeOK
<1>9. CallsInv'
  BY <1>1, <1>2, <1>3, <1>5 DEF MessageInv, CallsInv, TypeOK, BlockingSend
<1>10. CastInv'
  BY <1>2, <1>5 DEF MessageInv, CastInv, BlockingSend
<1>11. FreshInv'
  BY <1>1, <1>2, <1>4, <1>5 DEF MessageInv, FreshInv
<1>12. SendersInv'
  BY <1>1, <1>2, <1>3 DEF MessageInv, SendersInv, TypeOK
<1>13. BlockingSend => m \notin submitted /\ \A t \in Thread : got[m][t] = 0
  BY DEF MessageInv, CastInv, FreshInv
<1>14. OnceInv'
  <2> SUFFICES ASSUME BlockingSend PROVE OnceInv'
    BY <1>2 DEF OnceInv, BlockingSend
  <2>1. ASSUME NEW x \in Message, NEW t \in Thread, NEW u \in Thread
        PROVE  got'[x][t] <= 1 /\ (got'[x][t] > 0 /\ got'[x][u] > 0 => t = u)
    BY <1>3, <1>4, <1>13 DEF MessageInv, OnceInv
  <2>2. ASSUME NEW x \in submitted'
        PROVE  Accepted(x)' \/ \E t \in Thread : pc'[t] \in {"send", "sent"} /\ mine'[t] = x
    <3>1. CASE x = m
      <4>1. got'[m][h] > 0
        BY <1>1, <1>3, <1>4
      <4> QED BY <1>1, <3>1, <4>1 DEF Accepted
    <3>2. CASE x # m
      <4>1. x \in submitted /\ x \in Message
        BY <1>3, <1>5, <3>2 DEF TypeOK
      <4>2. CASE Accepted(x)
        BY <1>1, <1>2, <1>3, <1>4, <3>2, <4>1, <4>2 DEF Accepted
      <4>3. CASE \E t \in Thread : pc[t] \in {"send", "sent"} /\ mine[t] = x
        BY <1>1, <1>2, <1>3, <4>3 DEF TypeOK
      <4> QED BY <4>1, <4>2, <4>3 DEF MessageInv, OnceInv
    <3> QED BY <3>1, <3>2
  <2> QED BY <2>1, <2>2 DEF OnceInv
<1>15. WaitingInv'
  BY <1>1, <1>2, <1>3, <1>4 DEF MessageInv, WaitingInv, Multiprocessing, TypeOK
<1>16. Multiprocessing => got[m][h] = 0
  BY <1>1, <1>3 DEF MessageInv, WaitingInv, FreshInv
<1>17. BroadcastOnce'
  BY <1>2, <1>3, <1>4, <1>16 DEF MessageInv, BroadcastOnce, Multiprocessing
<1> QED BY <1>2, <1>6, <1>7, <1>8, <1>9, <1>10, <1>11, <1>12, <1>14, <1>15, <1>17
        DEF MessageInv, QueueConsistent

\* A message put on the pending chain by a submit.
LEMMA EnqueueInv ==
  ASSUME MessageInv, NEW m \in Message \ submitted, Enqueue(m),
         submitted' = submitted \cup {m}, UNCHANGED <<control, caster, cast>>
  PROVE  MessageInv'
<1>1. /\ pending' = Inserted(pending, m) /\ number' = number + 1 /\ inactive' = inactive - 1
      /\ inactive > 0 /\ ~FindsReceiver
      /\ UNCHANGED <<queue, pc, status, mine, got, control, caster, cast>>
  BY DEF Enqueue, threadVars
<1>2. TypeOK /\ m \notin ToSet(pending) /\ (\A t \in Thread : got[m][t] = 0)
  BY DEF MessageInv, QueueConsistent, FreshInv
<1>3. /\ pending' \in Seq(Message) /\ InOrder(pending', SubmitType)
      /\ Len(pending') = Len(pending) + 1 /\ ToSet(pending') = ToSet(pending) \cup {m}
      /\ NoRepetition(pending')
  BY <1>1, <1>2, InsertedGrows DEF MessageInv, QueueConsistent, TypeOK, PendingInOrder, ChainsInv
<1>4. BuffersConserved'
  BY <1>1, <1>2, <1>3, Attributes
     DEF MessageInv, QueueConsistent, BuffersConserved, TypeOK, MaxPending
<1>5. TypeOK'
  BY <1>1, <1>2, <1>3, Attributes DEF MessageInv, QueueConsistent, TypeOK, MaxPending, BuffersConserved
<1>6. WaitersAgree'
  <2>1. \A t \in Thread : pc[t] # "receive"
    <3>1. CASE number = 0
      BY <1>1, <3>1, EmptyChain DEF FindsReceiver, MessageInv, QueueConsistent, WaitersAgree
    <3>2. CASE number # 0
      BY <3>2 DEF MessageInv, QueueConsistent, WaitersAgree
    <3> QED BY <3>1, <3>2
  <2>2. \A t \in Thread : pc[t] # "send"
    BY <1>1 DEF MessageInv, QueueConsistent, WaitersAgree
  <2> QED BY <1>1, <2>1, <2>2 DEF MessageInv, QueueConsistent, WaitersAgree
<1>7. PendingInOrder' /\ ChainsInv'
  BY <1>1, <1>3 DEF MessageInv, PendingInOrder, ChainsInv, SubmitType
<1>8. CallsInv' /\ CastInv'
  BY <1>1, <1>2, <1>3 DEF MessageInv, CallsInv, CastInv, BlockingSend
<1>9. FreshInv'
  BY <1>1, <1>2, <1>3 DEF MessageInv, FreshInv
<1>10. SendersInv'
  BY <1>1, <1>3 DEF MessageInv, SendersInv, CallsInv
<1>11. OnceInv'
  <2>1. \A x : Accepted(x) \/ x = m => Accepted(x)'
    BY <1>1, <1>3 DEF Accepted
  <2> QED BY <1>1, <2>1 DEF MessageInv, OnceInv, BlockingSend
<1>12. WaitingInv' /\ BroadcastOnce'
  BY <1>1 DEF MessageInv, WaitingInv, BroadcastOnce, Multiprocessing
<1> QED BY <1>1, <1>4, <1>5, <1>6, <1>7, <1>8, <1>9, <1>10, <1>11, <1>12
        DEF MessageInv, QueueConsistent

\* A sender that waits for a buffer.
LEMMA SendBlockingInv ==
  ASSUME MessageInv, NEW t \in Thread, NEW m \in Message, SendBlocking(t, m), UNCHANGED control
  PROVE  MessageInv'
<1>1. /\ BlockingSend /\ pc[t] = "run" /\ m \notin submitted /\ ~FindsReceiver /\ inactive = 0
      /\ queue' = Append(queue, t) /\ pc' = [pc EXCEPT ![t] = "send"]
      /\ mine' = [mine EXCEPT ![t] = m] /\ submitted' = submitted \cup {m}
      /\ UNCHANGED <<pending, number, inactive, status, got, caster, cast, control>>
  BY DEF SendBlocking, queueVars
<1>2. TypeOK /\ m \notin ToSet(pending) /\ (\A u \in Thread : got[m][u] = 0) /\ t \notin ToSet(queue)
  BY <1>1 DEF MessageInv, QueueConsistent, FreshInv, WaitersAgree
<1>3. /\ queue' \in Seq(Thread) /\ ToSet(queue') = ToSet(queue) \cup {t} /\ NoRepetition(queue')
  <2>1. queue \in Seq(Thread) /\ NoRepetition(queue)
    BY DEF MessageInv, QueueConsistent, TypeOK, ChainsInv
  <2>2. /\ Append(queue, t) \in Seq(Thread) /\ ToSet(Append(queue, t)) = ToSet(queue) \cup {t}
        /\ NoRepetition(Append(queue, t))
    BY <1>2, <2>1, AppendGrows
  <2> QED BY <1>1, <2>2, Zenon
<1>4. TypeOK'
  BY <1>1, <1>2, <1>3 DEF TypeOK, MaxPending
<1>5. BuffersConserved' /\ PendingInOrder' /\ ChainsInv'
  BY <1>1, <1>3 DEF MessageInv, QueueConsistent, BuffersConserved, PendingInOrder, ChainsInv,
                    MaxPending, SubmitType
<1>6. WaitersAgree'
  BY <1>1, <1>2, <1>3 DEF MessageInv, QueueConsistent, WaitersAgree, TypeOK
<1>7. CallsInv'
  BY <1>1, <1>2 DEF MessageInv, CallsInv, TypeOK, BlockingSend
<1>8. CastInv' /\ FreshInv'
  BY <1>1 DEF MessageInv, CastInv, FreshInv, BlockingSend
<1>9. SendersInv'
  BY <1>1, <1>2 DEF MessageInv, SendersInv, CallsInv, TypeOK
<1>10. OnceInv'
  <2>1. ASSUME NEW x \in submitted'
        PROVE  Accepted(x)' \/ \E u \in Thread : pc'[u] \in {"send", "sent"} /\ mine'[u] = x
    <3>1. CASE x = m
      BY <1>1, <1>2, <3>1 DEF TypeOK
    <3>2. CASE x # m /\ Accepted(x)
      BY <1>1, <3>2 DEF Accepted
    <3>3. CASE x # m /\ \E u \in Thread : pc[u] \in {"send", "sent"} /\ mine[u] = x
      <4>1. PICK u \in Thread : pc[u] \in {"send", "sent"} /\ mine[u] = x
        BY <3>3
      <4>2. pc'[u] \in {"send", "sent"} /\ mine'[u] = x
        BY <1>1, <1>2, <4>1 DEF TypeOK
      <4> QED BY <4>2
    <3> QED BY <1>1, <3>1, <3>2, <3>3 DEF MessageInv, OnceInv
  <2> QED BY <1>1, <2>1 DEF MessageInv, OnceInv, BlockingSend
<1>11. WaitingInv' /\ BroadcastOnce'
  BY <1>1, <1>2 DEF MessageInv, WaitingInv, BroadcastOnce, Multiprocessing, TypeOK
<1> QED BY <1>1, <1>4, <1>5, <1>6, <1>7, <1>8, <1>9, <1>10, <1>11 DEF MessageInv, QueueConsistent

\* The first pending message is taken; its buffer becomes free.
LEMMA ReceiveFreeInv ==
  ASSUME MessageInv, NEW t \in Thread, Receive(t), queue = <<>>, UNCHANGED control
  PROVE  MessageInv'
<1> DEFINE m == Head(pending)
<1>1. /\ pc[t] = "run" /\ number > 0
      /\ got' = [got EXCEPT ![m][t] = @ + 1] /\ status' = [status EXCEPT ![t] = "successful"]
      /\ inactive' = inactive + 1 /\ pending' = Tail(pending) /\ number' = number - 1
      /\ pc' = [pc EXCEPT ![t] = "received"] /\ mine' = [mine EXCEPT ![t] = m]
      /\ UNCHANGED <<queue, submitted, caster, cast, control>>
  BY DEF Receive, FreedBuffers
<1>2. TypeOK /\ pending \in Seq(Message) /\ NoRepetition(pending) /\ number = Len(pending)
  BY DEF MessageInv, QueueConsistent, TypeOK, ChainsInv, BuffersConserved
<1>3. pending # <<>>
  BY <1>1, <1>2, ChainMembers
<1>4. /\ pending' \in Seq(Message) /\ Len(pending') = Len(pending) - 1 /\ m \in Message
      /\ ToSet(pending') = ToSet(pending) \ {m} /\ m \in ToSet(pending) /\ NoRepetition(pending')
  BY <1>1, <1>2, <1>3, TailShrinks
<1>5. InOrder(pending', SubmitType)
  BY <1>1, <1>2, <1>3, TailInserts, ExtractionInOrder DEF MessageInv, QueueConsistent, PendingInOrder
<1> HIDE DEF m
<1>6. /\ \A x \in Message, u \in Thread : got[x][u] \in Nat
      /\ \A x \in Message, u \in Thread :
           got'[x][u] = IF x = m /\ u = t THEN got[x][u] + 1 ELSE got[x][u]
      /\ \A u \in Thread : got[m][u] = 0
      /\ m \in submitted
  BY <1>1, <1>2, <1>4 DEF TypeOK, MessageInv, FreshInv
<1>7. ToSet(queue) = {} /\ \A u \in Thread : pc[u] \notin {"send", "receive"}
  BY EmptyChain DEF MessageInv, QueueConsistent, WaitersAgree
<1>8. TypeOK' /\ BuffersConserved'
  <2>1. BuffersConserved'
    BY <1>1, <1>2, <1>4, Attributes DEF MessageInv, QueueConsistent, BuffersConserved, TypeOK, MaxPending
  <2>2. number' \in 0 .. MaxPending' /\ inactive' \in 0 .. MaxPending'
    BY <1>1, <1>2, Attributes DEF MessageInv, QueueConsistent, BuffersConserved, TypeOK, MaxPending
  <2>3. TypeOK'
    BY <1>1, <1>2, <1>4, <2>2 DEF TypeOK
  <2> QED BY <2>1, <2>3
<1>9. WaitersAgree' /\ PendingInOrder' /\ ChainsInv'
  BY <1>1, <1>2, <1>4, <1>5, <1>7 DEF MessageInv, WaitersAgree, PendingInOrder, ChainsInv, SubmitType, TypeOK
<1>10. CallsInv'
  BY <1>1, <1>2, <1>4 DEF MessageInv, CallsInv, TypeOK, BlockingSend
<1>11. CastInv'
  BY <1>1, <1>4 DEF MessageInv, CastInv, BlockingSend
<1>12. FreshInv'
  BY <1>1, <1>4, <1>6 DEF MessageInv, FreshInv
<1>13. SendersInv'
  BY <1>1, <1>2, <1>7 DEF MessageInv, SendersInv, TypeOK
<1>14. OnceInv'
  <2> SUFFICES ASSUME BlockingSend PROVE OnceInv'
    BY <1>1 DEF OnceInv, BlockingSend
  <2>1. ASSUME NEW x \in Message, NEW u \in Thread, NEW v \in Thread
        PROVE  got'[x][u] <= 1 /\ (got'[x][u] > 0 /\ got'[x][v] > 0 => u = v)
    BY <1>6 DEF MessageInv, OnceInv
  <2>2. ASSUME NEW x \in submitted'
        PROVE  Accepted(x)' \/ \E u \in Thread : pc'[u] \in {"send", "sent"} /\ mine'[u] = x
    <3>1. CASE x = m
      <4>1. got'[m][t] > 0
        BY <1>4, <1>6
      <4> QED BY <3>1, <4>1 DEF Accepted
    <3>2. CASE x # m /\ Accepted(x)
      <4>1. x \in Message
        BY <1>1, <1>2 DEF TypeOK
      <4> QED BY <1>4, <1>6, <3>2, <4>1 DEF Accepted
    <3>3. CASE x # m /\ \E u \in Thread : pc[u] \in {"send", "sent"} /\ mine[u] = x
      <4>1. PICK u \in Thread : pc[u] \in {"send", "sent"} /\ mine[u] = x
        BY <3>3
      <4>2. pc'[u] \in {"send", "sent"} /\ mine'[u] = x
        BY <1>1, <1>2, <4>1 DEF TypeOK
      <4> QED BY <4>2
    <3> QED BY <1>1, <3>1, <3>2, <3>3 DEF MessageInv, OnceInv
  <2> QED BY <2>1, <2>2 DEF OnceInv
<1>15. WaitingInv'
  BY <1>1, <1>2, <1>7 DEF WaitingInv, TypeOK
<1>16. BroadcastOnce'
  BY <1>1, <1>6 DEF MessageInv, BroadcastOnce, Multiprocessing
<1> QED BY <1>1, <1>8, <1>9, <1>10, <1>11, <1>12, <1>13, <1>14, <1>15, <1>16
        DEF MessageInv, QueueConsistent

\* The first pending message is taken; its buffer goes to a waiting sender.
LEMMA ReceiveHandInv ==
  ASSUME MessageInv, NEW t \in Thread, Receive(t), queue # <<>>, UNCHANGED control
  PROVE  MessageInv'
<1> DEFINE m == Head(pending)
           s == Head(queue)
           x == mine[s]
<1>1. /\ pc[t] = "run" /\ number > 0
      /\ got' = [got EXCEPT ![m][t] = @ + 1] /\ status' = [status EXCEPT ![t] = "successful"]
      /\ pending' = Inserted(Tail(pending), x) /\ queue' = Tail(queue)
      /\ pc' = [pc EXCEPT ![s] = "sent", ![t] = "received"] /\ mine' = [mine EXCEPT ![t] = m]
      /\ UNCHANGED <<number, inactive, submitted, caster, cast, control>>
  BY DEF Receive, FreedBuffers
<1>2. /\ TypeOK /\ pending \in Seq(Message) /\ NoRepetition(pending) /\ number = Len(pending)
      /\ queue \in Seq(Thread) /\ NoRepetition(queue)
  BY DEF MessageInv, QueueConsistent, TypeOK, ChainsInv, BuffersConserved
<1>3. pending # <<>>
  BY <1>1, <1>2, ChainMembers
<1>4. /\ Tail(pending) \in Seq(Message) /\ Len(Tail(pending)) = Len(pending) - 1 /\ m \in Message
      /\ ToSet(Tail(pending)) = ToSet(pending) \ {m} /\ m \in ToSet(pending)
      /\ NoRepetition(Tail(pending))
  BY <1>2, <1>3, TailShrinks
<1>5. InOrder(Tail(pending), SubmitType)
  BY <1>2, <1>3, TailInserts, ExtractionInOrder DEF MessageInv, QueueConsistent, PendingInOrder
<1>6. /\ queue' \in Seq(Thread) /\ NoRepetition(queue') /\ s \in Thread
      /\ ToSet(queue') = ToSet(queue) \ {s} /\ s \in ToSet(queue)
  BY <1>1, <1>2, TailShrinks
<1>7. pc[s] = "send" /\ s # t /\ inactive = 0 /\ BlockingSend /\ x \in submitted
  BY <1>1, <1>2, <1>6 DEF MessageInv, QueueConsistent, WaitersAgree, CallsInv
<1>8. x \in Message /\ x \notin ToSet(pending) /\ (\A u \in Thread : got[x][u] = 0) /\ x # m
  BY <1>2, <1>4, <1>6, <1>7 DEF TypeOK, MessageInv, SendersInv
<1> HIDE DEF m, s, x
<1>9. /\ pending' \in Seq(Message) /\ InOrder(pending', SubmitType) /\ NoRepetition(pending')
      /\ Len(pending') = Len(Tail(pending)) + 1 /\ ToSet(pending') = ToSet(Tail(pending)) \cup {x}
  <2>1. x \notin ToSet(Tail(pending))
    BY <1>4, <1>8
  <2> QED BY <1>1, <1>4, <1>5, <1>8, <2>1, InsertedGrows, Zenon DEF MessageInv
<1>10. Len(pending') = Len(pending) /\ ToSet(pending') = (ToSet(pending) \ {m}) \cup {x}
  BY <1>1, <1>2, <1>4, <1>9
<1>11. /\ \A y \in Message, u \in Thread : got[y][u] \in Nat
       /\ \A y \in Message, u \in Thread :
            got'[y][u] = IF y = m /\ u = t THEN got[y][u] + 1 ELSE got[y][u]
       /\ \A u \in Thread : got[m][u] = 0
       /\ m \in submitted
  BY <1>1, <1>2, <1>4 DEF TypeOK, MessageInv, FreshInv
<1>12. /\ pc' \in [Thread -> {"run", "receive", "send", "received", "sent", "broadcast"}]
       /\ \A u \in Thread : pc'[u] = IF u = t THEN "received" ELSE IF u = s THEN "sent" ELSE pc[u]
       /\ \A u \in Thread : mine'[u] = IF u = t THEN m ELSE mine[u]
  BY <1>1, <1>2, <1>6, <1>7 DEF TypeOK
<1>13. TypeOK' /\ BuffersConserved'
  <2>1. BuffersConserved'
    BY <1>1, <1>2, <1>10 DEF MessageInv, QueueConsistent, BuffersConserved, MaxPending
  <2>2. got' \in [Message -> [Thread -> Nat]]
    <3>0. got[m][t] \in Nat
      BY <1>4, <1>11
    <3>1. got \in [Message -> [Thread -> Nat]] /\ got[m][t] + 1 \in Nat
      BY <1>2, <3>0 DEF TypeOK
    <3>2. [got[m] EXCEPT ![t] = @ + 1] \in [Thread -> Nat]
      BY <1>4, <3>1
    <3> QED BY <1>1, <1>4, <3>1, <3>2
  <2>3. mine' \in [Thread -> Message \cup {NoMessage}]
    BY <1>1, <1>2, <1>4 DEF TypeOK
  <2>4. TypeOK'
    BY <1>1, <1>2, <1>6, <1>9, <1>12, <2>2, <2>3 DEF TypeOK, MaxPending
  <2> QED BY <2>1, <2>4
<1>14. WaitersAgree' /\ PendingInOrder' /\ ChainsInv'
  <2>1. WaitersAgree'
    BY <1>1, <1>6, <1>7, <1>12 DEF MessageInv, QueueConsistent, WaitersAgree
  <2> QED BY <1>1, <1>6, <1>9, <2>1 DEF PendingInOrder, ChainsInv, SubmitType
<1>15. CallsInv'
  <2>1. status'[t] = "successful" /\ \A u \in Thread : u # t => status'[u] = status[u]
    BY <1>1, <1>2 DEF TypeOK
  <2>2. \A u \in Thread : mine[u] \in Message \cup {NoMessage}
    BY <1>2 DEF TypeOK
  <2> QED BY <1>1, <1>4, <1>7, <1>12, <2>1, <2>2, QueueAssumption DEF MessageInv, CallsInv, BlockingSend, x
<1>16. CastInv'
  BY <1>1, <1>7 DEF MessageInv, CastInv, BlockingSend
<1>17. FreshInv'
  BY <1>1, <1>4, <1>7, <1>8, <1>10, <1>11 DEF MessageInv, FreshInv
<1>18. SendersInv'
  <2>1. ASSUME NEW u \in Thread, NEW v \in Thread, pc'[u] \in {"send", "sent"},
               pc'[v] \in {"send", "sent"}, mine'[u] = mine'[v]
        PROVE  u = v
    BY <1>7, <1>12, <2>1 DEF MessageInv, SendersInv
  <2>2. ASSUME NEW u \in Thread, pc'[u] = "send"
        PROVE  mine'[u] \notin ToSet(pending') /\ \A v \in Thread : got'[mine'[u]][v] = 0
    <3>1. u # t /\ u # s /\ pc[u] = "send" /\ mine'[u] = mine[u]
      BY <1>12, <2>2
    <3>2. mine[u] # x
      BY <1>6, <1>7, <3>1 DEF MessageInv, SendersInv, x
    <3>3. mine[u] \notin ToSet(pending) /\ mine[u] # m /\ mine[u] \in Message
      BY <1>2, <1>4, <3>1 DEF MessageInv, SendersInv, CallsInv, TypeOK
    <3> QED BY <1>10, <1>11, <3>1, <3>2, <3>3 DEF MessageInv, SendersInv
  <2> QED BY <2>1, <2>2 DEF SendersInv
<1>19. OnceInv'
  <2>1. ASSUME NEW y \in Message, NEW u \in Thread, NEW v \in Thread
        PROVE  got'[y][u] <= 1 /\ (got'[y][u] > 0 /\ got'[y][v] > 0 => u = v)
    BY <1>7, <1>11 DEF MessageInv, OnceInv
  <2>2. ASSUME NEW y \in submitted'
        PROVE  Accepted(y)' \/ \E u \in Thread : pc'[u] \in {"send", "sent"} /\ mine'[u] = y
    <3>1. CASE y = m
      <4>1. got'[m][t] > 0
        BY <1>4, <1>11
      <4> QED BY <3>1, <4>1 DEF Accepted
    <3>2. CASE y # m /\ Accepted(y)
      <4>1. y \in Message
        BY <1>1, <1>2 DEF TypeOK
      <4> QED BY <1>10, <1>11, <3>2, <4>1 DEF Accepted
    <3>3. CASE y # m /\ \E u \in Thread : pc[u] \in {"send", "sent"} /\ mine[u] = y
      <4>1. PICK u \in Thread : pc[u] \in {"send", "sent"} /\ mine[u] = y
        BY <3>3
      <4>2. pc'[u] \in {"send", "sent"} /\ mine'[u] = y
        BY <1>1, <1>12, <4>1
      <4> QED BY <4>2
    <3> QED BY <1>1, <1>7, <3>1, <3>2, <3>3 DEF MessageInv, OnceInv
  <2> QED BY <2>1, <2>2 DEF OnceInv
<1>20. WaitingInv'
  BY <1>1, <1>7 DEF MessageInv, WaitingInv, CastInv
<1>21. BroadcastOnce'
  BY <1>1, <1>11 DEF MessageInv, BroadcastOnce, Multiprocessing
<1> QED BY <1>1, <1>13, <1>14, <1>15, <1>16, <1>17, <1>18, <1>19, <1>20, <1>21
        DEF MessageInv, QueueConsistent

LEMMA ReceiveNoWaitInv ==
  ASSUME MessageInv, NEW t \in Thread, ReceiveNoWait(t), UNCHANGED control
  PROVE  MessageInv'
<1>1. /\ pc[t] = "run" /\ status' = [status EXCEPT ![t] = "unsatisfied_nowait"]
      /\ UNCHANGED <<pending, number, inactive, queue, pc, mine, submitted, got, caster, cast, control>>
  BY DEF ReceiveNoWait, queueVars
<1>2. TypeOK' /\ CallsInv'
  BY <1>1 DEF MessageInv, QueueConsistent, TypeOK, CallsInv, MaxPending, BlockingSend
<1>3. BuffersConserved' /\ WaitersAgree' /\ PendingInOrder' /\ ChainsInv' /\ CastInv' /\ FreshInv'
  BY <1>1 DEF MessageInv, QueueConsistent, BuffersConserved, WaitersAgree, PendingInOrder,
              ChainsInv, CastInv, FreshInv, MaxPending, SubmitType, BlockingSend
<1>4. SendersInv' /\ OnceInv' /\ WaitingInv' /\ BroadcastOnce'
  BY <1>1 DEF MessageInv, SendersInv, OnceInv, WaitingInv, BroadcastOnce, Accepted,
              BlockingSend, Multiprocessing
<1> QED BY <1>1, <1>2, <1>3, <1>4 DEF MessageInv, QueueConsistent

\* A receiver that waits: nobody but the thread that broadcasts could run then.
LEMMA ReceiveWaitInv ==
  ASSUME MessageInv, NEW t \in Thread, ReceiveWait(t), UNCHANGED control
  PROVE  MessageInv'
<1>1. /\ pc[t] = "run" /\ Runs(t) /\ number = 0 /\ status' = [status EXCEPT ![t] = "successful"]
      /\ queue' = Append(queue, t) /\ pc' = [pc EXCEPT ![t] = "receive"]
      /\ UNCHANGED <<pending, number, inactive, mine, submitted, got, caster, cast, control>>
  BY DEF ReceiveWait, queueVars
<1>2. TypeOK /\ t \notin ToSet(queue)
  BY <1>1 DEF MessageInv, QueueConsistent, WaitersAgree
<1>3. queue' \in Seq(Thread) /\ ToSet(queue') = ToSet(queue) \cup {t} /\ NoRepetition(queue')
  <2>1. queue \in Seq(Thread) /\ NoRepetition(queue)
    BY DEF MessageInv, QueueConsistent, TypeOK, ChainsInv
  <2>2. /\ Append(queue, t) \in Seq(Thread) /\ ToSet(Append(queue, t)) = ToSet(queue) \cup {t}
        /\ NoRepetition(Append(queue, t))
    BY <1>2, <2>1, AppendGrows
  <2> QED BY <1>1, <2>2, Zenon
<1>4. TypeOK'
  BY <1>1, <1>2, <1>3 DEF TypeOK, MaxPending
<1>5. BuffersConserved' /\ PendingInOrder' /\ ChainsInv'
  BY <1>1, <1>3 DEF MessageInv, QueueConsistent, BuffersConserved, PendingInOrder, ChainsInv,
                    MaxPending, SubmitType
<1>6. WaitersAgree'
  BY <1>1, <1>2, <1>3 DEF MessageInv, QueueConsistent, WaitersAgree, TypeOK
<1>7. CallsInv'
  BY <1>1, <1>2 DEF MessageInv, CallsInv, TypeOK, BlockingSend
<1>8. CastInv' /\ FreshInv' /\ BroadcastOnce'
  BY <1>1 DEF MessageInv, CastInv, FreshInv, BroadcastOnce, BlockingSend, Multiprocessing
<1>9. SendersInv'
  BY <1>1, <1>2 DEF MessageInv, SendersInv, TypeOK
<1>10. OnceInv'
  <2>1. \A u \in Thread : pc[u] \in {"send", "sent"} => pc'[u] = pc[u]
    BY <1>1, <1>2 DEF TypeOK
  <2> QED BY <1>1, <2>1 DEF MessageInv, OnceInv, Accepted, BlockingSend
<1>11. WaitingInv'
  <2> SUFFICES ASSUME Multiprocessing, caster # Nobody, NEW u \in Thread, pc'[u] = "receive"
               PROVE  got[cast][u] = 0
    BY <1>1 DEF WaitingInv, Multiprocessing
  <2>1. caster = t
    BY <1>1 DEF Runs
  <2> QED BY <1>1, <2>1 DEF MessageInv, CallsInv
<1> QED BY <1>1, <1>4, <1>5, <1>6, <1>7, <1>8, <1>9, <1>10, <1>11 DEF MessageInv, QueueConsistent

\* A thread leaves its call; a message that nobody took may be sent again.
LEMMA ReturnInv ==
  ASSUME MessageInv, NEW t \in Thread, Return(t), UNCHANGED control
  PROVE  MessageInv'
<1> DEFINE again == pc[t] = "sent" /\ ~Accepted(mine[t])
<1>1. /\ pc[t] \in {"received", "sent"}
      /\ pc' = [pc EXCEPT ![t] = "run"] /\ mine' = [mine EXCEPT ![t] = NoMessage]
      /\ submitted' = IF again THEN submitted \ {mine[t]} ELSE submitted
      /\ UNCHANGED <<pending, number, inactive, queue, status, got, caster, cast, control>>
  BY DEF Return, queueVars
<1>2. TypeOK /\ \A x : Accepted(x)' <=> Accepted(x)
  BY <1>1 DEF MessageInv, QueueConsistent, Accepted
<1>3. again => /\ BlockingSend /\ caster = Nobody /\ mine[t] \in Message
               /\ mine[t] \notin ToSet(pending) /\ \A u \in Thread : got[mine[t]][u] = 0
  BY <1>2 DEF MessageInv, CallsInv, CastInv, Accepted, TypeOK
<1> HIDE DEF again
<1>4. TypeOK'
  BY <1>1, <1>2 DEF TypeOK, MaxPending
<1>5. BuffersConserved' /\ PendingInOrder' /\ ChainsInv'
  BY <1>1 DEF MessageInv, QueueConsistent, BuffersConserved, PendingInOrder, ChainsInv,
              MaxPending, SubmitType
<1>6. WaitersAgree'
  BY <1>1, <1>2 DEF MessageInv, QueueConsistent, WaitersAgree, TypeOK
<1>7. CallsInv'
  <2> SUFFICES ASSUME NEW u \in Thread, u # t, pc[u] \in {"send", "sent"} PROVE mine[u] \in submitted'
    BY <1>1, <1>2 DEF MessageInv, CallsInv, TypeOK, BlockingSend
  <2>1. again => mine[u] # mine[t]
    BY DEF again, MessageInv, SendersInv
  <2> QED BY <1>1, <2>1 DEF MessageInv, CallsInv
<1>8. CastInv' /\ FreshInv'
  BY <1>1, <1>3 DEF MessageInv, CastInv, FreshInv, BlockingSend
<1>9. SendersInv'
  BY <1>1, <1>2 DEF MessageInv, SendersInv, TypeOK
<1>10. OnceInv'
  <2>1. ASSUME BlockingSend, NEW x \in submitted'
        PROVE  Accepted(x)' \/ \E u \in Thread : pc'[u] \in {"send", "sent"} /\ mine'[u] = x
    <3>1. CASE Accepted(x)
      BY <1>2, <3>1
    <3>2. CASE ~Accepted(x)
      <4>1. PICK u \in Thread : pc[u] \in {"send", "sent"} /\ mine[u] = x
        BY <1>1, <2>1, <3>2 DEF MessageInv, OnceInv
      <4>2. u # t
        BY <1>1, <2>1, <3>2, <4>1 DEF again
      <4> QED BY <1>1, <1>2, <4>1, <4>2 DEF TypeOK
    <3> QED BY <3>1, <3>2
  <2> QED BY <1>1, <2>1 DEF MessageInv, OnceInv, BlockingSend
<1>11. WaitingInv' /\ BroadcastOnce'
  BY <1>1, <1>2 DEF MessageInv, WaitingInv, BroadcastOnce, Multiprocessing, TypeOK
<1> QED BY <1>1, <1>4, <1>5, <1>6, <1>7, <1>8, <1>9, <1>10, <1>11 DEF MessageInv, QueueConsistent

\* A wait that times out is taken off the queue, wherever it is in it.
LEMMA TimeoutInv ==
  ASSUME MessageInv, NEW t \in Thread, Timeout(t), UNCHANGED control
  PROVE  MessageInv'
<1>1. /\ pc[t] \in {"send", "receive"} /\ queue' = Extracted(queue, t)
      /\ status' = [status EXCEPT ![t] = "timeout"]
      /\ pc' = [pc EXCEPT ![t] = IF pc[t] = "send" THEN "sent" ELSE "received"]
      /\ UNCHANGED <<pending, number, inactive, mine, submitted, got, caster, cast, control>>
  BY DEF Timeout, queueVars
<1>2. TypeOK /\ queue \in Seq(Thread) /\ NoRepetition(queue)
  BY DEF MessageInv, QueueConsistent, TypeOK, ChainsInv
<1>3. queue' \in Seq(Thread) /\ ToSet(queue') = ToSet(queue) \ {t} /\ NoRepetition(queue')
  BY <1>1, <1>2, ExtractedShrinks
<1>4. TypeOK'
  BY <1>1, <1>2, <1>3 DEF TypeOK, MaxPending
<1>5. BuffersConserved' /\ PendingInOrder' /\ ChainsInv'
  BY <1>1, <1>3 DEF MessageInv, QueueConsistent, BuffersConserved, PendingInOrder, ChainsInv,
                    MaxPending, SubmitType
<1>6. WaitersAgree'
  BY <1>1, <1>2, <1>3 DEF MessageInv, QueueConsistent, WaitersAgree, TypeOK
<1>7. CallsInv'
  BY <1>1, <1>2 DEF MessageInv, CallsInv, TypeOK, BlockingSend
<1>8. CastInv' /\ FreshInv' /\ BroadcastOnce'
  BY <1>1 DEF MessageInv, CastInv, FreshInv, BroadcastOnce, BlockingSend, Multiprocessing
<1>9. SendersInv' /\ WaitingInv'
  BY <1>1, <1>2 DEF MessageInv, SendersInv, WaitingInv, Multiprocessing, TypeOK
<1>10. OnceInv'
  <2>1. \A u \in Thread : pc[u] \in {"send", "sent"} => pc'[u] \in {"send", "sent"}
    BY <1>1, <1>2 DEF TypeOK
  <2> QED BY <1>1, <2>1 DEF MessageInv, OnceInv, Accepted, BlockingSend
<1> QED BY <1>1, <1>4, <1>5, <1>6, <1>7, <1>8, <1>9, <1>10 DEF MessageInv, QueueConsistent

\* A broadcast begins, and ends with nobody waiting; its hand-overs are those of
\* HandOverInv.
LEMMA BroadcastBeginInv ==
  ASSUME MessageInv, NEW t \in Thread, NEW m \in Message, BroadcastBegin(t, m), UNCHANGED control
  PROVE  MessageInv'
<1>1. /\ ~BlockingSend /\ pc[t] = "run" /\ caster = Nobody /\ m \notin submitted
      /\ submitted' = submitted \cup {m} /\ caster' = t /\ cast' = m
      /\ pc' = [pc EXCEPT ![t] = "broadcast"]
      /\ UNCHANGED <<pending, number, inactive, queue, status, mine, got, control>>
  BY DEF BroadcastBegin, queueVars
<1>2. TypeOK /\ m \notin ToSet(pending) /\ \A u \in Thread : got[m][u] = 0
  BY <1>1 DEF MessageInv, QueueConsistent, FreshInv
<1>3. TypeOK'
  BY <1>1, <1>2 DEF TypeOK, MaxPending
<1>4. BuffersConserved' /\ PendingInOrder' /\ ChainsInv'
  BY <1>1 DEF MessageInv, QueueConsistent, BuffersConserved, PendingInOrder, ChainsInv,
              MaxPending, SubmitType
<1>5. WaitersAgree'
  BY <1>1, <1>2 DEF MessageInv, QueueConsistent, WaitersAgree, TypeOK
<1>6. CallsInv'
  BY <1>1, <1>2, QueueAssumption DEF MessageInv, CallsInv, TypeOK, BlockingSend
<1>7. CastInv' /\ FreshInv' /\ OnceInv'
  BY <1>1, <1>2 DEF MessageInv, CastInv, FreshInv, OnceInv, BlockingSend
<1>8. SendersInv' /\ WaitingInv' /\ BroadcastOnce'
  BY <1>1, <1>2 DEF MessageInv, SendersInv, WaitingInv, BroadcastOnce, Multiprocessing, TypeOK
<1> QED BY <1>1, <1>3, <1>4, <1>5, <1>6, <1>7, <1>8 DEF MessageInv, QueueConsistent

LEMMA BroadcastNextInv ==
  ASSUME MessageInv, BroadcastNext, UNCHANGED control
  PROVE  MessageInv'
<1>1. CASE HandOver(cast) /\ UNCHANGED <<submitted, caster, cast>>
  <2>1. caster # Nobody /\ cast \in Message
    BY DEF BroadcastNext, MessageInv, QueueConsistent, TypeOK, CastInv
  <2> QED BY <1>1, <2>1, HandOverInv
<1>2. CASE ~(HandOver(cast) /\ UNCHANGED <<submitted, caster, cast>>)
  <2>1. /\ caster \in Thread /\ caster' = Nobody /\ cast' = NoMessage
        /\ pc' = [pc EXCEPT ![caster] = "run"] /\ pc[caster] = "broadcast"
        /\ UNCHANGED <<pending, number, inactive, queue, status, mine, submitted, got, control>>
    BY <1>2 DEF BroadcastNext, queueVars, MessageInv, QueueConsistent, TypeOK, CallsInv
  <2>2. TypeOK /\ ~BlockingSend
    BY <2>1, QueueAssumption DEF MessageInv, QueueConsistent, CastInv
  <2>3. TypeOK'
    BY <2>1, <2>2 DEF TypeOK, MaxPending
  <2>4. BuffersConserved' /\ PendingInOrder' /\ ChainsInv'
    BY <2>1 DEF MessageInv, QueueConsistent, BuffersConserved, PendingInOrder, ChainsInv,
                MaxPending, SubmitType
  <2>5. WaitersAgree'
    BY <2>1, <2>2 DEF MessageInv, QueueConsistent, WaitersAgree, TypeOK
  <2>6. CallsInv'
    BY <2>1, <2>2, QueueAssumption DEF MessageInv, CallsInv, TypeOK, BlockingSend
  <2>7. CastInv' /\ FreshInv' /\ OnceInv'
    BY <2>1, <2>2 DEF MessageInv, CastInv, FreshInv, OnceInv, BlockingSend
  <2>8. SendersInv' /\ WaitingInv' /\ BroadcastOnce'
    BY <2>1, <2>2 DEF MessageInv, SendersInv, WaitingInv, BroadcastOnce, Multiprocessing, TypeOK
  <2> QED BY <2>1, <2>3, <2>4, <2>5, <2>6, <2>7, <2>8 DEF MessageInv, QueueConsistent
<1> QED BY <1>1, <1>2

LEMMA FlushInv ==
  ASSUME MessageInv, NEW t \in Thread, Flush(t), UNCHANGED control
  PROVE  MessageInv'
<1>1. /\ ~BlockingSend /\ number > 0
      /\ pending' = <<>> /\ number' = 0 /\ inactive' = inactive + number
      /\ UNCHANGED <<queue, pc, status, mine, submitted, got, caster, cast, control>>
  BY DEF Flush, threadVars
<1>2. TypeOK /\ ToSet(pending') = {} /\ \A u \in Thread : pc[u] \notin {"send", "receive"}
  BY <1>1, EmptyChain DEF MessageInv, QueueConsistent, CallsInv, WaitersAgree
<1>3. TypeOK' /\ BuffersConserved'
  <2>1. BuffersConserved'
    BY <1>1, <1>2, Attributes DEF MessageInv, QueueConsistent, BuffersConserved, TypeOK, MaxPending
  <2>2. number' \in 0 .. MaxPending' /\ inactive' \in 0 .. MaxPending'
    BY <1>1, <1>2, Attributes DEF MessageInv, QueueConsistent, BuffersConserved, TypeOK, MaxPending
  <2> QED BY <1>1, <1>2, <2>1, <2>2 DEF TypeOK
<1>4. WaitersAgree' /\ PendingInOrder' /\ ChainsInv'
  BY <1>1, <1>2, EmptyChain DEF MessageInv, QueueConsistent, WaitersAgree, PendingInOrder, ChainsInv
<1>5. CallsInv' /\ CastInv' /\ FreshInv' /\ OnceInv'
  BY <1>1, <1>2 DEF MessageInv, CallsInv, CastInv, FreshInv, OnceInv, BlockingSend
<1>6. SendersInv' /\ WaitingInv' /\ BroadcastOnce'
  BY <1>1, <1>2 DEF MessageInv, SendersInv, WaitingInv, BroadcastOnce, Multiprocessing
<1> QED BY <1>1, <1>3, <1>4, <1>5, <1>6 DEF MessageInv, QueueConsistent

LEMMA SubmitInv ==
  ASSUME MessageInv, NEW m \in Message, Submit(m), UNCHANGED control
  PROVE  MessageInv'
  BY HandOverInv, EnqueueInv DEF Submit

LEMMA NextMessageInv == MessageInv /\ [Next]_vars => MessageInv'
<1> SUFFICES ASSUME MessageInv, [Next]_vars PROVE MessageInv'
  OBVIOUS
<1>1. CASE UNCHANGED vars
  <2>1. UNCHANGED <<control, pending, number, inactive, queue, pc, status, mine, submitted, got,
                    caster, cast>>
    BY <1>1 DEF vars, queueVars, threadVars
  <2>2. QueueConsistent' /\ ChainsInv' /\ CallsInv' /\ CastInv' /\ FreshInv'
    BY <2>1 DEF MessageInv, QueueConsistent, TypeOK, BuffersConserved, WaitersAgree, PendingInOrder,
                ChainsInv, CallsInv, CastInv, FreshInv, MaxPending, SubmitType, BlockingSend
  <2>3. SendersInv' /\ OnceInv' /\ WaitingInv' /\ BroadcastOnce'
    BY <2>1 DEF MessageInv, SendersInv, OnceInv, WaitingInv, BroadcastOnce, Accepted,
                BlockingSend, Multiprocessing
  <2> QED BY <2>1, <2>2, <2>3 DEF MessageInv
<1>2. CASE Next
  <2>1. ASSUME NEW t \in Thread, NEW m \in Message, Send(t, m), UNCHANGED control PROVE MessageInv'
    BY <2>1, SubmitInv DEF Send
  <2>2. ASSUME NEW m \in Message, IsrSend(m), UNCHANGED control PROVE MessageInv'
    BY <2>2, SubmitInv DEF IsrSend
  <2>3. ASSUME NEW t \in Thread, Receive(t), UNCHANGED control PROVE MessageInv'
    BY <2>3, ReceiveFreeInv, ReceiveHandInv
  <2> QED BY <1>2, <2>1, <2>2, <2>3, SendBlockingInv, BroadcastBeginInv, ReceiveNoWaitInv,
             ReceiveWaitInv, ReturnInv, TimeoutInv, FlushInv, BroadcastNextInv DEF Next, Step
<1> QED BY <1>1, <1>2

-----------------------------------------------------------------------------
(***************************************************************************)
(* The theorems.                                                           *)
(***************************************************************************)
THEOREM MessageInvariant == Spec => []MessageInv
  BY InitMessageInv, NextMessageInv, PTL DEF Spec

\* Buffers, counter, order and waiting threads agree at every release of the
\* lock, through hand-overs, time-outs, broadcasts and flushes.
THEOREM QueueIsConsistent == Spec => []QueueConsistent
<1>1. MessageInv => QueueConsistent
  BY DEF MessageInv
<1> QED BY <1>1, MessageInvariant, PTL

\* With blocking sends a submitted message is in exactly one place.
LEMMA OnePlace ==
  ASSUME MessageInv, BlockingSend, NEW m \in submitted
  PROVE  Cardinality(Places(m)) = 1
<1>1. m \in Message /\ pending \in Seq(Message) /\ \A t \in Thread : got[m][t] \in Nat
  BY DEF MessageInv, QueueConsistent, TypeOK
<1>2. \E x : Places(m) = {x}
  <2>1. CASE m \in ToSet(pending)
    <3>1. PICK i \in DOMAIN pending : pending[i] = m
      BY <2>1 DEF ToSet
    <3>2. {j \in DOMAIN pending : pending[j] = m} = {i}
      BY <3>1 DEF MessageInv, ChainsInv, NoRepetition
    <3>3. {t \in Thread : mine[t] = m /\ (pc[t] = "send" \/ (pc[t] = "sent" /\ ~Accepted(m)))} = {}
      BY <2>1 DEF Accepted, MessageInv, SendersInv
    <3>4. UNION {{<<t, k>> : k \in 1 .. got[m][t]} : t \in Thread} = {}
      <4>1. \A t \in Thread : got[m][t] = 0
        BY <1>1, <2>1 DEF MessageInv, FreshInv
      <4>2. \A t \in Thread : 1 .. got[m][t] = {}
        BY <4>1
      <4> QED BY <4>2
    <3>5. Places(m) = {<<"pending", i>>}
      BY <3>2, <3>3, <3>4 DEF Places
    <3> QED BY <3>5
  <2>2. ASSUME NEW t \in Thread, got[m][t] > 0 PROVE \E x : Places(m) = {x}
    <3>1. m \notin ToSet(pending) /\ Accepted(m)
      BY <1>1, <2>2 DEF Accepted, MessageInv, FreshInv
    <3>2. {j \in DOMAIN pending : pending[j] = m} = {}
      BY <3>1 DEF ToSet
    <3>3. {u \in Thread : mine[u] = m /\ (pc[u] = "send" \/ (pc[u] = "sent" /\ ~Accepted(m)))} = {}
      <4>1. \A u \in Thread : mine[u] = m => pc[u] # "send"
        BY <1>1, <2>2 DEF MessageInv, SendersInv
      <4> QED BY <3>1, <4>1
    <3>4. UNION {{<<u, k>> : k \in 1 .. got[m][u]} : u \in Thread} = {<<t, 1>>}
      <4>1. got[m][t] = 1 /\ \A u \in Thread : u # t => got[m][u] = 0
        BY <1>1, <2>2 DEF MessageInv, OnceInv
      <4>2. 1 .. got[m][t] = {1} /\ \A u \in Thread : u # t => 1 .. got[m][u] = {}
        BY <4>1
      <4>3. ASSUME NEW y
            PROVE  y \in UNION {{<<u, k>> : k \in 1 .. got[m][u]} : u \in Thread}
                     <=> \E u \in Thread : \E k \in 1 .. got[m][u] : y = <<u, k>>
        OBVIOUS
      <4>4. ASSUME NEW y
            PROVE  (\E u \in Thread : \E k \in 1 .. got[m][u] : y = <<u, k>>) <=> y = <<t, 1>>
        BY <4>2, Zenon
      <4> QED BY <4>3, <4>4
    <3>5. Places(m) = {<<t, 1>>}
      BY <3>2, <3>3, <3>4 DEF Places
    <3> QED BY <3>5
  <2>3. CASE ~Accepted(m)
    <3>1. m \notin ToSet(pending) /\ \A t \in Thread : got[m][t] = 0
      BY <1>1, <2>3 DEF Accepted
    <3>2. {j \in DOMAIN pending : pending[j] = m} = {}
      BY <3>1 DEF ToSet
    <3>3. PICK t \in Thread : pc[t] \in {"send", "sent"} /\ mine[t] = m
      BY <2>3 DEF MessageInv, OnceInv
    <3>4. {u \in Thread : mine[u] = m /\ (pc[u] = "send" \/ (pc[u] = "sent" /\ ~Accepted(m)))} = {t}
      BY <2>3, <3>3 DEF MessageInv, SendersInv
    <3>5. UNION {{<<u, k>> : k \in 1 .. got[m][u]} : u \in Thread} = {}
      <4>1. \A u \in Thread : 1 .. got[m][u] = {}
        BY <3>1
      <4> QED BY <4>1
    <3>6. Places(m) = {<<"sender", t>>}
      BY <3>2, <3>4, <3>5 DEF Places
    <3> QED BY <3>6
  <2> QED BY <2>1, <2>2, <2>3 DEF Accepted
<1>3. PICK x : Places(m) = {x}
  BY <1>2
<1> QED BY <1>3, FS_Singleton

\* No message is lost or delivered twice, whoever gives up waiting, and no
\* broadcast reaches a thread twice.
THEOREM MessagesDeliveredOnce == Spec => []DeliveredOnce
<1>1. MessageInv => DeliveredOnce
  BY OnePlace DEF DeliveredOnce, NothingLost, MessageInv, CallsInv
<1> QED BY <1>1, MessageInvariant, PTL

-----------------------------------------------------------------------------
(***************************************************************************)
(* First in, first out within a priority.                                  *)
(***************************************************************************)

\* An insertion leaves one message before another unless it puts the other in
\* front; an extraction of something else leaves it there.
LEMMA BeforeGrows ==
  ASSUME NEW S, NEW s \in Seq(S), NEW r \in Seq(S), NEW t, NEW p, Inserts(s, r, t, p),
         NEW m, NEW x, Before(s, m, x), t = x => \A i \in DOMAIN s : s[i] = m => i <= p
  PROVE  Before(r, m, x)
<1>1. p \in Nat /\ (\A i \in DOMAIN s : i \in Nat)
  BY Lengths DEF Inserts
<1>2. PICK i \in DOMAIN s : s[i] = m /\ \A j \in DOMAIN s : s[j] = x => i < j
  BY DEF Before
<1>3. Shift(p, i) \in DOMAIN r /\ r[Shift(p, i)] = m
  BY <1>2, InsertsPlaces
<1>4. ASSUME NEW j \in DOMAIN r, r[j] = x PROVE Shift(p, i) < j
  <2>1. CASE j = p + 1
    <3>1. i <= p
      BY <1>2, <1>4, <2>1, InsertsPlaces
    <3> QED BY <1>1, <2>1, <3>1, ShiftInOrder
  <2>2. ASSUME NEW k \in DOMAIN s, j = Shift(p, k) PROVE Shift(p, i) < j
    <3>1. s[k] = x
      BY <1>4, <2>2, InsertsPlaces
    <3>2. i < k
      BY <1>2, <3>1
    <3> QED BY <1>1, <2>2, <3>2, ShiftInOrder
  <2> QED BY <2>1, <2>2, InsertsPlaces
<1> QED BY <1>3, <1>4 DEF Before

LEMMA BeforeShrinks ==
  ASSUME NEW S, NEW s \in Seq(S), NEW r \in Seq(S), NEW t, NEW p, Inserts(s, r, t, p),
         NEW m, NEW x, Before(r, m, x), t # m
  PROVE  Before(s, m, x)
<1>1. p \in Nat /\ (\A i \in DOMAIN s : i \in Nat)
  BY Lengths DEF Inserts
<1>2. PICK i \in DOMAIN r : r[i] = m /\ \A j \in DOMAIN r : r[j] = x => i < j
  BY DEF Before
<1>3. i # p + 1
  BY <1>2, InsertsPlaces
<1>4. PICK k \in DOMAIN s : i = Shift(p, k)
  BY <1>3, InsertsPlaces
<1>5. s[k] = m
  BY <1>2, <1>4, InsertsPlaces
<1>6. ASSUME NEW j \in DOMAIN s, s[j] = x PROVE k < j
  <2>1. Shift(p, j) \in DOMAIN r /\ r[Shift(p, j)] = x
    BY <1>6, InsertsPlaces
  <2>2. Shift(p, k) < Shift(p, j)
    BY <1>2, <1>4, <2>1
  <2> QED BY <1>1, <2>2, ShiftInOrder
<1> QED BY <1>5, <1>6 DEF Before

\* A message that gets its buffer goes behind those of its priority.
LEMMA InsertedBehind ==
  ASSUME control \in Queues, NEW s \in Seq(Message), NEW y \in Message, InOrder(s, SubmitType),
         NEW m \in Message, NEW x \in Message, SubmitType[m] = SubmitType[x],
         SubmitType[m] # UrgentRequest, Before(s, m, x)
  PROVE  Before(Inserted(s, y), m, x)
<1>1. PICK p : /\ Inserts(s, Inserted(s, y), y, p)
               /\ SubmitType[y] # UrgentRequest =>
                    \A i \in DOMAIN s : SubmitType[s[i]] = SubmitType[y] => i <= p
  BY InsertedInserts
<1>2. y = x => \A i \in DOMAIN s : s[i] = m => i <= p
  BY <1>1
<1>3. Inserted(s, y) \in Seq(Message)
  BY InsertedInserts
<1> QED BY <1>1, <1>2, <1>3, BeforeGrows

\* The step of FifoWithinPriority.
Fifo ==
  \A m, x \in Message :
    /\ m # x /\ SubmitType[m] = SubmitType[x] /\ SubmitType[m] # UrgentRequest
    /\ Before(pending, m, x)
    => /\ got'[x] = got[x]
       /\ m \in ToSet(pending') => Before(pending', m, x)

LEMMA NextFifo ==
  ASSUME MessageInv, MessageInv', [Next]_vars
  PROVE  Fifo
<1>1. ASSUME UNCHANGED <<pending, got>> PROVE Fifo
  BY <1>1 DEF Fifo
<1>2. ASSUME pending = <<>> PROVE Fifo
  BY <1>2 DEF Fifo, Before
<1>3. ASSUME NEW y, HandOver(y) PROVE Fifo
  BY <1>2, <1>3, ReceiverFirst DEF HandOver
<1>4. /\ control \in Queues /\ pending \in Seq(Message) /\ InOrder(pending, SubmitType)
      /\ NoRepetition(pending) /\ number = Len(pending) /\ got \in [Message -> [Thread -> Nat]]
  BY DEF MessageInv, QueueConsistent, TypeOK, PendingInOrder, ChainsInv, BuffersConserved
<1>5. ASSUME NEW y \in Message \ submitted, Enqueue(y) PROVE Fifo
  <2>1. pending' = Inserted(pending, y) /\ got' = got
    BY <1>5 DEF Enqueue
  <2> QED BY <1>4, <2>1, InsertedBehind DEF Fifo
<1>6. ASSUME NEW y \in Message, Submit(y) PROVE Fifo
  BY <1>3, <1>5, <1>6 DEF Submit
<1>7. ASSUME NEW t \in Thread, Receive(t), UNCHANGED control PROVE Fifo
  <2> SUFFICES ASSUME NEW m \in Message, NEW x \in Message, m # x,
                      SubmitType[m] = SubmitType[x], SubmitType[m] # UrgentRequest,
                      Before(pending, m, x)
               PROVE  got'[x] = got[x] /\ (m \in ToSet(pending') => Before(pending', m, x))
    BY DEF Fifo
  <2>1. pending # <<>>
    BY DEF Before
  <2>2. /\ Tail(pending) \in Seq(Message) /\ Inserts(Tail(pending), pending, Head(pending), 0)
        /\ Head(pending) = pending[1] /\ 1 \in DOMAIN pending /\ Head(pending) \in Message
    BY <1>4, <2>1, TailInserts
  <2>3. Head(pending) # x
    <3>1. PICK i \in DOMAIN pending : \A j \in DOMAIN pending : pending[j] = x => i < j
      BY DEF Before
    <3>2. ~(i < 1)
      BY <1>4, Lengths
    <3> QED BY <2>2, <3>1, <3>2
  <2>4. got'[x] = got[x]
    BY <1>4, <1>7, <2>2, <2>3 DEF Receive
  <2>5. InOrder(Tail(pending), SubmitType)
    BY <1>4, <2>2, ExtractionInOrder
  <2>6. CASE Head(pending) # m
    <3>1. Before(Tail(pending), m, x)
      BY <1>4, <2>2, <2>6, BeforeShrinks
    <3>2. CASE queue = <<>>
      BY <1>7, <2>4, <3>1, <3>2 DEF Receive
    <3>3. CASE queue # <<>>
      <4>1. pending' = Inserted(Tail(pending), mine[Head(queue)])
        BY <1>7, <3>3 DEF Receive
      <4>2. Head(queue) \in ToSet(queue) /\ Head(queue) \in Thread
        BY <3>3, TailShrinks DEF MessageInv, QueueConsistent, TypeOK, ChainsInv
      <4>3. mine[Head(queue)] \in Message
        BY <1>7, <4>2 DEF Receive, MessageInv, QueueConsistent, TypeOK, WaitersAgree, CallsInv
      <4> QED BY <1>4, <2>2, <2>4, <2>5, <3>1, <4>1, <4>3, InsertedBehind
    <3> QED BY <3>2, <3>3
  <2>7. CASE Head(pending) = m
    <3>1. got'[m][t] > 0
      BY <1>4, <1>7, <2>2, <2>7 DEF Receive
    <3>2. m \notin ToSet(pending')
      BY <3>1 DEF MessageInv, FreshInv
    <3> QED BY <2>4, <3>2
  <2> QED BY <2>6, <2>7
<1>8. ASSUME NEW t \in Thread, Flush(t) PROVE Fifo
  <2>1. got' = got /\ ToSet(pending') = {}
    BY <1>8, EmptyChain DEF Flush
  <2> QED BY <2>1 DEF Fifo
<1>9. ASSUME BroadcastNext PROVE Fifo
  BY <1>1, <1>3, <1>9 DEF BroadcastNext, queueVars
<1>10. ASSUME NEW t \in Thread, NEW y \in Message, Send(t, y) PROVE Fifo
  BY <1>6, <1>10 DEF Send
<1>11. ASSUME NEW y \in Message, IsrSend(y) PROVE Fifo
  BY <1>6, <1>11 DEF IsrSend
<1>12. ASSUME NEW t \in Thread, NEW y \in Message, SendBlocking(t, y) \/ BroadcastBegin(t, y) PROVE Fifo
  BY <1>1, <1>12 DEF SendBlocking, BroadcastBegin, queueVars
<1>13. ASSUME NEW t \in Thread, ReceiveNoWait(t) \/ ReceiveWait(t) \/ Return(t) \/ Timeout(t) PROVE Fifo
  BY <1>1, <1>13 DEF ReceiveNoWait, ReceiveWait, Return, Timeout, queueVars
<1>14. CASE UNCHANGED vars
  BY <1>1, <1>14 DEF vars, queueVars
<1> QED BY <1>7, <1>8, <1>9, <1>10, <1>11, <1>12, <1>13, <1>14 DEF Next, Step

\* Messages of one priority are received in the order in which they got their
\* buffers, whichever path of submit and seize they took.
THEOREM MessagesFifo == Spec => FifoWithinPriority
<1>1. MessageInv /\ MessageInv' /\ [Next]_vars => [Fifo]_vars
  BY NextFifo
<1> QED BY <1>1, MessageInvariant, PTL DEF Spec, FifoWithinPriority, Fifo
=============================================================================
