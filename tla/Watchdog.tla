------------------------------ MODULE Watchdog ------------------------------
(***************************************************************************)
(* The delta chain of watchdogs: an insertion that walks the chain and     *)
(* opens an interrupt window after every step, and the interrupts that     *)
(* tickle the chain, insert and remove watchdogs in that window and mend   *)
(* the iterator of the interrupted insertion.                              *)
(*                                                                         *)
(*   librtems/score/watchdog/watchdoginsert.c, watchdogremove.c,           *)
(*   include/rtems/score/watchdogimpl.h                                    *)
(*                                                                         *)
(* Threads operate on the chain with dispatching disabled, so only one     *)
(* thread is inside _Watchdog_Insert; an interrupt finishes before the     *)
(* thread goes on, so its own operations are single steps.                 *)
(***************************************************************************)
EXTENDS OrderedQueue, FiniteSets

CONSTANTS
  Watchdog,     \* the watchdogs of the chain's users
  ChainHead,    \* the head of the chain, standing also for no watchdog
  MaxInterval,  \* bound on the intervals asked for, in ticks
  Handlers,     \* sets of what interrupts may do besides ticking, of which a
                \* system has one: the operations "insert" and "remove"
  MaxDelta      \* bound on the delta intervals that removals pile up

ASSUME WatchdogAssumption ==
  /\ ChainHead \notin Watchdog
  /\ MaxInterval \in Nat \ {0} /\ MaxDelta \in Nat
  /\ Handlers \subseteq SUBSET {"insert", "remove"}

VARIABLES
  isrOps,     \* what interrupts do in this system
  chain,      \* header->Watchdogs
  delta,      \* the_watchdog->delta_interval
  wstate,     \* the_watchdog->state
  inserting,  \* the watchdog of the thread's insertion in its window, or ChainHead
  iterator,   \* the iterator of that insertion
  tickling,   \* the clock interrupt is in the loop of _Watchdog_Tickle
  serving,    \* the watchdog whose routine it calls, or ChainHead
  wanted,     \* history: the watchdogs whose users wait for them to fire
  least       \* history: ticks that must still pass before it may fire

chainVars == <<chain, delta, wstate>>
insertVars == <<inserting, iterator>>
tickVars == <<tickling, serving>>
historyVars == <<wanted, least>>
vars == <<isrOps, chainVars, insertVars, tickVars, historyVars>>

Interval == 1 .. MaxInterval
NoIterator == [current |-> ChainHead, delta |-> 0]

Init ==
  /\ isrOps \in Handlers
  /\ chain = <<>> /\ delta = [w \in Watchdog |-> 0]
  /\ wstate = [w \in Watchdog |-> "inactive"]
  /\ inserting = ChainHead /\ iterator = NoIterator
  /\ tickling = FALSE /\ serving = ChainHead
  /\ wanted = {}
  /\ least = [w \in Watchdog |-> 0]

-----------------------------------------------------------------------------
OnChain == ToSet(chain)

\* The place of a node; the head comes before the first watchdog.
Place(n) == IF n = ChainHead THEN 0 ELSE CHOOSE i \in DOMAIN chain : chain[i] = n

\* The ticks from now to the watchdog at each place.
DueAt == Ticks(chain, delta)

\* Threads use the chain between interrupts and one after the other; a handler
\* uses it at any time, and so does the routine of a watchdog that fires.
InThread == ~tickling /\ inserting = ChainHead
InHandler(o) == o \in isrOps /\ (tickling => serving # ChainHead)

\* A user asks for w to fire after units ticks.
Asked(w, units) ==
  /\ wanted' = wanted \cup {w}
  /\ least' = [least EXCEPT ![w] = units]

\* Nobody waits for w any more.
Forgotten(w) ==
  /\ wanted' = wanted \ {w}
  /\ least' = [least EXCEPT ![w] = 0]

-----------------------------------------------------------------------------
(***************************************************************************)
(* Insertion.                                                              *)
(***************************************************************************)

\* Activate w behind place p and shorten its successor by d.
ChainInsert(w, p, d) ==
  /\ chain' = InsertAt(chain, p + 1, w)
  /\ delta' = [v \in Watchdog |->
                 IF v = w THEN d
                 ELSE IF p < Len(chain) /\ v = chain[p + 1] THEN delta[v] - d
                 ELSE delta[v]]
  /\ wstate' = [wstate EXCEPT ![w] = "active"]

\* One section of the loop of _Watchdog_Insert_locked, from the node at place p
\* with d ticks to go: a step to the next watchdog and the interrupt window,
\* or the end of the walk.
InsertWalk(w, p, d) ==
  IF p < Len(chain) /\ d >= delta[chain[p + 1]]
  THEN /\ wstate' = [wstate EXCEPT ![w] = "being_inserted"]
       /\ inserting' = w
       /\ iterator' = [current |-> chain[p + 1], delta |-> d - delta[chain[p + 1]]]
       /\ UNCHANGED <<chain, delta>>
  ELSE /\ ChainInsert(w, p, d)
       /\ inserting' = ChainHead /\ iterator' = NoIterator

\* _Watchdog_Insert_ticks, called by a thread.
InsertBegin(w, units) ==
  /\ InThread /\ wstate[w] = "inactive"
  /\ InsertWalk(w, 0, units)
  /\ Asked(w, units)
  /\ UNCHANGED <<isrOps, tickVars>>

\* Defect: the insertion does not look whether it was aborted in its window.
InsertNextUnchecked ==
  /\ ~tickling /\ inserting # ChainHead
  /\ InsertWalk(inserting, Place(iterator.current), iterator.delta)
  /\ UNCHANGED <<isrOps, tickVars, historyVars>>

\* Defect: an insertion aborted in its window takes another turn of the loop
\* instead of leaving it.
InsertNextAgain ==
  /\ ~tickling /\ inserting # ChainHead /\ wstate[inserting] = "being_inserted"
  /\ InsertWalk(inserting, Place(iterator.current), iterator.delta)
  /\ UNCHANGED <<isrOps, tickVars, historyVars>>

\* _Watchdog_Insert_locked behind the interrupt window.
InsertNext ==
  /\ ~tickling /\ inserting # ChainHead
  /\ IF wstate[inserting] = "being_inserted"
     THEN InsertWalk(inserting, Place(iterator.current), iterator.delta)
     ELSE inserting' = ChainHead /\ iterator' = NoIterator /\ UNCHANGED chainVars
  /\ UNCHANGED <<isrOps, tickVars, historyVars>>

\* _Watchdog_Insert_fixup for the interrupted insertion, when w goes behind
\* place p.
IteratorBehind(w, p) ==
  IF p < Len(chain) /\ iterator.current = chain[p + 1]
  THEN [iterator EXCEPT !.current = w]
  ELSE iterator

\* _Watchdog_Insert_ticks, called by an interrupt handler: the walk ends behind
\* place p with d of the ticks left, fewer than the next watchdog has.
IsrInsert(w, units) ==
  /\ InHandler("insert") /\ wstate[w] = "inactive"
  /\ \E p \in 0 .. Len(chain), d \in 0 .. units :
       /\ d = units - DueAt[p] /\ (p < Len(chain) => d < delta[chain[p + 1]])
       /\ ChainInsert(w, p, d)
       /\ iterator' = IteratorBehind(w, p)
  /\ Asked(w, units)
  /\ UNCHANGED <<isrOps, inserting, tickVars>>

-----------------------------------------------------------------------------
(***************************************************************************)
(* Removal and expiry.                                                     *)
(***************************************************************************)

\* What _Watchdog_Remove_it does to the iterator of an interrupted insertion.
IteratorWithout(w, d) ==
  LET p == Place(w)
      previous == IF p = 1 THEN ChainHead ELSE chain[p - 1]
  IN
  IF p < Len(chain) /\ iterator.current = chain[p + 1]
  THEN [iterator EXCEPT !.delta = @ + d[w]]
  ELSE IF iterator.current = w
  THEN [current |-> previous,
        delta |-> iterator.delta + IF previous = ChainHead THEN 0 ELSE d[previous]]
  ELSE iterator

\* Defect: the successor does not take over the ticks of the removed watchdog.
RemoveItAlone(w, d) ==
  LET p == Place(w) IN
  /\ chain' = RemoveAt(chain, p)
  /\ delta' = [d EXCEPT ![w] = 0]
  /\ wstate' = [wstate EXCEPT ![w] = "inactive"]
  /\ iterator' = IteratorWithout(w, d)

\* _Watchdog_Remove_it; d are the delta intervals at its call.  The delta of a
\* watchdog that is off the chain is written before it is read again: zero
\* stands for whatever is left in it.
RemoveIt(w, d) ==
  LET p == Place(w) IN
  /\ chain' = RemoveAt(chain, p)
  /\ delta' = [v \in Watchdog |->
                 IF v = w THEN 0
                 ELSE IF p < Len(chain) /\ v = chain[p + 1] THEN d[v] + d[w]
                 ELSE d[v]]
  /\ wstate' = [wstate EXCEPT ![w] = "inactive"]
  /\ iterator' = IteratorWithout(w, d)

\* _Watchdog_Remove, by a thread or by an interrupt handler: a watchdog that
\* is being inserted only changes its state, which aborts the insertion.
WatchdogRemove(w) ==
  /\ InThread \/ InHandler("remove")
  /\ \/ wstate[w] = "active" /\ RemoveIt(w, delta)
     \/ /\ wstate[w] = "being_inserted"
        /\ wstate' = [wstate EXCEPT ![w] = "inactive"]
        /\ UNCHANGED <<chain, delta, iterator>>
  /\ iterator'.delta <= MaxDelta /\ \A v \in Watchdog : delta'[v] <= MaxDelta
  /\ Forgotten(w)
  /\ UNCHANGED <<isrOps, inserting, tickVars>>

\* One look of _Watchdog_Tickle at the first watchdog: take it off the chain
\* to call its routine, or leave the loop.
TickleStep(d) ==
  IF chain # <<>> /\ d[chain[1]] = 0
  THEN /\ RemoveIt(chain[1], d)
       /\ serving' = chain[1] /\ tickling' = TRUE
       /\ wanted' = wanted \ {chain[1]}
       /\ UNCHANGED <<inserting>>
  ELSE /\ delta' = d
       /\ serving' = ChainHead /\ tickling' = FALSE
       /\ UNCHANGED <<chain, wstate, insertVars, wanted>>

\* Defect: the count stops at one.
CountDownStops ==
  IF chain # <<>> /\ delta[chain[1]] > 1
  THEN [delta EXCEPT ![chain[1]] = @ - 1] ELSE delta

\* A tick counts for the first watchdog, unless that one is due already.
CountDown ==
  IF chain # <<>> /\ delta[chain[1]] > 0
  THEN [delta EXCEPT ![chain[1]] = @ - 1] ELSE delta

\* The clock interrupt.
Tick ==
  /\ ~tickling
  /\ TickleStep(CountDown)
  /\ least' = [w \in Watchdog |-> IF least[w] > 0 THEN least[w] - 1 ELSE 0]
  /\ UNCHANGED isrOps

\* The routine returns; unless it inserted its watchdog anew, nobody waits.
ServiceReturn ==
  /\ serving # ChainHead
  /\ serving' = ChainHead
  /\ IF serving \in wanted THEN UNCHANGED historyVars ELSE Forgotten(serving)
  /\ UNCHANGED <<isrOps, chainVars, insertVars, tickling>>

TickleNext ==
  /\ tickling /\ serving = ChainHead
  /\ TickleStep(delta)
  /\ UNCHANGED <<isrOps, least>>

-----------------------------------------------------------------------------
Next ==
  \/ \E w \in Watchdog :
       \/ \E units \in Interval : InsertBegin(w, units) \/ IsrInsert(w, units)
       \/ WatchdogRemove(w)
  \/ InsertNext
  \/ Tick \/ ServiceReturn \/ TickleNext

Spec == Init /\ [][Next]_vars

\* A tickle that has begun is finished, and the interrupts leave the thread
\* that inserts some time to run.
RunSpec ==
  /\ Spec
  /\ WF_vars(ServiceReturn) /\ WF_vars(TickleNext) /\ SF_vars(InsertNext)

\* The clock also goes on ticking.
FairSpec == RunSpec /\ SF_vars(Tick)

-----------------------------------------------------------------------------
Node == Watchdog \cup {ChainHead}

TypeOK ==
  /\ isrOps \in Handlers /\ chain \in Seq(Watchdog)
  /\ delta \in [Watchdog -> Nat]
  /\ wstate \in [Watchdog -> {"inactive", "being_inserted", "active"}]
  /\ inserting \in Node /\ serving \in Node /\ tickling \in BOOLEAN
  /\ iterator \in [current : Node, delta : Nat]
  /\ wanted \subseteq Watchdog
  /\ least \in [Watchdog -> 0 .. MaxInterval]

\* A watchdog that its user waits for is on the chain once, or on its way
\* there; one that was removed or has fired is not, whatever happened in the
\* window of its insertion.  _Watchdog_Remove of a watchdog that is being
\* inserted, followed by its insertion by the interrupt, is the case the state
\* WATCHDOG_BEING_INSERTED is for.
OnChainOnce ==
  /\ Cardinality(OnChain) = Len(chain)
  /\ OnChain \subseteq wanted
  /\ \A w \in wanted :
       w \in OnChain \/ (inserting = w /\ wstate[w] = "being_inserted")

\* The insertion goes on from a node of the chain, although the watchdog it
\* had come to may have fired or been removed in its window.
IteratorOnChain == inserting # ChainHead => iterator.current \in OnChain \cup {ChainHead}

\* The chain and the interrupted insertion keep together through whatever ticks,
\* insertions and removals do in the windows of _Watchdog_Insert_locked.
ChainConsistent == TypeOK /\ OnChainOnce /\ IteratorOnChain

\* What an insertion and a removal rely on: the chain has no watchdog twice, the
\* states say who is on it, who is being inserted and who is waited for, and the
\* iterator is at a node of the chain or its head, also when no insertion uses it.
StatesAgree ==
  \A w \in Watchdog : /\ wstate[w] = "active" <=> w \in OnChain
                      /\ wstate[w] = "being_inserted" => inserting = w
Awaited == wanted = {w \in Watchdog : wstate[w] # "inactive"}
IteratorPlaced == iterator.current \in OnChain \cup {ChainHead}
WatchdogInv == TypeOK /\ NoRepetition(chain) /\ StatesAgree /\ Awaited /\ IteratorPlaced

\* What keeps a watchdog from being early: the ticks that must still pass are no
\* more than those to its place on the chain, or, of the watchdog being inserted,
\* to the node its walk has come to and the rest that the walk has left.
EnoughTicks ==
  isrOps = {} =>
    /\ \A i \in DOMAIN chain : least[chain[i]] <= DueAt[i]
    /\ inserting # ChainHead /\ wstate[inserting] = "being_inserted" =>
         least[inserting] <= DueAt[Place(iterator.current)] + iterator.delta

\* A watchdog never fires before its interval has passed.
NeverEarly ==
  [][serving = ChainHead /\ serving' # ChainHead => least'[serving'] = 0]_vars

\* The same of systems whose handlers leave the chain alone: ticks in the window
\* of an insertion make no watchdog early.
TicksNeverEarly ==
  [][isrOps = {} /\ serving = ChainHead /\ serving' # ChainHead => least'[serving'] = 0]_vars

\* An insertion comes to its end, although ticks and removals in its window
\* send it back along the chain, as long as handlers do not insert watchdogs
\* before it again and again.
InsertEnds == "insert" \notin isrOps /\ inserting # ChainHead ~> inserting = ChainHead

\* A watchdog on the chain fires, unless it is removed, as long as handlers do
\* not remove its neighbours in the windows of one insertion after the other.
Fires == \A w \in Watchdog : "remove" \notin isrOps /\ w \in OnChain ~> w \notin OnChain
=============================================================================
