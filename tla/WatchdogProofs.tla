--------------------------- MODULE WatchdogProofs ---------------------------
(***************************************************************************)
(* Proofs about Watchdog: what ticks, insertions and removals in the       *)
(* windows of an insertion leave of the chain, for every set of watchdogs, *)
(* all intervals and whatever handlers do.                                 *)
(***************************************************************************)
EXTENDS Watchdog, OrderedQueueProofs, FiniteSetTheorems

-----------------------------------------------------------------------------
(***************************************************************************)
(* Sequences.                                                              *)
(***************************************************************************)

\* The places of a chain.
LEMMA Places ==
  ASSUME chain \in Seq(Watchdog)
  PROVE  /\ Len(chain) \in Nat /\ DOMAIN chain = 1 .. Len(chain)
         /\ \A i \in 1 .. Len(chain) : chain[i] \in Watchdog
         /\ OnChain \subseteq Watchdog
  BY DEF OnChain, ToSet

\* A chain without repetition has as many watchdogs as places.
LEMMA NoRepetitionCounts ==
  ASSUME chain \in Seq(Watchdog), NoRepetition(chain)
  PROVE  Cardinality(OnChain) = Len(chain)
<1> DEFINE n == Len(chain)
<1>1. n \in Nat /\ DOMAIN chain = 1 .. n /\ chain \in [1 .. n -> OnChain]
  BY Places DEF OnChain, ToSet
<1>2. IsFiniteSet(1 .. n) /\ Cardinality(1 .. n) = n
  <2>1. Cardinality(1 .. n) = IF 1 > n THEN 0 ELSE n - 1 + 1
    BY <1>1, FS_Interval
  <2>2. IsFiniteSet(1 .. n)
    BY <1>1, FS_Interval
  <2> QED BY <1>1, <2>1, <2>2
<1>3. chain \in Bijection(1 .. n, OnChain)
  <2>1. chain \in Injection(1 .. n, OnChain)
    <3>1. \A i, j \in 1 .. n : chain[i] = chain[j] => i = j
      BY <1>1 DEF NoRepetition
    <3> QED BY <1>1, <3>1 DEF Injection, IsInjective
  <2>2. chain \in Surjection(1 .. n, OnChain)
    BY <1>1 DEF OnChain, ToSet, Surjection
  <2> QED BY <2>1, <2>2 DEF Bijection
<1>4. Cardinality(1 .. n) = Cardinality(OnChain)
  BY <1>2, <1>3, FS_Bijection DEF ExistsBijection
<1> QED BY <1>2, <1>4

\* A watchdog put on the chain is on it once, with those that were there.
LEMMA ChainGrows ==
  ASSUME chain \in Seq(Watchdog), NoRepetition(chain), NEW w \in Watchdog, w \notin OnChain,
         NEW p \in 0 .. Len(chain), NEW d, ChainInsert(w, p, d)
  PROVE  /\ chain' \in Seq(Watchdog) /\ NoRepetition(chain') /\ OnChain' = OnChain \cup {w}
         /\ Inserts(chain, chain', w, p)
<1>1. p \in Nat /\ p <= Len(chain) /\ chain' = InsertAt(chain, p + 1, w)
  BY Places DEF ChainInsert
<1>2. chain' \in Seq(Watchdog) /\ Inserts(chain, chain', w, p)
  BY <1>1, InsertAtInserts
<1>3. ToSet(chain') = ToSet(chain) \cup {w} /\ NoRepetition(chain')
  BY <1>2, Grows DEF OnChain
<1> QED BY <1>2, <1>3 DEF OnChain

\* The place of a watchdog on the chain.
LEMMA PlaceOf ==
  ASSUME chain \in Seq(Watchdog), NEW w \in OnChain
  PROVE  Place(w) \in 1 .. Len(chain) /\ chain[Place(w)] = w
<1>1. w # ChainHead /\ DOMAIN chain = 1 .. Len(chain)
  BY Places, WatchdogAssumption
<1>2. \E i \in DOMAIN chain : chain[i] = w
  BY DEF OnChain, ToSet
<1>3. Place(w) = CHOOSE i \in DOMAIN chain : chain[i] = w
  BY <1>1 DEF Place
<1> QED BY <1>1, <1>2, <1>3

\* A watchdog taken off the chain leaves the others on it.
LEMMA ChainShrinks ==
  ASSUME chain \in Seq(Watchdog), NoRepetition(chain), NEW w \in OnChain,
         NEW d, RemoveIt(w, d)
  PROVE  /\ chain' \in Seq(Watchdog) /\ NoRepetition(chain') /\ OnChain' = OnChain \ {w}
         /\ Place(w) - 1 \in Nat /\ Inserts(chain', chain, w, Place(w) - 1)
<1> DEFINE p == Place(w) - 1
<1>1. p \in Nat /\ p < Len(chain) /\ p + 1 = Place(w) /\ chain[p + 1] = w
  <2>1. Place(w) \in 1 .. Len(chain) /\ chain[Place(w)] = w /\ Len(chain) \in Nat
    BY PlaceOf, Places
  <2>2. p + 1 = Place(w)
    BY <2>1
  <2> QED BY <2>1, <2>2
<1>2. chain' = RemoveAt(chain, p + 1)
  BY <1>1 DEF RemoveIt
<1> HIDE DEF p
<1>3. chain' \in Seq(Watchdog) /\ Inserts(chain', chain, w, p)
  BY <1>1, <1>2, RemoveAtInserts
<1>4. ToSet(chain') = ToSet(chain) \ {w} /\ NoRepetition(chain')
  BY <1>3, Shrinks
<1> QED BY <1>1, <1>3, <1>4 DEF OnChain, p

-----------------------------------------------------------------------------
(***************************************************************************)
(* What insertion and removal keep.                                        *)
(***************************************************************************)

\* The part of the invariant about the chain, its deltas and the iterator.
LEMMA Types ==
  ASSUME WatchdogInv
  PROVE  /\ chain \in Seq(Watchdog) /\ NoRepetition(chain) /\ OnChain \subseteq Watchdog
         /\ delta \in [Watchdog -> Nat]
         /\ wstate \in [Watchdog -> {"inactive", "being_inserted", "active"}]
         /\ iterator \in [current : Node, delta : Nat]
         /\ iterator.current \in OnChain \cup {ChainHead} /\ iterator.delta \in Nat
         /\ Len(chain) \in Nat /\ \A i \in 1 .. Len(chain) : chain[i] \in OnChain
<1>1. chain \in Seq(Watchdog) /\ iterator \in [current : Node, delta : Nat]
  BY DEF WatchdogInv, TypeOK
<1>2. iterator.delta \in Nat
  BY <1>1
<1>3. Len(chain) \in Nat /\ DOMAIN chain = 1 .. Len(chain) /\ OnChain \subseteq Watchdog
  BY <1>1, Places
<1>4. \A i \in 1 .. Len(chain) : chain[i] \in OnChain
  BY <1>3 DEF OnChain, ToSet
<1> QED BY <1>1, <1>2, <1>3, <1>4 DEF WatchdogInv, TypeOK, IteratorPlaced

LEMMA Distinct ==
  ASSUME WatchdogInv, NEW i \in 1 .. Len(chain), NEW j \in 1 .. Len(chain), i # j
  PROVE  chain[i] # chain[j]
<1>1. DOMAIN chain = 1 .. Len(chain) /\ NoRepetition(chain)
  BY Types, Lengths
<1> QED BY <1>1 DEF NoRepetition

\* A walk that ends behind place p with fewer ticks left than the next watchdog
\* has puts w on the chain and leaves no delta negative.
LEMMA InsertKeeps ==
  ASSUME WatchdogInv, NEW w \in Watchdog, w \notin OnChain, NEW p \in 0 .. Len(chain),
         NEW d \in Nat, p < Len(chain) => d < delta[chain[p + 1]], ChainInsert(w, p, d)
  PROVE  /\ chain' \in Seq(Watchdog) /\ NoRepetition(chain') /\ OnChain' = OnChain \cup {w}
         /\ delta' \in [Watchdog -> Nat]
         /\ wstate' = [wstate EXCEPT ![w] = "active"]
<1>1. chain' \in Seq(Watchdog) /\ NoRepetition(chain') /\ OnChain' = OnChain \cup {w}
  BY Types, ChainGrows
<1>2. ASSUME NEW v \in Watchdog
      PROVE  (IF v = w THEN d
              ELSE IF p < Len(chain) /\ v = chain[p + 1] THEN delta[v] - d
              ELSE delta[v]) \in Nat
  <2>1. delta[v] \in Nat
    BY Types
  <2>2. CASE p < Len(chain) /\ v = chain[p + 1]
    <3>1. d < delta[v]
      BY <2>2
    <3>2. delta[v] - d \in Nat
      BY <2>1, <3>1
    <3> QED BY <2>1, <3>2
  <2>3. CASE ~(p < Len(chain) /\ v = chain[p + 1])
    BY <2>1, <2>3
  <2> QED BY <2>2, <2>3
<1>3. delta' \in [Watchdog -> Nat]
  BY <1>2 DEF ChainInsert
<1> QED BY <1>1, <1>3 DEF ChainInsert

\* A removal takes w off the chain and leaves the iterator on it.
LEMMA RemoveKeeps ==
  ASSUME WatchdogInv, NEW w \in OnChain, NEW d \in [Watchdog -> Nat], RemoveIt(w, d)
  PROVE  /\ chain' \in Seq(Watchdog) /\ NoRepetition(chain') /\ OnChain' = OnChain \ {w}
         /\ delta' \in [Watchdog -> Nat]
         /\ wstate' = [wstate EXCEPT ![w] = "inactive"]
         /\ iterator' \in [current : Node, delta : Nat]
         /\ iterator'.current \in OnChain' \cup {ChainHead}
<1> DEFINE p == Place(w)
           previous == IF p = 1 THEN ChainHead ELSE chain[p - 1]
<1>1. chain' \in Seq(Watchdog) /\ NoRepetition(chain') /\ OnChain' = OnChain \ {w}
  BY Types, ChainShrinks
<1>2. p \in 1 .. Len(chain) /\ chain[p] = w /\ w \in Watchdog /\ w # ChainHead
  BY Types, PlaceOf, WatchdogAssumption
<1>3. delta' \in [Watchdog -> Nat]
  <2>1. ASSUME NEW v \in Watchdog
        PROVE  (IF v = w THEN 0
                ELSE IF p < Len(chain) /\ v = chain[p + 1] THEN d[v] + d[w]
                ELSE d[v]) \in Nat
    <3>1. d[v] \in Nat /\ d[w] \in Nat
      BY <1>2
    <3> QED BY <3>1
  <2> QED BY <2>1 DEF RemoveIt
<1>4. iterator' = IteratorWithout(w, d) /\ wstate' = [wstate EXCEPT ![w] = "inactive"]
  BY DEF RemoveIt
<1>5. previous \in OnChain' \cup {ChainHead}
  <2>1. CASE p # 1
    <3>0. Len(chain) \in Nat
      BY Types
    <3>1. p - 1 \in 1 .. Len(chain) /\ p - 1 # p
      BY <1>2, <2>1, <3>0
    <3>2. chain[p - 1] # chain[p]
      BY <1>2, <3>1, Distinct
    <3>3. chain[p - 1] \in OnChain
      BY <3>1, Types
    <3> QED BY <1>1, <1>2, <2>1, <3>2, <3>3
  <2> QED BY <2>1
<1>6. ASSUME NEW c \in OnChain' \cup {ChainHead}, NEW n \in Nat
      PROVE  LET r == [current |-> c, delta |-> n] IN
             r \in [current : Node, delta : Nat] /\ r.current \in OnChain' \cup {ChainHead}
  <2>1. c \in Node
    BY <1>1, Types DEF Node
  <2> QED BY <2>1
<1>7. CASE p < Len(chain) /\ iterator.current = chain[p + 1]
  <2>0. Len(chain) \in Nat /\ DOMAIN chain = 1 .. Len(chain)
    BY Types
  <2>1. p + 1 \in 1 .. Len(chain) /\ p + 1 # p
    BY <1>2, <1>7, <2>0
  <2>2. chain[p + 1] # chain[p]
    BY <1>2, <2>1, Distinct
  <2>3. iterator.current \in OnChain'
    BY <1>1, <1>2, <1>7, <2>1, <2>2, Types
  <2>4. d[w] \in Nat /\ iterator.delta + d[w] \in Nat
    BY <1>2, Types
  <2>5. iterator' = [iterator EXCEPT !.delta = @ + d[w]]
    BY <1>4, <1>7 DEF IteratorWithout
  <2>6. iterator' = [current |-> iterator.current, delta |-> iterator.delta + d[w]]
    BY <2>5, Types
  <2> QED BY <1>1, <1>3, <1>4, <1>6, <2>3, <2>4, <2>6
<1>8. CASE ~(p < Len(chain) /\ iterator.current = chain[p + 1]) /\ iterator.current = w
  <2> DEFINE n == iterator.delta + IF previous = ChainHead THEN 0 ELSE d[previous]
  <2>1. iterator' = [current |-> previous, delta |-> n]
    BY <1>4, <1>8 DEF IteratorWithout
  <2>2. previous \in Watchdog \cup {ChainHead}
    BY <1>1, <1>5, Types
  <2>3. n \in Nat
    BY <2>2, Types
  <2> HIDE DEF n, previous
  <2> QED BY <1>1, <1>3, <1>4, <1>5, <1>6, <2>1, <2>3
<1>9. CASE ~(p < Len(chain) /\ iterator.current = chain[p + 1]) /\ iterator.current # w
  <2>1. iterator' = iterator
    BY <1>4, <1>9 DEF IteratorWithout
  <2>2. iterator.current \in OnChain' \cup {ChainHead}
    BY <1>1, <1>9, Types
  <2> QED BY <1>1, <1>3, <1>4, <2>1, <2>2, Types
<1> QED BY <1>7, <1>8, <1>9

-----------------------------------------------------------------------------
(***************************************************************************)
(* The actions.                                                            *)
(***************************************************************************)

\* The invariant of the next state, from what an action says of each part.
LEMMA InvNext ==
  ASSUME WatchdogInv, isrOps' = isrOps,
         chain' \in Seq(Watchdog), NoRepetition(chain'), delta' \in [Watchdog -> Nat],
         wstate' \in [Watchdog -> {"inactive", "being_inserted", "active"}],
         inserting' \in Node, serving' \in Node, tickling' \in BOOLEAN,
         iterator' \in [current : Node, delta : Nat],
         iterator'.current \in OnChain' \cup {ChainHead},
         wanted' \subseteq Watchdog, least' \in [Watchdog -> 0 .. MaxInterval],
         StatesAgree', Awaited'
  PROVE  WatchdogInv'
  BY DEF WatchdogInv, TypeOK, IteratorPlaced, Node

\* The users' histories when w is asked for and when it is given up.
LEMMA HistoryTypes ==
  ASSUME WatchdogInv, NEW w \in Watchdog
  PROVE  /\ \A units \in Interval :
              Asked(w, units) => /\ wanted' = wanted \cup {w} /\ wanted' \subseteq Watchdog
                                 /\ least' \in [Watchdog -> 0 .. MaxInterval]
         /\ Forgotten(w) => /\ wanted' = wanted \ {w} /\ wanted' \subseteq Watchdog
                            /\ least' \in [Watchdog -> 0 .. MaxInterval]
<1>1. wanted \subseteq Watchdog /\ least \in [Watchdog -> 0 .. MaxInterval] /\ MaxInterval \in Nat
  BY WatchdogAssumption DEF WatchdogInv, TypeOK
<1>2. \A units \in Interval : units \in 0 .. MaxInterval
  BY <1>1 DEF Interval
<1>3. 0 \in 0 .. MaxInterval
  BY <1>1
<1> QED BY <1>1, <1>2, <1>3 DEF Asked, Forgotten

\* One section of the walk of an insertion, by a thread that has no other one.
LEMMA WalkKeeps ==
  ASSUME WatchdogInv, NEW w \in Watchdog, w \notin OnChain, inserting \in {ChainHead, w},
         NEW p \in 0 .. Len(chain), NEW d \in Nat, InsertWalk(w, p, d)
  PROVE  /\ chain' \in Seq(Watchdog) /\ NoRepetition(chain') /\ delta' \in [Watchdog -> Nat]
         /\ wstate' \in [Watchdog -> {"inactive", "being_inserted", "active"}]
         /\ inserting' \in Node /\ iterator' \in [current : Node, delta : Nat]
         /\ iterator'.current \in OnChain' \cup {ChainHead}
         /\ StatesAgree' /\ wstate'[w] # "inactive"
         /\ \A v \in Watchdog \ {w} : wstate'[v] = wstate[v]
<1>1. w # ChainHead /\ w \in Node /\ ChainHead \in Node
  BY WatchdogAssumption DEF Node
<1>2. \A v \in Watchdog \ {w} : wstate[v] # "being_inserted"
  BY WatchdogAssumption DEF WatchdogInv, StatesAgree
<1>3. CASE p < Len(chain) /\ d >= delta[chain[p + 1]]
  <2>1. /\ wstate' = [wstate EXCEPT ![w] = "being_inserted"] /\ inserting' = w
        /\ iterator' = [current |-> chain[p + 1], delta |-> d - delta[chain[p + 1]]]
        /\ chain' = chain /\ delta' = delta
    BY <1>3 DEF InsertWalk
  <2>2. p + 1 \in 1 .. Len(chain)
    BY <1>3, Types
  <2>3. chain[p + 1] \in OnChain /\ delta[chain[p + 1]] \in Nat
    BY <2>2, Types
  <2>4. d - delta[chain[p + 1]] \in Nat
    BY <1>3, <2>3
  <2>5. OnChain' = OnChain /\ (NoRepetition(chain') <=> NoRepetition(chain))
    BY <2>1 DEF OnChain
  <2>6. chain[p + 1] \in Node
    BY <2>3, Types DEF Node
  <2>7. iterator' \in [current : Node, delta : Nat] /\ iterator'.current \in OnChain' \cup {ChainHead}
    BY <2>1, <2>3, <2>4, <2>5, <2>6
  <2>8. StatesAgree'
    BY <1>2, <2>1, <2>5, Types DEF WatchdogInv, StatesAgree
  <2> QED BY <1>1, <2>1, <2>5, <2>7, <2>8, Types
<1>4. CASE ~(p < Len(chain) /\ d >= delta[chain[p + 1]])
  <2>1. ChainInsert(w, p, d) /\ inserting' = ChainHead /\ iterator' = NoIterator
    BY <1>4 DEF InsertWalk
  <2>2. p < Len(chain) => d < delta[chain[p + 1]]
    <3> SUFFICES ASSUME p < Len(chain) PROVE d < delta[chain[p + 1]]
      OBVIOUS
    <3>1. p + 1 \in 1 .. Len(chain)
      BY Types
    <3>2. delta[chain[p + 1]] \in Nat
      BY <3>1, Types
    <3> QED BY <1>4, <3>2
  <2>3. /\ chain' \in Seq(Watchdog) /\ NoRepetition(chain') /\ OnChain' = OnChain \cup {w}
        /\ delta' \in [Watchdog -> Nat] /\ wstate' = [wstate EXCEPT ![w] = "active"]
    BY <2>1, <2>2, InsertKeeps
  <2>4. iterator' \in [current : Node, delta : Nat] /\ iterator'.current = ChainHead
    BY <1>1, <2>1 DEF NoIterator
  <2>5. StatesAgree'
    BY <1>2, <2>3, Types DEF WatchdogInv, StatesAgree
  <2> QED BY <1>1, <2>1, <2>3, <2>4, <2>5, Types
<1> QED BY <1>3, <1>4

LEMMA InsertBeginKeeps ==
  ASSUME WatchdogInv, NEW w \in Watchdog, NEW units \in Interval, InsertBegin(w, units)
  PROVE  WatchdogInv'
<1>1. inserting = ChainHead /\ wstate[w] = "inactive" /\ w \notin OnChain
  BY DEF InsertBegin, InThread, WatchdogInv, StatesAgree
<1>2. 0 \in 0 .. Len(chain) /\ units \in Nat
  BY Types DEF Interval
<1>3. InsertWalk(w, 0, units) /\ Asked(w, units) /\ isrOps' = isrOps
      /\ tickling' = tickling /\ serving' = serving
  BY DEF InsertBegin, tickVars
<1>4. /\ chain' \in Seq(Watchdog) /\ NoRepetition(chain') /\ delta' \in [Watchdog -> Nat]
      /\ wstate' \in [Watchdog -> {"inactive", "being_inserted", "active"}]
      /\ inserting' \in Node /\ iterator' \in [current : Node, delta : Nat]
      /\ iterator'.current \in OnChain' \cup {ChainHead}
      /\ StatesAgree' /\ wstate'[w] # "inactive"
      /\ \A v \in Watchdog \ {w} : wstate'[v] = wstate[v]
  BY <1>1, <1>2, <1>3, WalkKeeps
<1>5. /\ wanted' = wanted \cup {w} /\ wanted' \subseteq Watchdog
      /\ least' \in [Watchdog -> 0 .. MaxInterval]
  BY <1>3, HistoryTypes
<1>6. Awaited'
  BY <1>4, <1>5 DEF WatchdogInv, Awaited
<1>7. serving' \in Node /\ tickling' \in BOOLEAN
  BY <1>3 DEF WatchdogInv, TypeOK
<1> QED BY <1>3, <1>4, <1>5, <1>6, <1>7, InvNext

LEMMA InsertNextKeeps ==
  ASSUME WatchdogInv, InsertNext
  PROVE  WatchdogInv'
<1>1. /\ inserting \in Watchdog /\ isrOps' = isrOps /\ tickling' = tickling /\ serving' = serving
      /\ wanted' = wanted /\ least' = least
  BY DEF InsertNext, WatchdogInv, TypeOK, Node, tickVars, historyVars
<1>2. /\ serving' \in Node /\ tickling' \in BOOLEAN /\ wanted' \subseteq Watchdog
      /\ least' \in [Watchdog -> 0 .. MaxInterval]
  BY <1>1 DEF WatchdogInv, TypeOK
<1>3. CASE wstate[inserting] = "being_inserted"
  <2> DEFINE p == Place(iterator.current)
  <2>1. InsertWalk(inserting, p, iterator.delta) /\ inserting \notin OnChain
    BY <1>1, <1>3 DEF InsertNext, WatchdogInv, StatesAgree
  <2>2. p \in 0 .. Len(chain)
    <3>1. CASE iterator.current = ChainHead
      BY <3>1, Types DEF Place
    <3>2. CASE iterator.current \in OnChain
      BY <3>2, Types, PlaceOf
    <3> QED BY <3>1, <3>2, Types
  <2>3. iterator.delta \in Nat
    BY Types
  <2> HIDE DEF p
  <2>4. /\ chain' \in Seq(Watchdog) /\ NoRepetition(chain') /\ delta' \in [Watchdog -> Nat]
        /\ wstate' \in [Watchdog -> {"inactive", "being_inserted", "active"}]
        /\ inserting' \in Node /\ iterator' \in [current : Node, delta : Nat]
        /\ iterator'.current \in OnChain' \cup {ChainHead}
        /\ StatesAgree' /\ wstate'[inserting] # "inactive"
        /\ \A v \in Watchdog \ {inserting} : wstate'[v] = wstate[v]
    BY <1>1, <2>1, <2>2, <2>3, WalkKeeps
  <2>5. Awaited'
    BY <1>1, <1>3, <2>4 DEF WatchdogInv, Awaited
  <2> QED BY <1>1, <1>2, <2>4, <2>5, InvNext
<1>4. CASE wstate[inserting] # "being_inserted"
  <2>1. /\ inserting' = ChainHead /\ iterator' = NoIterator
        /\ chain' = chain /\ delta' = delta /\ wstate' = wstate
    BY <1>4 DEF InsertNext, chainVars
  <2>2. OnChain' = OnChain /\ (NoRepetition(chain') <=> NoRepetition(chain))
    BY <2>1 DEF OnChain
  <2>3. StatesAgree'
    BY <1>4, <2>1, <2>2 DEF WatchdogInv, StatesAgree
  <2>4. ChainHead \in Node /\ NoIterator \in [current : Node, delta : Nat] /\ NoIterator.current = ChainHead
    BY DEF Node, NoIterator
  <2>5. Awaited'
    BY <1>1, <2>1 DEF WatchdogInv, Awaited
  <2> QED BY <1>1, <1>2, <2>1, <2>2, <2>3, <2>4, <2>5, Types, InvNext
<1> QED BY <1>3, <1>4

LEMMA IsrInsertKeeps ==
  ASSUME WatchdogInv, NEW w \in Watchdog, NEW units \in Interval, IsrInsert(w, units)
  PROVE  WatchdogInv'
<1>1. PICK p \in 0 .. Len(chain), d \in 0 .. units :
        /\ p < Len(chain) => d < delta[chain[p + 1]]
        /\ ChainInsert(w, p, d) /\ iterator' = IteratorBehind(w, p)
  BY DEF IsrInsert
<1>2. /\ wstate[w] = "inactive" /\ w \notin OnChain /\ Asked(w, units) /\ isrOps' = isrOps
      /\ inserting' = inserting /\ tickling' = tickling /\ serving' = serving
  BY DEF IsrInsert, tickVars, WatchdogInv, StatesAgree
<1>3. d \in Nat
  BY DEF Interval
<1>4. /\ chain' \in Seq(Watchdog) /\ NoRepetition(chain') /\ OnChain' = OnChain \cup {w}
      /\ delta' \in [Watchdog -> Nat] /\ wstate' = [wstate EXCEPT ![w] = "active"]
  BY <1>1, <1>2, <1>3, InsertKeeps
<1>5. /\ wanted' = wanted \cup {w} /\ wanted' \subseteq Watchdog
      /\ least' \in [Watchdog -> 0 .. MaxInterval]
  BY <1>2, HistoryTypes
<1>6. iterator' \in [current : Node, delta : Nat] /\ iterator'.current \in OnChain' \cup {ChainHead}
  <2>1. iterator' = iterator \/ iterator' = [iterator EXCEPT !.current = w]
    BY <1>1 DEF IteratorBehind
  <2>2. w \in Node
    BY DEF Node
  <2> QED BY <1>4, <2>1, <2>2, Types
<1>7. StatesAgree' /\ Awaited'
  BY <1>2, <1>4, <1>5, Types DEF WatchdogInv, StatesAgree, Awaited
<1>8. /\ wstate' \in [Watchdog -> {"inactive", "being_inserted", "active"}]
      /\ inserting' \in Node /\ serving' \in Node /\ tickling' \in BOOLEAN
  BY <1>2, <1>4 DEF WatchdogInv, TypeOK
<1> QED BY <1>2, <1>4, <1>5, <1>6, <1>7, <1>8, InvNext

LEMMA RemoveActionKeeps ==
  ASSUME WatchdogInv, NEW w \in Watchdog, WatchdogRemove(w)
  PROVE  WatchdogInv'
<1>1. /\ Forgotten(w) /\ isrOps' = isrOps
      /\ inserting' = inserting /\ tickling' = tickling /\ serving' = serving
  BY DEF WatchdogRemove, tickVars
<1>2. /\ wanted' = wanted \ {w} /\ wanted' \subseteq Watchdog
      /\ least' \in [Watchdog -> 0 .. MaxInterval]
  BY <1>1, HistoryTypes
<1>3. inserting' \in Node /\ serving' \in Node /\ tickling' \in BOOLEAN
  BY <1>1 DEF WatchdogInv, TypeOK
<1>4. CASE wstate[w] = "active" /\ RemoveIt(w, delta)
  <2>1. w \in OnChain
    BY <1>4 DEF WatchdogInv, StatesAgree
  <2>2. /\ chain' \in Seq(Watchdog) /\ NoRepetition(chain') /\ OnChain' = OnChain \ {w}
        /\ delta' \in [Watchdog -> Nat]
        /\ wstate' = [wstate EXCEPT ![w] = "inactive"]
        /\ iterator' \in [current : Node, delta : Nat]
        /\ iterator'.current \in OnChain' \cup {ChainHead}
    BY <1>4, <2>1, Types, RemoveKeeps
  <2>3. StatesAgree' /\ Awaited'
    BY <1>1, <1>2, <2>2, Types DEF WatchdogInv, StatesAgree, Awaited
  <2>4. wstate' \in [Watchdog -> {"inactive", "being_inserted", "active"}]
    BY <2>2, Types
  <2> QED BY <1>1, <1>2, <1>3, <2>2, <2>3, <2>4, InvNext
<1>5. CASE /\ wstate[w] = "being_inserted"
           /\ wstate' = [wstate EXCEPT ![w] = "inactive"]
           /\ chain' = chain /\ delta' = delta /\ iterator' = iterator
  <2>1. OnChain' = OnChain /\ (NoRepetition(chain') <=> NoRepetition(chain))
    BY <1>5 DEF OnChain
  <2>2. StatesAgree' /\ Awaited'
    BY <1>1, <1>2, <1>5, <2>1, Types DEF WatchdogInv, StatesAgree, Awaited
  <2>3. wstate' \in [Watchdog -> {"inactive", "being_inserted", "active"}]
    BY <1>5, Types
  <2> QED BY <1>1, <1>2, <1>3, <1>5, <2>1, <2>2, <2>3, Types, InvNext
<1> QED BY <1>4, <1>5 DEF WatchdogRemove

\* One look at the first watchdog, with the deltas d.
LEMMA TickleKeeps ==
  ASSUME WatchdogInv, NEW d \in [Watchdog -> Nat], TickleStep(d), isrOps' = isrOps,
         least' \in [Watchdog -> 0 .. MaxInterval]
  PROVE  WatchdogInv'
<1>1. CASE chain # <<>> /\ d[chain[1]] = 0
  <2> DEFINE w == chain[1]
  <2>1. w \in OnChain /\ w \in Watchdog
    <3>1. 1 \in 1 .. Len(chain)
      BY <1>1, Types
    <3> QED BY <3>1, Types
  <2>2. /\ RemoveIt(w, d) /\ serving' = w /\ tickling' = TRUE
        /\ wanted' = wanted \ {w} /\ inserting' = inserting
    BY <1>1 DEF TickleStep
  <2> HIDE DEF w
  <2>3. /\ chain' \in Seq(Watchdog) /\ NoRepetition(chain') /\ OnChain' = OnChain \ {w}
        /\ delta' \in [Watchdog -> Nat]
        /\ wstate' = [wstate EXCEPT ![w] = "inactive"]
        /\ iterator' \in [current : Node, delta : Nat]
        /\ iterator'.current \in OnChain' \cup {ChainHead}
    BY <2>1, <2>2, RemoveKeeps
  <2>4. StatesAgree' /\ Awaited'
    BY <2>1, <2>2, <2>3, Types DEF WatchdogInv, StatesAgree, Awaited
  <2>5. wstate' \in [Watchdog -> {"inactive", "being_inserted", "active"}]
    BY <2>3, Types
  <2>6. /\ inserting' \in Node /\ serving' \in Node /\ tickling' \in BOOLEAN
        /\ wanted' \subseteq Watchdog
    BY <2>1, <2>2 DEF WatchdogInv, TypeOK, Node
  <2> QED BY <2>3, <2>4, <2>5, <2>6, InvNext
<1>2. CASE ~(chain # <<>> /\ d[chain[1]] = 0)
  <2>1. /\ delta' = d /\ serving' = ChainHead /\ tickling' = FALSE /\ chain' = chain
        /\ wstate' = wstate /\ inserting' = inserting /\ iterator' = iterator /\ wanted' = wanted
    BY <1>2 DEF TickleStep, insertVars
  <2>2. OnChain' = OnChain /\ (NoRepetition(chain') <=> NoRepetition(chain))
    BY <2>1 DEF OnChain
  <2>3. StatesAgree' /\ Awaited'
    BY <2>1, <2>2 DEF WatchdogInv, StatesAgree, Awaited
  <2>4. /\ inserting' \in Node /\ serving' \in Node /\ tickling' \in BOOLEAN
        /\ wanted' \subseteq Watchdog
    BY <2>1 DEF WatchdogInv, TypeOK, Node
  <2> QED BY <2>1, <2>2, <2>3, <2>4, Types, InvNext
<1> QED BY <1>1, <1>2

LEMMA CountDownTyped ==
  ASSUME WatchdogInv
  PROVE  CountDown \in [Watchdog -> Nat]
<1>1. CASE chain # <<>> /\ delta[chain[1]] > 0
  <2>1. 1 \in 1 .. Len(chain)
    BY <1>1, Types
  <2>2. chain[1] \in Watchdog /\ delta[chain[1]] \in Nat
    BY <2>1, Types
  <2>3. delta[chain[1]] - 1 \in Nat
    BY <1>1, <2>2
  <2> QED BY <1>1, <2>2, <2>3, Types DEF CountDown
<1> QED BY <1>1, Types DEF CountDown

LEMMA TickKeeps ==
  ASSUME WatchdogInv, Tick
  PROVE  WatchdogInv'
<1>1. TickleStep(CountDown) /\ isrOps' = isrOps
  BY DEF Tick
<1>2. CountDown \in [Watchdog -> Nat]
  BY CountDownTyped
<1>3. least' \in [Watchdog -> 0 .. MaxInterval]
  <2>1. least \in [Watchdog -> 0 .. MaxInterval] /\ MaxInterval \in Nat
    BY WatchdogAssumption DEF WatchdogInv, TypeOK
  <2>2. \A w \in Watchdog : (IF least[w] > 0 THEN least[w] - 1 ELSE 0) \in 0 .. MaxInterval
    <3> SUFFICES ASSUME NEW w \in Watchdog
                 PROVE  (IF least[w] > 0 THEN least[w] - 1 ELSE 0) \in 0 .. MaxInterval
      OBVIOUS
    <3>1. least[w] \in 0 .. MaxInterval
      BY <2>1
    <3> QED BY <2>1, <3>1
  <2> QED BY <2>2 DEF Tick
<1> QED BY <1>1, <1>2, <1>3, TickleKeeps

LEMMA TickleNextKeeps ==
  ASSUME WatchdogInv, TickleNext
  PROVE  WatchdogInv'
<1>1. TickleStep(delta) /\ isrOps' = isrOps /\ least' \in [Watchdog -> 0 .. MaxInterval]
  BY DEF TickleNext, WatchdogInv, TypeOK
<1> QED BY <1>1, Types, TickleKeeps

LEMMA ServiceReturnKeeps ==
  ASSUME WatchdogInv, ServiceReturn
  PROVE  WatchdogInv'
<1>1. /\ serving \in Watchdog /\ serving' = ChainHead /\ isrOps' = isrOps /\ chain' = chain
      /\ delta' = delta /\ wstate' = wstate /\ inserting' = inserting /\ iterator' = iterator
      /\ tickling' = tickling
  BY DEF ServiceReturn, chainVars, insertVars, WatchdogInv, TypeOK, Node
<1>2. /\ wanted' = wanted /\ wanted' \subseteq Watchdog
      /\ least' \in [Watchdog -> 0 .. MaxInterval]
  <2>1. CASE serving \in wanted
    BY <2>1 DEF ServiceReturn, historyVars, WatchdogInv, TypeOK
  <2>2. CASE serving \notin wanted
    <3>1. Forgotten(serving)
      BY <2>2 DEF ServiceReturn
    <3> QED BY <1>1, <2>2, <3>1, HistoryTypes
  <2> QED BY <2>1, <2>2
<1>3. OnChain' = OnChain /\ (NoRepetition(chain') <=> NoRepetition(chain))
  BY <1>1 DEF OnChain
<1>4. StatesAgree' /\ Awaited'
  BY <1>1, <1>2, <1>3 DEF WatchdogInv, StatesAgree, Awaited
<1>5. inserting' \in Node /\ serving' \in Node /\ tickling' \in BOOLEAN
  BY <1>1 DEF WatchdogInv, TypeOK, Node
<1> QED BY <1>1, <1>2, <1>3, <1>4, <1>5, Types, InvNext

-----------------------------------------------------------------------------
LEMMA InitInv ==
  ASSUME Init
  PROVE  WatchdogInv
<1>1. chain = <<>> /\ DOMAIN chain = {} /\ OnChain = {}
  BY DEF Init, OnChain, ToSet
<1>2. MaxInterval \in Nat /\ 0 \in 0 .. MaxInterval
  BY WatchdogAssumption
<1>3. TypeOK
  <2>1. <<>> \in Seq(Watchdog) /\ NoIterator \in [current : Node, delta : Nat]
    BY DEF NoIterator, Node
  <2> QED BY <1>2, <2>1 DEF Init, TypeOK, Node
<1>4. NoRepetition(chain) /\ StatesAgree /\ Awaited
  BY <1>1 DEF Init, NoRepetition, StatesAgree, Awaited
<1>5. IteratorPlaced
  BY DEF Init, IteratorPlaced, NoIterator
<1> QED BY <1>3, <1>4, <1>5 DEF WatchdogInv

LEMMA NextInv ==
  ASSUME WatchdogInv, [Next]_vars
  PROVE  WatchdogInv'
<1>1. ASSUME NEW w \in Watchdog, NEW units \in Interval, InsertBegin(w, units)
      PROVE  WatchdogInv'
  BY <1>1, InsertBeginKeeps
<1>2. ASSUME NEW w \in Watchdog, NEW units \in Interval, IsrInsert(w, units)
      PROVE  WatchdogInv'
  BY <1>2, IsrInsertKeeps
<1>3. ASSUME NEW w \in Watchdog, WatchdogRemove(w) PROVE WatchdogInv'
  BY <1>3, RemoveActionKeeps
<1>4. CASE InsertNext
  BY <1>4, InsertNextKeeps
<1>5. CASE Tick
  BY <1>5, TickKeeps
<1>6. CASE ServiceReturn
  BY <1>6, ServiceReturnKeeps
<1>7. CASE TickleNext
  BY <1>7, TickleNextKeeps
<1>8. CASE UNCHANGED vars
  <2>1. /\ isrOps' = isrOps /\ chain' = chain /\ delta' = delta /\ wstate' = wstate
        /\ inserting' = inserting /\ iterator' = iterator /\ tickling' = tickling
        /\ serving' = serving /\ wanted' = wanted /\ least' = least
    BY <1>8 DEF vars, chainVars, insertVars, tickVars, historyVars
  <2> QED BY <2>1 DEF WatchdogInv, TypeOK, NoRepetition, StatesAgree, Awaited, IteratorPlaced,
                       OnChain, Node
<1> QED BY <1>1, <1>2, <1>3, <1>4, <1>5, <1>6, <1>7, <1>8 DEF Next

\* The inductive invariant says what the chain promises.
LEMMA InvConsistent ==
  ASSUME WatchdogInv
  PROVE  ChainConsistent
<1>1. Cardinality(OnChain) = Len(chain)
  BY Types, NoRepetitionCounts
<1>2. \A w \in wanted : w \in OnChain \/ (inserting = w /\ wstate[w] = "being_inserted")
  BY DEF WatchdogInv, TypeOK, Awaited, StatesAgree
<1>3. OnChain \subseteq wanted
  BY Types DEF WatchdogInv, Awaited, StatesAgree
<1> QED BY <1>1, <1>2, <1>3
        DEF ChainConsistent, OnChainOnce, IteratorOnChain, WatchdogInv, IteratorPlaced

\* Whatever ticks, handlers and routines do in the windows of an insertion, a
\* watchdog that is waited for is on the chain once or on its way there, one that
\* fired or was removed is not, and the walk goes on from a node of the chain:
\* what the fix-ups of _Watchdog_Insert_fixup and _Watchdog_Remove_it and the
\* state WATCHDOG_BEING_INSERTED are for, with any number of watchdogs.
THEOREM WatchdogConsistent == Spec => []ChainConsistent
<1>1. Init => WatchdogInv
  BY InitInv
<1>2. WatchdogInv /\ [Next]_vars => WatchdogInv'
  BY NextInv
<1>3. WatchdogInv => ChainConsistent
  BY InvConsistent
<1> QED BY <1>1, <1>2, <1>3, PTL DEF Spec
-----------------------------------------------------------------------------
(***************************************************************************)
(* No watchdog is early, in systems whose handlers leave the chain alone.  *)
(* The ticks that must still pass before a watchdog fires stay within      *)
(* those to its place.                                                     *)
(***************************************************************************)

\* The place of a node of the chain s.
PlaceIn(s, n) == IF n = ChainHead THEN 0 ELSE CHOOSE i \in DOMAIN s : s[i] = n

\* On the chain s with the deltas d, no watchdog is closer than l says; nor is n,
\* whose walk is at the node of it.
Within(s, d, l) == \A i \in 1 .. Len(s) : l[s[i]] <= Ticks(s, d)[i]
WithinWalk(s, d, it, n) == n <= Ticks(s, d)[PlaceIn(s, it.current)] + it.delta

Walking == inserting # ChainHead /\ wstate[inserting] = "being_inserted"

LEMMA EnoughTicksMeans ==
  ASSUME WatchdogInv
  PROVE  EnoughTicks <=>
           (isrOps = {} => /\ Within(chain, delta, least)
                           /\ Walking => WithinWalk(chain, delta, iterator, least[inserting]))
<1>1. DOMAIN chain = 1 .. Len(chain)
  BY Types, Lengths
<1>2. Place(iterator.current) = PlaceIn(chain, iterator.current)
  BY DEF Place, PlaceIn
<1> QED BY <1>1, <1>2 DEF EnoughTicks, DueAt, Within, WithinWalk, Walking

LEMMA EnoughTicksNext ==
  ASSUME chain' \in Seq(Watchdog),
         isrOps' = {} => /\ Within(chain', delta', least')
                         /\ Walking' => WithinWalk(chain', delta', iterator', least'[inserting'])
  PROVE  EnoughTicks'
<1>1. DOMAIN chain' = 1 .. Len(chain')
  BY Lengths
<1>2. Place(iterator.current)' = PlaceIn(chain', iterator'.current)
  BY DEF Place, PlaceIn
<1> QED BY <1>1, <1>2 DEF EnoughTicks, DueAt, Within, WithinWalk, Walking

\* The ticks to the places of the chain.
LEMMA DueAtSums ==
  ASSUME WatchdogInv
  PROVE  /\ DueAt \in [0 .. Len(chain) -> Nat] /\ DueAt[0] = 0
         /\ \A i \in 1 .. Len(chain) : DueAt[i] = DueAt[i - 1] + delta[chain[i]]
<1>1. chain \in Seq(Watchdog) /\ delta \in [Watchdog -> Nat]
  BY Types
<1> QED BY <1>1, TicksSum DEF DueAt

\* On a chain without repetition a node has one place.
LEMMA OnePlace ==
  ASSUME NEW s \in Seq(Watchdog), NoRepetition(s), NEW i \in 1 .. Len(s)
  PROVE  PlaceIn(s, s[i]) = i
<1>1. s[i] # ChainHead /\ i \in DOMAIN s /\ DOMAIN s = 1 .. Len(s)
  BY Lengths, WatchdogAssumption
<1>2. PlaceIn(s, s[i]) = CHOOSE j \in DOMAIN s : s[j] = s[i]
  BY <1>1 DEF PlaceIn
<1>3. \A j \in DOMAIN s : s[j] = s[i] => j = i
  BY <1>1 DEF NoRepetition
<1> QED BY <1>1, <1>2, <1>3

\* The ticks of a watchdog that is not on the chain do not matter to those on it.
LEMMA WithinOthers ==
  ASSUME NEW s \in Seq(Watchdog), NEW d, NEW w, w \notin ToSet(s), NEW l, NEW m, Within(s, d, l),
         \A v \in Watchdog : v # w => m[v] = l[v]
  PROVE  Within(s, d, m)
<1> SUFFICES ASSUME NEW i \in 1 .. Len(s) PROVE m[s[i]] <= Ticks(s, d)[i]
  BY DEF Within
<1>1. i \in DOMAIN s /\ s[i] \in Watchdog
  BY Lengths
<1>2. s[i] # w
  BY <1>1 DEF ToSet
<1> QED BY <1>1, <1>2 DEF Within

\* The chain with w more, behind place p and d ticks after it.
LEMMA WithinMore ==
  ASSUME NEW s, NEW r, NEW w, NEW p, NEW c, NEW d, Shares(Watchdog, s, r, w, p, c, d),
         NEW l, Within(s, c, l), l[w] <= Ticks(s, c)[p] + d[w]
  PROVE  Within(r, d, l)
<1>0. s \in Seq(Watchdog) /\ r \in Seq(Watchdog) /\ Inserts(s, r, w, p)
  BY DEF Shares
<1> SUFFICES ASSUME NEW j \in 1 .. Len(r) PROVE l[r[j]] <= Ticks(r, d)[j]
  BY DEF Within
<1>1. /\ Ticks(r, d)[p + 1] = Ticks(s, c)[p] + d[w]
      /\ \A i \in 1 .. Len(s) : Ticks(r, d)[Shift(p, i)] = Ticks(s, c)[i]
  BY TicksSplit
<1>2. j \in DOMAIN r /\ DOMAIN s = 1 .. Len(s)
  BY <1>0, Lengths
<1>3. CASE j = p + 1
  BY <1>0, <1>1, <1>3 DEF Inserts
<1>4. ASSUME NEW i \in DOMAIN s, j = Shift(p, i) PROVE l[r[j]] <= Ticks(r, d)[j]
  <2>1. r[j] = s[i]
    BY <1>0, <1>4, InsertsPlaces
  <2>2. Ticks(r, d)[j] = Ticks(s, c)[i]
    BY <1>1, <1>2, <1>4
  <2>3. l[s[i]] <= Ticks(s, c)[i]
    BY <1>2 DEF Within
  <2> QED BY <2>1, <2>2, <2>3
<1>5. j = p + 1 \/ \E i \in DOMAIN s : j = Shift(p, i)
  BY <1>0, <1>2, InsertsPlaces
<1> QED BY <1>3, <1>4, <1>5

\* The chain r without w, whose ticks the next watchdog took over.
LEMMA WithinLess ==
  ASSUME NEW s, NEW r, NEW w, NEW p, NEW c, NEW d, Shares(Watchdog, s, r, w, p, c, d),
         NEW l, Within(r, d, l)
  PROVE  Within(s, c, l)
<1>0. s \in Seq(Watchdog) /\ r \in Seq(Watchdog) /\ Inserts(s, r, w, p)
  BY DEF Shares
<1> SUFFICES ASSUME NEW i \in 1 .. Len(s) PROVE l[s[i]] <= Ticks(s, c)[i]
  BY DEF Within
<1>1. Ticks(r, d)[Shift(p, i)] = Ticks(s, c)[i]
  BY TicksSplit
<1>2. i \in DOMAIN s /\ DOMAIN r = 1 .. Len(r)
  BY <1>0, Lengths
<1>3. Shift(p, i) \in DOMAIN r /\ r[Shift(p, i)] = s[i]
  BY <1>0, <1>2, InsertsPlaces
<1>4. l[r[Shift(p, i)]] <= Ticks(r, d)[Shift(p, i)]
  BY <1>2, <1>3 DEF Within
<1> QED BY <1>1, <1>3, <1>4

-----------------------------------------------------------------------------
\* What an insertion and a removal do to the deltas.
LEMMA InsertShares ==
  ASSUME WatchdogInv, NEW w \in Watchdog, w \notin OnChain, NEW p \in 0 .. Len(chain),
         NEW d \in Nat, p < Len(chain) => d < delta[chain[p + 1]], ChainInsert(w, p, d)
  PROVE  Shares(Watchdog, chain, chain', w, p, delta, delta') /\ delta'[w] = d
<1>1. /\ chain' \in Seq(Watchdog) /\ Inserts(chain, chain', w, p)
      /\ delta' \in [Watchdog -> Nat]
  BY Types, ChainGrows, InsertKeeps
<1>2. \A v \in Watchdog : delta'[v] = IF v = w THEN d
                                    ELSE IF p < Len(chain) /\ v = chain[p + 1] THEN delta[v] - d
                                    ELSE delta[v]
  BY DEF ChainInsert
<1>3. ASSUME NEW i \in 1 .. Len(chain)
      PROVE  /\ chain[i] \in Watchdog /\ chain[i] # w /\ delta[chain[i]] \in Nat
             /\ i # p + 1 /\ p < Len(chain) => chain[i] # chain[p + 1]
  <2>1. chain[i] \in Watchdog /\ chain[i] # w /\ delta[chain[i]] \in Nat
    BY Types
  <2>2. ASSUME i # p + 1, p < Len(chain) PROVE chain[i] # chain[p + 1]
    <3>1. p + 1 \in 1 .. Len(chain)
      BY <2>2, Types
    <3> QED BY <2>2, <3>1, Distinct
  <2> QED BY <2>1, <2>2
<1>4. ASSUME NEW i \in 1 .. Len(chain), i # p + 1 PROVE delta'[chain[i]] = delta[chain[i]]
  BY <1>2, <1>3, <1>4
<1>5. ASSUME p < Len(chain) PROVE delta'[w] + delta'[chain[p + 1]] = delta[chain[p + 1]]
  <2>1. p + 1 \in 1 .. Len(chain)
    BY <1>5, Types
  <2>2. delta'[w] = d /\ delta'[chain[p + 1]] = delta[chain[p + 1]] - d
    BY <1>2, <1>3, <1>5, <2>1
  <2>3. delta[chain[p + 1]] \in Nat
    BY <1>3, <2>1
  <2> QED BY <2>2, <2>3
<1>6. delta'[w] = d
  BY <1>2
<1> QED BY <1>1, <1>4, <1>5, <1>6, Types DEF Shares

LEMMA RemoveShares ==
  ASSUME WatchdogInv, NEW w \in OnChain, NEW d \in [Watchdog -> Nat], RemoveIt(w, d)
  PROVE  Shares(Watchdog, chain', chain, w, Place(w) - 1, delta', d)
<1> DEFINE p == Place(w) - 1
<1>1. /\ chain' \in Seq(Watchdog) /\ NoRepetition(chain') /\ p \in Nat
      /\ Inserts(chain', chain, w, p) /\ delta' \in [Watchdog -> Nat]
  BY Types, ChainShrinks, RemoveKeeps
<1>2. /\ w \in Watchdog /\ Len(chain) = Len(chain') + 1 /\ Len(chain') \in Nat
      /\ \A i \in p + 1 .. Len(chain') : chain[i + 1] = chain'[i]
  BY <1>1, Types, Lengths DEF Inserts
<1>3. \A v \in Watchdog : delta'[v] = IF v = w THEN 0
                                    ELSE IF p + 1 < Len(chain) /\ v = chain[(p + 1) + 1]
                                    THEN d[v] + d[w] ELSE d[v]
  <2>1. Place(w) = p + 1
    <3>1. Place(w) \in 1 .. Len(chain)
      BY PlaceOf, Types
    <3> QED BY <3>1
  <2> HIDE DEF p
  <2> QED BY <2>1 DEF RemoveIt
<1> HIDE DEF p
<1>4. ASSUME NEW i \in 1 .. Len(chain')
      PROVE  /\ chain'[i] \in Watchdog /\ chain'[i] # w /\ d[chain'[i]] \in Nat
             /\ i # p + 1 /\ p < Len(chain') => chain'[i] # chain'[p + 1]
  <2>1. i \in DOMAIN chain' /\ chain'[i] \in Watchdog
    BY <1>1, Lengths
  <2>2. chain'[i] # w
    <3>1. w \notin ToSet(chain')
      BY <1>1, Shrinks, Types
    <3> QED BY <2>1, <3>1 DEF ToSet
  <2>3. ASSUME i # p + 1, p < Len(chain') PROVE chain'[i] # chain'[p + 1]
    <3>1. p + 1 \in DOMAIN chain'
      BY <1>1, <1>2, <2>3, Lengths
    <3> QED BY <1>1, <2>1, <2>3, <3>1 DEF NoRepetition
  <2> QED BY <2>1, <2>2, <2>3
<1>5. ASSUME p < Len(chain') PROVE p + 1 < Len(chain) /\ chain[(p + 1) + 1] = chain'[p + 1]
  <2>1. p + 1 \in p + 1 .. Len(chain') /\ p + 1 < Len(chain)
    BY <1>1, <1>2, <1>5
  <2> QED BY <1>2, <2>1
<1>6. p + 1 < Len(chain) => p < Len(chain')
  BY <1>1, <1>2
<1>7. ASSUME NEW i \in 1 .. Len(chain'), i # p + 1 PROVE d[chain'[i]] = delta'[chain'[i]]
  BY <1>3, <1>4, <1>5, <1>6, <1>7
<1>8. ASSUME p < Len(chain') PROVE d[w] + d[chain'[p + 1]] = delta'[chain'[p + 1]]
  <2>1. p + 1 \in 1 .. Len(chain')
    BY <1>1, <1>2, <1>8
  <2>2. delta'[chain'[p + 1]] = d[chain'[p + 1]] + d[w]
    BY <1>3, <1>4, <1>5, <1>8, <2>1
  <2>3. d[w] \in Nat /\ d[chain'[p + 1]] \in Nat
    BY <1>2, <1>4, <2>1
  <2> QED BY <2>2, <2>3
<1>9. Shares(Watchdog, chain', chain, w, p, delta', d)
  BY <1>1, <1>2, <1>7, <1>8, Types DEF Shares
<1> QED BY <1>9 DEF p

-----------------------------------------------------------------------------
\* One section of the walk of an insertion.
LEMMA WalkWithin ==
  ASSUME WatchdogInv, NEW w \in Watchdog, w \notin OnChain, NEW p \in 0 .. Len(chain),
         NEW d \in Nat, InsertWalk(w, p, d), NEW l, Within(chain, delta, l),
         l[w] <= Ticks(chain, delta)[p] + d
  PROVE  /\ Within(chain', delta', l)
         /\ Walking' => inserting' = w /\ WithinWalk(chain', delta', iterator', l[w])
<1>1. CASE p < Len(chain) /\ d >= delta[chain[p + 1]]
  <2> DEFINE k == p + 1
             T == Ticks(chain, delta)
  <2>1. /\ inserting' = w /\ chain' = chain /\ delta' = delta
        /\ iterator' = [current |-> chain[k], delta |-> d - delta[chain[k]]]
    BY <1>1 DEF InsertWalk
  <2>2. k \in 1 .. Len(chain) /\ k - 1 = p /\ p \in 0 .. Len(chain)
    BY <1>1, Types
  <2> HIDE DEF k
  <2>3. PlaceIn(chain, chain[k]) = k
    BY <2>2, Types, OnePlace
  <2>4. T[k] = T[k - 1] + delta[chain[k]] /\ T[p] \in Nat /\ delta[chain[k]] \in Nat
    <3>1. chain \in Seq(Watchdog) /\ delta \in [Watchdog -> Nat] /\ chain[k] \in Watchdog
      BY <2>2, Types
    <3>2. /\ T \in [0 .. Len(chain) -> Nat]
          /\ \A i \in 1 .. Len(chain) : T[i] = T[i - 1] + delta[chain[i]]
      BY DueAtSums DEF DueAt
    <3> QED BY <2>2, <3>1, <3>2
  <2> HIDE DEF T
  <2>5. T[k] + (d - delta[chain[k]]) = T[p] + d
    BY <2>2, <2>4
  <2>6. l[w] <= T[k] + (d - delta[chain[k]])
    BY <2>5 DEF T
  <2>7. WithinWalk(chain', delta', iterator', l[w])
    BY <2>1, <2>3, <2>6 DEF WithinWalk, T
  <2> QED BY <2>1, <2>7
<1>2. CASE ~(p < Len(chain) /\ d >= delta[chain[p + 1]])
  <2>1. ChainInsert(w, p, d) /\ inserting' = ChainHead
    BY <1>2 DEF InsertWalk
  <2>2. p < Len(chain) => d < delta[chain[p + 1]]
    <3> SUFFICES ASSUME p < Len(chain) PROVE d < delta[chain[p + 1]]
      OBVIOUS
    <3>1. p + 1 \in 1 .. Len(chain)
      BY Types
    <3>2. delta[chain[p + 1]] \in Nat
      BY <3>1, Types
    <3> QED BY <1>2, <3>2
  <2>3. Shares(Watchdog, chain, chain', w, p, delta, delta') /\ delta'[w] = d
    BY <2>1, <2>2, InsertShares
  <2>4. Within(chain', delta', l)
    BY <2>3, WithinMore
  <2> QED BY <2>1, <2>4 DEF Walking
<1> QED BY <1>1, <1>2

\* The first watchdog, due now, taken off the chain: the walk of an insertion
\* that had come to it goes on from the head.
LEMMA FirstLeaves ==
  ASSUME WatchdogInv, chain # <<>>, NEW d \in [Watchdog -> Nat], d[chain[1]] = 0,
         RemoveIt(chain[1], d), NEW n, WithinWalk(chain, d, iterator, n)
  PROVE  WithinWalk(chain', delta', iterator', n)
<1> DEFINE w == chain[1]
           x == iterator.current
           T == Ticks(chain, d)
           U == Ticks(chain', delta')
<1>1. /\ w \in OnChain /\ w \in Watchdog /\ w # ChainHead /\ 1 \in 1 .. Len(chain)
      /\ Place(w) = 1
  <2>1. 1 \in 1 .. Len(chain)
    BY Types
  <2>2. PlaceIn(chain, w) = 1
    BY <2>1, Types, OnePlace
  <2> QED BY <2>1, <2>2, Types, WatchdogAssumption DEF Place, PlaceIn
<1>2. Shares(Watchdog, chain', chain, w, 0, delta', d)
  <2>1. Place(w) - 1 = 0
    BY <1>1
  <2> QED BY <1>1, <2>1, RemoveShares
<1>3. /\ chain' \in Seq(Watchdog) /\ NoRepetition(chain') /\ Inserts(chain', chain, w, 0)
      /\ delta' \in [Watchdog -> Nat] /\ Len(chain') \in Nat /\ Len(chain) = Len(chain') + 1
  BY <1>1, <1>2, Types, ChainShrinks, Lengths DEF Shares, Inserts
<1>4. iterator' = IteratorWithout(w, d)
  BY DEF RemoveIt
<1>5. /\ \A i \in 1 .. Len(chain') : T[i + 1] = U[i] /\ chain[i + 1] = chain'[i]
      /\ T[0] = 0 /\ T[1] = 0 /\ U[0] = 0
  <2>1. \A i \in 1 .. Len(chain') : T[Shift(0, i)] = U[i]
    BY <1>2, TicksSplit
  <2>2. \A i \in 1 .. Len(chain') : Shift(0, i) = i + 1
    BY <1>3 DEF Shift
  <2>3. T[0] = 0 /\ U[0] = 0 /\ \A i \in 1 .. Len(chain) : T[i] = T[i - 1] + d[chain[i]]
    <3>1. chain \in Seq(Watchdog)
      BY Types
    <3> QED BY <1>3, <3>1, TicksSum
  <2>4. T[1] = T[1 - 1] + d[chain[1]]
    BY <1>1, <2>3
  <2>5. T[1] = 0
    BY <2>3, <2>4
  <2>6. \A i \in 1 .. Len(chain') : chain[i + 1] = chain'[i]
    BY <1>3 DEF Inserts
  <2> QED BY <2>1, <2>2, <2>3, <2>5, <2>6
<1>6. iterator.delta \in Nat /\ n <= T[PlaceIn(chain, x)] + iterator.delta
  BY Types DEF WithinWalk
<1> HIDE DEF T, U, w
<1>7. SUFFICES n <= U[PlaceIn(chain', iterator'.current)] + iterator'.delta
  BY DEF WithinWalk, U
<1>8. CASE x = ChainHead
  <2>1. iterator' = iterator
    <3>1. ASSUME 1 < Len(chain) PROVE chain[1 + 1] # x
      <4>1. 2 \in 1 .. Len(chain)
        BY <1>3, <3>1
      <4> QED BY <1>8, <4>1, Types, WatchdogAssumption
    <3> QED BY <1>1, <1>4, <1>8, <3>1 DEF IteratorWithout
  <2> QED BY <1>5, <1>6, <1>8, <2>1 DEF PlaceIn
<1>9. CASE x = w
  <2>1. iterator' = [current |-> ChainHead, delta |-> iterator.delta + 0]
    <3>1. ASSUME 1 < Len(chain) PROVE chain[1 + 1] # x
      <4>1. 1 + 1 \in 1 .. Len(chain)
        BY <1>1, <1>3, <3>1
      <4> QED BY <1>1, <1>9, <4>1, Distinct DEF w
    <3> QED BY <1>1, <1>4, <1>9, <3>1 DEF IteratorWithout
  <2>2. PlaceIn(chain, x) = 1
    BY <1>1, <1>9, Types, OnePlace DEF w
  <2>3. /\ iterator'.delta = iterator.delta
        /\ PlaceIn(chain', iterator'.current) = 0 /\ U[0] = 0 /\ T[1] = 0
    BY <1>5, <1>6, <2>1 DEF PlaceIn
  <2> QED BY <1>6, <2>2, <2>3
<1>10. ASSUME NEW i \in 1 .. Len(chain'), x = chain[i + 1]
       PROVE  n <= U[PlaceIn(chain', iterator'.current)] + iterator'.delta
  <2>1. i + 1 \in 1 .. Len(chain) /\ x = chain'[i] /\ x \in Watchdog
    BY <1>3, <1>5, <1>10, Types
  <2>2. PlaceIn(chain, x) = i + 1
    BY <1>10, <2>1, Types, OnePlace
  <2>3. PlaceIn(chain', x) = i
    BY <1>3, <2>1, OnePlace
  <2>4. iterator'.current = x /\ iterator'.delta = iterator.delta
    <3>1. x # w
      <4>1. i + 1 \in 1 .. Len(chain) /\ i + 1 # 1
        BY <2>1
      <4> QED BY <1>1, <1>10, <4>1, Distinct DEF w
    <3>2. d[w] = 0
      BY DEF w
    <3>3. iterator' = iterator \/ iterator' = [iterator EXCEPT !.delta = @ + d[w]]
      BY <1>4, <3>1 DEF IteratorWithout
    <3> QED BY <1>6, <3>2, <3>3, Types
  <2>5. T[i + 1] = U[i]
    BY <1>5
  <2> QED BY <1>6, <2>2, <2>3, <2>4, <2>5
<1>11. x = ChainHead \/ x = w \/ \E i \in 1 .. Len(chain') : x = chain[i + 1]
  <2>1. SUFFICES ASSUME x \in OnChain, x # w PROVE \E i \in 1 .. Len(chain') : x = chain[i + 1]
    BY Types
  <2>2. PICK j \in 1 .. Len(chain) : x = chain[j]
    BY <2>1, Types, Lengths DEF OnChain, ToSet
  <2>3. j # 1
    BY <2>1, <2>2 DEF w
  <2>4. j - 1 \in 1 .. Len(chain') /\ (j - 1) + 1 = j
    BY <1>3, <2>2, <2>3
  <2> QED BY <2>2, <2>4
<1> QED BY <1>8, <1>9, <1>10, <1>11

\* One look of the tickle at the first watchdog, with the deltas d.
LEMMA TickleWithin ==
  ASSUME WatchdogInv, NEW d \in [Watchdog -> Nat], TickleStep(d), NEW l, Within(chain, d, l),
         Walking => WithinWalk(chain, d, iterator, l[inserting])
  PROVE  /\ Within(chain', delta', l)
         /\ Walking' => /\ inserting' = inserting
                        /\ WithinWalk(chain', delta', iterator', l[inserting])
<1>1. CASE chain # <<>> /\ d[chain[1]] = 0
  <2>1. RemoveIt(chain[1], d) /\ inserting' = inserting
    BY <1>1 DEF TickleStep
  <2>2. chain[1] \in OnChain
    <3>1. 1 \in 1 .. Len(chain)
      BY <1>1, Types
    <3> QED BY <3>1, Types
  <2>3. Shares(Watchdog, chain', chain, chain[1], Place(chain[1]) - 1, delta', d)
    BY <2>1, <2>2, RemoveShares
  <2>4. Within(chain', delta', l)
    BY <2>3, WithinLess
  <2>5. Walking' => Walking
    BY <2>1, Types, WatchdogAssumption DEF Walking, RemoveIt, WatchdogInv, TypeOK, Node
  <2>6. Walking' => WithinWalk(chain', delta', iterator', l[inserting])
    BY <1>1, <2>1, <2>5, FirstLeaves
  <2> QED BY <2>1, <2>4, <2>6
<1>2. CASE ~(chain # <<>> /\ d[chain[1]] = 0)
  <2>1. /\ delta' = d /\ chain' = chain /\ wstate' = wstate /\ inserting' = inserting
        /\ iterator' = iterator
    BY <1>2 DEF TickleStep, insertVars
  <2> QED BY <2>1 DEF Walking
<1> QED BY <1>1, <1>2

-----------------------------------------------------------------------------
LEMMA InsertBeginTicks ==
  ASSUME WatchdogInv, EnoughTicks, NEW w \in Watchdog, NEW units \in Interval,
         InsertBegin(w, units), isrOps' = {}
  PROVE  /\ Within(chain', delta', least')
         /\ Walking' => WithinWalk(chain', delta', iterator', least'[inserting'])
<1>1. /\ w \notin OnChain /\ InsertWalk(w, 0, units) /\ isrOps' = isrOps
      /\ least' = [least EXCEPT ![w] = units]
  BY DEF InsertBegin, Asked, WatchdogInv, StatesAgree
<1>2. 0 \in 0 .. Len(chain) /\ units \in Nat
  BY Types DEF Interval
<1>3. least'[w] = units /\ \A v \in Watchdog : v # w => least'[v] = least[v]
  BY <1>1 DEF WatchdogInv, TypeOK
<1>4. Within(chain, delta, least')
  <2>1. Within(chain, delta, least)
    BY <1>1, EnoughTicksMeans
  <2>2. chain \in Seq(Watchdog) /\ w \notin ToSet(chain)
    BY <1>1, Types DEF OnChain
  <2> QED BY <1>3, <2>1, <2>2, WithinOthers
<1>5. least'[w] <= Ticks(chain, delta)[0] + units
  BY <1>2, <1>3, DueAtSums DEF DueAt
<1> QED BY <1>1, <1>2, <1>4, <1>5, WalkWithin

LEMMA InsertNextTicks ==
  ASSUME WatchdogInv, EnoughTicks, InsertNext, isrOps' = {}
  PROVE  /\ Within(chain', delta', least')
         /\ Walking' => WithinWalk(chain', delta', iterator', least'[inserting'])
<1>1. inserting \in Watchdog /\ isrOps' = isrOps /\ least' = least /\ inserting # ChainHead
  BY DEF InsertNext, WatchdogInv, TypeOK, Node, historyVars
<1>2. /\ Within(chain, delta, least)
      /\ Walking => WithinWalk(chain, delta, iterator, least[inserting])
  BY <1>1, EnoughTicksMeans
<1>3. CASE wstate[inserting] = "being_inserted"
  <2> DEFINE p == Place(iterator.current)
  <2>1. InsertWalk(inserting, p, iterator.delta) /\ inserting \notin OnChain
    BY <1>1, <1>3 DEF InsertNext, WatchdogInv, StatesAgree
  <2>2. p \in 0 .. Len(chain)
    <3>1. CASE iterator.current = ChainHead
      BY <3>1, Types DEF Place
    <3>2. CASE iterator.current \in OnChain
      BY <3>2, Types, PlaceOf
    <3> QED BY <3>1, <3>2, Types
  <2>3. iterator.delta \in Nat
    BY Types
  <2>4. least[inserting] <= Ticks(chain, delta)[p] + iterator.delta
    BY <1>1, <1>2, <1>3 DEF Walking, WithinWalk, Place, PlaceIn
  <2> HIDE DEF p
  <2>5. /\ Within(chain', delta', least)
        /\ Walking' => /\ inserting' = inserting
                       /\ WithinWalk(chain', delta', iterator', least[inserting])
    BY <1>1, <1>2, <2>1, <2>2, <2>3, <2>4, WalkWithin
  <2> QED BY <1>1, <2>5
<1>4. CASE wstate[inserting] # "being_inserted"
  <2>1. inserting' = ChainHead /\ chain' = chain /\ delta' = delta
    BY <1>4 DEF InsertNext, chainVars
  <2> QED BY <1>1, <1>2, <2>1 DEF Walking
<1> QED BY <1>3, <1>4

\* Only threads remove watchdogs, and not while one inserts.
LEMMA RemoveTicks ==
  ASSUME WatchdogInv, EnoughTicks, NEW w \in Watchdog, WatchdogRemove(w), isrOps' = {}
  PROVE  /\ Within(chain', delta', least')
         /\ Walking' => WithinWalk(chain', delta', iterator', least'[inserting'])
<1>1. isrOps = {} /\ inserting = ChainHead /\ inserting' = ChainHead
      /\ least' = [least EXCEPT ![w] = 0]
  BY DEF WatchdogRemove, InThread, InHandler, Forgotten
<1>2. Within(chain, delta, least)
  BY <1>1, EnoughTicksMeans
<1>3. \A v \in Watchdog : v # w => least'[v] = least[v]
  BY <1>1 DEF WatchdogInv, TypeOK
<1>4. wstate[w] # "being_inserted"
  BY <1>1, WatchdogAssumption DEF WatchdogInv, StatesAgree
<1>5. RemoveIt(w, delta) /\ w \in OnChain
  BY <1>4 DEF WatchdogRemove, WatchdogInv, StatesAgree
<1>6. Within(chain', delta', least)
  <2>1. Shares(Watchdog, chain', chain, w, Place(w) - 1, delta', delta)
    BY <1>5, Types, RemoveShares
  <2> QED BY <1>2, <2>1, WithinLess
<1>7. chain' \in Seq(Watchdog) /\ w \notin ToSet(chain')
  BY <1>5, Types, ChainShrinks DEF OnChain
<1>8. Within(chain', delta', least')
  BY <1>3, <1>6, <1>7, WithinOthers
<1> QED BY <1>1, <1>8 DEF Walking

\* A tick takes one from the ticks to every place and from those that must pass.
LEMMA CountDownTicks ==
  ASSUME WatchdogInv, EnoughTicks, isrOps = {}, Tick
  PROVE  /\ Within(chain, CountDown, least')
         /\ Walking => WithinWalk(chain, CountDown, iterator, least'[inserting])
<1> DEFINE T == Ticks(chain, delta)
           U == Ticks(chain, CountDown)
           k == PlaceIn(chain, iterator.current)
<1>1. /\ Within(chain, delta, least)
      /\ Walking => WithinWalk(chain, delta, iterator, least[inserting])
  BY EnoughTicksMeans
<1>2. ASSUME NEW v \in Watchdog
      PROVE  /\ least[v] \in Nat /\ least'[v] \in Nat /\ least'[v] <= least[v]
             /\ least[v] = 0 => least'[v] = 0
             /\ least[v] > 0 => least'[v] = least[v] - 1
  <2>1. least[v] \in Nat
    BY WatchdogAssumption DEF WatchdogInv, TypeOK
  <2>2. least'[v] = IF least[v] > 0 THEN least[v] - 1 ELSE 0
    BY DEF Tick
  <2> QED BY <2>1, <2>2
<1>3. Walking => inserting \in Watchdog
  BY DEF Walking, WatchdogInv, TypeOK, Node
<1>4. T \in [0 .. Len(chain) -> Nat]
  BY DueAtSums DEF DueAt
<1>5. k \in 0 .. Len(chain) /\ iterator.delta \in Nat
  <2>1. CASE iterator.current = ChainHead
    BY <2>1, Types DEF PlaceIn
  <2>2. CASE iterator.current \in OnChain
    <3>1. Place(iterator.current) \in 1 .. Len(chain)
      BY <2>2, Types, PlaceOf
    <3> QED BY <3>1, Types DEF Place, PlaceIn
  <2> QED BY <2>1, <2>2, Types
<1>6. \A i \in 1 .. Len(chain) : chain[i] \in Watchdog
  BY Types
<1>7. CASE chain # <<>> /\ delta[chain[1]] > 0
  <2>1. CountDown = [delta EXCEPT ![chain[1]] = @ - 1] /\ CountDown \in [Watchdog -> Nat]
    BY <1>7, CountDownTyped DEF CountDown
  <2>2. Moves(Watchdog, chain, delta, CountDown, -1)
    <3>1. chain[1] \in Watchdog /\ delta[chain[1]] \in Nat
      <4>1. 1 \in 1 .. Len(chain)
        BY <1>7, Types
      <4> QED BY <4>1, Types
    <3>2. CountDown[chain[1]] = delta[chain[1]] + (-1)
      BY <2>1, <3>1, Types
    <3>3. \A t \in Watchdog : t # chain[1] => CountDown[t] = delta[t]
      BY <2>1, Types
    <3> QED BY <1>7, <2>1, <3>2, <3>3, Types DEF Moves
  <2>3. \A i \in 1 .. Len(chain) : U[i] = T[i] + (-1)
    BY <2>2, TicksMove
  <2>4. U \in [0 .. Len(chain) -> Nat] /\ U[0] = 0
    <3>1. chain \in Seq(Watchdog) /\ CountDown \in [Watchdog -> Nat]
      BY CountDownTyped, Types
    <3> QED BY <3>1, TicksSum
  <2> HIDE DEF T, U, k
  <2>5. ASSUME NEW i \in 1 .. Len(chain), NEW n \in Nat, NEW v \in Watchdog, least[v] <= T[i] + n
        PROVE  least'[v] <= U[i] + n
    <3>1. T[i] \in Nat /\ U[i] \in Nat /\ U[i] = T[i] - 1
      BY <1>4, <2>3, <2>4
    <3>2. CASE least[v] = 0
      BY <1>2, <3>1, <3>2
    <3>3. CASE least[v] > 0
      BY <1>2, <2>5, <3>1, <3>3
    <3> QED BY <1>2, <3>2, <3>3
  <2>6. Within(chain, CountDown, least')
    <3> SUFFICES ASSUME NEW i \in 1 .. Len(chain) PROVE least'[chain[i]] <= U[i]
      BY DEF Within, U
    <3>1. T[i] \in Nat /\ U[i] \in Nat /\ least[chain[i]] <= T[i] /\ chain[i] \in Watchdog
      BY <1>1, <1>4, <1>6, <2>4 DEF Within, T
    <3>2. least[chain[i]] <= T[i] + 0
      BY <3>1
    <3>3. least'[chain[i]] <= U[i] + 0
      BY <2>5, <3>1, <3>2
    <3> QED BY <3>1, <3>3
  <2>7. ASSUME Walking PROVE WithinWalk(chain, CountDown, iterator, least'[inserting])
    <3>1. least[inserting] <= T[k] + iterator.delta /\ inserting \in Watchdog
      BY <1>1, <1>3, <2>7 DEF WithinWalk, T, k
    <3>2. CASE k = 0
      <4>1. T[0] = 0
        BY DueAtSums DEF DueAt, T
      <4>2. least[inserting] <= iterator.delta
        BY <1>5, <3>1, <3>2, <4>1
      <4>3. least'[inserting] <= U[k] + iterator.delta
        BY <1>2, <1>5, <2>4, <3>1, <3>2, <4>2
      <4> QED BY <4>3 DEF WithinWalk, U, k
    <3>3. CASE k # 0
      <4>1. k \in 1 .. Len(chain)
        BY <1>5, <3>3
      <4>2. least'[inserting] <= U[k] + iterator.delta
        BY <1>5, <2>5, <3>1, <4>1
      <4> QED BY <4>2 DEF WithinWalk, U, k
    <3> QED BY <3>2, <3>3
  <2> QED BY <2>6, <2>7
<1>8. CASE ~(chain # <<>> /\ delta[chain[1]] > 0)
  <2>1. CountDown = delta
    BY <1>8 DEF CountDown
  <2> HIDE DEF T, k
  <2>2. ASSUME NEW i \in 1 .. Len(chain) PROVE least'[chain[i]] <= T[i]
    <3>1. T[i] \in Nat /\ least[chain[i]] <= T[i] /\ chain[i] \in Watchdog
      BY <1>1, <1>4, <1>6 DEF Within, T
    <3> QED BY <1>2, <3>1
  <2>3. ASSUME Walking PROVE least'[inserting] <= T[k] + iterator.delta
    <3>1. least[inserting] <= T[k] + iterator.delta /\ inserting \in Watchdog
      BY <1>1, <1>3, <2>3 DEF WithinWalk, T, k
    <3>2. T[k] \in Nat
      BY <1>4, <1>5
    <3> QED BY <1>2, <1>5, <3>1, <3>2
  <2> QED BY <2>1, <2>2, <2>3 DEF Within, WithinWalk, T, k
<1> QED BY <1>7, <1>8

\* Who is served is due.
LEMMA ServedIsDue ==
  ASSUME WatchdogInv, NEW d \in [Watchdog -> Nat], TickleStep(d), serving' # ChainHead,
         Within(chain, d, least'), least' \in [Watchdog -> Nat]
  PROVE  least'[serving'] = 0
<1>1. chain # <<>> /\ d[chain[1]] = 0 /\ serving' = chain[1]
  BY DEF TickleStep
<1>2. 1 \in 1 .. Len(chain) /\ chain[1] \in Watchdog /\ chain \in Seq(Watchdog)
  <2>1. 1 \in 1 .. Len(chain)
    BY <1>1, Types
  <2> QED BY <2>1, Types
<1>3. least'[chain[1]] <= Ticks(chain, d)[1]
  BY <1>2 DEF Within
<1>4. Ticks(chain, d)[1] = 0
  <2>1. Ticks(chain, d)[0] = 0 /\ Ticks(chain, d)[1] = Ticks(chain, d)[1 - 1] + d[chain[1]]
    BY <1>2, TicksSum
  <2> QED BY <1>1, <2>1
<1>5. least'[chain[1]] \in Nat
  BY <1>2
<1> QED BY <1>1, <1>3, <1>4, <1>5

-----------------------------------------------------------------------------
LEMMA TicksInit ==
  ASSUME Init
  PROVE  EnoughTicks
<1>1. DOMAIN chain = {} /\ inserting = ChainHead
  BY DEF Init
<1> QED BY <1>1 DEF EnoughTicks

LEMMA LeastTyped ==
  ASSUME WatchdogInv'
  PROVE  least' \in [Watchdog -> Nat] /\ chain' \in Seq(Watchdog)
<1>1. least' \in [Watchdog -> 0 .. MaxInterval] /\ chain' \in Seq(Watchdog)
  BY DEF WatchdogInv, TypeOK
<1>2. 0 .. MaxInterval \subseteq Nat
  BY WatchdogAssumption
<1> QED BY <1>1, <1>2

\* The ticks of the clock interrupt and of the rest of its tickle.
LEMMA TickleTicks ==
  ASSUME WatchdogInv, EnoughTicks, Tick \/ TickleNext, isrOps = {}
  PROVE  \E d \in [Watchdog -> Nat] :
           /\ TickleStep(d) /\ Within(chain, d, least')
           /\ Walking => WithinWalk(chain, d, iterator, least'[inserting])
<1>1. CASE Tick
  <2>1. /\ CountDown \in [Watchdog -> Nat] /\ TickleStep(CountDown)
        /\ Within(chain, CountDown, least')
        /\ Walking => WithinWalk(chain, CountDown, iterator, least'[inserting])
    BY <1>1, CountDownTyped, CountDownTicks DEF Tick
  <2> QED BY <2>1
<1>2. CASE TickleNext
  <2>1. TickleStep(delta) /\ least' = least /\ delta \in [Watchdog -> Nat]
    BY <1>2, Types DEF TickleNext
  <2>2. /\ Within(chain, delta, least)
        /\ Walking => WithinWalk(chain, delta, iterator, least[inserting])
    BY EnoughTicksMeans
  <2> QED BY <2>1, <2>2
<1> QED BY <1>1, <1>2

LEMMA ServiceReturnTicks ==
  ASSUME WatchdogInv, EnoughTicks, ServiceReturn, isrOps' = {}
  PROVE  /\ Within(chain', delta', least')
         /\ Walking' => WithinWalk(chain', delta', iterator', least'[inserting'])
<1>1. /\ isrOps = {} /\ chain' = chain /\ delta' = delta /\ wstate' = wstate
      /\ inserting' = inserting /\ iterator' = iterator /\ serving \in Watchdog
  BY DEF ServiceReturn, chainVars, insertVars, WatchdogInv, TypeOK, Node
<1>2. /\ Within(chain, delta, least)
      /\ Walking => WithinWalk(chain, delta, iterator, least[inserting])
  BY <1>1, EnoughTicksMeans
<1>3. CASE serving \in wanted
  BY <1>1, <1>2, <1>3 DEF ServiceReturn, historyVars, Walking
<1>4. CASE serving \notin wanted
  <2>1. least' = [least EXCEPT ![serving] = 0]
    BY <1>4 DEF ServiceReturn, Forgotten
  <2>2. wstate[serving] = "inactive" /\ serving \notin ToSet(chain)
    BY <1>1, <1>4 DEF WatchdogInv, Awaited, StatesAgree, OnChain
  <2>3. \A v \in Watchdog : v # serving => least'[v] = least[v]
    BY <2>1 DEF WatchdogInv, TypeOK
  <2>4. Within(chain, delta, least')
    <3>1. chain \in Seq(Watchdog)
      BY Types
    <3> QED BY <1>2, <2>2, <2>3, <3>1, WithinOthers
  <2>5. Walking => least'[inserting] = least[inserting]
    BY <1>1, <2>2, <2>3 DEF Walking, WatchdogInv, TypeOK, Node
  <2>6. Walking' <=> Walking
    BY <1>1 DEF Walking
  <2> QED BY <1>1, <1>2, <2>4, <2>5, <2>6
<1> QED BY <1>3, <1>4

LEMMA NextTicks ==
  ASSUME WatchdogInv, EnoughTicks, [Next]_vars
  PROVE  EnoughTicks'
<1> SUFFICES ASSUME isrOps' = {}
             PROVE  /\ Within(chain', delta', least')
                    /\ Walking' => WithinWalk(chain', delta', iterator', least'[inserting'])
  BY NextInv, LeastTyped, EnoughTicksNext
<1>1. ASSUME NEW w \in Watchdog, NEW units \in Interval, InsertBegin(w, units)
      PROVE  /\ Within(chain', delta', least')
             /\ Walking' => WithinWalk(chain', delta', iterator', least'[inserting'])
  BY <1>1, InsertBeginTicks
<1>2. ASSUME NEW w \in Watchdog, NEW units \in Interval, IsrInsert(w, units) PROVE FALSE
  BY <1>2 DEF IsrInsert, InHandler
<1>3. ASSUME NEW w \in Watchdog, WatchdogRemove(w)
      PROVE  /\ Within(chain', delta', least')
             /\ Walking' => WithinWalk(chain', delta', iterator', least'[inserting'])
  BY <1>3, RemoveTicks
<1>4. CASE InsertNext
  BY <1>4, InsertNextTicks
<1>5. CASE Tick \/ TickleNext
  <2>1. isrOps = {}
    BY <1>5 DEF Tick, TickleNext
  <2>2. PICK d \in [Watchdog -> Nat] :
          /\ TickleStep(d) /\ Within(chain, d, least')
          /\ Walking => WithinWalk(chain, d, iterator, least'[inserting])
    BY <1>5, <2>1, TickleTicks
  <2> QED BY <2>2, TickleWithin
<1>6. CASE ServiceReturn
  BY <1>6, ServiceReturnTicks
<1>7. CASE UNCHANGED vars
  <2>1. /\ isrOps' = isrOps /\ chain' = chain /\ delta' = delta /\ wstate' = wstate
        /\ inserting' = inserting /\ iterator' = iterator /\ least' = least
    BY <1>7 DEF vars, chainVars, insertVars, historyVars
  <2> QED BY <2>1, EnoughTicksMeans DEF Walking
<1> QED BY <1>1, <1>2, <1>3, <1>4, <1>5, <1>6, <1>7 DEF Next

\* What TicksNeverEarly says of one step.
LEMMA StepNotEarly ==
  ASSUME WatchdogInv, EnoughTicks, [Next]_vars,
         isrOps = {}, serving = ChainHead, serving' # ChainHead
  PROVE  least'[serving'] = 0
<1>1. Tick \/ TickleNext
  <2>1. ASSUME NEW w \in Watchdog, NEW units \in Interval,
               InsertBegin(w, units) \/ IsrInsert(w, units)
        PROVE  FALSE
    BY <2>1 DEF InsertBegin, IsrInsert, tickVars
  <2>2. ASSUME NEW w \in Watchdog, WatchdogRemove(w) PROVE FALSE
    BY <2>2 DEF WatchdogRemove, tickVars
  <2>3. ~InsertNext /\ ~ServiceReturn
    BY DEF InsertNext, ServiceReturn, tickVars
  <2>4. ~UNCHANGED vars
    BY DEF vars, tickVars
  <2> QED BY <2>1, <2>2, <2>3, <2>4 DEF Next
<1>2. PICK d \in [Watchdog -> Nat] : TickleStep(d) /\ Within(chain, d, least')
  BY <1>1, TickleTicks
<1>3. least' \in [Watchdog -> Nat]
  BY NextInv, LeastTyped
<1> QED BY <1>2, <1>3, ServedIsDue

\* In a system whose handlers leave the chain alone, no watchdog fires before its
\* interval has passed: a tick in the window of an insertion, which shortens the
\* chain behind the iterator or takes its node away, costs the new watchdog
\* nothing, with any number of watchdogs and all intervals.
THEOREM WatchdogNotEarly == Spec => TicksNeverEarly
<1>1. Init => WatchdogInv /\ EnoughTicks
  BY InitInv, TicksInit
<1>2. WatchdogInv /\ EnoughTicks /\ [Next]_vars => (WatchdogInv /\ EnoughTicks)'
  BY NextInv, NextTicks
<1>3. WatchdogInv /\ EnoughTicks /\ [Next]_vars
        => [isrOps = {} /\ serving = ChainHead /\ serving' # ChainHead
              => least'[serving'] = 0]_vars
  BY StepNotEarly
<1> QED BY <1>1, <1>2, <1>3, PTL DEF Spec, TicksNeverEarly
=============================================================================
