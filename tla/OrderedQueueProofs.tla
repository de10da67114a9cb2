------------------------- MODULE OrderedQueueProofs -------------------------
(***************************************************************************)
(* What insertions and extractions leave of a chain.                       *)
(***************************************************************************)
EXTENDS OrderedQueue, WellFoundedInduction, TLAPS

\* A set of natural numbers has a least one.
LEMMA LeastNatural ==
  ASSUME NEW T, T \subseteq Nat, T # {}
  PROVE  \E x \in T : \A y \in T : x <= y
<1>1. PICK x \in T : \A y \in T : ~ (<<y, x>> \in OpToRel(<, Nat))
  BY WFMin, NatLessThanWellFounded
<1>2. \A y \in T : ~(y < x)
  BY <1>1 DEF OpToRel
<1> QED BY <1>2

-----------------------------------------------------------------------------
(***************************************************************************)
(* One relation between a chain and the same chain with one more node      *)
(* describes insertions and, from right to left, extractions.              *)
(***************************************************************************)

\* The chain r is s with t behind place p.
Inserts(s, r, t, p) ==
  /\ p \in Nat /\ p <= Len(s) /\ Len(r) = Len(s) + 1 /\ r[p + 1] = t
  /\ \A i \in 1 .. p : r[i] = s[i]
  /\ \A i \in p + 1 .. Len(s) : r[i + 1] = s[i]

\* Where place i of s is in r.
Shift(p, i) == IF i <= p THEN i ELSE i + 1

LEMMA Lengths ==
  ASSUME NEW S, NEW s \in Seq(S)
  PROVE  Len(s) \in Nat /\ DOMAIN s = 1 .. Len(s) /\ (\A i \in DOMAIN s : s[i] \in S)
  OBVIOUS

LEMMA TwoParts ==
  ASSUME NEW n \in Nat, NEW p \in Nat, p <= n
  PROVE  \E q \in Nat : n = p + q
<1>1. n - p \in Nat /\ n = p + (n - p)
  OBVIOUS
<1> QED BY <1>1

LEMMA InsertAtInserts ==
  ASSUME NEW S, NEW s \in Seq(S), NEW t \in S, NEW p \in Nat, p <= Len(s)
  PROVE  /\ InsertAt(s, p + 1, t) \in Seq(S)
         /\ Inserts(s, InsertAt(s, p + 1, t), t, p)
<1> DEFINE r == InsertAt(s, p + 1, t)
<1>1. PICK q \in Nat : Len(s) = p + q
  BY Lengths, TwoParts
<1>2. r = SubSeq(s, 1, p) \o <<t>> \o SubSeq(s, p + 1, p + q)
  BY <1>1 DEF InsertAt
<1> HIDE DEF r
<1>3. /\ r \in Seq(S) /\ Len(r) = p + q + 1 /\ r[p + 1] = t
      /\ \A i \in 1 .. p : r[i] = s[i]
      /\ \A i \in 1 .. q : r[p + 1 + i] = s[p + i]
  BY <1>1, <1>2
<1>4. ASSUME NEW i \in p + 1 .. Len(s) PROVE r[i + 1] = s[i]
  <2>1. i - p \in 1 .. q /\ p + 1 + (i - p) = i + 1 /\ p + (i - p) = i
    BY <1>1
  <2>2. r[p + 1 + (i - p)] = s[p + (i - p)]
    BY <1>3, <2>1
  <2> QED BY <2>1, <2>2
<1>5. Inserts(s, r, t, p)
  BY <1>1, <1>3, <1>4 DEF Inserts
<1> QED BY <1>3, <1>5 DEF r

LEMMA RemoveAtInserts ==
  ASSUME NEW S, NEW r \in Seq(S), NEW p \in Nat, p < Len(r)
  PROVE  /\ RemoveAt(r, p + 1) \in Seq(S)
         /\ Inserts(RemoveAt(r, p + 1), r, r[p + 1], p)
<1> DEFINE s == RemoveAt(r, p + 1)
<1>0. Len(r) \in Nat /\ p + 1 \in Nat /\ p + 1 <= Len(r)
  BY Lengths
<1>1. PICK q \in Nat : Len(r) = (p + 1) + q
  BY <1>0, TwoParts
<1>2. Len(r) = p + q + 1
  BY <1>1
<1>3. s = SubSeq(r, 1, p) \o SubSeq(r, p + 2, p + q + 1)
  BY <1>2 DEF RemoveAt
<1> HIDE DEF s
<1>4. /\ s \in Seq(S) /\ Len(s) = p + q
      /\ \A i \in 1 .. p : s[i] = r[i]
      /\ \A i \in 1 .. q : s[p + i] = r[p + 1 + i]
  BY <1>2, <1>3
<1>5. ASSUME NEW i \in p + 1 .. Len(s) PROVE r[i + 1] = s[i]
  <2>0. i \in p + 1 .. p + q
    BY <1>4
  <2>1. i - p \in 1 .. q /\ p + 1 + (i - p) = i + 1 /\ p + (i - p) = i
    BY <2>0
  <2>2. s[p + (i - p)] = r[p + 1 + (i - p)]
    BY <1>4, <2>1
  <2> QED BY <2>1, <2>2
<1>6. Inserts(s, r, r[p + 1], p)
  BY <1>2, <1>4, <1>5 DEF Inserts
<1> QED BY <1>4, <1>6 DEF s

\* At the ends of a chain.
LEMMA AppendInserts ==
  ASSUME NEW S, NEW s \in Seq(S), NEW t \in S
  PROVE  Append(s, t) \in Seq(S) /\ Inserts(s, Append(s, t), t, Len(s))
  BY DEF Inserts

LEMMA PrependInserts ==
  ASSUME NEW S, NEW s \in Seq(S), NEW t \in S
  PROVE  <<t>> \o s \in Seq(S) /\ Inserts(s, <<t>> \o s, t, 0)
  BY DEF Inserts

LEMMA TailInserts ==
  ASSUME NEW S, NEW s \in Seq(S), s # <<>>
  PROVE  /\ Tail(s) \in Seq(S) /\ Inserts(Tail(s), s, Head(s), 0)
         /\ Head(s) \in S /\ Head(s) = s[1] /\ 1 \in DOMAIN s
  BY DEF Inserts

-----------------------------------------------------------------------------
\* Every place of the longer chain is the new one or a shifted one.
LEMMA InsertsPlaces ==
  ASSUME NEW S, NEW s \in Seq(S), NEW r \in Seq(S), NEW t, NEW p, Inserts(s, r, t, p)
  PROVE  /\ p + 1 \in DOMAIN r /\ r[p + 1] = t
         /\ \A i \in DOMAIN s : Shift(p, i) \in DOMAIN r /\ r[Shift(p, i)] = s[i]
         /\ \A j \in DOMAIN r : j = p + 1 \/ \E i \in DOMAIN s : j = Shift(p, i)
<1>1. /\ DOMAIN s = 1 .. Len(s) /\ DOMAIN r = 1 .. Len(s) + 1 /\ Len(s) \in Nat
      /\ p \in Nat /\ p <= Len(s) /\ r[p + 1] = t
  BY DEF Inserts
<1>2. ASSUME NEW i \in DOMAIN s PROVE Shift(p, i) \in DOMAIN r /\ r[Shift(p, i)] = s[i]
  <2>1. CASE i <= p
    <3>1. i \in 1 .. p /\ i \in DOMAIN r
      BY <1>1, <2>1
    <3> QED BY <2>1, <3>1 DEF Shift, Inserts
  <2>2. CASE ~(i <= p)
    <3>1. i \in p + 1 .. Len(s) /\ i + 1 \in DOMAIN r
      BY <1>1, <2>2
    <3> QED BY <2>2, <3>1 DEF Shift, Inserts
  <2> QED BY <2>1, <2>2
<1>3. ASSUME NEW j \in DOMAIN r, j # p + 1 PROVE \E i \in DOMAIN s : j = Shift(p, i)
  <2>1. CASE j <= p
    <3>1. j \in DOMAIN s /\ j = Shift(p, j)
      BY <1>1, <2>1 DEF Shift
    <3> QED BY <3>1
  <2>2. CASE ~(j <= p)
    <3>0. j \in 1 .. Len(s) + 1 /\ j # p + 1
      BY <1>1, <1>3
    <3>1. j \in Nat /\ p \in Nat /\ j > p + 1 /\ j <= Len(s) + 1
      BY <1>1, <2>2, <3>0
    <3>3. j - 1 \in 1 .. Len(s) /\ ~(j - 1 <= p) /\ j - 1 + 1 = j
      BY <1>1, <3>1
    <3>2. j = Shift(p, j - 1)
      BY <3>3 DEF Shift
    <3> QED BY <1>1, <3>3, <3>2
  <2> QED BY <2>1, <2>2
<1> QED BY <1>1, <1>2, <1>3

\* Places are shifted in order.
LEMMA ShiftInOrder ==
  ASSUME NEW p \in Nat, NEW i \in Nat, NEW j \in Nat
  PROVE  /\ (Shift(p, i) < Shift(p, j)) <=> (i < j)
         /\ (Shift(p, i) = Shift(p, j)) <=> (i = j)
         /\ Shift(p, i) # p + 1 /\ ((Shift(p, i) < p + 1) <=> (i <= p))
  BY DEF Shift

\* The nodes of a chain after an insertion; before an extraction.
LEMMA InsertsRange ==
  ASSUME NEW S, NEW s \in Seq(S), NEW r \in Seq(S), NEW t, NEW p, Inserts(s, r, t, p)
  PROVE  ToSet(r) = ToSet(s) \cup {t}
<1>1. ToSet(r) \subseteq ToSet(s) \cup {t}
  <2> SUFFICES ASSUME NEW j \in DOMAIN r PROVE r[j] \in ToSet(s) \cup {t}
    BY DEF ToSet
  <2>1. CASE j = p + 1
    BY <2>1, InsertsPlaces
  <2>2. CASE \E i \in DOMAIN s : j = Shift(p, i)
    BY <2>2, InsertsPlaces DEF ToSet
  <2> QED BY <2>1, <2>2, InsertsPlaces
<1>2. t \in ToSet(r)
  BY InsertsPlaces DEF ToSet
<1>3. ToSet(s) \subseteq ToSet(r)
  <2> SUFFICES ASSUME NEW i \in DOMAIN s PROVE s[i] \in ToSet(r)
    BY DEF ToSet
  <2> QED BY InsertsPlaces DEF ToSet
<1> QED BY <1>1, <1>2, <1>3

LEMMA InsertsRepeatsNothing ==
  ASSUME NEW S, NEW s \in Seq(S), NEW r \in Seq(S), NEW t, NEW p, Inserts(s, r, t, p)
  PROVE  NoRepetition(r) <=> (NoRepetition(s) /\ t \notin ToSet(s))
<1>1. /\ p \in Nat /\ \A i \in DOMAIN s : i \in Nat
      /\ \A i \in DOMAIN r : i \in Nat
  BY Lengths DEF Inserts
<1>2. ASSUME NoRepetition(s), t \notin ToSet(s), NEW i \in DOMAIN r, NEW j \in DOMAIN r, r[i] = r[j]
      PROVE  i = j
  <2>1. CASE i = p + 1 /\ j = p + 1
    BY <2>1
  <2>2. ASSUME NEW k \in DOMAIN s, NEW l \in DOMAIN s, i = Shift(p, k), j = Shift(p, l) PROVE i = j
    BY <1>2, <2>2, InsertsPlaces DEF NoRepetition
  <2>3. ASSUME NEW k \in DOMAIN s PROVE r[Shift(p, k)] # r[p + 1]
    BY <1>2, InsertsPlaces DEF ToSet
  <2> QED BY <1>2, <2>1, <2>2, <2>3, InsertsPlaces
<1>3. ASSUME NoRepetition(r), NEW i \in DOMAIN s, NEW j \in DOMAIN s, s[i] = s[j]
      PROVE  i = j
  <2>1. Shift(p, i) = Shift(p, j)
    BY <1>3, InsertsPlaces DEF NoRepetition
  <2> QED BY <1>1, <2>1, ShiftInOrder
<1>4. ASSUME NoRepetition(r), NEW i \in DOMAIN s, s[i] = t PROVE FALSE
  <2>1. Shift(p, i) = p + 1
    BY <1>4, InsertsPlaces DEF NoRepetition
  <2> QED BY <1>1, <2>1, ShiftInOrder
<1>5. NoRepetition(s) /\ t \notin ToSet(s) => NoRepetition(r)
  BY <1>2 DEF NoRepetition
<1>6. NoRepetition(r) => NoRepetition(s)
  BY <1>3 DEF NoRepetition
<1>7. NoRepetition(r) => t \notin ToSet(s)
  BY <1>4 DEF ToSet
<1> QED BY <1>5, <1>6, <1>7

\* An extraction leaves the rest in order.
LEMMA ExtractionInOrder ==
  ASSUME NEW S, NEW s \in Seq(S), NEW r \in Seq(S), NEW t, NEW p, Inserts(s, r, t, p),
         NEW value, InOrder(r, value)
  PROVE  InOrder(s, value)
<1> SUFFICES ASSUME NEW i \in DOMAIN s, NEW j \in DOMAIN s, i < j
             PROVE  value[s[i]] <= value[s[j]]
  BY DEF InOrder
<1>1. p \in Nat /\ i \in Nat /\ j \in Nat
  BY Lengths DEF Inserts
<1>2. Shift(p, i) < Shift(p, j)
  BY <1>1, ShiftInOrder
<1>3. /\ Shift(p, i) \in DOMAIN r /\ r[Shift(p, i)] = s[i]
      /\ Shift(p, j) \in DOMAIN r /\ r[Shift(p, j)] = s[j]
  BY InsertsPlaces
<1>4. value[r[Shift(p, i)]] <= value[r[Shift(p, j)]]
  BY <1>2, <1>3 DEF InOrder
<1> QED BY <1>3, <1>4

\* An insertion between those that are not behind the new node and those that
\* are not before it keeps a chain in order.
LEMMA InsertionInOrder ==
  ASSUME NEW S, NEW s \in Seq(S), NEW r \in Seq(S), NEW t, NEW p, Inserts(s, r, t, p),
         NEW value, InOrder(s, value), value[t] \in Int, \A x \in S : value[x] \in Int,
         \A i \in 1 .. p : value[s[i]] <= value[t],
         p < Len(s) => value[s[p + 1]] >= value[t]
  PROVE  InOrder(r, value)
<1> SUFFICES ASSUME NEW i \in DOMAIN r, NEW j \in DOMAIN r, i < j
             PROVE  value[r[i]] <= value[r[j]]
  BY DEF InOrder
<1>1. /\ p \in Nat /\ Len(s) \in Nat /\ DOMAIN s = 1 .. Len(s) /\ p <= Len(s)
      /\ \A k \in DOMAIN s : k \in Nat /\ s[k] \in S /\ value[s[k]] \in Int
  BY Lengths DEF Inserts
<1>2. ASSUME NEW k \in DOMAIN s, k > p PROVE value[t] <= value[s[k]]
  <2>1. p + 1 \in DOMAIN s /\ p < Len(s)
    BY <1>1, <1>2
  <2>2. CASE k = p + 1
    BY <2>1, <2>2
  <2>3. CASE k # p + 1
    <3>1. p + 1 < k
      BY <1>1, <1>2, <2>3
    <3>2. value[s[p + 1]] <= value[s[k]]
      BY <2>1, <3>1 DEF InOrder
    <3> QED BY <1>1, <2>1, <3>2
  <2> QED BY <2>2, <2>3
<1>3. CASE i = p + 1
  <2>0. j # p + 1
    BY <1>1, <1>3
  <2>1. PICK k \in DOMAIN s : j = Shift(p, k)
    BY <2>0, InsertsPlaces
  <2>2. k > p
    <3>1. ~(Shift(p, k) < p + 1)
      BY <1>1, <1>3, <2>1 DEF Shift
    <3> QED BY <1>1, <3>1, ShiftInOrder
  <2> QED BY <1>2, <1>3, <2>1, <2>2, InsertsPlaces
<1>4. CASE j = p + 1
  <2>0. i # p + 1
    BY <1>1, <1>4
  <2>1. PICK k \in DOMAIN s : i = Shift(p, k)
    BY <2>0, InsertsPlaces
  <2>2. k <= p
    BY <1>1, <1>4, <2>1, ShiftInOrder
  <2>3. k \in 1 .. p
    BY <1>1, <2>2
  <2>4. value[s[k]] <= value[t]
    BY <2>3
  <2> QED BY <1>4, <2>1, <2>4, InsertsPlaces
<1>5. CASE i # p + 1 /\ j # p + 1
  <2>1. PICK k \in DOMAIN s : i = Shift(p, k)
    BY <1>5, InsertsPlaces
  <2>2. PICK l \in DOMAIN s : j = Shift(p, l)
    BY <1>5, InsertsPlaces
  <2>3. k < l
    BY <1>1, <2>1, <2>2, ShiftInOrder
  <2>4. value[s[k]] <= value[s[l]]
    BY <2>3 DEF InOrder
  <2> QED BY <2>1, <2>2, <2>4, InsertsPlaces
<1> QED BY <1>3, <1>4, <1>5

-----------------------------------------------------------------------------
\* The walk ends at a place.
LEMMA WalkEnds ==
  ASSUME NEW S, NEW s \in Seq(S), NEW t \in S, NEW value, \A x \in S : value[x] \in Int
  PROVE  /\ Walk(s, t, value) \in Nat /\ Walk(s, t, value) <= Len(s)
         /\ \A i \in 1 .. Walk(s, t, value) : value[s[i]] <= value[t]
         /\ Walk(s, t, value) < Len(s) => value[s[Walk(s, t, value) + 1]] > value[t]
<1> DEFINE n == Len(s)
           IsBehind(k) == value[s[k]] > value[t]
           Stops == {p \in Nat : p = n \/ (p < n /\ IsBehind(p + 1))}
           End(p) == (\A i \in 1 .. p : value[s[i]] <= value[t]) /\ (p < n => IsBehind(p + 1))
<1>1. n \in Nat /\ DOMAIN s = 1 .. n /\ (\A i \in 1 .. n : value[s[i]] \in Int) /\ value[t] \in Int
  BY Lengths
<1>2. \A i \in 1 .. n : ~IsBehind(i) => value[s[i]] <= value[t]
  BY <1>1
<1>3. Walk(s, t, value) = CHOOSE k \in 0 .. n : End(k)
  BY DEF Walk
<1> HIDE DEF n, IsBehind
<1>4. n \in Stops /\ Stops \subseteq Nat
  BY <1>1
<1>5. PICK p \in Stops : \A y \in Stops : p <= y
  <2> HIDE DEF Stops
  <2> QED BY <1>4, LeastNatural
<1>6. p \in Nat /\ p <= n /\ (p < n => IsBehind(p + 1))
  BY <1>1, <1>5
<1>7. ASSUME NEW i \in 1 .. p PROVE value[s[i]] <= value[t]
  <2>1. i - 1 \in Nat /\ i - 1 < p /\ i - 1 < n /\ i - 1 + 1 = i /\ i \in 1 .. n
    BY <1>1, <1>6
  <2>2. ~(p <= i - 1)
    BY <1>6, <2>1
  <2>3. i - 1 \notin Stops
    BY <1>5, <2>2
  <2>4. ~IsBehind(i)
    BY <2>1, <2>3
  <2> QED BY <1>2, <2>1, <2>4
<1>8. p \in 0 .. n /\ End(p)
  BY <1>1, <1>6, <1>7
<1>9. Walk(s, t, value) \in 0 .. n /\ End(Walk(s, t, value))
  <2> HIDE DEF End
  <2> QED BY <1>3, <1>8
<1>10. Walk(s, t, value) \in Nat /\ Walk(s, t, value) <= n
  BY <1>1, <1>9
<1> QED BY <1>9, <1>10 DEF n, IsBehind

\* An ordered insertion.
LEMMA InsertOrderedInserts ==
  ASSUME NEW S, NEW s \in Seq(S), NEW t \in S, NEW value, \A x \in S : value[x] \in Int
  PROVE  /\ InsertOrdered(s, t, value) \in Seq(S)
         /\ Inserts(s, InsertOrdered(s, t, value), t, Walk(s, t, value))
  BY WalkEnds, InsertAtInserts DEF InsertOrdered

LEMMA InsertOrderedInOrder ==
  ASSUME NEW S, NEW s \in Seq(S), NEW t \in S, NEW value, \A x \in S : value[x] \in Int,
         InOrder(s, value)
  PROVE  InOrder(InsertOrdered(s, t, value), value)
<1> DEFINE p == Walk(s, t, value)
           r == InsertOrdered(s, t, value)
<1>1. /\ p \in Nat /\ p <= Len(s)
      /\ \A i \in 1 .. p : value[s[i]] <= value[t]
      /\ p < Len(s) => value[s[p + 1]] > value[t]
  BY WalkEnds
<1>2. r \in Seq(S) /\ Inserts(s, r, t, p)
  BY InsertOrderedInserts
<1>3. p < Len(s) => value[s[p + 1]] >= value[t]
  <2>1. Len(s) \in Nat /\ (p < Len(s) => p + 1 \in DOMAIN s)
    BY <1>1, Lengths
  <2> QED BY <1>1, <2>1, Lengths
<1>4. value[t] \in Int
  OBVIOUS
<1> HIDE DEF p, r
<1>5. InOrder(r, value)
  BY <1>1, <1>2, <1>3, <1>4, InsertionInOrder
<1> QED BY <1>5 DEF r

\* An extraction.
LEMMA ExtractedInserts ==
  ASSUME NEW S, NEW s \in Seq(S), NEW t \in ToSet(s)
  PROVE  Extracted(s, t) \in Seq(S) /\ \E p : Inserts(Extracted(s, t), s, t, p)
<1> DEFINE i == CHOOSE k \in DOMAIN s : s[k] = t
<1>1. i \in DOMAIN s /\ s[i] = t
  BY DEF ToSet
<1>2. Extracted(s, t) = RemoveAt(s, i)
  BY DEF Extracted
<1> HIDE DEF i
<1>3. i - 1 \in Nat /\ i - 1 < Len(s) /\ i - 1 + 1 = i
  BY <1>1, Lengths
<1>4. RemoveAt(s, i - 1 + 1) \in Seq(S) /\ Inserts(RemoveAt(s, i - 1 + 1), s, s[i - 1 + 1], i - 1)
  BY <1>3, RemoveAtInserts
<1> QED BY <1>1, <1>2, <1>3, <1>4

LEMMA ExtractedNothing ==
  ASSUME NEW s, NEW t, t \notin ToSet(s)
  PROVE  Extracted(s, t) = s
  BY DEF Extracted

-----------------------------------------------------------------------------
(***************************************************************************)
(* What the operations of the modules leave of a chain.                    *)
(***************************************************************************)
LEMMA Grows ==
  ASSUME NEW S, NEW s \in Seq(S), NEW r \in Seq(S), NEW t, NEW p, Inserts(s, r, t, p)
  PROVE  /\ Len(r) = Len(s) + 1 /\ ToSet(r) = ToSet(s) \cup {t} /\ r # <<>>
         /\ NoRepetition(s) /\ t \notin ToSet(s) => NoRepetition(r)
<1>1. Len(r) = Len(s) + 1 /\ Len(s) \in Nat
  BY Lengths DEF Inserts
<1>2. r # <<>>
  BY <1>1
<1> QED BY <1>1, <1>2, InsertsRange, InsertsRepeatsNothing

LEMMA Shrinks ==
  ASSUME NEW S, NEW s \in Seq(S), NEW r \in Seq(S), NEW t, NEW p, Inserts(s, r, t, p),
         NoRepetition(r)
  PROVE  /\ Len(s) = Len(r) - 1 /\ Len(s) \in Nat
         /\ ToSet(s) = ToSet(r) \ {t} /\ t \in ToSet(r) /\ NoRepetition(s)
<1>1. Len(r) = Len(s) + 1 /\ Len(s) \in Nat
  BY Lengths DEF Inserts
<1>2. NoRepetition(s) /\ t \notin ToSet(s)
  BY InsertsRepeatsNothing
<1>3. ToSet(r) = ToSet(s) \cup {t}
  BY InsertsRange
<1> QED BY <1>1, <1>2, <1>3

LEMMA EmptyChain ==
  /\ ToSet(<<>>) = {} /\ NoRepetition(<<>>) /\ \A value : InOrder(<<>>, value)
  BY DEF ToSet, NoRepetition, InOrder

LEMMA ChainMembers ==
  ASSUME NEW S, NEW s \in Seq(S)
  PROVE  /\ ToSet(s) \subseteq S /\ (s = <<>> <=> ToSet(s) = {}) /\ (s = <<>> <=> Len(s) = 0)
<1>1. ToSet(s) \subseteq S
  BY Lengths DEF ToSet
<1>2. s # <<>> => s[1] \in ToSet(s)
  BY DEF ToSet
<1>3. s = <<>> <=> Len(s) = 0
  OBVIOUS
<1> QED BY <1>1, <1>2, <1>3, EmptyChain

LEMMA AppendGrows ==
  ASSUME NEW S, NEW s \in Seq(S), NEW t \in S, NoRepetition(s), t \notin ToSet(s)
  PROVE  /\ Append(s, t) \in Seq(S) /\ Len(Append(s, t)) = Len(s) + 1
         /\ ToSet(Append(s, t)) = ToSet(s) \cup {t} /\ NoRepetition(Append(s, t))
<1>1. PICK r : r = Append(s, t)
  OBVIOUS
<1>2. r \in Seq(S) /\ Inserts(s, r, t, Len(s))
  BY <1>1, AppendInserts
<1>3. Len(r) = Len(s) + 1 /\ ToSet(r) = ToSet(s) \cup {t} /\ NoRepetition(r)
  BY <1>2, Grows
<1> QED BY <1>1, <1>2, <1>3, Zenon

LEMMA TailShrinks ==
  ASSUME NEW S, NEW s \in Seq(S), s # <<>>, NoRepetition(s)
  PROVE  /\ Tail(s) \in Seq(S) /\ Len(Tail(s)) = Len(s) - 1 /\ Head(s) \in S
         /\ ToSet(Tail(s)) = ToSet(s) \ {Head(s)} /\ Head(s) \in ToSet(s)
         /\ NoRepetition(Tail(s))
<1>1. PICK r : r = Tail(s)
  OBVIOUS
<1>2. r \in Seq(S) /\ Head(s) \in S /\ Inserts(r, s, Head(s), 0)
  BY <1>1, TailInserts
<1>3. /\ Len(r) = Len(s) - 1 /\ ToSet(r) = ToSet(s) \ {Head(s)}
      /\ Head(s) \in ToSet(s) /\ NoRepetition(r)
  BY <1>2, Shrinks
<1> QED BY <1>1, <1>2, <1>3

LEMMA ExtractedShrinks ==
  ASSUME NEW S, NEW s \in Seq(S), NoRepetition(s), NEW t
  PROVE  /\ Extracted(s, t) \in Seq(S) /\ NoRepetition(Extracted(s, t))
         /\ ToSet(Extracted(s, t)) = ToSet(s) \ {t}
<1>1. CASE t \in ToSet(s)
  <2>1. PICK p : Inserts(Extracted(s, t), s, t, p)
    BY <1>1, ExtractedInserts
  <2> QED BY <1>1, <2>1, ExtractedInserts, Shrinks, Zenon
<1>2. CASE t \notin ToSet(s)
  BY <1>2, ExtractedNothing
<1> QED BY <1>1, <1>2

LEMMA ExtractedInOrder ==
  ASSUME NEW S, NEW s \in Seq(S), NEW t, NEW value, InOrder(s, value)
  PROVE  InOrder(Extracted(s, t), value)
<1>1. CASE t \in ToSet(s)
  <2>1. PICK p : Inserts(Extracted(s, t), s, t, p)
    BY <1>1, ExtractedInserts
  <2> QED BY <1>1, <2>1, ExtractedInserts, ExtractionInOrder, Zenon
<1>2. CASE t \notin ToSet(s)
  BY <1>2, ExtractedNothing
<1> QED BY <1>1, <1>2
-----------------------------------------------------------------------------
(***************************************************************************)
(* The ticks to the places of a chain.                                     *)
(***************************************************************************)

\* Induction up to a number, on a set.
LEMMA UpTo ==
  ASSUME NEW n \in Nat, NEW T, 0 \in T, \A i \in 1 .. n : i - 1 \in T => i \in T
  PROVE  \A i \in 0 .. n : i \in T
<1> DEFINE Bad == {i \in 0 .. n : i \notin T}
<1> SUFFICES ASSUME Bad # {} PROVE FALSE
  OBVIOUS
<1>1. PICK x \in Bad : \A y \in Bad : x <= y
  <2>1. Bad \subseteq Nat
    OBVIOUS
  <2> HIDE DEF Bad
  <2> QED BY <2>1, LeastNatural
<1>2. x \in 1 .. n /\ x \notin T
  BY <1>1
<1>3. x - 1 \notin Bad
  BY <1>1, <1>2
<1> QED BY <1>2, <1>3

\* f has the ticks to the first n places.
Sums(s, d, f, n) ==
  /\ f \in [0 .. n -> Nat] /\ f[0] = 0
  /\ \A i \in 1 .. n : f[i] = f[i - 1] + d[s[i]]

LEMMA SumsExist ==
  ASSUME NEW S, NEW s \in Seq(S), NEW d \in [S -> Nat]
  PROVE  \E f : Sums(s, d, f, Len(s))
<1> DEFINE n == Len(s)
           T == {i \in 0 .. n : \E f : Sums(s, d, f, i)}
<1>1. n \in Nat
  BY Lengths
<1>2. 0 \in T
  <2>1. Sums(s, d, [i \in 0 .. 0 |-> 0], 0)
    BY DEF Sums
  <2> QED BY <1>1, <2>1
<1>3. ASSUME NEW i \in 1 .. n, i - 1 \in T PROVE i \in T
  <2>1. PICK f : Sums(s, d, f, i - 1)
    BY <1>3
  <2>2. d[s[i]] \in Nat
    BY Lengths
  <2> DEFINE g == [j \in 0 .. i |-> IF j = i THEN f[i - 1] + d[s[i]] ELSE f[j]]
  <2>3. Sums(s, d, g, i)
    <3>1. g \in [0 .. i -> Nat] /\ g[0] = 0
      BY <1>1, <2>1, <2>2 DEF Sums
    <3>2. ASSUME NEW j \in 1 .. i PROVE g[j] = g[j - 1] + d[s[j]]
      <4>1. j \in 0 .. i /\ j - 1 \in 0 .. i /\ j - 1 # i /\ g[j - 1] = f[j - 1]
        BY <1>1
      <4>2. CASE j = i
        BY <4>1, <4>2
      <4>3. CASE j # i
        <5>1. j \in 1 .. i - 1 /\ g[j] = f[j]
          BY <1>1, <4>1, <4>3
        <5>2. f[j] = f[j - 1] + d[s[j]]
          BY <2>1, <5>1 DEF Sums
        <5> QED BY <4>1, <5>1, <5>2
      <4> QED BY <4>2, <4>3
    <3> QED BY <3>1, <3>2 DEF Sums
  <2> QED BY <1>1, <2>3
<1> HIDE DEF T, n
<1>4. \A i \in 0 .. n : i \in T
  BY <1>1, <1>2, <1>3, UpTo
<1> QED BY <1>1, <1>4 DEF T, n

\* The ticks to the places are the sums of the deltas.
LEMMA TicksSum ==
  ASSUME NEW S, NEW s \in Seq(S), NEW d \in [S -> Nat]
  PROVE  /\ Ticks(s, d) \in [0 .. Len(s) -> Nat] /\ Ticks(s, d)[0] = 0
         /\ \A i \in 1 .. Len(s) : Ticks(s, d)[i] = Ticks(s, d)[i - 1] + d[s[i]]
<1> DEFINE n == Len(s)
           At(f) == [i \in 0 .. n |-> IF i = 0 THEN 0 ELSE f[i - 1] + d[s[i]]]
<1>1. n \in Nat
  BY Lengths
<1>2. PICK f : Sums(s, d, f, n)
  BY SumsExist
<1>3. f = At(f)
  BY <1>1, <1>2 DEF Sums
<1>4. Ticks(s, d) = At(Ticks(s, d))
  BY <1>3 DEF Ticks
<1> DEFINE r == Ticks(s, d)
           T == {i \in 0 .. n : r[i] \in Nat}
<1> HIDE DEF r
<1>5. /\ DOMAIN r = 0 .. n /\ r[0] = 0
      /\ \A i \in 1 .. n : r[i] = r[i - 1] + d[s[i]]
  <2>1. r = At(r)
    BY <1>4 DEF r
  <2>2. DOMAIN r = 0 .. n /\ \A i \in 0 .. n : r[i] = At(r)[i]
    BY <2>1
  <2>3. r[0] = 0
    <3>1. 0 \in 0 .. n
      BY <1>1
    <3> QED BY <2>2, <3>1
  <2>4. ASSUME NEW i \in 1 .. n PROVE r[i] = r[i - 1] + d[s[i]]
    <3>1. i \in 0 .. n /\ i # 0
      BY <1>1
    <3> QED BY <2>2, <3>1
  <2> QED BY <2>2, <2>3, <2>4
<1>6. \A i \in 0 .. n : i \in T
  <2>1. 0 \in T
    BY <1>1, <1>5
  <2>2. ASSUME NEW i \in 1 .. n, i - 1 \in T PROVE i \in T
    <3>1. d[s[i]] \in Nat /\ i \in 0 .. n
      BY <1>1, Lengths
    <3>2. r[i] = r[i - 1] + d[s[i]] /\ r[i - 1] \in Nat
      BY <1>5, <2>2
    <3> QED BY <3>1, <3>2
  <2> HIDE DEF T
  <2> QED BY <1>1, <2>1, <2>2, UpTo
<1>7. r \in [0 .. n -> Nat]
  <2>1. r = [i \in 0 .. n |-> r[i]]
    BY <1>4, <1>5 DEF r
  <2> QED BY <1>6, <2>1
<1> QED BY <1>5, <1>7 DEF Sums, r

\* The chain r with the deltas d is s with the deltas c and t more, behind place p;
\* the next node shares its ticks with t.
Shares(S, s, r, t, p, c, d) ==
  /\ s \in Seq(S) /\ r \in Seq(S) /\ t \in S /\ Inserts(s, r, t, p)
  /\ c \in [S -> Nat] /\ d \in [S -> Nat]
  /\ \A i \in 1 .. Len(s) : i # p + 1 => d[s[i]] = c[s[i]]
  /\ p < Len(s) => d[t] + d[s[p + 1]] = c[s[p + 1]]

\* A node more or less on the chain leaves the ticks to the others alone,
\* when the next one gives up or takes over its ticks.
LEMMA TicksSplit ==
  ASSUME NEW S, NEW s, NEW r, NEW t, NEW p, NEW c, NEW d, Shares(S, s, r, t, p, c, d)
  PROVE  /\ Ticks(r, d)[p + 1] = Ticks(s, c)[p] + d[t]
         /\ \A i \in 1 .. Len(s) : Ticks(r, d)[Shift(p, i)] = Ticks(s, c)[i]
<1>0. /\ s \in Seq(S) /\ r \in Seq(S) /\ t \in S /\ Inserts(s, r, t, p)
      /\ c \in [S -> Nat] /\ d \in [S -> Nat]
  BY DEF Shares
<1> DEFINE n == Len(s)
           f == Ticks(s, c)
           g == Ticks(r, d)
           T == {i \in 0 .. n : (i <= p => g[i] = f[i]) /\ (i > p => g[i + 1] = f[i])}
<1> HIDE DEF f, g
<1>1. n \in Nat /\ p \in Nat /\ p <= n /\ Len(r) = n + 1
  BY <1>0, Lengths DEF Inserts
<1>2. /\ f \in [0 .. n -> Nat] /\ f[0] = 0
      /\ \A i \in 1 .. n : f[i] = f[i - 1] + c[s[i]]
  BY <1>0, TicksSum DEF f
<1>3. /\ g \in [0 .. n + 1 -> Nat] /\ g[0] = 0
      /\ \A i \in 1 .. n + 1 : g[i] = g[i - 1] + d[r[i]]
  <2>1. /\ g \in [0 .. Len(r) -> Nat] /\ g[0] = 0
        /\ \A i \in 1 .. Len(r) : g[i] = g[i - 1] + d[r[i]]
    BY <1>0, TicksSum DEF g
  <2> QED BY <1>1, <2>1
<1>4. /\ r[p + 1] = t /\ \A i \in 1 .. p : r[i] = s[i]
      /\ \A i \in p + 1 .. n : r[i + 1] = s[i]
  BY <1>0, Lengths DEF Inserts
<1>5. 0 \in T
  BY <1>1, <1>2, <1>3
<1>6. g[p + 1] = g[p] + d[t]
  BY <1>1, <1>3, <1>4
<1>7. ASSUME NEW i \in 1 .. n, i - 1 \in T PROVE i \in T
  <2>0. s[i] \in S /\ c[s[i]] \in Nat /\ d[s[i]] \in Nat
    BY <1>0, Lengths
  <2>1. CASE i <= p
    <3>0. i \in 1 .. n + 1 /\ i \in 1 .. p /\ i - 1 \in 0 .. n
      BY <1>1, <2>1
    <3>1. g[i] = g[i - 1] + d[s[i]] /\ f[i] = f[i - 1] + c[s[i]]
      BY <1>2, <1>3, <1>4, <3>0
    <3>2. g[i - 1] = f[i - 1] /\ d[s[i]] = c[s[i]]
      <4>1. i - 1 <= p /\ i # p + 1
        BY <1>1, <3>0
      <4> QED BY <1>7, <4>1 DEF Shares
    <3> QED BY <1>1, <2>1, <3>1, <3>2
  <2>2. CASE i > p
    <3>1. i + 1 \in 1 .. n + 1 /\ (i + 1) - 1 = i /\ i \in p + 1 .. n
      BY <1>1, <2>2
    <3>2. g[i + 1] = g[i] + d[s[i]] /\ f[i] = f[i - 1] + c[s[i]]
      <4>1. r[i + 1] = s[i] /\ f[i] = f[i - 1] + c[s[i]]
        BY <1>2, <1>4, <3>1
      <4>2. g[i + 1] = g[(i + 1) - 1] + d[r[i + 1]]
        BY <1>3, <3>1
      <4> QED BY <3>1, <4>1, <4>2
    <3>3. CASE i = p + 1
      <4>1. g[p] = f[p] /\ i - 1 = p
        BY <1>1, <1>7, <3>3
      <4>2. d[t] + d[s[i]] = c[s[i]] /\ d[t] \in Nat
        BY <1>0, <1>1, <3>3, Lengths DEF Shares
      <4>3. g[i] = f[p] + d[t] /\ f[p] \in Nat
        <5>1. p \in 0 .. n
          BY <1>1
        <5> QED BY <1>2, <1>6, <3>3, <4>1, <5>1
      <4>4. g[i + 1] = f[i]
        BY <2>0, <3>2, <4>1, <4>2, <4>3
      <4> QED BY <1>1, <2>2, <4>4
    <3>4. CASE i # p + 1
      <4>1. g[i] = f[i - 1] /\ d[s[i]] = c[s[i]]
        <5>1. i - 1 > p /\ (i - 1) + 1 = i
          BY <1>1, <2>2, <3>4
        <5>2. g[(i - 1) + 1] = f[i - 1]
          BY <1>7, <5>1
        <5> QED BY <3>4, <5>1, <5>2 DEF Shares
      <4> QED BY <1>1, <2>2, <3>2, <4>1
    <3> QED BY <3>3, <3>4
  <2> QED BY <1>1, <2>1, <2>2
<1> HIDE DEF T
<1>8. \A i \in 0 .. n : i \in T
  BY <1>1, <1>5, <1>7, UpTo
<1>9. g[p] = f[p]
  BY <1>1, <1>8 DEF T
<1>10. ASSUME NEW i \in 1 .. n PROVE g[Shift(p, i)] = f[i]
  <2>1. i \in T
    BY <1>1, <1>8
  <2>2. CASE i <= p
    BY <2>1, <2>2 DEF T, Shift
  <2>3. CASE ~(i <= p)
    <3>1. i > p
      BY <1>1, <2>3
    <3> QED BY <2>1, <2>3, <3>1 DEF T, Shift
  <2> QED BY <2>2, <2>3
<1> QED BY <1>6, <1>9, <1>10 DEF f, g

\* The first node of s has x ticks more in d than in c.
Moves(S, s, c, d, x) ==
  /\ s \in Seq(S) /\ s # <<>> /\ NoRepetition(s)
  /\ c \in [S -> Nat] /\ d \in [S -> Nat] /\ x \in Int
  /\ \A t \in S : t # s[1] => d[t] = c[t]
  /\ d[s[1]] = c[s[1]] + x

\* Ticks given to the first node are given to all, and so are those taken from it.
LEMMA TicksMove ==
  ASSUME NEW S, NEW s, NEW c, NEW d, NEW x, Moves(S, s, c, d, x)
  PROVE  \A i \in 1 .. Len(s) : Ticks(s, d)[i] = Ticks(s, c)[i] + x
<1>0. /\ s \in Seq(S) /\ s # <<>> /\ NoRepetition(s)
      /\ c \in [S -> Nat] /\ d \in [S -> Nat] /\ x \in Int
  BY DEF Moves
<1> DEFINE n == Len(s)
           f == Ticks(s, c)
           g == Ticks(s, d)
           T == {i \in 0 .. n : i > 0 => g[i] = f[i] + x}
<1> HIDE DEF f, g
<1>1. n \in Nat /\ n >= 1
  BY <1>0, Lengths
<1>2. /\ f \in [0 .. n -> Nat] /\ f[0] = 0
      /\ \A i \in 1 .. n : f[i] = f[i - 1] + c[s[i]]
  BY <1>0, TicksSum DEF f
<1>3. /\ g \in [0 .. n -> Nat] /\ g[0] = 0
      /\ \A i \in 1 .. n : g[i] = g[i - 1] + d[s[i]]
  BY <1>0, TicksSum DEF g
<1>4. 0 \in T
  BY <1>1
<1>5. ASSUME NEW i \in 1 .. n, i - 1 \in T PROVE i \in T
  <2>1. CASE i = 1
    <3>1. 1 \in 1 .. n /\ 1 - 1 = 0 /\ c[s[1]] \in Nat /\ d[s[1]] \in Nat
      BY <1>0, <1>1, Lengths
    <3>2. f[1] = f[0] + c[s[1]] /\ g[1] = g[0] + d[s[1]]
      BY <1>2, <1>3, <3>1
    <3>3. g[1] = f[1] + x
      BY <1>2, <1>3, <3>1, <3>2 DEF Moves
    <3> QED BY <1>1, <2>1, <3>3
  <2>2. CASE i # 1
    <3>1. s[i] # s[1] /\ s[i] \in S
      BY <1>0, <1>1, <2>2, Lengths DEF NoRepetition
    <3>2. d[s[i]] = c[s[i]] /\ c[s[i]] \in Nat
      BY <1>0, <1>1, <3>1 DEF Moves
    <3>3. i - 1 \in 0 .. n /\ i - 1 > 0 /\ i \in 0 .. n /\ i > 0
      BY <1>1, <2>2
    <3>4. g[i - 1] = f[i - 1] + x /\ f[i - 1] \in Nat
      BY <1>2, <1>5, <3>3
    <3>5. g[i] = f[i - 1] + x + c[s[i]] /\ f[i] = f[i - 1] + c[s[i]]
      BY <1>2, <1>3, <3>2, <3>4
    <3>6. g[i] = f[i] + x
      BY <1>0, <3>2, <3>4, <3>5
    <3> QED BY <3>3, <3>6
  <2> QED BY <2>1, <2>2
<1> HIDE DEF T
<1>6. \A i \in 0 .. n : i \in T
  BY <1>1, <1>4, <1>5, UpTo
<1> QED BY <1>1, <1>6 DEF T, f, g
=============================================================================
