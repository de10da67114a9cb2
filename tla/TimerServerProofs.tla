-------------------------- MODULE TimerServerProofs --------------------------
(***************************************************************************)
(* Timers are on the chain of their class or on none, the server is woken  *)
(* in time, and serves no timer early.                                     *)
(***************************************************************************)
EXTENDS TimerServer, OrderedQueueProofs

-----------------------------------------------------------------------------
(***************************************************************************)
(* The ticks to the places of the chain.                                   *)
(***************************************************************************)

LEMMA WatchdogFields ==
  ASSUME NEW w \in Watchdogs
  PROVE  /\ w.chain \in Seq(Timer) /\ w.delta \in [Timer -> Nat]
         /\ w.last \in Nat /\ w.current \in Nat /\ w.swd \in Nat
         /\ Len(w.chain) \in Nat /\ DOMAIN w.chain = 1 .. Len(w.chain)
         /\ \A i \in 1 .. Len(w.chain) : w.chain[i] \in Timer /\ w.delta[w.chain[i]] \in Nat
<1>1. /\ w.chain \in Seq(Timer) /\ w.delta \in [Timer -> Nat]
      /\ w.last \in Nat /\ w.current \in Nat /\ w.swd \in Nat
  BY DEF Watchdogs
<1> QED BY <1>1, Lengths

LEMMA ReachSums ==
  ASSUME NEW w \in Watchdogs
  PROVE  /\ Reach(w) \in [0 .. Len(w.chain) -> Nat] /\ Reach(w)[0] = 0
         /\ \A i \in 1 .. Len(w.chain) : Reach(w)[i] = Reach(w)[i - 1] + w.delta[w.chain[i]]
<1>1. PICK s \in Seq(Timer), d \in [Timer -> Nat] : s = w.chain /\ d = w.delta
  BY WatchdogFields
<1>2. /\ Ticks(s, d) \in [0 .. Len(s) -> Nat] /\ Ticks(s, d)[0] = 0
      /\ \A i \in 1 .. Len(s) : Ticks(s, d)[i] = Ticks(s, d)[i - 1] + d[s[i]]
  BY TicksSum
<1> QED BY <1>1, <1>2 DEF Reach

\* A watchdog more or less on the chain leaves the ticks to the others alone,
\* when the next one gives up or takes over its ticks.
LEMMA ReachSplits ==
  ASSUME NEW s \in Watchdogs, NEW r \in Watchdogs, NEW t \in Timer, NEW p,
         Inserts(s.chain, r.chain, t, p), NoRepetition(r.chain),
         \A i \in 1 .. Len(s.chain) : i # p + 1 => r.delta[s.chain[i]] = s.delta[s.chain[i]],
         p < Len(s.chain) =>
           r.delta[t] + r.delta[s.chain[p + 1]] = s.delta[s.chain[p + 1]]
  PROVE  /\ Reach(r)[p + 1] = Reach(s)[p] + r.delta[t]
         /\ \A i \in 1 .. Len(s.chain) : Reach(r)[Shift(p, i)] = Reach(s)[i]
<1>1. Shares(Timer, s.chain, r.chain, t, p, s.delta, r.delta)
  BY WatchdogFields DEF Shares
<1> QED BY <1>1, TicksSplit DEF Reach

\* Ticks given to the first watchdog or taken from it.
LEMMA ReachMoves ==
  ASSUME NEW s \in Watchdogs, NEW r \in Watchdogs, NEW d \in Int,
         r.chain = s.chain, s.chain # <<>>, NoRepetition(s.chain),
         \A t \in Timer : t # Head(s.chain) => r.delta[t] = s.delta[t],
         FirstDelta(r) = FirstDelta(s) + d
  PROVE  \A i \in 1 .. Len(s.chain) : Reach(r)[i] = Reach(s)[i] + d
<1>1. Head(s.chain) = s.chain[1]
  BY WatchdogFields
<1>2. r.delta[s.chain[1]] = s.delta[s.chain[1]] + d
  BY <1>1 DEF FirstDelta
<1>3. Moves(Timer, s.chain, s.delta, r.delta, d)
  BY <1>1, <1>2, WatchdogFields DEF Moves
<1>4. \A i \in 1 .. Len(s.chain) : Ticks(s.chain, r.delta)[i] = Ticks(s.chain, s.delta)[i] + d
  BY <1>3, TicksMove
<1> QED BY <1>4 DEF Reach

LEMMA ReachFirst ==
  ASSUME NEW w \in Watchdogs, w.chain # <<>>
  PROVE  /\ Reach(w)[1] = FirstDelta(w) /\ FirstDelta(w) \in Nat
         /\ Head(w.chain) \in Timer /\ Head(w.chain) = w.chain[1] /\ Len(w.chain) >= 1
<1>1. Head(w.chain) = w.chain[1] /\ Len(w.chain) >= 1
  BY WatchdogFields
<1>2. 1 \in 1 .. Len(w.chain) /\ 1 - 1 = 0
  BY <1>1, WatchdogFields
<1>3. w.chain[1] \in Timer /\ w.delta[w.chain[1]] \in Nat
  BY <1>2, WatchdogFields
<1>4. Reach(w)[1] = Reach(w)[0] + w.delta[w.chain[1]] /\ Reach(w)[0] = 0
  BY <1>2, ReachSums
<1> QED BY <1>1, <1>3, <1>4 DEF FirstDelta

LEMMA BehindEnds ==
  ASSUME NEW w \in Watchdogs, NEW n \in Nat
  PROVE  /\ Behind(w, n) \in 0 .. Len(w.chain) /\ Reach(w)[Behind(w, n)] <= n
         /\ Behind(w, n) < Len(w.chain) => n < Reach(w)[Behind(w, n) + 1]
<1> DEFINE f == Reach(w)
           m == Len(w.chain)
           T == {p \in 0 .. m : p < m => n < f[p + 1]}
<1> HIDE DEF f
<1>1. m \in Nat /\ f \in [0 .. m -> Nat] /\ f[0] = 0
  BY WatchdogFields, ReachSums DEF f
<1>2. T \subseteq Nat /\ m \in T
  BY <1>1
<1>3. PICK p \in T : \A q \in T : p <= q
  <2> HIDE DEF T
  <2> QED BY <1>2, LeastNatural
<1>4. f[p] <= n
  <2>1. CASE p = 0
    BY <1>1, <2>1
  <2>2. CASE p # 0
    <3>1. p - 1 \in 0 .. m /\ p - 1 < m /\ p - 1 + 1 = p /\ ~(p <= p - 1)
      BY <1>1, <2>2
    <3>2. ~(n < f[p])
      BY <1>3, <3>1
    <3> QED BY <1>1, <1>3, <3>2
  <2> QED BY <2>1, <2>2
<1>5. p \in 0 .. m /\ f[p] <= n /\ (p < m => n < f[p + 1])
  BY <1>3, <1>4
<1> QED BY <1>5 DEF Behind, f

\* The watchdogs r are s with t more, in n ticks.
Splits(s, r, t, n) ==
  \E p : /\ Inserts(s.chain, r.chain, t, p) /\ Reach(r)[p + 1] = n
         /\ \A i \in 1 .. Len(s.chain) : Reach(r)[Shift(p, i)] = Reach(s)[i]

\* What an insertion leaves of the watchdogs.
Places(w, q, t, n) ==
  /\ q \in Watchdogs /\ NoRepetition(q.chain) /\ q.chain # <<>>
  /\ ToSet(q.chain) = ToSet(w.chain) \cup {t}
  /\ q.last = w.last /\ q.current = w.current /\ q.swd = w.swd
  /\ Splits(w, q, t, n)

LEMMA PlacedIs ==
  ASSUME NEW w \in Watchdogs, NoRepetition(w.chain),
         NEW t \in Timer, ~OnServer(w, t), NEW n \in Nat
  PROVE  Places(w, Placed(w, t, n), t, n)
<1> DEFINE p == Behind(w, n)
           m == Len(w.chain)
           d == n - Reach(w)[p]
           q == Placed(w, t, n)
           D == [v \in Timer |-> IF v = t THEN d
                                 ELSE IF p < m /\ v = w.chain[p + 1] THEN w.delta[v] - d
                                 ELSE w.delta[v]]
<1>1. q = [w EXCEPT !.chain = InsertAt(w.chain, p + 1, t), !.delta = D]
  BY DEF Placed
<1> HIDE DEF p, D, q
<1>2. m \in Nat /\ p \in Nat /\ p <= m /\ w.chain \in Seq(Timer) /\ w.delta \in [Timer -> Nat]
  BY WatchdogFields, BehindEnds DEF p
<1>3. d \in Nat /\ (p < m => d < w.delta[w.chain[p + 1]])
  <2>1. Reach(w) \in [0 .. m -> Nat] /\ p \in 0 .. m /\ Reach(w)[p] <= n /\ (p < m => n < Reach(w)[p + 1])
    BY ReachSums, BehindEnds DEF p
  <2>2. d \in Nat
    BY <2>1
  <2>3. ASSUME p < m PROVE d < w.delta[w.chain[p + 1]]
    <3>1. p + 1 \in 1 .. m /\ p + 1 - 1 = p
      BY <1>2, <2>3
    <3>2. /\ \A i \in 1 .. m : Reach(w)[i] = Reach(w)[i - 1] + w.delta[w.chain[i]]
          /\ w.delta[w.chain[p + 1]] \in Nat
      BY <3>1, ReachSums, WatchdogFields
    <3>3. Reach(w)[p + 1] = Reach(w)[p] + w.delta[w.chain[p + 1]]
      <4>1. PICK k \in 1 .. m : k = p + 1 /\ k - 1 = p
        BY <1>2, <3>1
      <4>2. Reach(w)[k] = Reach(w)[k - 1] + w.delta[w.chain[k]]
        BY <3>2, <4>1
      <4> QED BY <4>1, <4>2
    <3> QED BY <2>1, <2>3, <3>2, <3>3
  <2> QED BY <2>2, <2>3
<1> HIDE DEF d
<1>4. D \in [Timer -> Nat]
  BY <1>2, <1>3 DEF D
<1>5. /\ InsertAt(w.chain, p + 1, t) \in Seq(Timer)
      /\ Inserts(w.chain, InsertAt(w.chain, p + 1, t), t, p)
  BY <1>2, InsertAtInserts
<1>6. /\ q \in Watchdogs /\ q.chain = InsertAt(w.chain, p + 1, t) /\ q.delta = D
      /\ q.last = w.last /\ q.current = w.current /\ q.swd = w.swd
  BY <1>1, <1>4, <1>5 DEF Watchdogs
<1>7. NoRepetition(q.chain) /\ q.chain # <<>> /\ ToSet(q.chain) = ToSet(w.chain) \cup {t}
  BY <1>2, <1>5, <1>6, Grows DEF OnServer
<1>8. \A i \in 1 .. m : w.chain[i] \in ToSet(w.chain) /\ w.chain[i] \in Timer /\ w.chain[i] # t
  BY WatchdogFields DEF ToSet, OnServer
<1>9. ASSUME NEW i \in 1 .. m, i # p + 1 PROVE q.delta[w.chain[i]] = w.delta[w.chain[i]]
  <2>1. p < m => w.chain[i] # w.chain[p + 1]
    BY <1>2, <1>9, WatchdogFields DEF NoRepetition
  <2> QED BY <1>6, <1>8, <2>1 DEF D
<1>10. p < m => q.delta[t] + q.delta[w.chain[p + 1]] = w.delta[w.chain[p + 1]]
  <2> SUFFICES ASSUME p < m PROVE q.delta[t] + q.delta[w.chain[p + 1]] = w.delta[w.chain[p + 1]]
    OBVIOUS
  <2>1. p + 1 \in 1 .. m
    BY <1>2
  <2>2. q.delta[t] = d /\ q.delta[w.chain[p + 1]] = w.delta[w.chain[p + 1]] - d
    BY <1>6, <1>8, <2>1 DEF D
  <2> QED BY <1>2, <1>3, <1>8, <2>1, <2>2
<1>11. /\ Reach(q)[p + 1] = Reach(w)[p] + q.delta[t]
       /\ \A i \in 1 .. m : Reach(q)[Shift(p, i)] = Reach(w)[i]
  BY <1>5, <1>6, <1>7, <1>9, <1>10, ReachSplits
<1>12. Reach(w)[p] + q.delta[t] = n
  <2>1. q.delta[t] = d
    BY <1>6 DEF D
  <2>2. Reach(w)[p] \in Nat
    BY <1>2, ReachSums
  <2> QED BY <2>1, <2>2 DEF d
<1>13. Splits(w, q, t, n)
  BY <1>5, <1>6, <1>11, <1>12 DEF Splits
<1> QED BY <1>6, <1>7, <1>13 DEF Places, q

\* What a removal leaves of them.
Leaves(w, q, t) ==
  /\ q \in Watchdogs /\ NoRepetition(q.chain)
  /\ ToSet(q.chain) = ToSet(w.chain) \ {t}
  /\ q.last = w.last /\ q.current = w.current /\ q.swd = w.swd
  /\ IF OnServer(w, t) THEN \E n : Splits(q, w, t, n) ELSE q = w

LEMMA WithoutIs ==
  ASSUME NEW w \in Watchdogs, NoRepetition(w.chain), NEW t \in Timer
  PROVE  Leaves(w, Without(w, t), t)
<1> DEFINE q == Without(w, t)
<1>1. CASE ~OnServer(w, t)
  BY <1>1 DEF Without, OnServer, Leaves
<1>2. CASE OnServer(w, t)
  <2> DEFINE k == CHOOSE i \in DOMAIN w.chain : w.chain[i] = t
             m == Len(w.chain)
             D == [v \in Timer |-> IF v = t THEN 0
                                   ELSE IF k < m /\ v = w.chain[k + 1] THEN w.delta[v] + w.delta[t]
                                   ELSE w.delta[v]]
  <2>1. q = [w EXCEPT !.chain = Extracted(w.chain, t), !.delta = D]
    BY <1>2 DEF Without
  <2>2. k \in DOMAIN w.chain /\ w.chain[k] = t
    BY <1>2 DEF OnServer, ToSet
  <2> HIDE DEF k, D, q
  <2>3. m \in Nat /\ w.chain \in Seq(Timer) /\ w.delta \in [Timer -> Nat] /\ k \in 1 .. m
    BY <2>2, WatchdogFields
  <2>4. D \in [Timer -> Nat]
    BY <2>3 DEF D
  <2>5. Extracted(w.chain, t) \in Seq(Timer) /\ \E p : Inserts(Extracted(w.chain, t), w.chain, t, p)
    BY <1>2, <2>3, ExtractedInserts DEF OnServer
  <2>6. /\ q \in Watchdogs /\ q.chain = Extracted(w.chain, t) /\ q.delta = D
        /\ q.last = w.last /\ q.current = w.current /\ q.swd = w.swd
    BY <2>1, <2>4, <2>5 DEF Watchdogs
  <2>7. PICK p : Inserts(q.chain, w.chain, t, p)
    BY <2>5, <2>6
  <2>8. NoRepetition(q.chain) /\ ToSet(q.chain) = ToSet(w.chain) \ {t}
    BY <2>3, <2>6, ExtractedShrinks
  <2>9. /\ p \in Nat /\ p <= Len(q.chain) /\ m = Len(q.chain) + 1 /\ Len(q.chain) \in Nat
        /\ w.chain[p + 1] = t /\ \A i \in p + 1 .. Len(q.chain) : w.chain[i + 1] = q.chain[i]
    BY <2>6, <2>7, WatchdogFields DEF Inserts
  <2>10. k = p + 1
    BY <2>2, <2>3, <2>9, WatchdogFields DEF NoRepetition
  <2>11. \A i \in 1 .. Len(q.chain) : q.chain[i] \in Timer /\ q.chain[i] # t
    BY <2>6, <2>8, WatchdogFields DEF ToSet
  <2>12. p < Len(q.chain) => k < m /\ w.chain[k + 1] = q.chain[p + 1] /\ p + 1 \in 1 .. Len(q.chain)
    BY <2>9, <2>10
  <2>13. k < m => p < Len(q.chain)
    BY <2>9, <2>10
  <2>14. ASSUME NEW i \in 1 .. Len(q.chain), i # p + 1
         PROVE  w.delta[q.chain[i]] = q.delta[q.chain[i]]
    <3>1. k < m => q.chain[i] # q.chain[p + 1]
      BY <2>6, <2>8, <2>12, <2>13, <2>14, WatchdogFields DEF NoRepetition
    <3> QED BY <2>6, <2>11, <2>12, <2>13, <3>1 DEF D
  <2>15. p < Len(q.chain) => w.delta[t] + w.delta[q.chain[p + 1]] = q.delta[q.chain[p + 1]]
    <3> SUFFICES ASSUME p < Len(q.chain)
                 PROVE  w.delta[t] + w.delta[q.chain[p + 1]] = q.delta[q.chain[p + 1]]
      OBVIOUS
    <3>1. q.delta[q.chain[p + 1]] = w.delta[q.chain[p + 1]] + w.delta[t]
      BY <2>6, <2>11, <2>12 DEF D
    <3> QED BY <2>3, <2>11, <2>12, <3>1
  <2>16. \A i \in 1 .. Len(q.chain) : Reach(w)[Shift(p, i)] = Reach(q)[i]
    BY <2>6, <2>7, <2>14, <2>15, ReachSplits
  <2>17. Splits(q, w, t, Reach(w)[p + 1])
    BY <2>7, <2>16 DEF Splits
  <2> QED BY <1>2, <2>6, <2>8, <2>17 DEF Leaves, q
<1> QED BY <1>1, <1>2

\* q is w but for the ticks of the first watchdog, and the snapshots.
HeadDiffers(w, q) ==
  /\ q \in Watchdogs /\ q.chain = w.chain
  /\ \A t \in Timer : w.chain # <<>> /\ t # Head(w.chain) => q.delta[t] = w.delta[t]

LEMMA LessIs ==
  ASSUME NEW a \in Nat, NEW b \in Int, b >= 0
  PROVE  Less(a, b) \in Nat /\ Less(a, b) <= a /\ Less(a, 0) = a /\ Less(a, b) >= a - b
  BY DEF Less

LEMMA RefreshedIs ==
  ASSUME NEW w \in Watchdogs, now \in Nat, w.last <= now, NEW q, q = Refreshed(w)
  PROVE  /\ HeadDiffers(w, q) /\ q.last = now /\ q.current = now
         /\ q.swd = Less(w.swd, now - w.last)
         /\ w.chain # <<>> => FirstDelta(q) = Less(FirstDelta(w), now - w.last)
<1> DEFINE d == now - w.last
           D == IF w.chain = <<>> THEN w.delta
                ELSE [w.delta EXCEPT ![Head(w.chain)] = Less(FirstDelta(w), d)]
<1>0. q = [w EXCEPT !.last = now, !.current = now, !.swd = Less(w.swd, d), !.delta = D]
  BY DEF Refreshed
<1>1. d \in Nat /\ w.delta \in [Timer -> Nat] /\ w.swd \in Nat
  BY WatchdogFields
<1>2. Less(w.swd, d) \in Nat
  BY <1>1 DEF Less
<1>3. w.chain # <<>> => /\ Head(w.chain) \in Timer
                        /\ Less(FirstDelta(w), d) \in Nat
  <2> SUFFICES ASSUME w.chain # <<>> PROVE Head(w.chain) \in Timer /\ Less(FirstDelta(w), d) \in Nat
    OBVIOUS
  <2>1. Head(w.chain) \in Timer /\ FirstDelta(w) \in Nat
    BY ReachFirst
  <2> QED BY <1>1, <2>1 DEF Less
<1> HIDE DEF d
<1>4. D \in [Timer -> Nat]
  BY <1>1, <1>3
<1>5. /\ w.chain # <<>> => D[Head(w.chain)] = Less(FirstDelta(w), d)
      /\ \A t \in Timer : w.chain # <<>> /\ t # Head(w.chain) => D[t] = w.delta[t]
  BY <1>1, <1>3
<1> HIDE DEF D
<1>6. /\ q \in Watchdogs /\ q.chain = w.chain /\ q.delta = D /\ q.last = now /\ q.current = now
      /\ q.swd = Less(w.swd, d)
  BY <1>0, <1>2, <1>4 DEF Watchdogs
<1> QED BY <1>5, <1>6 DEF HeadDiffers, FirstDelta, d

LEMMA HeadSet ==
  ASSUME NEW w \in Watchdogs, w.chain # <<>>, NEW n \in Nat,
         NEW q, q = [w EXCEPT !.delta[Head(w.chain)] = n]
  PROVE  /\ HeadDiffers(w, q) /\ q.last = w.last /\ q.current = w.current /\ q.swd = w.swd
         /\ FirstDelta(q) = n
<1>1. Head(w.chain) \in Timer /\ w.delta \in [Timer -> Nat]
  BY WatchdogFields, ReachFirst
<1>2. q = [w EXCEPT !.delta = [w.delta EXCEPT ![Head(w.chain)] = n]]
  OBVIOUS
<1>3. [w.delta EXCEPT ![Head(w.chain)] = n] \in [Timer -> Nat]
  BY <1>1
<1>4. /\ q \in Watchdogs /\ q.chain = w.chain /\ q.last = w.last /\ q.current = w.current
      /\ q.swd = w.swd /\ q.delta = [w.delta EXCEPT ![Head(w.chain)] = n]
  BY <1>2, <1>3 DEF Watchdogs
<1> QED BY <1>1, <1>4 DEF HeadDiffers, FirstDelta

LEMMA CountDownIs ==
  ASSUME NEW w \in Watchdogs, NEW q, q = CountDown(w)
  PROVE  /\ HeadDiffers(w, q) /\ q.last = w.last /\ q.current = w.current /\ q.swd = w.swd
         /\ w.chain # <<>> => FirstDelta(q) = Less(FirstDelta(w), 1)
<1>1. CASE w.chain = <<>>
  BY <1>1 DEF CountDown, HeadDiffers
<1>2. CASE w.chain # <<>>
  <2>1. FirstDelta(w) \in Nat
    BY <1>2, ReachFirst
  <2>2. Less(FirstDelta(w), 1) \in Nat
    BY <2>1 DEF Less
  <2>3. q = [w EXCEPT !.delta[Head(w.chain)] = Less(FirstDelta(w), 1)]
    BY <1>2 DEF CountDown, FirstDelta
  <2> QED BY <1>2, <2>2, <2>3, HeadSet
<1> QED BY <1>1, <1>2

\* The last turn of the loop, and the others.
LEMMA AdjustIs ==
  ASSUME NEW w \in Watchdogs, NEW u \in Nat, AdjustForward(w, u)
  PROVE  /\ HeadDiffers(w, wd') /\ units' \in Nat
         /\ wd'.last = w.last /\ wd'.current = w.current /\ wd'.swd = w.swd
         /\ \/ /\ pc' = "update" /\ units' = 0 /\ changed' = TRUE
               /\ w.chain # <<>> => u <= FirstDelta(w) /\ FirstDelta(wd') = FirstDelta(w) - u
            \/ /\ pc' = "tickle" /\ changed' = changed /\ w.chain # <<>>
               /\ FirstDelta(w) <= u /\ units' = u - FirstDelta(w) /\ FirstDelta(wd') = 1
<1>0. w.chain # <<>> => FirstDelta(w) \in Nat
  BY ReachFirst
<1>1. CASE w.chain = <<>>
  BY <1>1 DEF AdjustForward, HeadDiffers
<1>2. CASE w.chain # <<>> /\ (u < FirstDelta(w) \/ u = 0)
  <2>1. FirstDelta(w) - u \in Nat
    BY <1>0, <1>2
  <2>2. wd' = [w EXCEPT !.delta[Head(w.chain)] = FirstDelta(w) - u]
    BY <1>2 DEF AdjustForward, FirstDelta
  <2>3. /\ HeadDiffers(w, wd') /\ wd'.last = w.last /\ wd'.current = w.current
        /\ wd'.swd = w.swd /\ FirstDelta(wd') = FirstDelta(w) - u
    BY <1>2, <2>1, <2>2, HeadSet
  <2>4. pc' = "update" /\ units' = 0 /\ changed' = TRUE
    BY <1>2 DEF AdjustForward
  <2>5. u <= FirstDelta(w)
    BY <1>0, <1>2
  <2> QED BY <2>3, <2>4, <2>5
<1>3. CASE w.chain # <<>> /\ ~(u < FirstDelta(w) \/ u = 0)
  <2>1. /\ wd' = [w EXCEPT !.delta[Head(w.chain)] = 1] /\ units' = u - FirstDelta(w)
        /\ pc' = "tickle" /\ changed' = changed
    BY <1>3 DEF AdjustForward
  <2>2. /\ HeadDiffers(w, wd') /\ wd'.last = w.last /\ wd'.current = w.current
        /\ wd'.swd = w.swd /\ FirstDelta(wd') = 1
    BY <1>3, <2>1, HeadSet
  <2>3. FirstDelta(w) <= u /\ u - FirstDelta(w) \in Nat
    BY <1>0, <1>3
  <2> QED BY <1>3, <2>1, <2>2, <2>3
<1> QED BY <1>1, <1>2, <1>3

-----------------------------------------------------------------------------
(***************************************************************************)
(* The timers on the two chains.                                           *)
(***************************************************************************)

\* The watchdogs w, the ticks l of the other chain and the history d agree.
Chained(w, l, d) ==
  /\ w \in Watchdogs /\ NoRepetition(w.chain)
  /\ l \in [Timer \cup {System} -> Nat \cup {-1}] /\ d \in [Timer -> Int]
  /\ \A t \in Timer :
       /\ l[t] # 0 /\ d[t] >= -1
       /\ ~(l[t] >= 0 /\ t \in ToSet(w.chain))
       /\ (l[t] >= 0 \/ t \in ToSet(w.chain)) <=> d[t] >= 0

LEMMA SameChain ==
  ASSUME NEW w, NEW l, NEW d, Chained(w, l, d), NEW q \in Watchdogs, q.chain = w.chain
  PROVE  Chained(q, l, d)
  BY DEF Chained

LEMMA ChainedSystem ==
  ASSUME NEW w, NEW l, NEW d, Chained(w, l, d), NEW n \in Nat \cup {-1}
  PROVE  Chained(w, [l EXCEPT ![System] = n], d)
  BY TimerAssumption DEF Chained

LEMMA ChainedCancel ==
  ASSUME NEW w, NEW l, NEW d, Chained(w, l, d), NEW t \in Timer
  PROVE  Chained(Without(w, t), [l EXCEPT ![t] = -1], [d EXCEPT ![t] = -1])
<1>1. PICK q : q = Without(w, t)
  OBVIOUS
<1>2. q \in Watchdogs /\ NoRepetition(q.chain) /\ ToSet(q.chain) = ToSet(w.chain) \ {t}
  BY <1>1, WithoutIs DEF Chained, Leaves
<1>3. Chained(q, [l EXCEPT ![t] = -1], [d EXCEPT ![t] = -1])
  BY <1>2 DEF Chained
<1> QED BY <1>1, <1>3

LEMMA ChainedPlace ==
  ASSUME NEW w, NEW l, NEW d, Chained(w, l, d), NEW t \in Timer, NEW n \in Nat, NEW x \in Nat,
         ~(l[t] >= 0), ~OnServer(w, t)
  PROVE  Chained(Placed(w, t, n), l, [d EXCEPT ![t] = x])
<1>1. PICK q : q = Placed(w, t, n)
  OBVIOUS
<1>2. q \in Watchdogs /\ NoRepetition(q.chain) /\ ToSet(q.chain) = ToSet(w.chain) \cup {t}
  <2>1. w \in Watchdogs /\ NoRepetition(w.chain)
    BY DEF Chained
  <2> QED BY <1>1, <2>1, PlacedIs DEF Places
<1>3. Chained(q, l, [d EXCEPT ![t] = x])
  BY <1>2 DEF Chained
<1> QED BY <1>1, <1>3

LEMMA ChainedTicks ==
  ASSUME NEW w, NEW l, NEW d, Chained(w, l, d), NEW t \in Timer, NEW n \in Nat \ {0}, NEW x \in Nat,
         ~OnServer(w, t)
  PROVE  Chained(w, [l EXCEPT ![t] = n], [d EXCEPT ![t] = x])
  BY DEF Chained, OnServer

\* One that the server serves.
LEMMA ChainedServe ==
  ASSUME NEW w, NEW l, NEW d, Chained(w, l, d), w.chain # <<>>
  PROVE  Chained(Without(w, Head(w.chain)), l, [d EXCEPT ![Head(w.chain)] = -1])
<1>1. Head(w.chain) \in Timer /\ Head(w.chain) \in ToSet(w.chain)
  BY ReachFirst, WatchdogFields DEF Chained, ToSet
<1>2. [l EXCEPT ![Head(w.chain)] = -1] = l
  <2>1. l[Head(w.chain)] = -1 /\ l \in [Timer \cup {System} -> Nat \cup {-1}]
    BY <1>1 DEF Chained
  <2> QED BY <1>1, <2>1
<1> QED BY <1>1, <1>2, ChainedCancel

-----------------------------------------------------------------------------
\* What the steps of a directive owe to the ones before them.
Directive == {"check", "schedule", "store", "insert"}

Asked ==
  /\ \A t \in Timer : class[t] # "dormant" => initial[t] >= 1 \/ (pc = "store" /\ timer = t)
  /\ pc \in Directive => timer \in Timer /\ kind # "dormant"
  /\ pc \in {"check", "store"} => ticks \in Interval
  /\ pc = "schedule" => kind = "on_task"
  /\ pc = "store" => kind = "interval"
  /\ pc \in Directive \ {"check"} =>
       /\ class[timer] # "dormant"
       /\ kind = "on_task" => class[timer] = "on_task" \/ "start" \in IsrOps
       /\ kind = "interval" => \/ class[timer] = "interval"
                               \/ "start" \in IsrOps /\ OnServer(wd, timer)
                               \/ {"start", "cancel"} \subseteq IsrOps

\* The invariant behind TimersConsistent.
TimersInv == TypeOK /\ Chained(wd, left, due) /\ ClassAgrees /\ Asked

LEMMA TimersInvUse ==
  TimersInv => TimersConsistent
<1>1. TimersInv => OnOneChain
  BY DEF TimersInv, Chained, OnOneChain, Active, OnServer
<1> QED BY <1>1 DEF TimersInv, TimersConsistent

LEMMA TimersInvInit ==
  Init => TimersInv
<1> SUFFICES ASSUME Init PROVE TimersInv
  OBVIOUS
<1>1. scenario \in [ops : SUBSET {"start", "cancel", "routine", "slip"}, ticks : Nat]
  BY TimerAssumption DEF Init
<1>2. wd \in Watchdogs /\ wd.chain = <<>> /\ wd.last = 0 /\ wd.current = 0 /\ now = 0
  BY DEF Init, Watchdogs
<1>3. TypeOK
  <2>1. scenario \in Scenarios /\ now \in 0 .. MaxNow
    BY <1>1 DEF Init, MaxNow
  <2>2. /\ left \in [Timer \cup {System} -> Nat \cup {-1}] /\ class \in [Timer -> Class]
        /\ initial \in [Timer -> 0 .. MaxInterval] /\ due \in [Timer -> Int]
    BY TimerAssumption DEF Init, Class
  <2>3. /\ helper \in BOOLEAN /\ changed \in BOOLEAN /\ event \in BOOLEAN
        /\ pc = "idle" /\ timer \in Timer \cup {None} /\ ticks \in Nat /\ kind \in Class
        /\ units \in Nat /\ slip \in Nat
    BY DEF Init, Class
  <2> QED BY <1>2, <2>1, <2>2, <2>3 DEF TypeOK
<1>4. Chained(wd, left, due)
  BY <1>2, EmptyChain, TimerAssumption DEF Init, Chained
<1>5. ClassAgrees
  BY <1>2, EmptyChain DEF Init, ClassAgrees, OnServer
<1>6. Asked
  BY DEF Init, Asked, Directive
<1> QED BY <1>3, <1>4, <1>5, <1>6 DEF TimersInv

-----------------------------------------------------------------------------
\* The typed facts that the steps below use.
LEMMA TimersTyped ==
  ASSUME TimersInv
  PROVE  /\ wd \in Watchdogs /\ NoRepetition(wd.chain) /\ Chained(wd, left, due)
         /\ wd.last \in Nat /\ wd.current \in Nat /\ wd.swd \in Nat /\ now \in Nat
         /\ wd.last <= wd.current /\ wd.current <= now /\ wd.last <= now
         /\ left \in [Timer \cup {System} -> Nat \cup {-1}]
         /\ class \in [Timer -> Class] /\ initial \in [Timer -> 0 .. MaxInterval]
         /\ ticks \in Nat /\ units \in Nat /\ slip \in Nat
<1>1. wd \in Watchdogs /\ NoRepetition(wd.chain) /\ Chained(wd, left, due)
  BY DEF TimersInv, Chained
<1>2. wd.last \in Nat /\ wd.current \in Nat /\ wd.swd \in Nat
  BY <1>1, WatchdogFields
<1>3. now \in Nat
  BY TimerAssumption DEF TimersInv, TypeOK, MaxNow
<1> QED BY <1>1, <1>2, <1>3 DEF TimersInv, TypeOK

\* A step that starts no timer leaves no timer on a chain that it was not on.
LEMMA ClassKept ==
  ASSUME TimersInv, scenario' = scenario, class' = class,
         \A t \in Timer : left'[t] >= 0 => left[t] >= 0,
         ToSet(wd'.chain) \subseteq ToSet(wd.chain)
  PROVE  ClassAgrees'
<1>1. ClassAgrees
  BY DEF TimersInv
<1> QED BY <1>1 DEF ClassAgrees, OnServer, IsrOps

\* The steps of the server and of a helper that leave the timers where they are.
LEMMA ServerKeeps ==
  ASSUME TimersInv, scenario' = scenario, pc # "store",
         UNCHANGED <<now, class, initial, due, timer, kind>>,
         wd' \in Watchdogs, wd'.chain = wd.chain, wd'.last <= wd'.current, wd'.current <= now,
         left' = left \/ \E n \in Nat \cup {-1} : left' = [left EXCEPT ![System] = n],
         pc' \in {"idle", "update", "remove", "arm", "again", "loop", "tickle", "routine"},
         helper' \in BOOLEAN, changed' \in BOOLEAN, event' \in BOOLEAN,
         ticks' \in Nat, units' \in Nat, slip' \in Nat
  PROVE  TimersInv'
<1>1. Chained(wd', left', due')
  <2>1. Chained(wd, left', due)
    BY ChainedSystem DEF TimersInv
  <2> QED BY <2>1, SameChain
<1>2. TypeOK'
  BY <1>1 DEF TimersInv, TypeOK, Chained, MaxNow
<1>3. \A t \in Timer : left'[t] = left[t]
  BY TimersTyped, TimerAssumption
<1>4. ClassAgrees'
  BY <1>3, ClassKept
<1>5. Asked'
  BY DEF TimersInv, Asked, Directive
<1> QED BY <1>1, <1>2, <1>4, <1>5 DEF TimersInv

LEMMA UpdateTurnTimers ==
  ASSUME TimersInv, scenario' = scenario, UpdateTurn, pc # "store"
  PROVE  TimersInv'
<1>1. CASE MustArm(wd)
  <2>1. FirstDelta(wd) \in Nat
    BY <1>1, TimersTyped, ReachFirst DEF MustArm
  <2>2. /\ wd' \in Watchdogs /\ wd'.chain = wd.chain /\ wd'.last = wd.last
        /\ wd'.current = wd.current
    BY <1>1, <2>1, TimersTyped DEF UpdateTurn, Watchdogs
  <2>3. now - wd.last \in Nat
    BY TimersTyped
  <2> QED BY <1>1, <2>1, <2>2, <2>3, TimersTyped, ServerKeeps DEF UpdateTurn, timerVars, TimersInv, TypeOK
<1>2. CASE ~MustArm(wd)
  BY <1>2, TimersTyped, ServerKeeps DEF UpdateTurn, timerVars, TimersInv, TypeOK
<1> QED BY <1>1, <1>2

LEMMA UpdateTimers ==
  ASSUME TimersInv, scenario' = scenario,
         Update \/ UpdateRemove \/ UpdateArm \/ UpdateAgain
  PROVE  TimersInv'
<1>1. CASE Update
  <2>1. CASE helper
    BY <1>1, <2>1, TimersTyped, ServerKeeps DEF Update, timerVars, serverVars, TimersInv, TypeOK
  <2> QED BY <1>1, <2>1, UpdateTurnTimers DEF Update
<1>2. CASE UpdateRemove
  BY <1>2, TimersTyped, ServerKeeps DEF UpdateRemove, serverVars, TimersInv, TypeOK
<1>3. CASE UpdateArm
  BY <1>3, TimersTyped, ServerKeeps DEF UpdateArm, serverVars, TimersInv, TypeOK
<1>4. CASE UpdateAgain
  <2>1. CASE ~changed
    BY <1>4, <2>1, TimersTyped, ServerKeeps DEF UpdateAgain, timerVars, TimersInv, TypeOK
  <2> QED BY <1>4, <2>1, UpdateTurnTimers DEF UpdateAgain
<1> QED BY <1>1, <1>2, <1>3, <1>4

LEMMA AdjustTimers ==
  ASSUME TimersInv, scenario' = scenario, ServerTickle \/ ServerLoop
  PROVE  TimersInv'
<1>1. ASSUME NEW w \in Watchdogs, NEW u \in Nat, AdjustForward(w, u), w.chain = wd.chain,
             w.last <= w.current, w.current <= now, event' \in BOOLEAN, pc # "store",
             UNCHANGED <<now, timerVars, timer, ticks, kind, helper, slip>>
      PROVE  TimersInv'
  <2>1. /\ wd' \in Watchdogs /\ wd'.chain = wd.chain /\ units' \in Nat
        /\ wd'.last <= wd'.current /\ wd'.current <= now
    BY <1>1, AdjustIs DEF HeadDiffers
  <2>2. pc' \in {"update", "tickle"} /\ changed' \in BOOLEAN
    BY <1>1, AdjustIs DEF TimersInv, TypeOK
  <2> QED BY <1>1, <2>1, <2>2, TimersTyped, ServerKeeps DEF timerVars, TimersInv, TypeOK
<1>2. CASE ServerTickle
  <2>1. PICK w : w = [wd EXCEPT !.last = wd.current]
    OBVIOUS
  <2>2. /\ w \in Watchdogs /\ w.chain = wd.chain /\ w.last = wd.current
        /\ w.current = wd.current
    BY <2>1, TimersTyped DEF Watchdogs
  <2>3. wd.current - wd.last \in Nat
    BY TimersTyped
  <2>4. AdjustForward(w, wd.current - wd.last) /\ event' = FALSE
    BY <1>2, <2>1 DEF ServerTickle
  <2>5. UNCHANGED <<now, timerVars, timer, ticks, kind, helper, slip>>
    BY <1>2 DEF ServerTickle
  <2>6. w.last <= w.current /\ w.current <= now
    BY <2>2, TimersTyped
  <2>7. event' \in BOOLEAN
    BY <2>4
  <2>8. pc # "store"
    BY <1>2 DEF ServerTickle
  <2> QED BY <1>1, <2>2, <2>3, <2>4, <2>5, <2>6, <2>7, <2>8
<1>3. CASE ServerLoop
  BY <1>1, <1>3, TimersTyped DEF ServerLoop, TimersInv, TypeOK
<1> QED BY <1>2, <1>3

LEMMA TickleTimers ==
  ASSUME TimersInv, scenario' = scenario, ServerTickleBegin \/ RoutineReturn
  PROVE  TimersInv'
<1>1. ASSUME NEW w \in Watchdogs, TickleFirst(w), w.chain = wd.chain, w.last = wd.last,
             w.current = wd.current, pc \notin Directive
      PROVE  TimersInv'
  <2>0. Chained(w, left, due)
    BY <1>1, TimersTyped, SameChain
  <2>1. CASE w.chain # <<>> /\ FirstDelta(w) = 0
    <3>1. /\ wd' = Without(w, Head(w.chain)) /\ timer' = Head(w.chain) /\ pc' = "routine"
          /\ due' = [due EXCEPT ![Head(w.chain)] = -1]
      BY <1>1, <2>1 DEF TickleFirst
    <3>2. UNCHANGED <<now, left, class, initial, ticks, kind, units, helper, changed, event, slip>>
      BY <1>1 DEF TickleFirst
    <3>3. Chained(wd', left', due')
      BY <2>0, <2>1, <3>1, <3>2, ChainedServe
    <3>4. /\ Head(w.chain) \in Timer /\ wd'.last = w.last /\ wd'.current = w.current
          /\ ToSet(wd'.chain) = ToSet(w.chain) \ {Head(w.chain)}
      <4>1. Head(w.chain) \in Timer /\ NoRepetition(w.chain)
        BY <2>0, <2>1, ReachFirst DEF Chained
      <4> QED BY <3>1, <4>1, WithoutIs DEF Leaves
    <3>5. TypeOK'
      BY <1>1, <3>1, <3>2, <3>3, <3>4 DEF TimersInv, TypeOK, Chained, MaxNow
    <3>6. ClassAgrees'
      BY <1>1, <3>2, <3>4, ClassKept
    <3>7. Asked'
      BY <1>1, <3>1, <3>2 DEF TimersInv, Asked, Directive
    <3> QED BY <3>3, <3>5, <3>6, <3>7 DEF TimersInv
  <2>2. CASE ~(w.chain # <<>> /\ FirstDelta(w) = 0)
    <3>1. /\ wd' = w /\ pc' = "loop" /\ UNCHANGED <<timer, due>>
          /\ UNCHANGED <<now, left, class, initial, ticks, kind, units, helper, changed, event, slip>>
      BY <1>1, <2>2 DEF TickleFirst
    <3> QED BY <1>1, <3>1, TimersTyped, ServerKeeps DEF TimersInv, TypeOK, Directive
  <2> QED BY <2>1, <2>2
<1>2. CASE ServerTickleBegin
  <2>1. PICK w : w = CountDown(wd)
    OBVIOUS
  <2>2. w \in Watchdogs /\ w.chain = wd.chain /\ w.last = wd.last /\ w.current = wd.current
    BY <2>1, TimersTyped, CountDownIs DEF HeadDiffers
  <2> QED BY <1>1, <1>2, <2>1, <2>2 DEF ServerTickleBegin, Directive
<1>3. CASE RoutineReturn
  BY <1>1, <1>3, TimersTyped DEF RoutineReturn, Directive
<1> QED BY <1>2, <1>3

\* What a cancellation by whoever it is leaves.
LEMMA CancelKeeps ==
  ASSUME TimersInv, scenario' = scenario, NEW t \in Timer,
         wd' = Cancelled(t), left' = CancelTicks(t), due' = [due EXCEPT ![t] = -1]
  PROVE  /\ Chained(wd', left', due') /\ wd' \in Watchdogs
         /\ wd'.last = wd.last /\ wd'.current = wd.current /\ wd'.swd = wd.swd
         /\ ToSet(wd'.chain) = ToSet(wd.chain) \ {t} /\ left'[t] = -1
         /\ \A x \in Timer \cup {System} : x # t => left'[x] = left[x]
         /\ class' = class => ClassAgrees'
<1>1. Chained(wd', left', due')
  BY TimersTyped, ChainedCancel DEF Cancelled, CancelTicks
<1>2. /\ wd'.last = wd.last /\ wd'.current = wd.current /\ wd'.swd = wd.swd
      /\ ToSet(wd'.chain) = ToSet(wd.chain) \ {t} /\ wd' \in Watchdogs
  BY TimersTyped, WithoutIs DEF Cancelled, Leaves
<1>3. left'[t] = -1 /\ \A x \in Timer \cup {System} : x # t => left'[x] = left[x]
  BY TimersTyped DEF CancelTicks
<1>4. class' = class => ClassAgrees'
  BY <1>2, <1>3, ClassKept
<1> QED BY <1>1, <1>2, <1>3, <1>4

LEMMA DirectiveTimers ==
  ASSUME TimersInv, scenario' = scenario, NEW t \in Timer,
         \/ \E n \in Interval, k \in {"on_task", "interval"} : FireAfter(t, n, k)
         \/ Reset(t) \/ Cancel(t)
  PROVE  TimersInv'
<1>1. /\ wd' = Cancelled(t) /\ left' = CancelTicks(t) /\ due' = [due EXCEPT ![t] = -1]
      /\ UNCHANGED <<now, class, initial, units, helper, changed, event, slip>>
  BY DEF FireAfter, Reset, Cancel, baseVars
<1>2. /\ Chained(wd', left', due') /\ wd'.last = wd.last /\ wd'.current = wd.current
      /\ ToSet(wd'.chain) = ToSet(wd.chain) \ {t} /\ left'[t] = -1 /\ ClassAgrees'
  BY <1>1, CancelKeeps
<1>3. CASE \E n \in Interval, k \in {"on_task", "interval"} : FireAfter(t, n, k)
  <2>1. /\ pc' = "check" /\ timer' = t /\ ticks' \in Interval /\ kind' \in {"on_task", "interval"}
        /\ pc = "idle"
    BY <1>3 DEF FireAfter
  <2>2. TypeOK'
    BY <1>1, <1>2, <2>1, TimerAssumption DEF TimersInv, TypeOK, Chained, MaxNow, Interval, Class
  <2>3. Asked'
    BY <1>1, <2>1 DEF TimersInv, Asked, Directive
  <2> QED BY <1>2, <2>2, <2>3 DEF TimersInv
<1>4. CASE Reset(t)
  <2>1. /\ timer' = t /\ ticks' = ticks /\ kind' = class[t] /\ class[t] # "dormant" /\ pc = "idle"
        /\ pc' = IF class[t] = "on_task" THEN "schedule" ELSE "insert"
    BY <1>4 DEF Reset
  <2>2. class[t] \in Class
    BY TimersTyped
  <2>3. TypeOK'
    BY <1>1, <1>2, <2>1, <2>2 DEF TimersInv, TypeOK, Chained, MaxNow
  <2>4. Asked'
    BY <1>1, <2>1, <2>2 DEF TimersInv, Asked, Directive
  <2> QED BY <1>2, <2>3, <2>4 DEF TimersInv
<1>5. CASE Cancel(t)
  <2>1. UNCHANGED <<pc, timer, ticks, kind>> /\ (pc = "idle" \/ "cancel" \in IsrOps)
    BY <1>5 DEF Cancel, baseVars
  <2>2. TypeOK'
    BY <1>1, <1>2, <2>1 DEF TimersInv, TypeOK, Chained, MaxNow
  <2>3. Asked'
    BY <1>1, <2>1 DEF TimersInv, Asked, IsrOps, Interval, Directive
  <2> QED BY <1>2, <2>2, <2>3 DEF TimersInv
<1> QED BY <1>3, <1>4, <1>5

\* The steps of a directive that only prepare the insertion.
Prepares == FireCheck \/ ScheduleOperation \/ StoreTicks

LEMMA PreparesOnly ==
  ASSUME Prepares
  PROVE  /\ pc \in Directive /\ pc' \in Directive \cup {"idle"}
         /\ UNCHANGED <<now, left, due, timer, ticks, kind, units, wd, helper, changed, event, slip>>
  BY DEF Prepares, FireCheck, MarkInUse, ScheduleOperation, StoreTicks, timerVars, serverVars,
         Directive

LEMMA FireCheckTimers ==
  ASSUME TimersInv, scenario' = scenario, FireCheck
  PROVE  TimersInv'
<1>1. /\ pc = "check" /\ timer \in Timer /\ kind \in {"on_task", "interval"} /\ ticks \in Interval
      /\ UNCHANGED <<now, left, due, timer, ticks, kind, units, wd, helper, changed, event, slip>>
  BY DEF FireCheck, MarkInUse, timerVars, serverVars, TimersInv, TypeOK, Asked, Class, Directive
<1>2. CASE pc' = "idle" /\ UNCHANGED timerVars
  BY <1>1, <1>2, TimersTyped, ServerKeeps DEF timerVars, TimersInv, TypeOK
<1>3. CASE ~Active(timer) /\ MarkInUse
  <2>1. /\ class' = [class EXCEPT ![timer] = kind]
        /\ pc' = IF kind = "on_task" THEN "schedule" ELSE "store"
        /\ initial' = IF kind = "on_task" THEN [initial EXCEPT ![timer] = ticks] ELSE initial
    BY <1>3 DEF MarkInUse
  <2>2. Chained(wd', left', due')
    BY <1>1, TimersTyped
  <2>3. class' \in [Timer -> Class] /\ initial' \in [Timer -> 0 .. MaxInterval]
    BY <1>1, <2>1, TimersTyped, TimerAssumption DEF Interval, Class
  <2>4. TypeOK'
    BY <1>1, <2>1, <2>3 DEF TimersInv, TypeOK, MaxNow
  <2>5. ClassAgrees'
    BY <1>1, <1>3, <2>1, TimersTyped DEF TimersInv, ClassAgrees, Active, OnServer, IsrOps
  <2>6. Asked'
    BY <1>1, <2>1, TimersTyped, TimerAssumption DEF TimersInv, Asked, Interval, Directive
  <2> QED BY <2>2, <2>4, <2>5, <2>6 DEF TimersInv
<1> QED BY <1>2, <1>3 DEF FireCheck

LEMMA ScheduleTimers ==
  ASSUME TimersInv, scenario' = scenario, ScheduleOperation
  PROVE  TimersInv'
<1>1. /\ pc = "schedule" /\ pc' = IF class[timer] = "on_task" THEN "insert" ELSE "idle"
      /\ UNCHANGED <<now, left, class, initial, due, timer, ticks, kind, units>>
      /\ UNCHANGED <<wd, helper, changed, event, slip>>
  BY DEF ScheduleOperation, timerVars, serverVars
<1>2. TypeOK' /\ Chained(wd', left', due')
  BY <1>1 DEF TimersInv, TypeOK, Chained, MaxNow
<1>3. ClassAgrees'
  BY <1>1, ClassKept
<1>4. Asked'
  BY <1>1 DEF TimersInv, Asked, Directive, IsrOps
<1> QED BY <1>2, <1>3, <1>4 DEF TimersInv

LEMMA StoreTimers ==
  ASSUME TimersInv, scenario' = scenario, StoreTicks
  PROVE  TimersInv'
<1>1. /\ pc = "store" /\ pc' = "insert" /\ initial' = [initial EXCEPT ![timer] = ticks]
      /\ UNCHANGED <<now, left, class, due, timer, ticks, kind, units>>
      /\ UNCHANGED <<wd, helper, changed, event, slip>>
  BY DEF StoreTicks, serverVars
<1>2. timer \in Timer /\ ticks \in 1 .. MaxInterval /\ kind = "interval"
  BY <1>1 DEF TimersInv, Asked, Directive, Interval
<1>3. initial' \in [Timer -> 0 .. MaxInterval]
  BY <1>1, <1>2, TimersTyped, TimerAssumption
<1>4. TypeOK' /\ Chained(wd', left', due')
  BY <1>1, <1>3 DEF TimersInv, TypeOK, Chained, MaxNow
<1>5. ClassAgrees'
  BY <1>1, ClassKept
<1>6. Asked'
  <2>1. \A t \in Timer : class'[t] # "dormant" => initial'[t] >= 1
    BY <1>1, <1>2, TimersTyped, TimerAssumption DEF TimersInv, Asked
  <2> QED BY <1>1, <1>2, <2>1 DEF TimersInv, Asked, Directive, IsrOps, OnServer
<1> QED BY <1>4, <1>5, <1>6 DEF TimersInv

LEMMA InsertTimers ==
  ASSUME TimersInv, scenario' = scenario, InsertTimer
  PROVE  TimersInv'
<1>1. /\ pc = "insert" /\ timer \in Timer /\ kind = "on_task" /\ pc' = "update" /\ changed' = TRUE
      /\ UNCHANGED <<now, left, class, initial, timer, ticks, kind, units, helper, event, slip>>
  BY DEF InsertTimer, TimersInv, Asked, Directive
<1>2. PICK w : w = Refreshed(wd)
  OBVIOUS
<1>3. w \in Watchdogs /\ w.chain = wd.chain /\ w.last = now /\ w.current = now
  BY <1>2, TimersTyped, RefreshedIs DEF HeadDiffers
<1>4. Chained(w, left, due)
  BY <1>3, TimersTyped, SameChain
<1>5. CASE Active(timer)
  <2>1. wd' = w /\ due' = due
    BY <1>2, <1>5 DEF InsertTimer
  <2> QED BY <1>1, <1>3, <2>1, TimersTyped, ServerKeeps DEF TimersInv, TypeOK
<1>6. CASE ~Active(timer)
  <2>1. wd' = Placed(w, timer, initial[timer]) /\ due' = [due EXCEPT ![timer] = now + initial[timer]]
    BY <1>2, <1>6 DEF InsertTimer
  <2>2. ~(left[timer] >= 0) /\ ~OnServer(w, timer) /\ initial[timer] \in Nat /\ now + initial[timer] \in Nat
    BY <1>1, <1>3, <1>6, TimersTyped, TimerAssumption DEF Active, OnServer
  <2>3. Chained(wd', left', due')
    BY <1>1, <1>4, <2>1, <2>2, ChainedPlace
  <2>4. wd'.last = now /\ wd'.current = now /\ ToSet(wd'.chain) = ToSet(wd.chain) \cup {timer}
    <3>1. NoRepetition(w.chain)
      BY <1>4 DEF Chained
    <3>2. wd'.last = w.last /\ wd'.current = w.current /\ ToSet(wd'.chain) = ToSet(w.chain) \cup {timer}
      BY <1>1, <1>3, <2>1, <2>2, <3>1, PlacedIs DEF Places
    <3> QED BY <1>3, <3>2
  <2>5. TypeOK'
    BY <1>1, <2>3, <2>4, TimersTyped DEF TimersInv, TypeOK, Chained, MaxNow
  <2>6. ClassAgrees'
    <3>1. class[timer] = "on_task" \/ "start" \in IsrOps
      BY <1>1 DEF TimersInv, Asked, Directive
    <3> QED BY <1>1, <2>4, <3>1 DEF TimersInv, ClassAgrees, OnServer, IsrOps
  <2>7. Asked'
    BY <1>1 DEF TimersInv, Asked, Directive
  <2> QED BY <2>3, <2>5, <2>6, <2>7 DEF TimersInv
<1> QED BY <1>5, <1>6

LEMMA InsertTicksTimers ==
  ASSUME TimersInv, scenario' = scenario, InsertTicks
  PROVE  TimersInv'
<1>1. /\ pc = "insert" /\ timer \in Timer /\ kind = "interval" /\ pc' = "idle"
      /\ UNCHANGED <<now, class, initial, timer, ticks, kind, units, wd, helper, changed, event, slip>>
  BY DEF InsertTicks, serverVars, TimersInv, Asked, Directive
<1>2. initial[timer] \in Nat \ {0}
  <2>1. class[timer] # "dormant"
    BY <1>1 DEF TimersInv, Asked, Directive
  <2>2. initial[timer] >= 1
    BY <1>1, <2>1 DEF TimersInv, Asked
  <2> QED BY <1>1, <2>2, TimersTyped, TimerAssumption
<1>3. Asked'
  BY <1>1 DEF TimersInv, Asked, Directive
<1>4. CASE Active(timer)
  <2>1. left' = left /\ due' = due
    BY <1>4 DEF InsertTicks
  <2>2. Chained(wd', left', due')
    BY <1>1, <2>1, TimersTyped
  <2>3. TypeOK'
    BY <1>1, <2>1 DEF TimersInv, TypeOK, MaxNow
  <2>4. ClassAgrees'
    BY <1>1, <2>1, ClassKept
  <2> QED BY <1>3, <2>2, <2>3, <2>4 DEF TimersInv
<1>5. CASE ~Active(timer)
  <2>1. /\ left' = [left EXCEPT ![timer] = initial[timer]]
        /\ due' = [due EXCEPT ![timer] = now + initial[timer]]
    BY <1>5 DEF InsertTicks
  <2>2. ~OnServer(wd, timer) /\ now + initial[timer] \in Nat
    BY <1>2, <1>5, TimersTyped DEF Active
  <2>3. Chained(wd', left', due')
    BY <1>1, <1>2, <2>1, <2>2, TimersTyped, ChainedTicks
  <2>4. TypeOK'
    BY <1>1, <2>3 DEF TimersInv, TypeOK, Chained, MaxNow
  <2>5. ClassAgrees'
    <3>1. class[timer] = "interval" \/ {"start", "cancel"} \subseteq IsrOps
      BY <1>1, <2>2 DEF TimersInv, Asked, Directive
    <3>2. \A t \in Timer : t # timer => left'[t] = left[t]
      BY <2>1, TimersTyped
    <3> QED BY <1>1, <2>2, <3>1, <3>2 DEF TimersInv, ClassAgrees, OnServer, IsrOps
  <2> QED BY <1>3, <2>3, <2>4, <2>5 DEF TimersInv
<1> QED BY <1>4, <1>5

\* The watchdogs as StartsAtOnce leaves them for the update.
Started(t, n) == Placed(Refreshed(Cancelled(t)), t, n)

LEMMA StartPlaces ==
  ASSUME TimersInv, NEW t \in Timer, NEW n \in Interval
  PROVE  /\ Chained(Started(t, n), CancelTicks(t), [due EXCEPT ![t] = now + n])
         /\ Started(t, n) \in Watchdogs /\ Started(t, n).chain # <<>>
         /\ ToSet(Started(t, n).chain) = ToSet(wd.chain) \cup {t}
         /\ Started(t, n).last = now /\ Started(t, n).current = now
         /\ Started(t, n).swd = Less(wd.swd, now - wd.last)
         /\ CancelTicks(t)[System] = left[System] /\ FirstDelta(Started(t, n)) \in Nat
<1> DEFINE c == Refreshed(Cancelled(t))
           w == Started(t, n)
<1> HIDE DEF c, w
<1>0. n \in Nat \ {0} /\ now + n \in Nat
  BY TimersTyped, TimerAssumption DEF Interval
<1>1. PICK b : b = Cancelled(t)
  OBVIOUS
<1>2. /\ Chained(b, CancelTicks(t), [due EXCEPT ![t] = -1]) /\ b \in Watchdogs
      /\ b.last = wd.last /\ b.current = wd.current /\ b.swd = wd.swd
      /\ ToSet(b.chain) = ToSet(wd.chain) \ {t}
  <2>1. Chained(b, CancelTicks(t), [due EXCEPT ![t] = -1])
    BY <1>1, TimersTyped, ChainedCancel DEF Cancelled, CancelTicks
  <2>2. /\ b.last = wd.last /\ b.current = wd.current /\ b.swd = wd.swd
        /\ ToSet(b.chain) = ToSet(wd.chain) \ {t} /\ b \in Watchdogs
    BY <1>1, TimersTyped, WithoutIs DEF Cancelled, Leaves
  <2> QED BY <2>1, <2>2
<1>3. /\ c \in Watchdogs /\ c.chain = b.chain /\ c.last = now /\ c.current = now
      /\ c.swd = Less(wd.swd, now - wd.last)
  BY <1>1, <1>2, TimersTyped, RefreshedIs DEF HeadDiffers, c
<1>4. NoRepetition(c.chain) /\ ~OnServer(c, t) /\ Chained(c, CancelTicks(t), [due EXCEPT ![t] = -1])
  BY <1>2, <1>3, SameChain DEF Chained, OnServer
<1>5. ~(CancelTicks(t)[t] >= 0) /\ CancelTicks(t)[System] = left[System]
  BY TimersTyped, TimerAssumption DEF CancelTicks
<1>6. /\ w \in Watchdogs /\ w.chain # <<>> /\ ToSet(w.chain) = ToSet(c.chain) \cup {t}
      /\ w.last = c.last /\ w.current = c.current /\ w.swd = c.swd
  BY <1>0, <1>3, <1>4, PlacedIs DEF Places, Started, c, w
<1>7. Chained(w, CancelTicks(t), [[due EXCEPT ![t] = -1] EXCEPT ![t] = now + n])
  BY <1>0, <1>4, <1>5, ChainedPlace DEF Started, c, w
<1>8. [[due EXCEPT ![t] = -1] EXCEPT ![t] = now + n] = [due EXCEPT ![t] = now + n]
  BY TimersTyped DEF Chained
<1>9. FirstDelta(w) \in Nat
  BY <1>6, ReachFirst
<1> QED BY <1>2, <1>3, <1>5, <1>6, <1>7, <1>8, <1>9 DEF w

\* The class of a timer that a handler or a routine has started.
LEMMA StartedClass ==
  ASSUME TimersInv, scenario' = scenario, NEW t \in Timer, NEW n \in Interval,
         NEW k \in {"interval", "on_task"}, UNCHANGED baseVars,
         "start" \in IsrOps \/ pc = "routine",
         class' = [class EXCEPT ![t] = k], initial' = [initial EXCEPT ![t] = n],
         left'[t] >= 0 => k = "interval", t \in ToSet(wd'.chain) => k = "on_task",
         k = "on_task" => t \in ToSet(wd'.chain),
         \A x \in Timer : x # t => left'[x] = left[x],
         ToSet(wd'.chain) \cup {t} = ToSet(wd.chain) \cup {t}
  PROVE  /\ class' \in [Timer -> Class] /\ initial' \in [Timer -> 0 .. MaxInterval]
         /\ ClassAgrees' /\ Asked'
<1>1. class' \in [Timer -> Class] /\ initial' \in [Timer -> 0 .. MaxInterval]
  BY TimersTyped, TimerAssumption DEF Class, Interval
<1>2. ASSUME NEW x \in Timer
      PROVE  /\ class'[x] = IF x = t THEN k ELSE class[x]
             /\ initial'[x] = IF x = t THEN n ELSE initial[x]
             /\ x # t => (x \in ToSet(wd'.chain) <=> x \in ToSet(wd.chain))
  BY TimersTyped
<1>3. ClassAgrees'
  BY <1>2 DEF TimersInv, ClassAgrees, OnServer, IsrOps
<1>4. Asked'
  <2>1. \A x \in Timer : class'[x] # "dormant" => initial'[x] >= 1 \/ (pc' = "store" /\ timer' = x)
    BY <1>2, TimerAssumption DEF TimersInv, Asked, Interval, baseVars
  <2>2. /\ pc' \in Directive => timer' \in Timer /\ kind' # "dormant"
        /\ pc' \in {"check", "store"} => ticks' \in Interval
        /\ pc' = "schedule" => kind' = "on_task"
        /\ pc' = "store" => kind' = "interval"
    BY DEF TimersInv, Asked, baseVars
  <2>3. ASSUME pc' \in Directive \ {"check"}
        PROVE  /\ class'[timer'] # "dormant"
               /\ "start" \in IsrOps'
               /\ kind' = "interval" => \/ class'[timer'] = "interval" \/ OnServer(wd', timer')
                                        \/ {"start", "cancel"} \subseteq IsrOps'
    <3>1. /\ timer' = timer /\ timer \in Timer /\ kind' = kind /\ "start" \in IsrOps /\ IsrOps' = IsrOps
          /\ class[timer] # "dormant"
          /\ kind = "interval" => \/ class[timer] = "interval" \/ OnServer(wd, timer)
                                  \/ {"start", "cancel"} \subseteq IsrOps
      BY <2>3 DEF TimersInv, Asked, baseVars, IsrOps, Directive
    <3> QED BY <1>2, <3>1 DEF OnServer
  <2> QED BY <2>1, <2>2, <2>3 DEF Asked, Interval
<1> QED BY <1>1, <1>3, <1>4

LEMMA StartTimers ==
  ASSUME TimersInv, scenario' = scenario, NEW t \in Timer, NEW n \in Interval,
         IsrStart(t, n) \/ RoutineStart(t, n)
  PROVE  TimersInv'
<1>1. PICK w : w = Started(t, n)
  OBVIOUS
<1>2. /\ class' = [class EXCEPT ![t] = "on_task"] /\ initial' = [initial EXCEPT ![t] = n]
      /\ due' = [due EXCEPT ![t] = now + n] /\ UpdateAtOnce(w, CancelTicks(t))
      /\ UNCHANGED baseVars /\ UNCHANGED <<now, helper, event>>
  BY <1>1 DEF IsrStart, RoutineStart, StartsAtOnce, Started
<1>3. /\ Chained(w, CancelTicks(t), due')
      /\ w \in Watchdogs /\ w.chain # <<>> /\ ToSet(w.chain) = ToSet(wd.chain) \cup {t}
      /\ w.last = now /\ w.current = now
      /\ CancelTicks(t)[System] = left[System] /\ FirstDelta(w) \in Nat
  BY <1>1, <1>2, StartPlaces
<1>4. /\ Chained(wd', left', due') /\ wd'.chain = w.chain /\ wd'.last = now /\ wd'.current = now
      /\ slip' \in Nat /\ \A x \in Timer : left'[x] = CancelTicks(t)[x]
  <2>1. CASE ~helper /\ MustArm(w)
    <3>1. /\ wd' = [w EXCEPT !.swd = FirstDelta(w)] /\ slip' = now - w.last
          /\ left' = [CancelTicks(t) EXCEPT ![System] = FirstDelta(w)]
      BY <1>2, <2>1 DEF UpdateAtOnce
    <3>2. wd' \in Watchdogs /\ wd'.chain = w.chain /\ wd'.last = now /\ wd'.current = now
      BY <1>3, <3>1 DEF Watchdogs
    <3>3. Chained(w, left', due')
      BY <1>3, <3>1, ChainedSystem
    <3>4. slip' \in Nat
      BY <1>3, <3>1, TimersTyped
    <3>5. \A x \in Timer : left'[x] = CancelTicks(t)[x]
      BY <1>3, <3>1, TimerAssumption DEF Chained
    <3> QED BY <3>2, <3>3, <3>4, <3>5, SameChain
  <2>2. CASE ~(~helper /\ MustArm(w))
    BY <1>2, <1>3, <2>2, TimersTyped DEF UpdateAtOnce
  <2> QED BY <2>1, <2>2
<1>5. changed' \in BOOLEAN
  BY <1>2 DEF UpdateAtOnce, TimersInv, TypeOK
<1>6. \A x \in Timer : left'[x] = IF x = t THEN -1 ELSE left[x]
  BY <1>4, TimersTyped DEF CancelTicks
<1>7. /\ class' \in [Timer -> Class] /\ initial' \in [Timer -> 0 .. MaxInterval]
      /\ ClassAgrees' /\ Asked'
  <2>1. ~(left'[t] >= 0) /\ \A x \in Timer : x # t => left'[x] = left[x]
    BY <1>6
  <2>2. t \in ToSet(wd'.chain) /\ ToSet(wd'.chain) \cup {t} = ToSet(wd.chain) \cup {t}
    BY <1>3, <1>4
  <2>3. "start" \in IsrOps \/ pc = "routine"
    BY DEF IsrStart, RoutineStart
  <2> QED BY <1>2, <2>1, <2>2, <2>3, StartedClass
<1>8. TypeOK'
  BY <1>2, <1>4, <1>5, <1>7 DEF TimersInv, TypeOK, Chained, MaxNow, baseVars
<1> QED BY <1>4, <1>7, <1>8 DEF TimersInv

LEMMA StartTicksTimers ==
  ASSUME TimersInv, scenario' = scenario, NEW t \in Timer, NEW n \in Interval,
         IsrStartTicks(t, n)
  PROVE  TimersInv'
<1>1. /\ class' = [class EXCEPT ![t] = "interval"] /\ initial' = [initial EXCEPT ![t] = n]
      /\ wd' = Cancelled(t) /\ left' = [left EXCEPT ![t] = n] /\ due' = [due EXCEPT ![t] = now + n]
      /\ UNCHANGED baseVars /\ UNCHANGED <<now, helper, changed, event, slip>>
  BY DEF IsrStartTicks
<1>2. n \in Nat \ {0} /\ now + n \in Nat
  BY TimersTyped, TimerAssumption DEF Interval
<1>3. /\ wd' \in Watchdogs /\ wd'.last = wd.last /\ wd'.current = wd.current
      /\ ToSet(wd'.chain) = ToSet(wd.chain) \ {t}
  BY <1>1, TimersTyped, WithoutIs DEF Cancelled, Leaves
<1>4. Chained(wd', left', due')
  <2>1. Chained(wd', CancelTicks(t), [due EXCEPT ![t] = -1])
    BY <1>1, TimersTyped, ChainedCancel DEF Cancelled, CancelTicks
  <2>2. ~OnServer(wd', t)
    BY <1>3 DEF OnServer
  <2>3. Chained(wd', [CancelTicks(t) EXCEPT ![t] = n], [[due EXCEPT ![t] = -1] EXCEPT ![t] = now + n])
    BY <1>2, <2>1, <2>2, ChainedTicks
  <2>4. [CancelTicks(t) EXCEPT ![t] = n] = left'
    BY <1>1, TimersTyped DEF CancelTicks
  <2>5. [[due EXCEPT ![t] = -1] EXCEPT ![t] = now + n] = due'
    BY <1>1, TimersTyped DEF Chained
  <2> QED BY <2>3, <2>4, <2>5
<1>5. /\ class' \in [Timer -> Class] /\ initial' \in [Timer -> 0 .. MaxInterval]
      /\ ClassAgrees' /\ Asked'
  <2>1. \A x \in Timer : x # t => left'[x] = left[x]
    BY <1>1, TimersTyped
  <2>2. t \notin ToSet(wd'.chain) /\ ToSet(wd'.chain) \cup {t} = ToSet(wd.chain) \cup {t}
    BY <1>3
  <2>3. "start" \in IsrOps
    BY DEF IsrStartTicks
  <2> QED BY <1>1, <2>1, <2>2, <2>3, StartedClass
<1>6. TypeOK'
  BY <1>1, <1>3, <1>4, <1>5 DEF TimersInv, TypeOK, Chained, MaxNow, baseVars
<1> QED BY <1>4, <1>5, <1>6 DEF TimersInv

\* What the clock tick does to a watchdog of the system's chain.
LEMMA TickLeft ==
  ASSUME TimersInv, Tick, NEW x \in Timer \cup {System}
  PROVE  /\ left'[x] \in Nat \cup {-1} /\ left'[x] <= left[x] /\ left'[x] # 0
         /\ x \in Timer => /\ left[x] = -1 => left'[x] = -1
                           /\ due'[x] = IF left[x] >= 0 /\ left'[x] = -1 THEN -1 ELSE due[x]
         /\ x = System => IF left[x] >= 0 /\ left'[x] = -1
                          THEN event' = TRUE /\ wd' = [wd EXCEPT !.current = now + 1, !.swd = 0]
                          ELSE event' = event /\ wd' = wd
         /\ x = System /\ left'[x] >= 0 => left'[x] = left[x] - 1
<1> DEFINE idle == \A y \in DOMAIN left : left[y] # 0
           after == [y \in DOMAIN left |-> IF left[y] > 0 /\ idle THEN left[y] - 1 ELSE left[y]]
           fired == {y \in DOMAIN left : after[y] = 0}
<1>1. /\ left' = [y \in DOMAIN left |-> IF y \in fired THEN -1 ELSE after[y]]
      /\ due' = [t \in Timer |-> IF t \in fired THEN -1 ELSE due[t]]
      /\ IF System \in fired
         THEN wd' = [wd EXCEPT !.current = now + 1, !.swd = 0] /\ event' = TRUE
         ELSE UNCHANGED <<wd, event>>
  BY DEF Tick
<1>2. DOMAIN left = Timer \cup {System} /\ left[x] \in Nat \cup {-1}
  BY TimersTyped
<1>7. x = System /\ left[x] > 0 => idle
  BY <1>2, TimersTyped DEF Chained
<1> HIDE DEF idle
<1>3. after[x] = (IF left[x] > 0 /\ idle THEN left[x] - 1 ELSE left[x]) /\ (x \in fired <=> after[x] = 0)
  BY <1>2
<1> HIDE DEF after, fired
<1>4. left'[x] = IF x \in fired THEN -1 ELSE after[x]
  BY <1>1, <1>2
<1>5. (left[x] >= 0 /\ left'[x] = -1) <=> x \in fired
  BY <1>2, <1>3, <1>4
<1>6. left'[x] \in Nat \cup {-1} /\ left'[x] <= left[x] /\ left'[x] # 0 /\ (left[x] = -1 => left'[x] = -1)
  BY <1>2, <1>3, <1>4
<1>8. x = System /\ left'[x] >= 0 => left'[x] = left[x] - 1
  BY <1>2, <1>3, <1>4, <1>7
<1> QED BY <1>1, <1>5, <1>6, <1>8

LEMMA TickTimers ==
  ASSUME TimersInv, scenario' = scenario, Tick
  PROVE  TimersInv'
<1>1. /\ now' = now + 1 /\ now < MaxNow /\ slip' \in Nat /\ UNCHANGED baseVars
      /\ UNCHANGED <<class, initial, helper, changed>>
  BY TimersTyped DEF Tick
<1>2. left' \in [Timer \cup {System} -> Nat \cup {-1}]
  <2>1. left' = [x \in Timer \cup {System} |-> left'[x]]
    BY TimersTyped DEF Tick
  <2>2. \A x \in Timer \cup {System} : left'[x] \in Nat \cup {-1}
    BY TickLeft
  <2> QED BY <2>1, <2>2
<1>3. due' \in [Timer -> Int]
  <2>1. due' = [x \in Timer |-> due'[x]]
    BY DEF Tick
  <2>2. ASSUME NEW x \in Timer PROVE due'[x] \in Int
    <3>1. due'[x] = -1 \/ due'[x] = due[x]
      BY TickLeft
    <3> QED BY <3>1, TimersTyped DEF Chained
  <2> QED BY <2>1, <2>2
<1>4. /\ wd' \in Watchdogs /\ wd'.chain = wd.chain /\ wd'.last <= wd'.current
      /\ wd'.current <= now + 1
  <2>1. \/ wd' = [wd EXCEPT !.current = now + 1, !.swd = 0]
        \/ wd' = wd
    BY DEF Tick
  <2>2. wd' = wd => wd'.current <= now + 1
    BY TimersTyped
  <2>3. CASE wd' = [wd EXCEPT !.current = now + 1, !.swd = 0]
    <3>1. wd' \in Watchdogs /\ wd'.chain = wd.chain /\ wd'.last = wd.last /\ wd'.current = now + 1
      <4>1. now + 1 \in Nat
        BY TimersTyped
      <4> QED BY <2>3, <4>1, TimersTyped DEF Watchdogs
    <3> QED BY <3>1, TimersTyped
  <2> QED BY <2>1, <2>2, <2>3, TimersTyped
<1>5. Chained(wd', left', due')
  <2>1. ASSUME NEW t \in Timer
        PROVE  /\ left'[t] # 0 /\ due'[t] >= -1
               /\ ~(left'[t] >= 0 /\ t \in ToSet(wd.chain))
               /\ (left'[t] >= 0 \/ t \in ToSet(wd.chain)) <=> due'[t] >= 0
    <3>1. /\ left'[t] \in Nat \cup {-1} /\ left'[t] # 0 /\ left'[t] <= left[t]
          /\ due'[t] = IF left[t] >= 0 /\ left'[t] = -1 THEN -1 ELSE due[t]
      BY TickLeft
    <3>2. /\ left[t] \in Nat \cup {-1} /\ due[t] \in Int /\ due[t] >= -1
          /\ ~(left[t] >= 0 /\ t \in ToSet(wd.chain))
          /\ (left[t] >= 0 \/ t \in ToSet(wd.chain)) <=> due[t] >= 0
      BY TimersTyped DEF Chained
    <3> QED BY <3>1, <3>2
  <2> QED BY <1>2, <1>3, <1>4, <2>1, TimersTyped DEF Chained
<1>6. event' \in BOOLEAN
  <2>1. event' = TRUE \/ event' = event
    BY DEF Tick
  <2> QED BY <2>1 DEF TimersInv, TypeOK
<1>7. TypeOK'
  <2>1. MaxNow \in Nat
    BY TimerAssumption DEF TimersInv, TypeOK, MaxNow
  <2>2. now' \in 0 .. MaxNow
    BY <1>1, <2>1, TimersTyped
  <2> QED BY <1>1, <1>4, <1>5, <1>6, <2>2 DEF TimersInv, TypeOK, Chained, MaxNow, baseVars
<1>8. ClassAgrees'
  <2>1. ASSUME NEW t \in Timer PROVE left'[t] >= 0 => left[t] >= 0
    <3>1. left'[t] \in Nat \cup {-1} /\ left[t] \in Nat \cup {-1} /\ left'[t] <= left[t]
      BY TickLeft, TimersTyped
    <3> QED BY <3>1
  <2> QED BY <1>1, <1>4, <2>1, ClassKept
<1>9. Asked'
  BY <1>1, <1>4 DEF TimersInv, Asked, baseVars, IsrOps, Interval, OnServer, Directive
<1> QED BY <1>5, <1>7, <1>8, <1>9 DEF TimersInv

-----------------------------------------------------------------------------
LEMMA TimersInvNext ==
  TimersInv /\ [Next]_vars => TimersInv'
<1> SUFFICES ASSUME TimersInv, [Next]_vars PROVE TimersInv'
  OBVIOUS
<1>1. CASE UNCHANGED vars
  <2>1. /\ UNCHANGED <<scenario, now, left, class, initial, due, pc, timer, ticks, kind, units>>
        /\ UNCHANGED <<wd, helper, changed, event, slip>>
    BY <1>1 DEF vars, timerVars, baseVars, serverVars
  <2>2. TypeOK' /\ Chained(wd', left', due')
    BY <2>1 DEF TimersInv, TypeOK, MaxNow, Chained
  <2>3. ClassAgrees' /\ Asked'
    BY <2>1 DEF TimersInv, ClassAgrees, Asked, IsrOps, OnServer, Interval
  <2> QED BY <2>2, <2>3 DEF TimersInv
<1>2. CASE Next
  <2>1. scenario' = scenario /\ Step
    BY <1>2 DEF Next
  <2>2. ASSUME NEW t \in Timer, NEW n \in Interval,
               \/ \E k \in {"on_task", "interval"} : FireAfter(t, n, k)
               \/ IsrStart(t, n) \/ IsrStartTicks(t, n) \/ RoutineStart(t, n)
        PROVE  TimersInv'
    BY <2>1, <2>2, DirectiveTimers, StartTimers, StartTicksTimers
  <2>3. ASSUME NEW t \in Timer, Reset(t) \/ Cancel(t) PROVE TimersInv'
    BY <2>1, <2>3, DirectiveTimers
  <2>4. ASSUME \/ FireCheck \/ ScheduleOperation \/ StoreTicks
               \/ InsertTimer \/ InsertTicks \/ Tick
        PROVE  TimersInv'
    BY <2>1, <2>4, FireCheckTimers, ScheduleTimers, StoreTimers, InsertTimers, InsertTicksTimers,
       TickTimers
  <2>5. ASSUME Update \/ UpdateRemove \/ UpdateArm \/ UpdateAgain PROVE TimersInv'
    BY <2>1, <2>5, UpdateTimers
  <2>6. ASSUME ServerTickle \/ ServerLoop \/ ServerTickleBegin \/ RoutineReturn PROVE TimersInv'
    BY <2>1, <2>6, AdjustTimers, TickleTimers
  <2> QED BY <2>1, <2>2, <2>3, <2>4, <2>5, <2>6 DEF Step
<1> QED BY <1>1, <1>2

\* For every set of timers and every interval, while tasks start, reset and
\* cancel timers, handlers start and cancel them and timer routines start them,
\* all of it between the steps of a directive and of the server: a timer is on
\* one of the two chains, and once, exactly while it is started.  That chain is
\* the one of its class as ClassAgrees says: on the clock's unless handlers both
\* start and cancel timers, on the server's unless they start timers.  The checks
\* of rtems_timer_server_fire_after and _Timer_server_Insert_timer, each before
\* an interrupt is let in again, suffice for it.
THEOREM TimersAreConsistent ==
  Spec => []TimersConsistent
  BY TimersInvInit, TimersInvNext, TimersInvUse, PTL DEF Spec

-----------------------------------------------------------------------------
(***************************************************************************)
(* The server is woken.                                                    *)
(***************************************************************************)
Helping == pc \in {"remove", "arm", "again"}

Serving == pc \in {"loop", "tickle", "routine"}

\* The helper is where it sets the system watchdog; while a timer is on the
\* server's chain the server is called, at work, or the system watchdog is set
\* or about to be.
WakeInv ==
  /\ helper <=> Helping
  /\ wd.chain # <<>> =>
       event \/ left[System] >= 0 \/ Serving \/ pc \in {"update", "remove", "arm"} \/ (Helping /\ changed)

LEMMA WakeInvUse ==
  WakeInv => ServerWakes
  BY DEF WakeInv, ServerWakes, Helping, Serving

LEMMA WakeInvInit ==
  Init => WakeInv
  BY DEF Init, WakeInv, Helping

\* Steps that leave the system watchdog, the event and the helper alone, and
\* have only fewer timers on the chain.
LEMMA WakeKept ==
  ASSUME WakeInv, UNCHANGED <<helper, event, changed>>, left'[System] = left[System],
         wd'.chain # <<>> => wd.chain # <<>>,
         \/ pc' = pc
         \/ pc \in Directive \cup {"idle"} /\ pc' \in Directive \cup {"idle", "update"}
  PROVE  WakeInv'
  BY DEF WakeInv, Helping, Serving, Directive

\* Fewer timers on the chain.
LEMMA FewerTimers ==
  ASSUME NEW w \in Watchdogs, NEW q \in Watchdogs, ToSet(q.chain) \subseteq ToSet(w.chain),
         q.chain # <<>>
  PROVE  w.chain # <<>>
<1>1. w.chain \in Seq(Timer) /\ q.chain \in Seq(Timer)
  BY WatchdogFields
<1>2. ToSet(q.chain) # {}
  BY <1>1, ChainMembers
<1>3. ToSet(w.chain) # {}
  BY <1>2
<1> QED BY <1>3, EmptyChain

LEMMA CancelWakes ==
  ASSUME TimersInv, WakeInv, scenario' = scenario, NEW t \in Timer, NEW n \in Interval,
         \/ \E k \in {"on_task", "interval"} : FireAfter(t, n, k)
         \/ Reset(t) \/ Cancel(t) \/ IsrStartTicks(t, n)
  PROVE  WakeInv'
<1>1. /\ wd' = Cancelled(t) /\ UNCHANGED <<helper, event, changed>>
      /\ left' = [left EXCEPT ![t] = -1] \/ left' = [left EXCEPT ![t] = n]
      /\ pc' = pc \/ (pc = "idle" /\ pc' \in Directive)
  BY DEF FireAfter, Reset, Cancel, IsrStartTicks, baseVars, CancelTicks, Directive
<1>2. left'[System] = left[System]
  BY <1>1, TimersTyped, TimerAssumption
<1>3. wd' \in Watchdogs /\ ToSet(wd'.chain) \subseteq ToSet(wd.chain)
  BY <1>1, TimersTyped, WithoutIs DEF Cancelled, Leaves
<1>4. wd'.chain # <<>> => wd.chain # <<>>
  BY <1>3, TimersTyped, FewerTimers
<1> QED BY <1>1, <1>2, <1>4, WakeKept

LEMMA StartWakes ==
  ASSUME TimersInv, WakeInv, scenario' = scenario, NEW t \in Timer, NEW n \in Interval,
         IsrStart(t, n) \/ RoutineStart(t, n)
  PROVE  WakeInv'
<1>1. PICK w : w = Started(t, n)
  OBVIOUS
<1>2. UpdateAtOnce(w, CancelTicks(t)) /\ UNCHANGED <<pc, helper, event>>
  BY <1>1 DEF IsrStart, RoutineStart, StartsAtOnce, Started, baseVars
<1>3. w.chain # <<>> /\ FirstDelta(w) \in Nat /\ CancelTicks(t)[System] = left[System]
      /\ left[System] \in Nat \cup {-1}
  BY <1>1, StartPlaces, TimersTyped
<1>4. CASE helper
  <2>1. changed' = TRUE /\ Helping
    BY <1>2, <1>4 DEF UpdateAtOnce, WakeInv
  <2> QED BY <1>2, <2>1 DEF WakeInv, Helping
<1>5. CASE ~helper /\ MustArm(w)
  <2>1. left' = [CancelTicks(t) EXCEPT ![System] = FirstDelta(w)]
    BY <1>2, <1>5 DEF UpdateAtOnce
  <2>2. left'[System] >= 0
    BY <1>3, <2>1, TimersTyped DEF CancelTicks
  <2> QED BY <1>2, <2>2 DEF WakeInv, Helping
<1>6. CASE ~helper /\ ~MustArm(w)
  <2>1. left' = CancelTicks(t) /\ ~(left[System] < 0)
    BY <1>2, <1>3, <1>6 DEF UpdateAtOnce, MustArm
  <2>2. left'[System] >= 0
    BY <1>3, <2>1
  <2> QED BY <1>2, <2>2 DEF WakeInv, Helping
<1> QED BY <1>4, <1>5, <1>6

LEMMA UpdateWakes ==
  ASSUME TimersInv, WakeInv, Update \/ UpdateRemove \/ UpdateArm \/ UpdateAgain
  PROVE  WakeInv'
<1>0. left[System] \in Nat \cup {-1} /\ ticks \in Nat
  BY TimersTyped
<1>1. ASSUME UpdateTurn, pc \in {"update", "again"} PROVE WakeInv'
  <2>1. CASE MustArm(wd)
    BY <1>1, <2>1 DEF UpdateTurn, WakeInv, Helping
  <2>2. CASE ~MustArm(wd)
    <3>1. wd.chain # <<>> => left[System] >= 0
      BY <1>0, <2>2 DEF MustArm
    <3>2. wd' = wd /\ left' = left /\ helper' = FALSE /\ pc' = "idle"
      BY <1>1, <2>2 DEF UpdateTurn, timerVars
    <3> QED BY <3>1, <3>2 DEF WakeInv, Helping
  <2> QED BY <2>1, <2>2
<1>2. CASE Update
  BY <1>1, <1>2 DEF Update, WakeInv, Helping
<1>3. CASE UpdateRemove
  BY <1>3 DEF UpdateRemove, serverVars, WakeInv, Helping
<1>4. CASE UpdateArm
  <2>1. left'[System] >= 0
    BY <1>0, <1>4, TimersTyped DEF UpdateArm
  <2> QED BY <1>4, <2>1 DEF UpdateArm, serverVars, WakeInv, Helping
<1>5. CASE UpdateAgain /\ ~changed
  BY <1>5 DEF UpdateAgain, timerVars, WakeInv, Helping, Serving
<1>6. CASE UpdateAgain /\ changed
  BY <1>1, <1>6 DEF UpdateAgain
<1> QED BY <1>2, <1>3, <1>4, <1>5, <1>6

LEMMA ServerWakesOthers ==
  ASSUME TimersInv, WakeInv, scenario' = scenario,
         \/ Prepares \/ InsertTimer \/ InsertTicks \/ Tick
         \/ ServerTickle \/ ServerLoop \/ ServerTickleBegin \/ RoutineReturn
  PROVE  WakeInv'
<1>1. CASE Prepares
  BY <1>1, PreparesOnly, WakeKept
<1>2. CASE InsertTimer
  <2>1. UNCHANGED <<left, helper, event>> /\ pc = "insert" /\ pc' = "update"
    BY <1>2 DEF InsertTimer
  <2> QED BY <2>1 DEF WakeInv, Helping, Serving
<1>3. CASE InsertTicks
  <2>1. timer \in Timer
    BY <1>3 DEF InsertTicks, TimersInv, Asked, Directive
  <2>2. left'[System] = left[System]
    BY <1>3, <2>1, TimersTyped, TimerAssumption DEF InsertTicks
  <2> QED BY <1>3, <2>2, WakeKept DEF InsertTicks, serverVars, Directive
<1>4. CASE Tick
  <2>1. UNCHANGED <<pc, helper, changed>> /\ wd'.chain = wd.chain
    <3>1. wd' = wd \/ wd' = [wd EXCEPT !.current = now + 1, !.swd = 0]
      BY <1>4 DEF Tick
    <3> QED BY <1>4, <3>1, TimersTyped DEF Tick, baseVars, Watchdogs
  <2>2. /\ left[System] \in Nat \cup {-1} /\ left'[System] \in Nat \cup {-1}
        /\ IF left[System] >= 0 /\ left'[System] = -1 THEN event' = TRUE ELSE event' = event
    BY <1>4, TickLeft, TimersTyped
  <2>3. event \/ left[System] >= 0 => event' \/ left'[System] >= 0
    BY <2>2
  <2> QED BY <2>1, <2>3 DEF WakeInv, Helping, Serving
<1>5. CASE ServerTickle \/ ServerLoop
  <2>1. pc \in {"idle", "loop"} /\ pc' \in {"update", "tickle"} /\ helper' = helper
    BY <1>5 DEF ServerTickle, ServerLoop, AdjustForward
  <2> QED BY <2>1 DEF WakeInv, Helping, Serving
<1>6. CASE ServerTickleBegin \/ RoutineReturn
  <2>1. pc \in {"tickle", "routine"} /\ pc' \in {"loop", "routine"} /\ helper' = helper
    BY <1>6 DEF ServerTickleBegin, RoutineReturn, TickleFirst
  <2> QED BY <2>1 DEF WakeInv, Helping, Serving
<1> QED BY <1>1, <1>2, <1>3, <1>4, <1>5, <1>6

LEMMA WakeInvNext ==
  TimersInv /\ WakeInv /\ [Next]_vars => WakeInv'
<1> SUFFICES ASSUME TimersInv, WakeInv, [Next]_vars PROVE WakeInv'
  OBVIOUS
<1>1. CASE UNCHANGED vars
  BY <1>1, WakeKept DEF vars, timerVars, baseVars, serverVars
<1>2. CASE Next
  <2>1. scenario' = scenario /\ Step
    BY <1>2 DEF Next
  <2>2. ASSUME NEW t \in Timer, NEW n \in Interval,
               \/ \E k \in {"on_task", "interval"} : FireAfter(t, n, k)
               \/ IsrStart(t, n) \/ IsrStartTicks(t, n) \/ RoutineStart(t, n)
        PROVE  WakeInv'
    BY <2>1, <2>2, CancelWakes, StartWakes
  <2>3. ASSUME NEW t \in Timer, Reset(t) \/ Cancel(t) PROVE WakeInv'
    <3>1. 1 \in Interval
      BY TimerAssumption DEF Interval
    <3> QED BY <2>1, <2>3, <3>1, CancelWakes
  <2> QED BY <2>1, <2>2, <2>3, UpdateWakes, ServerWakesOthers DEF Step, Prepares
<1> QED BY <1>1, <1>2

-----------------------------------------------------------------------------
(***************************************************************************)
(* The server is woken in time.                                            *)
(***************************************************************************)

\* The first watchdog after a removal is due no earlier, and after an insertion
\* it is the new one or the one it was.
LEMMA RemovedFirst ==
  ASSUME NEW w \in Watchdogs, NoRepetition(w.chain), NEW t \in Timer, Without(w, t).chain # <<>>
  PROVE  FirstDelta(Without(w, t)) >= FirstDelta(w)
<1> DEFINE q == Without(w, t)
<1>1. Leaves(w, q, t)
  BY WithoutIs
<1> HIDE DEF q
<1>2. q.chain # <<>> /\ q \in Watchdogs
  BY <1>1 DEF Leaves, q
<1>3. CASE ~OnServer(w, t)
  <2>1. q = w
    BY <1>1, <1>3 DEF Leaves
  <2> QED BY <1>2, <2>1, ReachFirst DEF q
<1>4. CASE OnServer(w, t)
  <2>1. PICK p : /\ Inserts(q.chain, w.chain, t, p)
                 /\ \A i \in 1 .. Len(q.chain) : Reach(w)[Shift(p, i)] = Reach(q)[i]
    BY <1>1, <1>4 DEF Leaves, Splits
  <2>2. /\ Len(q.chain) \in Nat /\ Len(q.chain) >= 1 /\ Len(w.chain) = Len(q.chain) + 1 /\ p \in Nat
    BY <1>2, <2>1, ReachFirst, WatchdogFields DEF Inserts
  <2>3. w.chain # <<>> /\ Len(w.chain) >= 2
    BY <2>2
  <2>4. Reach(q)[1] = FirstDelta(q) /\ Reach(w)[1] = FirstDelta(w) /\ FirstDelta(w) \in Nat
    BY <1>2, <2>3, ReachFirst
  <2>5. Reach(w)[Shift(p, 1)] = Reach(q)[1]
    BY <2>1, <2>2
  <2>6. Shift(p, 1) \in {1, 2}
    BY <2>2 DEF Shift
  <2>7. Reach(w)[2] >= Reach(w)[1]
    <3>1. 2 \in 1 .. Len(w.chain) /\ 2 - 1 = 1
      BY <2>2
    <3>2. Reach(w)[2] = Reach(w)[1] + w.delta[w.chain[2]]
      BY <3>1, ReachSums
    <3>3. w.delta[w.chain[2]] \in Nat
      BY <3>1, WatchdogFields
    <3> QED BY <2>4, <3>2, <3>3
  <2> QED BY <2>4, <2>5, <2>6, <2>7 DEF q
<1> QED BY <1>3, <1>4

LEMMA PlacedFirst ==
  ASSUME NEW w \in Watchdogs, NoRepetition(w.chain), NEW t \in Timer, ~OnServer(w, t), NEW n \in Nat
  PROVE  \/ FirstDelta(Placed(w, t, n)) = n
         \/ w.chain # <<>> /\ FirstDelta(Placed(w, t, n)) = FirstDelta(w)
<1> DEFINE q == Placed(w, t, n)
<1>1. Places(w, q, t, n)
  BY PlacedIs
<1> HIDE DEF q
<1>2. PICK p : /\ Inserts(w.chain, q.chain, t, p) /\ Reach(q)[p + 1] = n
               /\ \A i \in 1 .. Len(w.chain) : Reach(q)[Shift(p, i)] = Reach(w)[i]
  BY <1>1 DEF Places, Splits
<1>3. p \in Nat /\ p <= Len(w.chain) /\ Len(w.chain) \in Nat
  BY <1>2, WatchdogFields DEF Inserts
<1>4. Reach(q)[1] = FirstDelta(q)
  BY <1>1, ReachFirst DEF Places
<1>5. CASE p = 0
  <2>1. p + 1 = 1
    BY <1>5
  <2> QED BY <1>2, <1>4, <2>1 DEF q
<1>6. CASE p # 0
  <2>1. 1 \in 1 .. Len(w.chain) /\ Shift(p, 1) = 1 /\ w.chain # <<>>
    BY <1>3, <1>6 DEF Shift
  <2>2. Reach(w)[1] = FirstDelta(w)
    BY <2>1, ReachFirst
  <2> QED BY <1>2, <1>4, <2>1, <2>2 DEF q
<1> QED BY <1>5, <1>6

\* Ticks since the snapshot of the chain.
Past == now - wd.last

NoStart == "start" \notin IsrOps

\* The ticks x that the system watchdog has to go, or is to be set to, are good
\* enough: for what system_watchdog_delta says, or, after a wake-up that hit the
\* helper, for the first timer.
ArmedFor(x) ==
  \/ x <= slip + Less(wd.swd, Past)
  \/ /\ NoStart /\ wd.swd = 0
     /\ \/ wd.chain = <<>> \/ x <= slip
        \/ (~Serving /\ x <= slip + Less(FirstDelta(wd), Past))
        \/ (FirstDelta(wd) # 0 /\ pc = "update")

Arming == IF pc \in {"remove", "arm"} THEN ticks ELSE left[System]

Watched ==
  wd.chain # <<>> => Serving \/ pc = "update" \/ (helper /\ changed) \/ wd.swd <= FirstDelta(wd)

ArmInv ==
  ~({"start", "slip"} \subseteq IsrOps) =>
    /\ helper /\ changed => ~NoStart
    /\ Watched
    /\ Arming >= 0 => ArmedFor(Arming)

LEMMA ArmInvUse ==
  TimersInv /\ WakeInv /\ ArmInv => ServerArmed
<1> SUFFICES ASSUME TimersInv, WakeInv, ArmInv, pc = "idle", ~event, wd.chain # <<>>,
                    ~({"start", "slip"} \subseteq IsrOps)
             PROVE  /\ ~helper /\ left[System] >= 0
                    /\ left[System] <= Less(FirstDelta(wd), now - wd.last) + slip
  BY DEF ServerArmed
<1>1. ~helper /\ left[System] >= 0
  BY DEF WakeInv, Helping, Serving
<1>2. wd.swd <= FirstDelta(wd) /\ ArmedFor(left[System])
  BY <1>1 DEF ArmInv, Watched, Arming, Serving
<1>3. /\ FirstDelta(wd) \in Nat /\ wd.swd \in Nat /\ Past \in Nat /\ slip \in Nat
      /\ left[System] \in Int
  BY TimersTyped, ReachFirst DEF Past
<1>4. left[System] <= Less(FirstDelta(wd), Past) + slip
  BY <1>2, <1>3 DEF ArmedFor, Less
<1> QED BY <1>1, <1>4 DEF Past

LEMMA ArmInvInit ==
  Init => ArmInv
<1> SUFFICES ASSUME Init PROVE ArmInv
  OBVIOUS
<1>1. left[System] = -1 /\ wd.chain = <<>> /\ pc = "idle" /\ helper = FALSE
  BY DEF Init
<1> QED BY <1>1 DEF ArmInv, Watched, Arming

-----------------------------------------------------------------------------
\* What holds before a step, and what has to be shown of it.
Apart == ~({"start", "slip"} \subseteq IsrOps)

LEMMA ArmFacts ==
  ASSUME TimersInv, WakeInv, ArmInv, Apart
  PROVE  /\ helper /\ changed => ~NoStart
         /\ Watched
         /\ Arming >= 0 => ArmedFor(Arming)
         /\ wd.swd \in Nat /\ Past \in Nat /\ slip \in Nat /\ left[System] \in Nat \cup {-1}
         /\ ticks \in Nat /\ Arming \in Nat \cup {-1}
         /\ wd.chain # <<>> => FirstDelta(wd) \in Nat
<1>1. wd.swd \in Nat /\ Past \in Nat /\ slip \in Nat /\ left[System] \in Nat \cup {-1} /\ ticks \in Nat
  BY TimersTyped DEF Past
<1>2. wd.chain # <<>> => FirstDelta(wd) \in Nat
  BY TimersTyped, ReachFirst
<1> QED BY <1>1, <1>2 DEF ArmInv, Apart, Arming

LEMMA ArmGoal ==
  ASSUME scenario' = scenario,
         Apart => /\ helper' /\ changed' => ~NoStart
                  /\ Watched'
                  /\ Arming' >= 0 => ArmedFor(Arming)'
  PROVE  ArmInv'
<1>1. IsrOps' = IsrOps /\ NoStart' = NoStart
  BY DEF IsrOps, NoStart
<1> QED BY <1>1 DEF ArmInv, Apart

\* Steps of a directive that leave the server alone.
LEMMA ArmKept ==
  ASSUME TimersInv, WakeInv, ArmInv, scenario' = scenario,
         UNCHANGED <<wd, helper, changed, slip, now>>, left'[System] = left[System],
         pc \in Directive \cup {"idle"}, pc' \in Directive \cup {"idle"}
  PROVE  ArmInv'
<1> SUFFICES ASSUME Apart
             PROVE  /\ helper' /\ changed' => ~NoStart
                    /\ Watched'
                    /\ Arming' >= 0 => ArmedFor(Arming)'
  BY ArmGoal
<1>1. NoStart' = NoStart /\ Arming = left[System] /\ Arming' = left[System] /\ Past' = Past
  BY DEF NoStart, IsrOps, Arming, Past, Directive
<1>2. ~Serving /\ ~Serving' /\ pc # "update"
  BY DEF Serving, Directive
<1>3. Watched'
  BY <1>2, ArmFacts DEF Watched
<1>4. ArmedFor(Arming) => ArmedFor(Arming)'
  BY <1>1, <1>2 DEF ArmedFor
<1> QED BY <1>1, <1>3, <1>4, ArmFacts

LEMMA CancelArms ==
  ASSUME TimersInv, WakeInv, ArmInv, scenario' = scenario, NEW t \in Timer, NEW n \in Interval,
         \/ \E k \in {"on_task", "interval"} : FireAfter(t, n, k)
         \/ Reset(t) \/ Cancel(t) \/ IsrStartTicks(t, n)
  PROVE  ArmInv'
<1> SUFFICES ASSUME Apart
             PROVE  /\ helper' /\ changed' => ~NoStart
                    /\ Watched'
                    /\ Arming' >= 0 => ArmedFor(Arming)'
  BY ArmGoal
<1>1. /\ wd' = Without(wd, t) /\ UNCHANGED <<helper, changed, slip, now>>
      /\ left' = [left EXCEPT ![t] = -1] \/ left' = [left EXCEPT ![t] = n]
      /\ (pc' = pc /\ ticks' = ticks) \/ (pc = "idle" /\ pc' \in Directive)
  BY DEF FireAfter, Reset, Cancel, IsrStartTicks, baseVars, CancelTicks, Cancelled, Directive
<1>2. left'[System] = left[System]
  BY <1>1, TimersTyped, TimerAssumption
<1>3. /\ wd' \in Watchdogs /\ ToSet(wd'.chain) \subseteq ToSet(wd.chain)
      /\ wd'.last = wd.last /\ wd'.swd = wd.swd
  <2>1. Leaves(wd, wd', t)
    BY <1>1, TimersTyped, WithoutIs
  <2> QED BY <2>1 DEF Leaves
<1>4. wd'.chain # <<>> => wd.chain # <<>>
  BY <1>3, TimersTyped, FewerTimers
<1>5. wd'.chain # <<>> => FirstDelta(wd') >= FirstDelta(wd) /\ FirstDelta(wd') \in Nat
  BY <1>1, <1>3, TimersTyped, RemovedFirst, ReachFirst
<1>6. /\ NoStart' = NoStart /\ Past' = Past /\ Arming' = Arming
  BY <1>1, <1>2, <1>3 DEF NoStart, IsrOps, Past, Arming, Directive
<1>7. /\ Serving' = Serving \/ (pc = "idle" /\ ~Serving /\ ~Serving') 
      /\ pc = "update" => pc' = "update"
  BY <1>1 DEF Serving, Directive
<1>8. Watched'
  <2> SUFFICES ASSUME wd'.chain # <<>>, ~Serving', pc' # "update", ~(helper' /\ changed')
               PROVE  wd'.swd <= FirstDelta(wd')
    BY DEF Watched
  <2>1. ~Serving /\ pc # "update" /\ ~(helper /\ changed)
    BY <1>1, <1>7
  <2>2. wd.swd <= FirstDelta(wd) /\ FirstDelta(wd) \in Nat /\ wd.swd \in Nat
    BY <1>4, <2>1, ArmFacts DEF Watched
  <2> QED BY <1>3, <1>5, <2>2
<1>9. ASSUME ArmedFor(Arming), Arming \in Nat PROVE ArmedFor(Arming)'
  <2>1. CASE Arming <= slip + Less(wd.swd, Past)
    BY <1>1, <1>3, <1>6, <2>1 DEF ArmedFor
  <2>2. CASE wd'.chain = <<>> /\ ~(Arming <= slip + Less(wd.swd, Past))
    BY <1>3, <1>6, <1>9, <2>2 DEF ArmedFor
  <2>3. CASE wd'.chain # <<>> /\ ~(Arming <= slip + Less(wd.swd, Past))
    <3>1. /\ NoStart /\ wd.swd = 0
          /\ \/ Arming <= slip
             \/ (~Serving /\ Arming <= slip + Less(FirstDelta(wd), Past))
             \/ (FirstDelta(wd) # 0 /\ pc = "update")
      BY <1>4, <1>9, <2>3 DEF ArmedFor
    <3>2. Less(FirstDelta(wd), Past) <= Less(FirstDelta(wd'), Past)
      BY <1>4, <1>5, <2>3, ArmFacts DEF Less
    <3>3. Less(FirstDelta(wd), Past) \in Nat /\ Less(FirstDelta(wd'), Past) \in Nat /\ slip \in Nat
      BY <1>4, <1>5, <2>3, ArmFacts DEF Less
    <3>4. Arming <= slip + Less(FirstDelta(wd), Past) => Arming <= slip + Less(FirstDelta(wd'), Past)
      BY <1>9, <3>2, <3>3
    <3>5. FirstDelta(wd) # 0 => FirstDelta(wd') # 0
      BY <1>4, <1>5, <2>3, ArmFacts
    <3> QED BY <1>1, <1>3, <1>6, <1>7, <3>1, <3>4, <3>5 DEF ArmedFor
  <2> QED BY <2>1, <2>2, <2>3
<1> QED BY <1>1, <1>6, <1>8, <1>9, ArmFacts

LEMMA CheckArms ==
  ASSUME TimersInv, WakeInv, ArmInv, scenario' = scenario, Prepares \/ InsertTicks
  PROVE  ArmInv'
<1>1. CASE Prepares
  BY <1>1, PreparesOnly, ArmKept
<1>2. CASE InsertTicks
  <2>1. timer \in Timer
    BY <1>2 DEF InsertTicks, TimersInv, Asked, Directive
  <2>2. left'[System] = left[System]
    BY <1>2, <2>1, TimersTyped, TimerAssumption DEF InsertTicks
  <2> QED BY <1>2, <2>2, ArmKept DEF InsertTicks, serverVars, Directive
<1> QED BY <1>1, <1>2

LEMMA InsertArms ==
  ASSUME TimersInv, WakeInv, ArmInv, scenario' = scenario, InsertTimer
  PROVE  ArmInv'
<1>1. /\ pc = "insert" /\ timer \in Timer /\ UNCHANGED <<now, left, helper, slip, ticks>>
      /\ class[timer] # "dormant"
  BY DEF InsertTimer, TimersInv, Asked, Directive
<1> SUFFICES ASSUME Apart
             PROVE  /\ helper' /\ changed' => ~NoStart
                    /\ Watched'
                    /\ Arming' >= 0 => ArmedFor(Arming)'
  BY ArmGoal
<1>2. pc' = "update" /\ ~helper
  BY <1>1 DEF InsertTimer, WakeInv, Helping
<1>3. PICK w : w = Refreshed(wd)
  OBVIOUS
<1>4. /\ w \in Watchdogs /\ w.chain = wd.chain /\ w.last = now
      /\ w.swd = Less(wd.swd, Past) /\ NoRepetition(w.chain)
      /\ wd.chain # <<>> => FirstDelta(w) = Less(FirstDelta(wd), Past)
  BY <1>3, TimersTyped, RefreshedIs DEF HeadDiffers, Past
<1>5. initial[timer] \in Nat /\ initial[timer] >= 1
  BY <1>1, TimersTyped, TimerAssumption DEF TimersInv, Asked
<1>6. /\ wd'.last = now /\ wd'.swd = Less(wd.swd, Past)
      /\ \/ wd'.chain = wd.chain /\ (wd.chain # <<>> => FirstDelta(wd') = Less(FirstDelta(wd), Past))
         \/ FirstDelta(wd') = initial[timer]
         \/ wd.chain # <<>> /\ FirstDelta(wd') = Less(FirstDelta(wd), Past)
  <2>1. CASE Active(timer)
    BY <1>3, <1>4, <2>1 DEF InsertTimer
  <2>2. CASE ~Active(timer)
    <3>1. wd' = Placed(w, timer, initial[timer])
      BY <1>3, <2>2 DEF InsertTimer
    <3>2. ~OnServer(w, timer)
      BY <1>4, <2>2 DEF Active, OnServer
    <3>3. wd'.last = w.last /\ wd'.swd = w.swd
      BY <1>1, <1>4, <1>5, <3>1, <3>2, PlacedIs DEF Places
    <3>4. FirstDelta(wd') = initial[timer] \/ (w.chain # <<>> /\ FirstDelta(wd') = FirstDelta(w))
      BY <1>1, <1>4, <1>5, <3>1, <3>2, PlacedFirst
    <3> QED BY <1>4, <3>3, <3>4
  <2> QED BY <2>1, <2>2
<1>7. /\ Arming = left[System] /\ Arming' = Arming /\ NoStart' = NoStart /\ Past' = 0
      /\ ~Serving /\ ~Serving'
  BY <1>1, <1>2, <1>6, TimersTyped DEF Arming, NoStart, IsrOps, Past, Serving
<1>8. ASSUME ArmedFor(Arming), Arming \in Nat PROVE ArmedFor(Arming)'
  <2>1. /\ wd'.swd \in Nat /\ Less(wd'.swd, 0) = wd'.swd
        /\ wd.chain # <<>> => /\ Less(FirstDelta(wd), Past) \in Nat
                              /\ Less(Less(FirstDelta(wd), Past), 0) = Less(FirstDelta(wd), Past)
    BY <1>6, ArmFacts DEF Less
  <2>2. CASE Arming <= slip + Less(wd.swd, Past)
    BY <1>1, <1>6, <1>7, <2>1, <2>2 DEF ArmedFor
  <2>3. CASE ~(Arming <= slip + Less(wd.swd, Past))
    <3>1. /\ NoStart /\ wd.swd = 0
          /\ \/ wd.chain = <<>> \/ Arming <= slip
             \/ Arming <= slip + Less(FirstDelta(wd), Past)
      BY <1>1, <1>8, <2>3 DEF ArmedFor
    <3>2. wd'.swd = 0
      BY <1>6, <3>1, ArmFacts DEF Less
    <3>3. FirstDelta(wd') = initial[timer] => FirstDelta(wd') # 0
      BY <1>5
    <3> QED BY <1>1, <1>2, <1>6, <1>7, <2>1, <3>1, <3>2, <3>3 DEF ArmedFor
  <2> QED BY <2>2, <2>3
<1>9. Watched'
  BY <1>2 DEF Watched
<1> QED BY <1>1, <1>2, <1>7, <1>8, <1>9, ArmFacts

LEMMA StartArms ==
  ASSUME TimersInv, WakeInv, ArmInv, scenario' = scenario, NEW t \in Timer, NEW n \in Interval,
         IsrStart(t, n) \/ RoutineStart(t, n)
  PROVE  ArmInv'
<1> SUFFICES ASSUME Apart
             PROVE  /\ helper' /\ changed' => ~NoStart
                    /\ Watched'
                    /\ Arming' >= 0 => ArmedFor(Arming)'
  BY ArmGoal
<1>1. PICK w : w = Started(t, n)
  OBVIOUS
<1>2. /\ UpdateAtOnce(w, CancelTicks(t)) /\ UNCHANGED <<pc, ticks, helper, now>>
      /\ ~NoStart \/ pc = "routine"
  BY <1>1 DEF IsrStart, RoutineStart, StartsAtOnce, Started, baseVars, NoStart
<1>3. /\ w \in Watchdogs /\ w.chain # <<>> /\ FirstDelta(w) \in Nat /\ w.last = now
      /\ w.swd = Less(wd.swd, Past) /\ CancelTicks(t)[System] = left[System]
      /\ System \in DOMAIN CancelTicks(t)
  BY <1>1, StartPlaces, TimersTyped DEF Past, CancelTicks
<1>4. wd.chain = <<>> => FirstDelta(w) # 0
  <2> SUFFICES ASSUME wd.chain = <<>> PROVE FirstDelta(w) # 0
    OBVIOUS
  <2>1. ~OnServer(wd, t)
    BY EmptyChain DEF OnServer
  <2>2. w = Placed(Refreshed(wd), t, n)
    BY <1>1, <2>1 DEF Started, Cancelled, Without
  <2>3. Refreshed(wd) \in Watchdogs /\ Refreshed(wd).chain = <<>>
    BY TimersTyped, RefreshedIs DEF HeadDiffers
  <2>4. NoRepetition(Refreshed(wd).chain) /\ ~OnServer(Refreshed(wd), t)
    BY <2>3, EmptyChain DEF OnServer
  <2>5. n \in Nat /\ n # 0
    BY TimerAssumption DEF Interval
  <2> QED BY <2>2, <2>3, <2>4, <2>5, PlacedFirst
<1>5. /\ NoStart' = NoStart /\ Serving' = Serving
      /\ helper => pc \in {"remove", "arm", "again"}
      /\ pc = "routine" => Serving
  BY <1>2 DEF NoStart, IsrOps, Serving, WakeInv, Helping
<1>6. CASE helper
  <2>1. wd' = w /\ left' = CancelTicks(t) /\ changed' = TRUE /\ UNCHANGED slip
    BY <1>2, <1>6 DEF UpdateAtOnce
  <2>2. ~NoStart /\ Arming' = Arming /\ Past' = 0
    <3>1. ~NoStart
      BY <1>2, <1>5, <1>6
    <3>2. Arming' = Arming
      BY <1>2, <1>3, <2>1 DEF Arming
    <3>3. Past' = 0
      BY <1>2, <1>3, <2>1, TimersTyped DEF Past
    <3> QED BY <3>1, <3>2, <3>3
  <2>3. Watched'
    BY <1>2, <1>6, <2>1 DEF Watched
  <2>4. ArmedFor(Arming) => ArmedFor(Arming)'
    <3>1. Less(w.swd, 0) = Less(wd.swd, Past)
      BY <1>3, ArmFacts DEF Less
    <3> QED BY <2>1, <2>2, <3>1 DEF ArmedFor
  <2> QED BY <2>2, <2>3, <2>4, ArmFacts
<1>7. CASE ~helper /\ MustArm(w)
  <2>1. /\ wd' = [w EXCEPT !.swd = FirstDelta(w)] /\ slip' = now - w.last
        /\ left' = [CancelTicks(t) EXCEPT ![System] = FirstDelta(w)]
    BY <1>2, <1>7 DEF UpdateAtOnce
  <2>2. /\ wd'.swd = FirstDelta(w) /\ wd'.last = now /\ FirstDelta(wd') = FirstDelta(w)
        /\ left'[System] = FirstDelta(w) /\ slip' = 0
    BY <1>3, <2>1, TimersTyped DEF Watchdogs, FirstDelta
  <2>3. Arming' = FirstDelta(w) /\ Past' = 0
    BY <1>2, <1>7, <2>2, TimersTyped DEF Arming, Past, WakeInv, Helping
  <2>4. Watched'
    BY <1>3, <2>2 DEF Watched
  <2>5. ArmedFor(Arming)'
    <3>1. Less(FirstDelta(w), 0) = FirstDelta(w)
      BY <1>3 DEF Less
    <3> QED BY <1>3, <2>2, <2>3, <3>1 DEF ArmedFor
  <2> QED BY <1>2, <1>7, <2>4, <2>5
<1>8. CASE ~helper /\ ~MustArm(w)
  <2>1. wd' = w /\ left' = CancelTicks(t) /\ UNCHANGED slip
    BY <1>2, <1>8 DEF UpdateAtOnce
  <2>2. FirstDelta(w) = w.swd /\ left'[System] = left[System] /\ left[System] \in Nat
    BY <1>3, <1>8, <2>1, ArmFacts DEF MustArm
  <2>3. Arming = left[System] /\ Arming' = left[System] /\ Past' = 0
    BY <1>2, <1>3, <1>8, <2>1, <2>2, TimersTyped DEF Arming, Past, WakeInv, Helping
  <2>4. Watched'
    BY <1>3, <2>1, <2>2 DEF Watched
  <2>5. ArmedFor(Arming)'
    <3>1. Less(w.swd, 0) = Less(wd.swd, Past) /\ w.swd \in Nat
      BY <1>3, ArmFacts DEF Less
    <3>2. ArmedFor(left[System])
      BY <2>2, <2>3, ArmFacts
    <3>3. CASE left[System] <= slip + Less(wd.swd, Past)
      BY <2>1, <2>3, <3>1, <3>3 DEF ArmedFor
    <3>4. CASE ~(left[System] <= slip + Less(wd.swd, Past))
      <4>1. NoStart /\ wd.swd = 0
        BY <3>2, <3>4 DEF ArmedFor
      <4>2. pc = "routine" /\ Serving
        BY <1>2, <1>5, <4>1
      <4>3. w.swd = 0
        BY <1>3, <4>1, ArmFacts DEF Less
      <4>4. wd.chain # <<>>
        BY <1>4, <2>2, <4>3
      <4>5. left[System] <= slip
        BY <3>2, <3>4, <4>2, <4>4 DEF ArmedFor
      <4>6. NoStart' /\ wd'.swd = 0 /\ Arming' <= slip'
        BY <1>5, <2>1, <2>3, <4>1, <4>3, <4>5
      <4> QED BY <4>6 DEF ArmedFor
    <3> QED BY <3>3, <3>4
  <2> QED BY <1>2, <1>8, <2>4, <2>5
<1> QED BY <1>6, <1>7, <1>8

LEMMA UpdateTurnArms ==
  ASSUME TimersInv, WakeInv, ArmInv, scenario' = scenario, UpdateTurn, pc \in {"update", "again"}
  PROVE  ArmInv'
<1> SUFFICES ASSUME Apart
             PROVE  /\ helper' /\ changed' => ~NoStart
                    /\ Watched'
                    /\ Arming' >= 0 => ArmedFor(Arming)'
  BY ArmGoal
<1>1. changed' = FALSE /\ UNCHANGED <<now, left>>
  BY DEF UpdateTurn, timerVars
<1>2. CASE MustArm(wd)
  <2>1. /\ pc' = "remove" /\ ticks' = FirstDelta(wd) /\ slip' = Past
        /\ wd' = [wd EXCEPT !.swd = FirstDelta(wd)]
    BY <1>2 DEF UpdateTurn, Past
  <2>2. FirstDelta(wd) \in Nat
    BY <1>2, ArmFacts DEF MustArm
  <2>3. wd'.swd = FirstDelta(wd) /\ FirstDelta(wd') = FirstDelta(wd) /\ wd'.last = wd.last
    BY <2>1, <2>2, TimersTyped DEF Watchdogs, FirstDelta
  <2>4. Watched'
    BY <2>2, <2>3 DEF Watched
  <2>5. Arming' = FirstDelta(wd) /\ Past' = Past
    BY <1>1, <2>1, <2>3 DEF Arming, Past
  <2>6. FirstDelta(wd) <= Past + Less(FirstDelta(wd), Past)
    BY <2>2, ArmFacts DEF Less
  <2>7. ArmedFor(Arming)'
    BY <2>1, <2>3, <2>5, <2>6 DEF ArmedFor
  <2> QED BY <1>1, <2>4, <2>7
<1>3. CASE ~MustArm(wd)
  <2>1. pc' = "idle" /\ UNCHANGED <<wd, slip>>
    BY <1>3 DEF UpdateTurn
  <2>2. wd.chain # <<>> => FirstDelta(wd) = wd.swd
    BY <1>3, ArmFacts DEF MustArm
  <2>3. Watched'
    BY <2>1, <2>2, ArmFacts DEF Watched
  <2>4. Arming = left[System] /\ Arming' = left[System] /\ Past' = Past /\ ~Serving /\ ~Serving'
    BY <1>1, <2>1 DEF Arming, Past, Serving
  <2>5. NoStart => NoStart'
    BY DEF NoStart, IsrOps
  <2>6. ArmedFor(Arming) => ArmedFor(Arming)'
    BY <2>1, <2>2, <2>4, <2>5 DEF ArmedFor
  <2> QED BY <1>1, <2>3, <2>4, <2>6, ArmFacts
<1> QED BY <1>2, <1>3

LEMMA UpdateArms ==
  ASSUME TimersInv, WakeInv, ArmInv, scenario' = scenario,
         Update \/ UpdateRemove \/ UpdateArm \/ UpdateAgain
  PROVE  ArmInv'
<1>1. CASE Update
  BY <1>1, UpdateTurnArms DEF Update, WakeInv, Helping
<1>2. CASE UpdateAgain /\ changed
  BY <1>2, UpdateTurnArms DEF UpdateAgain
<1>3. CASE UpdateRemove \/ UpdateArm \/ (UpdateAgain /\ ~changed)
  <2> SUFFICES ASSUME Apart
               PROVE  /\ helper' /\ changed' => ~NoStart
                      /\ Watched'
                      /\ Arming' >= 0 => ArmedFor(Arming)'
    BY ArmGoal
  <2>1. UNCHANGED <<wd, changed, slip, now>> /\ (helper' = helper \/ ~changed)
    BY <1>3 DEF UpdateRemove, UpdateArm, UpdateAgain, serverVars
  <2>2. /\ pc \in {"remove", "arm", "again"} /\ pc' \in {"arm", "again", "idle"}
    BY <1>3 DEF UpdateRemove, UpdateArm, UpdateAgain
  <2>3. Arming' = Arming
    <3>1. CASE UpdateRemove
      BY <3>1 DEF UpdateRemove, Arming
    <3>2. CASE UpdateArm
      BY <3>2, TimersTyped DEF UpdateArm, Arming
    <3>3. CASE UpdateAgain /\ ~changed
      BY <3>3 DEF UpdateAgain, timerVars, Arming
    <3> QED BY <1>3, <3>1, <3>2, <3>3
  <2>4. ~Serving /\ ~Serving' /\ Past' = Past
    BY <2>1, <2>2 DEF Serving, Past
  <2>5. NoStart => NoStart'
    BY DEF NoStart, IsrOps
  <2>6. helper /\ changed => helper' /\ changed'
    BY <2>1
  <2>7. Watched'
    BY <2>1, <2>2, <2>4, <2>6, ArmFacts DEF Watched
  <2>8. ArmedFor(Arming) => ArmedFor(Arming)'
    BY <2>1, <2>2, <2>3, <2>4, <2>5 DEF ArmedFor
  <2>9. helper' /\ changed' => helper /\ changed
    BY <2>1
  <2> QED BY <2>3, <2>7, <2>8, <2>9, ArmFacts
<1> QED BY <1>1, <1>2, <1>3

LEMMA TickArms ==
  ASSUME TimersInv, WakeInv, ArmInv, scenario' = scenario, Tick
  PROVE  ArmInv'
<1> SUFFICES ASSUME Apart
             PROVE  /\ helper' /\ changed' => ~NoStart
                    /\ Watched'
                    /\ Arming' >= 0 => ArmedFor(Arming)'
  BY ArmGoal
<1>1. /\ now' = now + 1 /\ UNCHANGED <<pc, ticks, helper, changed>>
      /\ slip' = IF pc \in {"remove", "arm"} THEN slip + 1 ELSE slip
      /\ pc \in {"remove", "arm"} => "slip" \in IsrOps
  BY DEF Tick, baseVars
<1>2. pc \in {"remove", "arm"} => NoStart
  BY <1>1 DEF Apart, NoStart
<1>3. NoStart' = NoStart /\ Serving' = Serving
  BY <1>1 DEF NoStart, IsrOps, Serving
<1>4. /\ left'[System] \in Nat \cup {-1}
      /\ left'[System] >= 0 => left'[System] = left[System] - 1
  BY TickLeft
<1>5. CASE left[System] >= 0 /\ left'[System] = -1
  <2>1. wd' = [wd EXCEPT !.current = now + 1, !.swd = 0]
    BY <1>5, TickLeft
  <2>2. /\ wd'.chain = wd.chain /\ wd'.swd = 0 /\ wd'.last = wd.last /\ FirstDelta(wd') = FirstDelta(wd)
    BY <2>1, TimersTyped DEF Watchdogs, FirstDelta
  <2>3. Watched'
    BY <2>2, ArmFacts DEF Watched
  <2>4. ASSUME pc \in {"remove", "arm"} PROVE ArmedFor(ticks) => ArmedFor(Arming)'
    <3>1. Arming' = ticks /\ slip' = slip + 1 /\ Past' = Past + 1 /\ NoStart /\ ~Serving /\ pc # "update"
      BY <1>1, <1>2, <2>2, <2>4, TimersTyped DEF Arming, Past, Serving
    <3>2. wd.chain # <<>> => wd.swd <= FirstDelta(wd)
      BY <2>4, <3>1, ArmFacts DEF Watched
    <3>3. CASE wd.chain = <<>>
      BY <1>3, <2>2, <3>1, <3>3 DEF ArmedFor
    <3>4. CASE wd.chain # <<>>
      <4>1. ASSUME ArmedFor(ticks) PROVE ticks <= slip + Less(FirstDelta(wd), Past)
        <5>1. FirstDelta(wd) \in Nat /\ wd.swd \in Nat /\ Past \in Nat /\ slip \in Nat /\ ticks \in Nat
          BY <3>4, ArmFacts
        <5>2. Less(wd.swd, Past) <= Less(FirstDelta(wd), Past) /\ Less(FirstDelta(wd), Past) \in Nat
              /\ Less(wd.swd, Past) \in Nat
          BY <3>2, <3>4, <5>1 DEF Less
        <5> QED BY <3>1, <3>4, <4>1, <5>1, <5>2 DEF ArmedFor
      <4>2. Less(FirstDelta(wd), Past) <= 1 + Less(FirstDelta(wd), Past + 1)
        BY <3>4, ArmFacts DEF Less
      <4>3. Less(FirstDelta(wd), Past) \in Nat /\ Less(FirstDelta(wd), Past + 1) \in Nat
        BY <3>4, ArmFacts DEF Less
      <4>4. ASSUME ArmedFor(ticks) PROVE ticks <= slip' + Less(FirstDelta(wd'), Past')
        BY <2>2, <3>1, <4>1, <4>2, <4>3, <4>4, ArmFacts
      <4> QED BY <1>3, <2>2, <3>1, <4>4 DEF ArmedFor
    <3> QED BY <3>3, <3>4
  <2>5. pc \notin {"remove", "arm"} => ~(Arming' >= 0)
    BY <1>1, <1>5 DEF Arming
  <2>6. pc \in {"remove", "arm"} => Arming = ticks /\ ticks >= 0
    BY ArmFacts DEF Arming
  <2> QED BY <1>1, <2>3, <2>4, <2>5, <2>6, ArmFacts
<1>6. CASE ~(left[System] >= 0 /\ left'[System] = -1)
  <2>1. wd' = wd
    BY <1>6, TickLeft
  <2>2. Past' = Past + 1
    BY <1>1, <2>1, TimersTyped DEF Past
  <2>3. Watched'
    BY <1>1, <1>3, <2>1, ArmFacts DEF Watched
  <2>4. ASSUME Arming' >= 0
        PROVE  Arming \in Nat /\ Arming' \in Nat /\ Arming' + slip + 1 = Arming + slip' /\ slip' \in Nat
    <3>1. CASE pc \in {"remove", "arm"}
      BY <1>1, <3>1, ArmFacts DEF Arming
    <3>2. CASE pc \notin {"remove", "arm"}
      <4>1. Arming' = left'[System] /\ Arming = left[System] /\ slip' = slip
        BY <1>1, <3>2 DEF Arming
      <4>2. left'[System] = left[System] - 1 /\ left'[System] \in Nat
        BY <1>4, <2>4, <4>1
      <4>3. slip \in Nat /\ left[System] \in Nat \cup {-1}
        BY ArmFacts
      <4> QED BY <4>1, <4>2, <4>3
    <3> QED BY <3>1, <3>2
  <2>5. ASSUME Arming' >= 0, ArmedFor(Arming) PROVE ArmedFor(Arming)'
    <3>1. \A a \in Nat : /\ Less(a, Past) <= 1 + Less(a, Past + 1)
                         /\ Less(a, Past) \in Nat /\ Less(a, Past + 1) \in Nat
      BY ArmFacts DEF Less
    <3>2. Arming \in Nat /\ Arming' \in Nat /\ Arming' + slip + 1 = Arming + slip' /\ slip' \in Nat /\ slip \in Nat
      BY <2>4, <2>5, ArmFacts
    <3>3. CASE Arming <= slip + Less(wd.swd, Past)
      <4>1. /\ Less(wd.swd, Past) <= 1 + Less(wd.swd, Past + 1)
            /\ Less(wd.swd, Past) \in Nat /\ Less(wd.swd, Past + 1) \in Nat
        BY <3>1, ArmFacts
      <4>2. Arming' <= slip' + Less(wd.swd, Past + 1)
        BY ONLY <3>2, <3>3, <4>1
      <4> QED BY <2>1, <2>2, <4>2 DEF ArmedFor
    <3>4. CASE ~(Arming <= slip + Less(wd.swd, Past))
      <4>1. /\ NoStart /\ wd.swd = 0
            /\ \/ wd.chain = <<>> \/ Arming <= slip
               \/ (wd.chain # <<>> /\ ~Serving /\ Arming <= slip + Less(FirstDelta(wd), Past))
               \/ (FirstDelta(wd) # 0 /\ pc = "update")
        BY <2>5, <3>4 DEF ArmedFor
      <4>2. Arming <= slip => Arming' <= slip'
        BY <3>2
      <4>3. wd.chain # <<>> /\ Arming <= slip + Less(FirstDelta(wd), Past)
              => Arming' <= slip' + Less(FirstDelta(wd), Past + 1)
        <5>1. wd.chain # <<>> => /\ Less(FirstDelta(wd), Past) <= 1 + Less(FirstDelta(wd), Past + 1)
                                 /\ Less(FirstDelta(wd), Past) \in Nat
                                 /\ Less(FirstDelta(wd), Past + 1) \in Nat
          BY <3>1, ArmFacts
        <5> QED BY ONLY <3>2, <5>1
      <4> QED BY <1>1, <1>3, <2>1, <2>2, <4>1, <4>2, <4>3 DEF ArmedFor
    <3> QED BY <3>3, <3>4
  <2>6. Arming' >= 0 => Arming >= 0
    BY <2>4
  <2> QED BY <1>1, <2>3, <2>5, <2>6, ArmFacts
<1> QED BY <1>5, <1>6

LEMMA AdjustArms ==
  ASSUME TimersInv, WakeInv, ArmInv, scenario' = scenario, ServerTickle \/ ServerLoop
  PROVE  ArmInv'
<1> SUFFICES ASSUME Apart
             PROVE  /\ helper' /\ changed' => ~NoStart
                    /\ Watched'
                    /\ Arming' >= 0 => ArmedFor(Arming)'
  BY ArmGoal
<1>1. ~helper /\ ~helper' /\ UNCHANGED <<now, left, slip>> /\ pc \in {"idle", "loop"}
  BY DEF ServerTickle, ServerLoop, timerVars, WakeInv, Helping
<1>2. PICK w, u : /\ AdjustForward(w, u) /\ w \in Watchdogs /\ u \in Nat
                  /\ w.chain = wd.chain /\ w.delta = wd.delta /\ w.swd = wd.swd
                  /\ now - w.last \in Nat /\ now - w.last <= Past
                  /\ pc # "loop" => u <= Past /\ now - w.last = Past - u
  <2>1. CASE ServerLoop
    BY <2>1, TimersTyped DEF ServerLoop, Past
  <2>2. CASE ServerTickle
    <3>1. PICK w : w = [wd EXCEPT !.last = wd.current]
      OBVIOUS
    <3>2. /\ w \in Watchdogs /\ w.chain = wd.chain /\ w.delta = wd.delta /\ w.swd = wd.swd
          /\ w.last = wd.current
      BY <3>1, TimersTyped DEF Watchdogs
    <3>3. PICK u : u = wd.current - wd.last
      OBVIOUS
    <3>4. /\ u \in Nat /\ now - w.last \in Nat /\ now - w.last <= Past
          /\ u <= Past /\ now - w.last = Past - u
      BY <3>2, <3>3, TimersTyped DEF Past
    <3>5. AdjustForward(w, u)
      BY <2>2, <3>1, <3>3 DEF ServerTickle
    <3> QED BY <3>2, <3>4, <3>5
  <2> QED BY <2>1, <2>2
<1>3. /\ wd'.chain = wd.chain /\ wd'.swd = wd.swd /\ Past' = now - w.last
      /\ \/ /\ pc' = "update"
            /\ wd.chain # <<>> => u <= FirstDelta(wd) /\ FirstDelta(wd') = FirstDelta(wd) - u
         \/ pc' = "tickle" /\ wd.chain # <<>> /\ FirstDelta(wd) <= u
  <2>1. FirstDelta(w) = FirstDelta(wd)
    BY <1>2 DEF FirstDelta
  <2>2. /\ HeadDiffers(w, wd') /\ wd'.last = w.last /\ wd'.swd = w.swd
        /\ \/ /\ pc' = "update"
              /\ w.chain # <<>> => u <= FirstDelta(w) /\ FirstDelta(wd') = FirstDelta(w) - u
           \/ pc' = "tickle" /\ w.chain # <<>> /\ FirstDelta(w) <= u
    BY <1>2, AdjustIs
  <2>3. wd'.chain = wd.chain /\ Past' = now - w.last
    BY <1>1, <1>2, <2>2 DEF HeadDiffers, Past
  <2> QED BY <1>2, <2>1, <2>2, <2>3
<1>4. pc' \in {"update", "tickle"}
  BY <1>3
<1>5. Watched'
  BY <1>4 DEF Watched, Serving
<1>6. Arming = left[System] /\ Arming' = left[System] /\ NoStart' = NoStart
  BY <1>1, <1>4 DEF Arming, NoStart, IsrOps
<1>7. ASSUME ArmedFor(left[System]), left[System] \in Nat PROVE ArmedFor(Arming)'
  <2>1. Past' \in Nat /\ Past' <= Past
    BY <1>2, <1>3
  <2>2. CASE left[System] <= slip + Less(wd.swd, Past)
    <3>1. /\ Less(wd.swd, Past) \in Nat /\ Less(wd'.swd, Past') \in Nat /\ slip \in Nat
          /\ Less(wd.swd, Past) <= Less(wd'.swd, Past')
      BY <1>3, <2>1, ArmFacts DEF Less
    <3>2. left[System] <= slip + Less(wd'.swd, Past')
      BY ONLY <1>7, <2>2, <3>1
    <3> QED BY <1>1, <1>6, <3>2 DEF ArmedFor
  <2>3. CASE ~(left[System] <= slip + Less(wd.swd, Past))
    <3>1. /\ NoStart /\ wd.swd = 0
          /\ \/ wd.chain = <<>> \/ left[System] <= slip
             \/ pc = "idle" /\ left[System] <= slip + Less(FirstDelta(wd), Past)
      BY <1>1, <1>7, <2>3 DEF ArmedFor, Serving
    <3>2. CASE wd.chain = <<>> \/ left[System] <= slip
      BY <1>1, <1>3, <1>6, <3>1, <3>2 DEF ArmedFor
    <3>3. CASE wd.chain # <<>> /\ pc = "idle" /\ left[System] <= slip + Less(FirstDelta(wd), Past)
      <4>1. FirstDelta(wd) \in Nat /\ Past \in Nat /\ slip \in Nat /\ u \in Nat /\ Past' = Past - u /\ u <= Past
        BY <1>2, <1>3, <3>3, ArmFacts
      <4>2. CASE pc' = "update"
        <5>1. FirstDelta(wd') = FirstDelta(wd) - u
          BY <1>3, <3>3, <4>2
        <5>2. Less(FirstDelta(wd'), Past') = Less(FirstDelta(wd), Past)
          BY <4>1, <5>1 DEF Less
        <5>3. ~Serving'
          BY <4>2 DEF Serving
        <5> QED BY <1>1, <1>3, <1>6, <3>1, <3>3, <5>2, <5>3 DEF ArmedFor
      <4>3. CASE pc' = "tickle"
        <5>1. FirstDelta(wd) <= u
          BY <1>3, <4>3
        <5>2. Less(FirstDelta(wd), Past) = 0
          BY <4>1, <5>1 DEF Less
        <5>3. left[System] <= slip
          BY <1>7, <3>3, <4>1, <5>2
        <5> QED BY <1>1, <1>3, <1>6, <3>1, <5>3 DEF ArmedFor
      <4> QED BY <1>4, <4>2, <4>3
    <3> QED BY <3>1, <3>2, <3>3
  <2> QED BY <2>2, <2>3
<1> QED BY <1>1, <1>5, <1>6, <1>7, ArmFacts

LEMMA TickleArms ==
  ASSUME TimersInv, WakeInv, ArmInv, scenario' = scenario, ServerTickleBegin \/ RoutineReturn
  PROVE  ArmInv'
<1> SUFFICES ASSUME Apart
             PROVE  /\ helper' /\ changed' => ~NoStart
                    /\ Watched'
                    /\ Arming' >= 0 => ArmedFor(Arming)'
  BY ArmGoal
<1>1. PICK w : /\ TickleFirst(w) /\ w \in Watchdogs /\ w.chain = wd.chain
               /\ w.last = wd.last /\ w.swd = wd.swd
  <2>1. CASE RoutineReturn
    BY <2>1, TimersTyped DEF RoutineReturn
  <2>2. CASE ServerTickleBegin
    <3>1. PICK w : w = CountDown(wd)
      OBVIOUS
    <3>2. w \in Watchdogs /\ w.chain = wd.chain /\ w.last = wd.last /\ w.swd = wd.swd
      BY <3>1, TimersTyped, CountDownIs DEF HeadDiffers
    <3> QED BY <2>2, <3>1, <3>2 DEF ServerTickleBegin
  <2> QED BY <2>1, <2>2
<1>2. /\ Serving /\ Serving' /\ UNCHANGED <<now, left, helper, changed, slip>> /\ pc' \in {"loop", "routine"}
      /\ pc \in {"tickle", "routine"}
  BY <1>1 DEF ServerTickleBegin, RoutineReturn, TickleFirst, Serving
<1>3. wd'.last = wd.last /\ wd'.swd = wd.swd /\ (wd.chain = <<>> => wd'.chain = <<>>)
  <2>1. CASE w.chain # <<>> /\ FirstDelta(w) = 0
    <3>1. wd' = Without(w, Head(w.chain)) /\ Head(w.chain) \in Timer /\ NoRepetition(w.chain)
      BY <1>1, <2>1, ReachFirst, TimersTyped DEF TickleFirst
    <3>2. wd'.last = w.last /\ wd'.swd = w.swd
      BY <1>1, <3>1, WithoutIs DEF Leaves
    <3> QED BY <1>1, <2>1, <3>2
  <2>2. CASE ~(w.chain # <<>> /\ FirstDelta(w) = 0)
    BY <1>1, <2>2 DEF TickleFirst
  <2> QED BY <2>1, <2>2
<1>4. /\ Past' = Past /\ Arming = left[System] /\ Arming' = left[System] /\ NoStart' = NoStart
  BY <1>2, <1>3 DEF Past, Arming, NoStart, IsrOps
<1>5. Watched'
  BY <1>2 DEF Watched
<1>6. ArmedFor(Arming) => ArmedFor(Arming)'
  BY <1>2, <1>3, <1>4 DEF ArmedFor
<1> QED BY <1>2, <1>4, <1>5, <1>6, ArmFacts

LEMMA ArmInvNext ==
  TimersInv /\ WakeInv /\ ArmInv /\ [Next]_vars => ArmInv'
<1> SUFFICES ASSUME TimersInv, WakeInv, ArmInv, [Next]_vars PROVE ArmInv'
  OBVIOUS
<1>1. CASE UNCHANGED vars
  <2>1. UNCHANGED <<scenario, now, left, pc, ticks, wd, helper, changed, slip>>
    BY <1>1 DEF vars, timerVars, baseVars, serverVars
  <2> QED BY <2>1 DEF ArmInv, Watched, Arming, ArmedFor, Serving, NoStart, IsrOps, Past, FirstDelta
<1>2. CASE Next
  <2>1. scenario' = scenario /\ Step
    BY <1>2 DEF Next
  <2>2. ASSUME NEW t \in Timer, NEW n \in Interval,
               \/ \E k \in {"on_task", "interval"} : FireAfter(t, n, k)
               \/ IsrStart(t, n) \/ IsrStartTicks(t, n) \/ RoutineStart(t, n)
        PROVE  ArmInv'
    BY <2>1, <2>2, CancelArms, StartArms
  <2>3. ASSUME NEW t \in Timer, Reset(t) \/ Cancel(t) PROVE ArmInv'
    <3>1. 1 \in Interval
      BY TimerAssumption DEF Interval
    <3> QED BY <2>1, <2>3, <3>1, CancelArms
  <2>4. ASSUME Prepares \/ InsertTicks \/ InsertTimer \/ Tick PROVE ArmInv'
    BY <2>1, <2>4, CheckArms, InsertArms, TickArms
  <2>5. ASSUME Update \/ UpdateRemove \/ UpdateArm \/ UpdateAgain PROVE ArmInv'
    BY <2>1, <2>5, UpdateArms
  <2>6. ASSUME ServerTickle \/ ServerLoop \/ ServerTickleBegin \/ RoutineReturn PROVE ArmInv'
    BY <2>1, <2>6, AdjustArms, TickleArms
  <2> QED BY <2>1, <2>2, <2>3, <2>4, <2>5, <2>6 DEF Step, Prepares
<1> QED BY <1>1, <1>2

\* For every set of timers, every interval and every mix of tasks, handlers and
\* timer routines: a timer that is on the server's chain while the server and
\* its helpers rest has the system watchdog set, for no later tick than its own
\* and the ticks that hit the helper of _Timer_server_Update_system_watchdog
\* account for.
THEOREM ServerIsWoken ==
  Spec => []ServerServes
<1>1. TimersInv /\ WakeInv /\ ArmInv => ServerServes
  BY WakeInvUse, ArmInvUse DEF ServerServes
<1> QED BY <1>1, TimersInvInit, TimersInvNext, WakeInvInit, WakeInvNext,
           ArmInvInit, ArmInvNext, PTL DEF Spec

-----------------------------------------------------------------------------
(***************************************************************************)
(* No timer is served early.                                               *)
(***************************************************************************)

\* The watchdogs w come no earlier than d says, when their ticks count from b.
Timely(w, d, b) == \A i \in 1 .. Len(w.chain) : d[w.chain[i]] <= b + Reach(w)[i]

\* Typed facts on the ticks to a place.
LEMMA ReachTyped ==
  ASSUME NEW w \in Watchdogs, NEW i \in 1 .. Len(w.chain)
  PROVE  Reach(w)[i] \in Nat /\ w.chain[i] \in Timer
<1>1. i \in 0 .. Len(w.chain)
  BY WatchdogFields
<1> QED BY <1>1, ReachSums, WatchdogFields

LEMMA TimelyLater ==
  ASSUME NEW w \in Watchdogs, NEW d \in [Timer -> Int], NEW b \in Int, NEW c \in Int, b <= c,
         Timely(w, d, b)
  PROVE  Timely(w, d, c)
<1> SUFFICES ASSUME NEW i \in 1 .. Len(w.chain) PROVE d[w.chain[i]] <= c + Reach(w)[i]
  BY DEF Timely
<1>1. Reach(w)[i] \in Nat /\ d[w.chain[i]] \in Int
  BY ReachTyped
<1>2. d[w.chain[i]] <= b + Reach(w)[i]
  BY DEF Timely
<1> QED BY <1>1, <1>2

LEMMA TimelyMoved ==
  ASSUME NEW w \in Watchdogs, NEW q, HeadDiffers(w, q), NoRepetition(w.chain),
         NEW d \in [Timer -> Int], NEW b \in Int, NEW c \in Int, Timely(w, d, b),
         w.chain # <<>> => b + FirstDelta(w) <= c + FirstDelta(q)
  PROVE  Timely(q, d, c)
<1>0. q \in Watchdogs /\ q.chain = w.chain
  BY DEF HeadDiffers
<1> SUFFICES ASSUME NEW i \in 1 .. Len(w.chain) PROVE d[w.chain[i]] <= c + Reach(q)[i]
  BY <1>0 DEF Timely
<1>1. w.chain # <<>>
  BY WatchdogFields
<1>2. FirstDelta(w) \in Nat /\ FirstDelta(q) \in Nat
  BY <1>0, <1>1, ReachFirst
<1>3. PICK x : x = FirstDelta(q) - FirstDelta(w)
  OBVIOUS
<1>4. x \in Int /\ FirstDelta(q) = FirstDelta(w) + x
  BY <1>2, <1>3
<1>5. \A t \in Timer : t # Head(w.chain) => q.delta[t] = w.delta[t]
  BY <1>1 DEF HeadDiffers
<1>6. \A j \in 1 .. Len(w.chain) : Reach(q)[j] = Reach(w)[j] + x
  BY <1>0, <1>1, <1>4, <1>5, ReachMoves
<1>7. Reach(q)[i] = Reach(w)[i] + x
  BY <1>6
<1>8. Reach(w)[i] \in Nat /\ d[w.chain[i]] \in Int
  BY ReachTyped
<1>9. d[w.chain[i]] <= b + Reach(w)[i]
  BY DEF Timely
<1>10. b + FirstDelta(w) <= c + FirstDelta(w) + x
  BY <1>1, <1>2, <1>4
<1>11. b <= c + x
  BY <1>2, <1>4, <1>10
<1> QED BY ONLY <1>4, <1>7, <1>8, <1>9, <1>11, b \in Int, c \in Int

LEMMA TimelyLeft ==
  ASSUME NEW w \in Watchdogs, NEW q, NEW t \in Timer, Leaves(w, q, t),
         NEW d \in [Timer -> Int], NEW b \in Int, Timely(w, d, b)
  PROVE  Timely(q, [d EXCEPT ![t] = -1], b)
<1>0. q \in Watchdogs /\ ToSet(q.chain) = ToSet(w.chain) \ {t}
  BY DEF Leaves
<1> SUFFICES ASSUME NEW i \in 1 .. Len(q.chain)
             PROVE  [d EXCEPT ![t] = -1][q.chain[i]] <= b + Reach(q)[i]
  BY DEF Timely
<1>1. q.chain[i] # t /\ q.chain[i] \in Timer
  <2>1. q.chain[i] \in ToSet(q.chain)
    BY <1>0, WatchdogFields DEF ToSet
  <2> QED BY <1>0, <2>1, ReachTyped
<1>2. [d EXCEPT ![t] = -1][q.chain[i]] = d[q.chain[i]]
  BY <1>1
<1>3. CASE ~OnServer(w, t)
  <2>1. q = w
    BY <1>3 DEF Leaves
  <2> QED BY <1>2, <2>1 DEF Timely
<1>4. CASE OnServer(w, t)
  <2>1. PICK p : /\ Inserts(q.chain, w.chain, t, p)
                 /\ \A j \in 1 .. Len(q.chain) : Reach(w)[Shift(p, j)] = Reach(q)[j]
    BY <1>4 DEF Leaves, Splits
  <2>2. w.chain \in Seq(Timer) /\ q.chain \in Seq(Timer)
    BY <1>0, WatchdogFields
  <2>3. Shift(p, i) \in 1 .. Len(w.chain) /\ w.chain[Shift(p, i)] = q.chain[i]
    <3>1. \A j \in DOMAIN q.chain : /\ Shift(p, j) \in DOMAIN w.chain
                                    /\ w.chain[Shift(p, j)] = q.chain[j]
      BY <2>1, <2>2, InsertsPlaces
    <3>2. DOMAIN w.chain = 1 .. Len(w.chain) /\ DOMAIN q.chain = 1 .. Len(q.chain)
      BY <1>0, WatchdogFields
    <3> QED BY <3>1, <3>2
  <2>4. d[w.chain[Shift(p, i)]] <= b + Reach(w)[Shift(p, i)]
    BY <2>3 DEF Timely
  <2> QED BY <1>2, <2>1, <2>3, <2>4
<1> QED BY <1>3, <1>4

LEMMA TimelyPlaced ==
  ASSUME NEW w \in Watchdogs, NEW q, NEW t \in Timer, NEW n \in Nat, Places(w, q, t, n), ~OnServer(w, t),
         NEW d \in [Timer -> Int], NEW b \in Int, Timely(w, d, b)
  PROVE  Timely(q, [d EXCEPT ![t] = b + n], b)
<1>0. q \in Watchdogs
  BY DEF Places
<1> SUFFICES ASSUME NEW j \in 1 .. Len(q.chain)
             PROVE  [d EXCEPT ![t] = b + n][q.chain[j]] <= b + Reach(q)[j]
  BY DEF Timely
<1>1. PICK p : /\ Inserts(w.chain, q.chain, t, p) /\ Reach(q)[p + 1] = n
               /\ \A i \in 1 .. Len(w.chain) : Reach(q)[Shift(p, i)] = Reach(w)[i]
  BY DEF Places, Splits
<1>2. w.chain \in Seq(Timer) /\ q.chain \in Seq(Timer)
  BY <1>0, WatchdogFields
<1>3. /\ q.chain[p + 1] = t
      /\ \A i \in 1 .. Len(w.chain) : q.chain[Shift(p, i)] = w.chain[i]
      /\ j = p + 1 \/ \E i \in 1 .. Len(w.chain) : j = Shift(p, i)
  <2>1. /\ q.chain[p + 1] = t
        /\ \A i \in DOMAIN w.chain : q.chain[Shift(p, i)] = w.chain[i]
        /\ \A k \in DOMAIN q.chain : k = p + 1 \/ \E i \in DOMAIN w.chain : k = Shift(p, i)
    BY <1>1, <1>2, InsertsPlaces
  <2>2. DOMAIN w.chain = 1 .. Len(w.chain) /\ DOMAIN q.chain = 1 .. Len(q.chain)
    BY <1>0, WatchdogFields
  <2> QED BY <2>1, <2>2
<1>4. CASE j = p + 1
  BY <1>1, <1>3, <1>4
<1>5. CASE \E i \in 1 .. Len(w.chain) : j = Shift(p, i)
  <2>1. PICK i \in 1 .. Len(w.chain) : j = Shift(p, i)
    BY <1>5
  <2>2. q.chain[j] = w.chain[i] /\ Reach(q)[j] = Reach(w)[i] /\ w.chain[i] \in Timer
    BY <1>1, <1>3, <2>1, ReachTyped
  <2>3. w.chain[i] # t
    BY WatchdogFields DEF OnServer, ToSet
  <2> QED BY <2>2, <2>3 DEF Timely
<1> QED BY <1>3, <1>4, <1>5

\* The history of timers that are not on the chain.
LEMMA TimelyOthers ==
  ASSUME NEW w \in Watchdogs, NEW d, NEW e, NEW b, Timely(w, d, b),
         \A t \in Timer : t \in ToSet(w.chain) => e[t] = d[t]
  PROVE  Timely(w, e, b)
<1> SUFFICES ASSUME NEW i \in 1 .. Len(w.chain) PROVE e[w.chain[i]] <= b + Reach(w)[i]
  BY DEF Timely
<1>1. w.chain[i] \in Timer /\ w.chain[i] \in ToSet(w.chain)
  BY WatchdogFields DEF ToSet
<1> QED BY <1>1 DEF Timely

\* The same chain with the same ticks.
LEMMA TimelySame ==
  ASSUME NEW w \in Watchdogs, NEW q \in Watchdogs, q.chain = w.chain, q.delta = w.delta,
         NoRepetition(w.chain), NEW d \in [Timer -> Int], NEW b \in Int, Timely(w, d, b)
  PROVE  Timely(q, d, b)
<1>1. HeadDiffers(w, q)
  BY DEF HeadDiffers
<1>2. w.chain # <<>> => b + FirstDelta(w) <= b + FirstDelta(q)
  <2>1. FirstDelta(q) = FirstDelta(w)
    BY DEF FirstDelta
  <2>2. w.chain # <<>> => FirstDelta(w) \in Nat
    BY ReachFirst
  <2> QED BY <2>1, <2>2
<1> QED BY <1>1, <1>2, TimelyMoved

\* _Watchdog_Tickle takes one tick off the first timer before it looks at it.
Slack == IF pc = "tickle" THEN 1 ELSE 0

\* The ticks of the server's chain count from here.
Base == wd.last - units - Slack

Calm == {"start", "routine"} \cap IsrOps = {}

EarlyInv ==
  Calm =>
    /\ pc = "routine" => timer \in Timer /\ due[timer] = -1
    /\ Timely(wd, due, Base)
    /\ units # 0 => Serving

LEMMA EarlyInvInit ==
  Init => EarlyInv
<1> SUFFICES ASSUME Init PROVE EarlyInv
  OBVIOUS
<1>1. wd.chain = <<>> /\ pc = "idle" /\ units = 0
  BY DEF Init
<1>2. Timely(wd, due, Base)
  BY <1>1 DEF Timely
<1> QED BY <1>1, <1>2 DEF EarlyInv

\* What holds before a step, and what has to be shown of it.
LEMMA EarlyFacts ==
  ASSUME TimersInv, EarlyInv, Calm
  PROVE  /\ pc = "routine" => timer \in Timer /\ due[timer] = -1
         /\ Timely(wd, due, Base)
         /\ units # 0 => Serving
         /\ ~Serving => units = 0 /\ Base = wd.last
         /\ Base \in Int /\ due \in [Timer -> Int] /\ wd \in Watchdogs /\ NoRepetition(wd.chain)
         /\ wd.last \in Nat /\ units \in Nat /\ Slack \in {0, 1}
<1>1. /\ wd \in Watchdogs /\ NoRepetition(wd.chain) /\ wd.last \in Nat /\ units \in Nat
      /\ due \in [Timer -> Int]
  BY TimersTyped DEF Chained
<1>2. Slack \in {0, 1} /\ (~Serving => Slack = 0)
  BY DEF Slack, Serving
<1>3. Base \in Int
  BY <1>1, <1>2 DEF Base
<1>4. units # 0 => Serving
  BY DEF EarlyInv
<1>5. ~Serving => units = 0 /\ Base = wd.last
  BY <1>1, <1>2, <1>4 DEF Base
<1> QED BY <1>1, <1>2, <1>3, <1>4, <1>5 DEF EarlyInv

LEMMA EarlyGoal ==
  ASSUME scenario' = scenario,
         Calm => /\ pc' = "routine" => timer' \in Timer /\ due'[timer'] = -1
                 /\ Timely(wd', due', Base')
                 /\ units' # 0 => Serving'
  PROVE  EarlyInv'
<1>1. Calm' = Calm
  BY DEF Calm, IsrOps
<1>2. Timely(wd, due, Base)' = Timely(wd', due', Base')
  BY DEF Timely
<1> QED BY <1>1, <1>2 DEF EarlyInv

LEMMA CancelEarly ==
  ASSUME TimersInv, EarlyInv, scenario' = scenario, NEW t \in Timer, NEW n \in Interval,
         \/ \E k \in {"on_task", "interval"} : FireAfter(t, n, k)
         \/ Reset(t) \/ Cancel(t)
  PROVE  EarlyInv'
<1> SUFFICES ASSUME Calm
             PROVE  /\ pc' = "routine" => timer' \in Timer /\ due'[timer'] = -1
                    /\ Timely(wd', due', Base')
                    /\ units' # 0 => Serving'
  BY EarlyGoal
<1>1. /\ wd' = Without(wd, t) /\ due' = [due EXCEPT ![t] = -1] /\ units' = units
      /\ (pc' = pc /\ timer' = timer) \/ (pc = "idle" /\ pc' \in Directive)
  BY DEF FireAfter, Reset, Cancel, baseVars, Cancelled, Directive
<1>2. Leaves(wd, wd', t)
  BY <1>1, EarlyFacts, WithoutIs
<1>3. Slack' = Slack /\ wd'.last = wd.last /\ (Serving => Serving')
  BY <1>1, <1>2 DEF Slack, Leaves, Serving, Directive
<1>4. Base' = Base
  BY <1>1, <1>3 DEF Base
<1>5. Timely(wd', due', Base')
  BY <1>1, <1>2, <1>4, EarlyFacts, TimelyLeft
<1>6. pc' = "routine" => timer' \in Timer /\ due'[timer'] = -1
  BY <1>1, EarlyFacts DEF Directive
<1> QED BY <1>1, <1>3, <1>5, <1>6, EarlyFacts

\* The steps of a directive and of a helper that leave the timers on the
\* server's chain as they are.
LEMMA KeptEarly ==
  ASSUME TimersInv, EarlyInv, scenario' = scenario,
         Prepares \/ InsertTicks \/ Update \/ UpdateRemove \/ UpdateArm \/ UpdateAgain
  PROVE  EarlyInv'
<1> SUFFICES ASSUME Calm
             PROVE  /\ pc' = "routine" => timer' \in Timer /\ due'[timer'] = -1
                    /\ Timely(wd', due', Base')
                    /\ units' # 0 => Serving'
  BY EarlyGoal
<1>1. /\ ~Serving /\ ~Serving' /\ units' = units
      /\ \/ wd' = wd
         \/ wd' = [wd EXCEPT !.swd = FirstDelta(wd)] /\ MustArm(wd)
  <2>1. CASE Prepares
    BY <2>1, PreparesOnly DEF Directive, Serving
  <2>2. CASE InsertTicks \/ Update \/ UpdateRemove \/ UpdateArm \/ UpdateAgain
    BY <2>2 DEF InsertTicks, Update, UpdateRemove, UpdateArm, UpdateAgain, UpdateTurn,
                serverVars, Serving
  <2> QED BY <2>1, <2>2
<1>2. wd' \in Watchdogs /\ wd'.chain = wd.chain /\ wd'.delta = wd.delta /\ wd'.last = wd.last
  <2>1. CASE wd' = wd
    BY <2>1, EarlyFacts
  <2>2. CASE wd' = [wd EXCEPT !.swd = FirstDelta(wd)] /\ MustArm(wd)
    <3>1. FirstDelta(wd) \in Nat
      BY <2>2, EarlyFacts, ReachFirst DEF MustArm
    <3> QED BY <2>2, <3>1, EarlyFacts DEF Watchdogs
  <2> QED BY <1>1, <2>1, <2>2
<1>3. units' = 0 /\ Base = wd.last /\ Base' = Base
  <2>1. units' = 0 /\ Base = wd.last
    BY <1>1, EarlyFacts
  <2>2. Slack' = 0
    BY <1>1 DEF Slack, Serving
  <2> QED BY <1>2, <2>1, <2>2, EarlyFacts DEF Base
<1>4. \A t \in Timer : t \in ToSet(wd.chain) => due'[t] = due[t]
  <2>1. CASE InsertTicks
    <3>1. timer \in Timer
      BY <2>1 DEF InsertTicks, TimersInv, Asked, Directive
    <3>2. due' = due \/ (~OnServer(wd, timer) /\ due' = [due EXCEPT ![timer] = now + initial[timer]])
      BY <2>1 DEF InsertTicks, Active
    <3> QED BY <3>1, <3>2, EarlyFacts DEF OnServer
  <2>2. CASE ~InsertTicks
    <3>1. due' = due
      BY <2>2, PreparesOnly DEF Update, UpdateRemove, UpdateArm, UpdateAgain, UpdateTurn, timerVars
    <3> QED BY <3>1
  <2> QED BY <2>1, <2>2
<1>5. Timely(wd', due, Base)
  BY <1>2, EarlyFacts, TimelySame
<1>6. Timely(wd', due', Base')
  BY <1>2, <1>3, <1>4, <1>5, TimelyOthers
<1> QED BY <1>1, <1>3, <1>6 DEF Serving

LEMMA InsertEarly ==
  ASSUME TimersInv, EarlyInv, scenario' = scenario, InsertTimer
  PROVE  EarlyInv'
<1> SUFFICES ASSUME Calm
             PROVE  /\ pc' = "routine" => timer' \in Timer /\ due'[timer'] = -1
                    /\ Timely(wd', due', Base')
                    /\ units' # 0 => Serving'
  BY EarlyGoal
<1>1. pc = "insert" /\ timer \in Timer /\ units' = units /\ ~Serving /\ pc' = "update"
  BY DEF InsertTimer, TimersInv, Asked, Directive, Serving
<1>2. units' = 0 /\ Base = wd.last /\ Slack' = 0
  BY <1>1, EarlyFacts DEF Slack
<1>3. PICK w : w = Refreshed(wd)
  OBVIOUS
<1>4. /\ HeadDiffers(wd, w) /\ w.last = now
      /\ wd.chain # <<>> => FirstDelta(w) = Less(FirstDelta(wd), now - wd.last)
  BY <1>3, TimersTyped, RefreshedIs
<1>5. w \in Watchdogs /\ w.chain = wd.chain /\ NoRepetition(w.chain) /\ now \in Int
  BY <1>4, TimersTyped DEF HeadDiffers
<1>6. wd.chain # <<>> => wd.last + FirstDelta(wd) <= now + FirstDelta(w)
  <2>1. wd.chain # <<>> => FirstDelta(wd) \in Nat
    BY TimersTyped, ReachFirst
  <2> QED BY <1>4, <2>1, TimersTyped DEF Less
<1>7. Timely(w, due, now)
  BY <1>2, <1>4, <1>5, <1>6, EarlyFacts, TimelyMoved
<1>8. CASE Active(timer)
  <2>1. wd' = w /\ due' = due
    BY <1>3, <1>8 DEF InsertTimer
  <2>2. Base' = now
    BY <1>2, <1>4, <1>5, <2>1 DEF Base
  <2> QED BY <1>1, <1>2, <1>7, <2>1, <2>2
<1>9. CASE ~Active(timer)
  <2>1. wd' = Placed(w, timer, initial[timer]) /\ due' = [due EXCEPT ![timer] = now + initial[timer]]
    BY <1>3, <1>9 DEF InsertTimer
  <2>2. ~OnServer(w, timer) /\ initial[timer] \in Nat
    BY <1>1, <1>5, <1>9, TimersTyped, TimerAssumption DEF Active, OnServer
  <2>3. Places(w, wd', timer, initial[timer])
    BY <1>1, <1>5, <2>1, <2>2, PlacedIs
  <2>4. Base' = now
    BY <1>2, <1>4, <1>5, <2>3 DEF Base, Places
  <2>5. Timely(wd', due', now)
    BY <1>1, <1>5, <1>7, <2>1, <2>2, <2>3, EarlyFacts, TimelyPlaced
  <2> QED BY <1>1, <1>2, <2>4, <2>5
<1> QED BY <1>8, <1>9

LEMMA TickEarly ==
  ASSUME TimersInv, EarlyInv, scenario' = scenario, Tick
  PROVE  EarlyInv'
<1> SUFFICES ASSUME Calm
             PROVE  /\ pc' = "routine" => timer' \in Timer /\ due'[timer'] = -1
                    /\ Timely(wd', due', Base')
                    /\ units' # 0 => Serving'
  BY EarlyGoal
<1>1. UNCHANGED <<pc, timer, units>> /\ (wd' = wd \/ wd' = [wd EXCEPT !.current = now + 1, !.swd = 0])
  BY DEF Tick, baseVars
<1>2. wd' \in Watchdogs /\ wd'.chain = wd.chain /\ wd'.delta = wd.delta /\ wd'.last = wd.last
  <2>1. CASE wd' = wd
    BY <2>1, TimersTyped
  <2>2. CASE wd' = [wd EXCEPT !.current = now + 1, !.swd = 0]
    <3>1. now + 1 \in Nat
      BY TimersTyped
    <3> QED BY <2>2, <3>1, TimersTyped DEF Watchdogs
  <2> QED BY <1>1, <2>1, <2>2
<1>3. Base' = Base /\ Serving' = Serving
  BY <1>1, <1>2 DEF Base, Slack, Serving
<1>4. ASSUME NEW t \in Timer PROVE /\ due'[t] = due[t] \/ due'[t] = -1
                                   /\ t \in ToSet(wd.chain) => due'[t] = due[t]
  <2>1. due'[t] = IF left[t] >= 0 /\ left'[t] = -1 THEN -1 ELSE due[t]
    BY TickLeft
  <2>2. t \in ToSet(wd.chain) => ~(left[t] >= 0)
    BY TimersTyped DEF Chained
  <2> QED BY <2>1, <2>2
<1>5. Timely(wd', due, Base)
  BY <1>2, EarlyFacts, TimelySame
<1>6. Timely(wd', due', Base')
  BY <1>2, <1>3, <1>4, <1>5, TimelyOthers
<1>7. pc' = "routine" => timer' \in Timer /\ due'[timer'] = -1
  BY <1>1, <1>4, EarlyFacts
<1> QED BY <1>1, <1>3, <1>6, <1>7, EarlyFacts

LEMMA AdjustEarly ==
  ASSUME TimersInv, EarlyInv, scenario' = scenario, ServerTickle \/ ServerLoop
  PROVE  EarlyInv'
<1> SUFFICES ASSUME Calm
             PROVE  /\ pc' = "routine" => timer' \in Timer /\ due'[timer'] = -1
                    /\ Timely(wd', due', Base')
                    /\ units' # 0 => Serving'
  BY EarlyGoal
<1>1. due' = due
  BY DEF ServerTickle, ServerLoop, timerVars
<1>2. PICK w, u : /\ AdjustForward(w, u) /\ w \in Watchdogs /\ u \in Nat
                  /\ w.chain = wd.chain /\ w.delta = wd.delta /\ w.last \in Nat
                  /\ w.last - u = Base
  <2>1. CASE ServerLoop
    <3>1. AdjustForward(wd, units) /\ pc = "loop"
      BY <2>1 DEF ServerLoop
    <3>2. wd.last - units = Base
      BY <3>1, EarlyFacts DEF Base, Slack
    <3> QED BY <3>1, <3>2, EarlyFacts
  <2>2. CASE ServerTickle
    <3>1. PICK w : w = [wd EXCEPT !.last = wd.current]
      OBVIOUS
    <3>2. /\ w \in Watchdogs /\ w.chain = wd.chain /\ w.delta = wd.delta /\ w.last = wd.current
      BY <3>1, TimersTyped DEF Watchdogs
    <3>3. PICK u : u = wd.current - wd.last
      OBVIOUS
    <3>4. AdjustForward(w, u) /\ ~Serving
      BY <2>2, <3>1, <3>3 DEF ServerTickle, Serving
    <3>5. u \in Nat /\ w.last \in Nat /\ w.last - u = Base
      BY <3>2, <3>3, <3>4, TimersTyped, EarlyFacts
    <3> QED BY <3>2, <3>4, <3>5
  <2> QED BY <2>1, <2>2
<1>3. /\ HeadDiffers(w, wd') /\ units' \in Nat /\ wd'.last = w.last
      /\ \/ /\ pc' = "update" /\ units' = 0
            /\ w.chain # <<>> => FirstDelta(wd') = FirstDelta(w) - u
         \/ /\ pc' = "tickle" /\ units' = u - FirstDelta(w) /\ FirstDelta(wd') = 1
  BY <1>2, AdjustIs
<1>4. Timely(w, due, Base)
  BY <1>2, EarlyFacts, TimelySame
<1>5. Base' \in Int /\ (w.chain # <<>> => Base + FirstDelta(w) <= Base' + FirstDelta(wd'))
  <2>1. w.chain # <<>> => FirstDelta(w) \in Nat
    BY <1>2, ReachFirst
  <2>2. CASE pc' = "update"
    <3>1. Base' = w.last
      BY <1>2, <1>3, <2>2 DEF Base, Slack
    <3>2. w.chain # <<>> => FirstDelta(wd') = FirstDelta(w) - u
      BY <1>3, <2>2
    <3> QED BY <1>2, <2>1, <3>1, <3>2
  <2>3. CASE pc' = "tickle"
    <3>1. Base' = w.last - units' - 1
      BY <1>3, <2>3 DEF Base, Slack
    <3>2. units' = u - FirstDelta(w) /\ FirstDelta(wd') = 1
      BY <1>3, <2>3
    <3> QED BY <1>2, <1>3, <2>1, <3>1, <3>2
  <2> QED BY <1>3, <2>2, <2>3
<1>6. Timely(wd', due', Base')
  <2>1. NoRepetition(w.chain) /\ Base \in Int /\ due \in [Timer -> Int]
    BY <1>2, EarlyFacts
  <2> QED BY <1>1, <1>2, <1>3, <1>4, <1>5, <2>1, TimelyMoved
<1>7. pc' # "routine" /\ (units' # 0 => Serving')
  BY <1>3 DEF Serving
<1> QED BY <1>6, <1>7

\* The watchdogs that _Watchdog_Tickle looks at, after the tick it takes off.
LEMMA TickleLooks ==
  ASSUME TimersInv, EarlyInv, Calm, ServerTickleBegin \/ RoutineReturn
  PROVE  \E w : /\ TickleFirst(w) /\ w \in Watchdogs /\ w.chain = wd.chain /\ w.last = wd.last
                /\ Timely(w, due, wd.last - units)
<1>1. CASE RoutineReturn
  <2>1. TickleFirst(wd) /\ pc = "routine"
    BY <1>1 DEF RoutineReturn
  <2>2. Base = wd.last - units
    BY <2>1, EarlyFacts DEF Base, Slack
  <2> QED BY <2>1, <2>2, EarlyFacts
<1>2. CASE ServerTickleBegin
  <2>1. PICK w : w = CountDown(wd)
    OBVIOUS
  <2>2. /\ HeadDiffers(wd, w) /\ w.last = wd.last
        /\ wd.chain # <<>> => FirstDelta(w) = Less(FirstDelta(wd), 1)
    BY <2>1, EarlyFacts, CountDownIs
  <2>3. pc = "tickle" /\ TickleFirst(w)
    BY <1>2, <2>1 DEF ServerTickleBegin
  <2>4. Base = wd.last - units - 1 /\ wd.last - units \in Int
    BY <2>3, EarlyFacts DEF Base, Slack
  <2>5. wd.chain # <<>> => Base + FirstDelta(wd) <= wd.last - units + FirstDelta(w)
    <3>1. wd.chain # <<>> => FirstDelta(wd) \in Nat
      BY EarlyFacts, ReachFirst
    <3> QED BY <2>2, <2>4, <3>1, EarlyFacts DEF Less
  <2>6. Timely(w, due, wd.last - units)
    <3>1. PICK c : c = wd.last - units
      OBVIOUS
    <3>2. c \in Int /\ (wd.chain # <<>> => Base + FirstDelta(wd) <= c + FirstDelta(w))
      BY <2>4, <2>5, <3>1
    <3>3. Timely(w, due, c)
      BY <2>2, <3>2, EarlyFacts, TimelyMoved
    <3> QED BY <3>1, <3>3
  <2> QED BY <2>2, <2>3, <2>6 DEF HeadDiffers
<1> QED BY <1>1, <1>2

LEMMA TickleEarly ==
  ASSUME TimersInv, EarlyInv, scenario' = scenario, ServerTickleBegin \/ RoutineReturn
  PROVE  EarlyInv'
<1> SUFFICES ASSUME Calm
             PROVE  /\ pc' = "routine" => timer' \in Timer /\ due'[timer'] = -1
                    /\ Timely(wd', due', Base')
                    /\ units' # 0 => Serving'
  BY EarlyGoal
<1>1. PICK w : /\ TickleFirst(w) /\ w \in Watchdogs /\ w.chain = wd.chain /\ w.last = wd.last
               /\ Timely(w, due, wd.last - units)
  BY TickleLooks
<1>2. units' = units /\ pc' \in {"loop", "routine"} /\ wd.last - units \in Int
  BY <1>1, EarlyFacts DEF TickleFirst
<1>3. wd'.last = wd.last => Base' = wd.last - units
  BY <1>2, EarlyFacts DEF Base, Slack
<1>4. CASE w.chain # <<>> /\ FirstDelta(w) = 0
  <2>1. PICK t : t = Head(w.chain)
    OBVIOUS
  <2>2. /\ wd' = Without(w, t) /\ timer' = t /\ due' = [due EXCEPT ![t] = -1]
    BY <1>1, <1>4, <2>1 DEF TickleFirst
  <2>3. t \in Timer /\ NoRepetition(w.chain)
    BY <1>1, <1>4, <2>1, ReachFirst, EarlyFacts
  <2>4. Leaves(w, wd', t)
    BY <1>1, <2>2, <2>3, WithoutIs
  <2>5. Timely(wd', due', wd.last - units)
    BY <1>1, <1>2, <2>2, <2>3, <2>4, EarlyFacts, TimelyLeft
  <2>6. wd'.last = wd.last
    BY <1>1, <2>4 DEF Leaves
  <2>7. timer' \in Timer /\ due'[timer'] = -1
    BY <2>2, <2>3, EarlyFacts
  <2> QED BY <1>2, <1>3, <2>5, <2>6, <2>7 DEF Serving
<1>5. CASE ~(w.chain # <<>> /\ FirstDelta(w) = 0)
  <2>1. wd' = w /\ pc' = "loop" /\ due' = due
    BY <1>1, <1>5 DEF TickleFirst
  <2> QED BY <1>1, <1>3, <2>1 DEF Serving
<1> QED BY <1>4, <1>5

LEMMA EarlyInvNext ==
  TimersInv /\ EarlyInv /\ [Next]_vars => EarlyInv'
<1> SUFFICES ASSUME TimersInv, EarlyInv, [Next]_vars PROVE EarlyInv'
  OBVIOUS
<1>1. CASE UNCHANGED vars
  <2>1. UNCHANGED <<scenario, pc, timer, units, due, wd>>
    BY <1>1 DEF vars, timerVars, baseVars, serverVars
  <2>2. Base' = Base /\ Serving' = Serving
    BY <2>1 DEF Base, Slack, Serving
  <2> QED BY <2>1, <2>2, EarlyFacts, EarlyGoal
<1>2. CASE Next
  <2>1. scenario' = scenario /\ Step
    BY <1>2 DEF Next
  <2>2. ASSUME NEW t \in Timer, NEW n \in Interval,
               \/ \E k \in {"on_task", "interval"} : FireAfter(t, n, k)
               \/ IsrStart(t, n) \/ IsrStartTicks(t, n) \/ RoutineStart(t, n)
        PROVE  EarlyInv'
    <3>1. CASE \E k \in {"on_task", "interval"} : FireAfter(t, n, k)
      BY <2>1, <3>1, CancelEarly
    <3>2. CASE IsrStart(t, n) \/ IsrStartTicks(t, n) \/ RoutineStart(t, n)
      <4>1. ~Calm
        BY <3>2 DEF IsrStart, IsrStartTicks, RoutineStart, Calm
      <4> QED BY <2>1, <4>1, EarlyGoal
    <3> QED BY <2>2, <3>1, <3>2
  <2>3. ASSUME NEW t \in Timer, Reset(t) \/ Cancel(t) PROVE EarlyInv'
    <3>1. 1 \in Interval
      BY TimerAssumption DEF Interval
    <3> QED BY <2>1, <2>3, <3>1, CancelEarly
  <2>4. ASSUME \/ Prepares \/ InsertTicks \/ Update \/ UpdateRemove \/ UpdateArm \/ UpdateAgain
        PROVE  EarlyInv'
    BY <2>1, <2>4, KeptEarly
  <2>5. ASSUME InsertTimer \/ Tick PROVE EarlyInv'
    BY <2>1, <2>5, InsertEarly, TickEarly
  <2>6. ASSUME ServerTickle \/ ServerLoop \/ ServerTickleBegin \/ RoutineReturn PROVE EarlyInv'
    BY <2>1, <2>6, AdjustEarly, TickleEarly
  <2> QED BY <2>1, <2>2, <2>3, <2>4, <2>5, <2>6 DEF Step, Prepares
<1> QED BY <1>1, <1>2

\* A step that serves a timer finds it due.
LEMMA ServedInTime ==
  ASSUME TimersInv, EarlyInv, [Next]_vars, Calm, NEW t \in Timer,
         due[t] >= 0, due'[t] = -1, pc' = "routine", timer' = t
  PROVE  now >= due[t]
<1>1. Next
  <2>1. ~UNCHANGED vars
    <3>1. due'[t] # due[t]
      BY EarlyFacts
    <3> QED BY <3>1 DEF vars, timerVars
  <2> QED BY <2>1
<1>2. CASE ServerTickleBegin \/ RoutineReturn
  <2>1. PICK w : /\ TickleFirst(w) /\ w \in Watchdogs /\ w.chain = wd.chain
                 /\ Timely(w, due, wd.last - units)
    BY <1>2, TickleLooks
  <2>2. w.chain # <<>> /\ FirstDelta(w) = 0 /\ t = Head(w.chain)
    BY <2>1 DEF TickleFirst
  <2>3. Reach(w)[1] = 0 /\ t = w.chain[1] /\ Len(w.chain) >= 1 /\ Len(w.chain) \in Nat
    BY <2>1, <2>2, ReachFirst, WatchdogFields
  <2>4. due[w.chain[1]] <= wd.last - units + Reach(w)[1]
    <3>1. 1 \in 1 .. Len(w.chain)
      BY <2>3
    <3> QED BY <2>1, <3>1 DEF Timely
  <2>5. due[t] <= wd.last - units + 0
    BY <2>3, <2>4
  <2>6. due[t] \in Int /\ units \in Nat /\ wd.last \in Nat /\ now \in Nat /\ wd.last <= now
    BY TimersTyped DEF Chained
  <2> QED BY <2>5, <2>6
<1>3. CASE (\E x \in Timer : Cancel(x)) \/ Tick
  <2>1. pc = "routine" /\ timer = t
    BY <1>3 DEF Cancel, Tick, baseVars
  <2> QED BY <2>1, EarlyFacts
<1>4. ASSUME ~(ServerTickleBegin \/ RoutineReturn), ~((\E x \in Timer : Cancel(x)) \/ Tick)
      PROVE  FALSE
  <2>1. CASE \E x \in Timer, n \in Interval :
               \/ \E k \in {"on_task", "interval"} : FireAfter(x, n, k)
               \/ IsrStart(x, n) \/ IsrStartTicks(x, n) \/ RoutineStart(x, n)
    <3>1. pc' = "check" \/ ~Calm
      BY <2>1 DEF FireAfter, IsrStart, IsrStartTicks, RoutineStart, Calm
    <3> QED BY <3>1
  <2>2. CASE \E x \in Timer : Reset(x)
    BY <2>2 DEF Reset
  <2>3. CASE \/ Prepares \/ InsertTimer \/ InsertTicks
             \/ Update \/ UpdateRemove \/ UpdateArm \/ UpdateAgain
    BY <2>3, PreparesOnly DEF Directive, InsertTimer, InsertTicks, Update, UpdateRemove, UpdateArm,
                              UpdateAgain, UpdateTurn
  <2>4. CASE ServerTickle \/ ServerLoop
    BY <2>4 DEF ServerTickle, ServerLoop, AdjustForward
  <2> QED BY <1>1, <1>4, <2>1, <2>2, <2>3, <2>4 DEF Next, Step, Prepares
<1> QED BY <1>2, <1>3, <1>4

\* Where no handler and no routine starts a timer, the server runs the routine
\* of no timer before its tick, whatever ticks hit the helper and the server and
\* whatever handlers cancel between their steps, for every number of timers and
\* every interval: the turns of _Watchdog_Adjust_forward_locked and
\* _Watchdog_Tickle take no more ticks off the chain than have passed.
THEOREM TimersAreNotEarly ==
  Spec => NotEarly
<1>1. TimersInv /\ EarlyInv /\ [Next]_vars =>
        [\A t \in Timer :
           /\ {"start", "routine"} \cap IsrOps = {}
           /\ due[t] >= 0 /\ due'[t] = -1 /\ pc' = "routine" /\ timer' = t
           => now >= due[t]]_vars
  BY ServedInTime DEF Calm
<1> QED BY <1>1, TimersInvInit, TimersInvNext, EarlyInvInit, EarlyInvNext, PTL DEF Spec, NotEarly
=============================================================================
