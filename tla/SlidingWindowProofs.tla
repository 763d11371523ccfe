------------------------- MODULE SlidingWindowProofs -------------------------
(***************************************************************************)
(* Facts about the sliding-window arithmetic and the counter store, for    *)
(* every limit, window and counter value.                                  *)
(***************************************************************************)
EXTENDS SlidingWindow, TLAPS

\* A store of counters: what GET can return for the keys that exist.
IsCounterStore(counters) ==
    counters \in [DOMAIN counters -> [n : Nat \ {0}, expires : Nat]]

\* Windows tile the time line: a time lies in the window of its index.
LEMMA WindowOfTime ==
    ASSUME NEW w \in Nat \ {0}, NEW t \in Nat
    PROVE  /\ WindowIndex(t, w) \in Nat
           /\ Elapsed(t, w) \in 0 .. (w - 1)
           /\ t = w * WindowIndex(t, w) + Elapsed(t, w)
  BY DEF WindowIndex, Elapsed

\* A time before the end of window k is in window k or an earlier one.
LEMMA WindowBefore ==
    ASSUME NEW w \in Nat \ {0}, NEW t \in Nat, NEW k \in Nat, t < w * (k + 1)
    PROVE  WindowIndex(t, w) <= k
  BY DEF WindowIndex

\* A time from the start of window k on is in window k or a later one.
LEMMA WindowAfter ==
    ASSUME NEW w \in Nat \ {0}, NEW t \in Nat, NEW k \in Nat, w * k <= t
    PROVE  k <= WindowIndex(t, w)
  BY DEF WindowIndex

\* A later time lies in the same window or a later one.
LEMMA WindowMonotone ==
    ASSUME NEW w \in Nat \ {0}, NEW s \in Nat, NEW t \in Nat, s <= t
    PROVE  /\ WindowIndex(s, w) \in Nat /\ WindowIndex(t, w) \in Nat
           /\ WindowIndex(s, w) <= WindowIndex(t, w)
  <1>1. WindowIndex(s, w) \in Nat /\ w * WindowIndex(s, w) <= s  BY WindowOfTime
  <1>2. WindowIndex(t, w) \in Nat  BY WindowOfTime
  <1>3. w * WindowIndex(s, w) <= t  BY <1>1
  <1> QED  BY <1>1, <1>2, <1>3, WindowAfter

\* Two times less than a window apart lie in the same or in adjacent windows.
LEMMA AdjacentWindows ==
    ASSUME NEW w \in Nat \ {0}, NEW s \in Nat, NEW t \in Nat, s <= t, t - w < s
    PROVE  WindowIndex(s, w) \in {WindowIndex(t, w) - 1, WindowIndex(t, w)}
  <1> DEFINE i == WindowIndex(s, w)
             k == WindowIndex(t, w)
  <1>1. /\ i \in Nat /\ k \in Nat
        /\ s = w * i + Elapsed(s, w) /\ Elapsed(s, w) \in 0 .. (w - 1)
        /\ t = w * k + Elapsed(t, w) /\ Elapsed(t, w) \in 0 .. (w - 1)
    BY WindowOfTime
  <1>2. i <= k
    <2>1. w * i <= t  BY <1>1
    <2> QED  BY <2>1, <1>1, WindowAfter
  <1>3. k <= i + 1
    <2>1. s < w * (i + 1)  BY <1>1
    <2>2. t < w * ((i + 1) + 1)  BY <2>1, <1>1
    <2> QED  BY <2>2, <1>1, WindowBefore
  <1> QED  BY <1>1, <1>2, <1>3

\* Less than the rest of the window later, it is the same window.
LEMMA SameWindow ==
    ASSUME NEW w \in Nat \ {0}, NEW t \in Nat, NEW k \in Nat, Elapsed(t, w) + k < w
    PROVE  WindowIndex(t + k, w) = WindowIndex(t, w) /\ Elapsed(t + k, w) = Elapsed(t, w) + k
<1> DEFINE i == WindowIndex(t, w)
           e == Elapsed(t, w)
           j == WindowIndex(t + k, w)
<1>1. i \in Nat /\ e \in Nat /\ t = w * i + e
  BY WindowOfTime
<1>2. j \in Nat /\ t + k = w * j + Elapsed(t + k, w) /\ Elapsed(t + k, w) \in Nat
  BY WindowOfTime
<1>3. w * i <= t + k /\ t + k < w * (i + 1)
  BY <1>1
<1>4. i <= j  BY <1>1, <1>3, WindowAfter
<1>5. j <= i  BY <1>1, <1>3, WindowBefore
<1>6. i = j  BY <1>1, <1>2, <1>4, <1>5
<1> HIDE DEF i, e, j
<1>7. Elapsed(t + k, w) = e + k
  BY <1>1, <1>2, <1>6
<1> QED  BY <1>6, <1>7 DEF i, e, j

\* The window's end is still to come.
LEMMA ResetPositive ==
    ASSUME NEW w \in Nat \ {0}, NEW t \in Nat
    PROVE  ResetIn(t, w) \in Nat \ {0}
  BY WindowOfTime DEF ResetIn

\* reset_in_ms leads to the first millisecond of the next window.
LEMMA NextWindow ==
    ASSUME NEW w \in Nat \ {0}, NEW t \in Nat
    PROVE  /\ WindowIndex(t + ResetIn(t, w), w) = WindowIndex(t, w) + 1
           /\ Elapsed(t + ResetIn(t, w), w) = 0
<1> DEFINE i == WindowIndex(t, w)
           s == t + ResetIn(t, w)
           j == WindowIndex(s, w)
<1>1. i \in Nat /\ Elapsed(t, w) \in 0 .. (w - 1) /\ t = w * i + Elapsed(t, w)
  BY WindowOfTime
<1>2. s \in Nat /\ s = w * (i + 1)
  BY <1>1 DEF ResetIn
<1> HIDE DEF s
<1>3. j \in Nat /\ s = w * j + Elapsed(s, w) /\ Elapsed(s, w) \in Nat
  BY <1>2, WindowOfTime
<1>4. s < w * ((i + 1) + 1)  BY <1>1, <1>2
<1>5. i + 1 <= j  BY <1>1, <1>2, WindowAfter
<1>6. j <= i + 1  BY <1>1, <1>2, <1>4, WindowBefore
<1>7. j = i + 1  BY <1>1, <1>3, <1>5, <1>6
<1> HIDE DEF i, j
<1>8. Elapsed(s, w) = 0  BY <1>1, <1>2, <1>3, <1>7
<1> QED  BY <1>7, <1>8 DEF i, j, s

\* The strict comparison of the estimate keeps the current counter itself
\* strictly below the limit, whatever the previous window contributes.
LEMMA AdmissionBelowLimit ==
    ASSUME NEW limit \in Nat, NEW cur \in Nat, NEW prev \in Nat,
           NEW t \in Nat, NEW w \in Nat \ {0},
           UnderLimit(limit, cur, prev, t, w)
    PROVE  cur + 1 <= limit
  <1> DEFINE e == Elapsed(t, w)
  <1>1. e \in 0 .. (w - 1)  BY WindowOfTime
  <1>2. prev * (w - e) >= 0  BY <1>1
  <1>3. cur * w + prev * (w - e) < limit * w
    BY DEF UnderLimit, ScaledEstimate
  <1>4. cur * w < limit * w
    <2>1. cur * w \in Int /\ limit * w \in Int /\ prev * (w - e) \in Int  BY <1>1
    <2> QED  BY <2>1, <1>2, <1>3
  <1> QED  BY <1>4

\* A consume() or acquire() that the rate limit refuses reports no remaining
\* token: _drain_inner then takes the branch that schedules a retry, never the
\* fall-through that schedules none.
THEOREM RefusalReportsNoTokens ==
    ASSUME NEW limit \in Nat, NEW cur \in Nat, NEW prev \in Nat,
           NEW t \in Nat, NEW w \in Nat \ {0},
           ~UnderLimit(limit, cur, prev, t, w)
    PROVE  RemainingTokens(limit, cur, prev, t, w) = 0
  <1> DEFINE est == ScaledEstimate(cur, prev, t, w)
             gap == limit * w - est
  <1>1. Elapsed(t, w) \in 0 .. (w - 1)  BY WindowOfTime
  <1>2. est \in Int  BY <1>1 DEF ScaledEstimate
  <1>3. limit * w \in Int  OBVIOUS
  <1>4. gap \in Int /\ gap <= 0  BY <1>2, <1>3 DEF UnderLimit
  <1> HIDE DEF gap
  <1>5. gap \div w <= 0  BY <1>4
  <1> QED  BY <1>5, <1>4 DEF RemainingTokens, gap

\* What the passing of time does to the store.
LEMMA AliveEffect ==
    ASSUME NEW counters, IsCounterStore(counters), NEW t \in Nat
    PROVE  LET c == AliveAt(counters, t)
           IN  /\ DOMAIN c = {j \in DOMAIN counters : t <= counters[j].expires}
               /\ IsCounterStore(c)
               /\ \A j \in DOMAIN c : c[j] = counters[j]
  BY DEF AliveAt, IsCounterStore

\* A counter reads as a natural number.
LEMMA CountType ==
    ASSUME NEW counters, IsCounterStore(counters), NEW k
    PROVE  Count(counters, k) \in Nat
  BY DEF Count, IsCounterStore
=============================================================================
