------------------------- MODULE RequestLimiterProofs -------------------------
(***************************************************************************)
(* The request limiter keeps its documented bounds for every limit,        *)
(* window, margin, set of identities and number of failures.               *)
(***************************************************************************)
EXTENDS RequestLimiter, SlidingWindowProofs, FiniteSetTheorems

\* What the constructor checks is used throughout.
USE DEF ValidArguments

(***************************************************************************)
(* The inductive invariant.  A counter key tells the number of requests    *)
(* charged in its window and outlives the following window; a key that is  *)
(* missing although its window is the current or the previous one means    *)
(* that nothing was charged there.                                         *)
(***************************************************************************)
HistoryInPast == \A i \in DOMAIN requests : requests[i].at <= now

KeyTruth(id, k) ==
    <<id, k>> \in DOMAIN counters =>
        /\ counters[<<id, k>>].n = Cardinality(ChargedIn(id, k))
        /\ Window * (k + 2) <= counters[<<id, k>>].expires

MissingKeyTruth(id, k) ==
    (<<id, k>> \notin DOMAIN counters /\ WindowIndex(now, Window) <= k + 1)
        => ChargedIn(id, k) = {}

CounterTruth ==
    \A id \in Ids, k \in Nat :
        /\ KeyTruth(id, k)
        /\ MissingKeyTruth(id, k)
        /\ Cardinality(ChargedIn(id, k)) <= Limit

IInv == TypeOK /\ HistoryInPast /\ CounterTruth

-----------------------------------------------------------------------------
\* Every record of the history has its type.
LEMMA HistoryTyped ==
    ASSUME TypeOK, NEW i \in DOMAIN requests
    PROVE  requests[i] \in Request /\ requests[i].at \in Nat
  <1>1. requests \in Seq(Request)  BY DEF TypeOK
  <1>2. requests[i] \in Request  BY <1>1
  <1> QED  BY <1>2 DEF Request

\* The history is finite, and so is every set of its positions.
LEMMA HistoryFinite ==
    ASSUME TypeOK, NEW S \in SUBSET (DOMAIN requests)
    PROVE  IsFiniteSet(S) /\ Cardinality(S) \in Nat
  <1>1. DOMAIN requests = 1 .. Len(requests) /\ Len(requests) \in Nat  BY DEF TypeOK
  <1>2. IsFiniteSet(1 .. Len(requests))  BY <1>1, FS_Interval
  <1>3. IsFiniteSet(S)  BY <1>1, <1>2, FS_Subset
  <1> QED  BY <1>3, FS_CardinalityType

\* In particular the requests charged in one window are finitely many.
LEMMA ChargedFinite ==
    ASSUME TypeOK, NEW id, NEW k
    PROVE  IsFiniteSet(ChargedIn(id, k)) /\ Cardinality(ChargedIn(id, k)) \in Nat
  <1>1. ChargedIn(id, k) \in SUBSET (DOMAIN requests)  BY DEF ChargedIn
  <1> QED  BY <1>1, HistoryFinite

\* Recording a charged request adds one position to the current window of its
\* identity and changes no other window.
LEMMA RecordCharged ==
    ASSUME TypeOK, NEW id \in Ids, NEW f \in BOOLEAN, Record(id, TRUE, f)
    PROVE  /\ requests' \in Seq(Request)
           /\ HistoryInPast => \A i \in DOMAIN requests' : requests'[i].at <= now
           /\ \A jd, k : ChargedIn(jd, k)' =
                  IF jd = id /\ k = WindowIndex(now, Window)
                  THEN ChargedIn(jd, k) \cup {Len(requests) + 1}
                  ELSE ChargedIn(jd, k)
           /\ \A jd, k : Len(requests) + 1 \notin ChargedIn(jd, k)
  <1> DEFINE r == [id |-> id, at |-> now, charged |-> TRUE, forwarded |-> f]
             n == Len(requests) + 1
  <1>1. r \in Request /\ requests \in Seq(Request) /\ now \in Nat  BY DEF TypeOK, Request
  <1>2. requests' = Append(requests, r)  BY DEF Record
  <1>3. requests' \in Seq(Request)  BY <1>1, <1>2
  <1>4. /\ DOMAIN requests = 1 .. Len(requests)
        /\ DOMAIN requests' = 1 .. n
        /\ DOMAIN requests' = DOMAIN requests \cup {n}
        /\ n \notin DOMAIN requests
        /\ requests'[n] = r
        /\ \A i \in DOMAIN requests : requests'[i] = requests[i]
    BY <1>1, <1>2
  <1>5. r.id = id /\ r.at = now /\ r.charged = TRUE  OBVIOUS
  <1> HIDE DEF n, r
  <1>6. ASSUME HistoryInPast, NEW i \in DOMAIN requests'  PROVE requests'[i].at <= now
    <2>1. CASE i = n  BY <2>1, <1>1, <1>4, <1>5
    <2>2. CASE i \in DOMAIN requests  BY <2>2, <1>4, <1>6 DEF HistoryInPast
    <2> QED  BY <2>1, <2>2, <1>4, <1>6
  <1>7. ASSUME NEW jd, NEW k
        PROVE  ChargedIn(jd, k)' = IF jd = id /\ k = WindowIndex(now, Window)
                                   THEN ChargedIn(jd, k) \cup {n} ELSE ChargedIn(jd, k)
    <2>1. \A i \in DOMAIN requests : i \in ChargedIn(jd, k)' <=> i \in ChargedIn(jd, k)
      BY <1>4 DEF ChargedIn
    <2>2. n \in ChargedIn(jd, k)' <=> jd = id /\ k = WindowIndex(now, Window)
      BY <1>4, <1>5 DEF ChargedIn
    <2>3. /\ ChargedIn(jd, k)' \subseteq DOMAIN requests \cup {n}
          /\ ChargedIn(jd, k) \subseteq DOMAIN requests
      BY <1>4 DEF ChargedIn
    <2> QED  BY <2>1, <2>2, <2>3
  <1>8. \A jd, k : n \notin ChargedIn(jd, k)  BY <1>4 DEF ChargedIn
  <1> QED  BY <1>3, <1>6, <1>7, <1>8 DEF n

\* Recording a request that was let through unchecked changes no window.
LEMMA RecordUncharged ==
    ASSUME TypeOK, NEW id \in Ids, NEW f \in BOOLEAN, Record(id, FALSE, f)
    PROVE  /\ requests' \in Seq(Request)
           /\ HistoryInPast => \A i \in DOMAIN requests' : requests'[i].at <= now
           /\ \A jd, k : ChargedIn(jd, k)' = ChargedIn(jd, k)
  <1> DEFINE r == [id |-> id, at |-> now, charged |-> FALSE, forwarded |-> f]
             n == Len(requests) + 1
  <1>1. r \in Request /\ requests \in Seq(Request) /\ now \in Nat  BY DEF TypeOK, Request
  <1>2. requests' = Append(requests, r)  BY DEF Record
  <1>3. requests' \in Seq(Request)  BY <1>1, <1>2
  <1>4. /\ DOMAIN requests' = DOMAIN requests \cup {n}
        /\ n \notin DOMAIN requests
        /\ requests'[n] = r
        /\ \A i \in DOMAIN requests : requests'[i] = requests[i]
    BY <1>1, <1>2
  <1>5. r.at = now /\ r.charged = FALSE  OBVIOUS
  <1> HIDE DEF n, r
  <1>6. HistoryInPast => \A i \in DOMAIN requests' : requests'[i].at <= now
    BY <1>1, <1>4, <1>5 DEF HistoryInPast
  <1>7. ASSUME NEW jd, NEW k  PROVE ChargedIn(jd, k)' = ChargedIn(jd, k)
    BY <1>4, <1>5 DEF ChargedIn
  <1> QED  BY <1>3, <1>6, <1>7

-----------------------------------------------------------------------------
\* A run of acquire.lua that admits: the counter and the history move together.
LEMMA ChargePreserves ==
    ASSUME IInv, NEW id \in Ids, NEW f \in BOOLEAN,
           Admissible(id), Charge(id), Record(id, TRUE, f), now' = now
    PROVE  CounterTruth' /\ HistoryInPast' /\ requests' \in Seq(Request)
           /\ IsCounterStore(counters') /\ DOMAIN counters' \subseteq Ids \X Nat
  <1> DEFINE w == WindowIndex(now, Window)
             key == <<id, w>>
             n == Len(requests) + 1
  <1>1. TypeOK /\ HistoryInPast /\ CounterTruth  BY DEF IInv
  <1>2. /\ IsCounterStore(counters) /\ DOMAIN counters \subseteq Ids \X Nat
        /\ now \in Nat /\ w \in Nat /\ Window \in Nat /\ Limit \in Nat /\ Margin \in Nat
    BY <1>1, WindowOfTime, RequestConstants DEF TypeOK, IsCounterStore
  <1>3. /\ DOMAIN counters' = DOMAIN counters \cup {key}
        /\ IsCounterStore(counters')
        /\ counters'[key].n = Count(counters, key) + 1
        /\ key \in DOMAIN counters => counters'[key].expires = counters[key].expires
        /\ key \notin DOMAIN counters => counters'[key].expires = now + 2 * Window + Margin
        /\ \A j \in DOMAIN counters \ {key} : counters'[j] = counters[j]
    <2>1. counters' = Increment(counters, key, now, Window, Margin)
      BY DEF Charge, CurrentKey
    <2> HIDE DEF key
    <2> QED  BY <2>1, <1>2 DEF Increment, Count, IsCounterStore
  <1>4. /\ requests' \in Seq(Request)
        /\ HistoryInPast'
        /\ \A jd, k : ChargedIn(jd, k)' =
               IF jd = id /\ k = w THEN ChargedIn(jd, k) \cup {n} ELSE ChargedIn(jd, k)
        /\ n \notin ChargedIn(id, w)
    BY <1>1, RecordCharged DEF HistoryInPast
  <1>5. IsFiniteSet(ChargedIn(id, w)) /\ Cardinality(ChargedIn(id, w)) \in Nat
    BY <1>1, ChargedFinite
  <1>6. Count(counters, key) = Cardinality(ChargedIn(id, w))
    <2>1. CASE key \in DOMAIN counters
      BY <2>1, <1>1, <1>2 DEF CounterTruth, KeyTruth, Count
    <2>2. CASE key \notin DOMAIN counters
      <3>1. ChargedIn(id, w) = {}  BY <2>2, <1>1, <1>2 DEF CounterTruth, MissingKeyTruth
      <3> QED  BY <3>1, <2>2, FS_EmptySet DEF Count
    <2> QED  BY <2>1, <2>2
  <1>7. Cardinality(ChargedIn(id, w)') = Cardinality(ChargedIn(id, w)) + 1
    BY <1>4, <1>5, FS_AddElement
  <1>8. Count(counters, key) + 1 <= Limit
    <2>1. Count(counters, key) \in Nat /\ Count(counters, PreviousKey(id)) \in Nat
      BY <1>2, CountType
    <2>2. UnderLimit(Limit, Count(counters, key), Count(counters, PreviousKey(id)), now, Window)
      BY DEF Admissible, CurrentKey
    <2> QED  BY <2>1, <2>2, <1>2, AdmissionBelowLimit, RequestConstants
  <1>9. Window * (w + 2) <= now + 2 * Window + Margin
    <2>1. now = Window * w + Elapsed(now, Window) /\ Elapsed(now, Window) \in 0 .. (Window - 1)
      BY <1>2, WindowOfTime, RequestConstants
    <2> QED  BY <2>1, <1>2
  <1> HIDE DEF n
  <1>10. ASSUME NEW jd \in Ids, NEW k \in Nat
         PROVE  KeyTruth(jd, k)' /\ MissingKeyTruth(jd, k)'
                /\ (Cardinality(ChargedIn(jd, k)) <= Limit)'
    <2>1. KeyTruth(jd, k) /\ MissingKeyTruth(jd, k) /\ Cardinality(ChargedIn(jd, k)) <= Limit
      BY <1>1 DEF CounterTruth
    <2>2. CASE jd = id /\ k = w
      <3>1. <<jd, k>> = key /\ key \in DOMAIN counters'  BY <2>2, <1>3
      <3>2. KeyTruth(jd, k)'
        <4>1. counters'[key].n = Cardinality(ChargedIn(jd, k)')
          <5>1. counters'[key].n = Cardinality(ChargedIn(id, w)')  BY <1>3, <1>6, <1>7
          <5> QED  BY <5>1, <2>2
        <4>2. Window * (k + 2) <= counters'[key].expires
          BY <2>1, <2>2, <1>3, <1>9 DEF KeyTruth
        <4> QED  BY <3>1, <4>1, <4>2 DEF KeyTruth
      <3>3. MissingKeyTruth(jd, k)'  BY <3>1 DEF MissingKeyTruth
      <3>4. Cardinality(ChargedIn(id, w)') <= Limit  BY <1>6, <1>7, <1>8
      <3>5. ChargedIn(jd, k)' = ChargedIn(id, w)'  BY <2>2
      <3> QED  BY <3>2, <3>3, <3>4, <3>5
    <2>3. CASE ~(jd = id /\ k = w)
      <3>1. <<jd, k>> # key  BY <2>3
      <3>2. ChargedIn(jd, k)' = ChargedIn(jd, k)  BY <2>3, <1>4
      <3>3. <<jd, k>> \in DOMAIN counters' <=> <<jd, k>> \in DOMAIN counters
        BY <3>1, <1>3
      <3>4. <<jd, k>> \in DOMAIN counters => counters'[<<jd, k>>] = counters[<<jd, k>>]
        BY <3>1, <1>3
      <3> QED  BY <2>1, <3>2, <3>3, <3>4 DEF KeyTruth, MissingKeyTruth
    <2> QED  BY <2>2, <2>3
  <1>11. CounterTruth'  BY <1>10 DEF CounterTruth
  <1>12. DOMAIN counters' \subseteq Ids \X Nat  BY <1>2, <1>3 DEF w
  <1> QED  BY <1>3, <1>4, <1>11, <1>12

\* Time passes: a counter that disappears belongs to a window that is no
\* longer the current or the previous one.
LEMMA TickPreserves ==
    ASSUME IInv, Tick
    PROVE  IInv'
  <1>1. TypeOK /\ HistoryInPast /\ CounterTruth  BY DEF IInv
  <1>2. /\ IsCounterStore(counters) /\ DOMAIN counters \subseteq Ids \X Nat
        /\ now \in Nat /\ now' = now + 1 /\ Window \in Nat \ {0} /\ requests' = requests
    BY <1>1, RequestConstants DEF TypeOK, IsCounterStore, Tick
  <1>3. /\ DOMAIN counters' = {j \in DOMAIN counters : now' <= counters[j].expires}
        /\ IsCounterStore(counters')
        /\ \A j \in DOMAIN counters' : counters'[j] = counters[j]
    <2>1. counters' = AliveAt(counters, now') /\ now' \in Nat  BY <1>2 DEF Tick
    <2> QED  BY <2>1, <1>2, AliveEffect
  <1>4. TypeOK'
    BY <1>1, <1>2, <1>3 DEF TypeOK, IsCounterStore, Tick
  <1>5. HistoryInPast'
    <2>1. \A i \in DOMAIN requests : requests[i].at \in Nat /\ requests[i].at <= now
      BY <1>1, HistoryTyped DEF HistoryInPast
    <2> QED  BY <2>1, <1>2 DEF HistoryInPast
  <1>6. \A id, k : ChargedIn(id, k)' = ChargedIn(id, k)  BY <1>2 DEF ChargedIn
  <1>7. ASSUME NEW id \in Ids, NEW k \in Nat
        PROVE  KeyTruth(id, k)' /\ MissingKeyTruth(id, k)'
               /\ (Cardinality(ChargedIn(id, k)) <= Limit)'
    <2>1. KeyTruth(id, k) /\ MissingKeyTruth(id, k) /\ Cardinality(ChargedIn(id, k)) <= Limit
      BY <1>1 DEF CounterTruth
    <2>2. KeyTruth(id, k)'  BY <2>1, <1>3, <1>6 DEF KeyTruth
    <2>3. MissingKeyTruth(id, k)'
      <3>1. SUFFICES ASSUME <<id, k>> \notin DOMAIN counters', WindowIndex(now', Window) <= k + 1
                     PROVE  ChargedIn(id, k) = {}
        BY <1>6 DEF MissingKeyTruth
      <3>2. WindowIndex(now, Window) <= k + 1
        <4>1. now' \in Nat /\ now <= now'  BY <1>2
        <4>2. /\ WindowIndex(now, Window) \in Nat /\ WindowIndex(now', Window) \in Nat
              /\ WindowIndex(now, Window) <= WindowIndex(now', Window)
          BY <4>1, <1>2, WindowMonotone
        <4> QED  BY <4>2, <3>1
      <3>3. CASE <<id, k>> \in DOMAIN counters
        <4>1. Window * (k + 2) <= counters[<<id, k>>].expires /\ counters[<<id, k>>].expires \in Nat
          BY <3>3, <2>1, <1>2 DEF KeyTruth, IsCounterStore
        <4>2. ~(now' <= counters[<<id, k>>].expires)  BY <3>1, <3>3, <1>3
        <4>3. Window * (k + 2) <= now' /\ k + 2 \in Nat  BY <4>1, <4>2, <1>2
        <4>4. k + 2 <= WindowIndex(now', Window)  BY <4>3, <1>2, WindowAfter
        <4>5. WindowIndex(now', Window) \in Nat  BY <1>2, WindowMonotone
        <4> QED  BY <4>4, <4>5, <3>1
      <3>4. CASE <<id, k>> \notin DOMAIN counters
        BY <3>2, <3>4, <2>1 DEF MissingKeyTruth
      <3> QED  BY <3>3, <3>4
    <2> QED  BY <2>1, <2>2, <2>3, <1>6
  <1>8. CounterTruth'  BY <1>7 DEF CounterTruth
  <1> QED  BY <1>4, <1>5, <1>8 DEF IInv

\* Steps that touch neither the clock nor a counter, and charge nothing.
LEMMA UnchargedPreserves ==
    ASSUME IInv, now' = now, counters' = counters,
           \A id, k : ChargedIn(id, k)' = ChargedIn(id, k)
    PROVE  CounterTruth'
  <1>1. ASSUME NEW id \in Ids, NEW k \in Nat
        PROVE  KeyTruth(id, k)' /\ MissingKeyTruth(id, k)'
               /\ (Cardinality(ChargedIn(id, k)) <= Limit)'
    <2>1. KeyTruth(id, k) /\ MissingKeyTruth(id, k) /\ Cardinality(ChargedIn(id, k)) <= Limit
      BY DEF IInv, CounterTruth
    <2> QED  BY <2>1 DEF KeyTruth, MissingKeyTruth
  <1> QED  BY <1>1 DEF CounterTruth

\* The remaining tokens are an integer.
LEMMA RemainingType ==
    ASSUME TypeOK, NEW id \in Ids
    PROVE  Remaining(id) \in Int
  <1>1. Count(counters, CurrentKey(id)) \in Nat /\ Count(counters, PreviousKey(id)) \in Nat
    BY CountType DEF TypeOK, IsCounterStore
  <1>2. Elapsed(now, Window) \in 0 .. (Window - 1)
    BY WindowOfTime, RequestConstants DEF TypeOK
  <1> DEFINE gap == Limit * Window - ScaledEstimate(Count(counters, CurrentKey(id)),
                                       Count(counters, PreviousKey(id)), now, Window)
  <1>3. gap \in Int  BY <1>1, <1>2, RequestConstants DEF ScaledEstimate
  <1> HIDE DEF gap
  <1>4. gap \div Window \in Int  BY <1>3, RequestConstants
  <1> QED  BY <1>4 DEF Remaining, RemainingTokens, gap

\* The invariant is inductive: every action preserves it.
LEMMA InvariantHolds == Spec => []IInv
<1>1. Init => IInv
  <2> SUFFICES ASSUME Init PROVE IInv  OBVIOUS
  <2>1. TypeOK  BY DEF Init, TypeOK, NoReply, Outcome
  <2>2. \A id, k : ChargedIn(id, k) = {}  BY DEF Init, ChargedIn
  <2>3. CounterTruth
    BY <2>2, FS_EmptySet, RequestConstants DEF Init, CounterTruth, KeyTruth, MissingKeyTruth
  <2>4. HistoryInPast  BY DEF Init, HistoryInPast
  <2> QED  BY <2>1, <2>3, <2>4 DEF IInv
<1>2. IInv /\ [Next]_vars => IInv'
  <2> SUFFICES ASSUME IInv, [Next]_vars PROVE IInv'  OBVIOUS
  <2>0. TypeOK /\ HistoryInPast  BY DEF IInv
  <2>1. ASSUME NEW id \in Ids, Admit(id) PROVE IInv'
    <3>1. CounterTruth' /\ HistoryInPast' /\ requests' \in Seq(Request)
          /\ IsCounterStore(counters') /\ DOMAIN counters' \subseteq Ids \X Nat
      BY <2>1, ChargePreserves DEF Admit
    <3>2. TypeOK'
      BY <2>0, <2>1, <3>1, RemainingType DEF Admit, TypeOK, IsCounterStore, Outcome
    <3> QED  BY <3>1, <3>2 DEF IInv
  <2>2. ASSUME NEW id \in Ids, Block(id) PROVE IInv'
    <3>1. \A jd, k : ChargedIn(jd, k)' = ChargedIn(jd, k)  BY <2>2 DEF Block, ChargedIn
    <3>2. CounterTruth'  BY <2>2, <3>1, UnchargedPreserves DEF Block
    <3> QED  BY <2>0, <2>2, <3>2 DEF Block, IInv, TypeOK, HistoryInPast, Outcome
  <2>3. ASSUME NEW id \in Ids, NEW effective \in BOOLEAN, Fail(id, effective) PROVE IInv'
    <3>1. FailOpen \in BOOLEAN  BY RequestConstants
    <3>2. /\ CounterTruth' /\ HistoryInPast' /\ requests' \in Seq(Request)
          /\ IsCounterStore(counters') /\ DOMAIN counters' \subseteq Ids \X Nat
      <4>1. CASE effective
        BY <2>3, <3>1, <4>1, ChargePreserves DEF Fail
      <4>2. CASE ~effective /\ FailOpen
        <5>1. counters' = counters /\ now' = now /\ Record(id, FALSE, TRUE)
          BY <2>3, <4>2 DEF Fail, Record
        <5>2. /\ requests' \in Seq(Request) /\ HistoryInPast'
              /\ \A jd, k : ChargedIn(jd, k)' = ChargedIn(jd, k)
          BY <5>1, <2>0, RecordUncharged DEF HistoryInPast
        <5>3. CounterTruth'  BY <5>1, <5>2, UnchargedPreserves
        <5> QED  BY <5>1, <5>2, <5>3, <2>0 DEF TypeOK, IsCounterStore
      <4>3. CASE ~effective /\ ~FailOpen
        <5>1. counters' = counters /\ now' = now /\ requests' = requests
          BY <2>3, <4>3 DEF Fail
        <5>2. \A jd, k : ChargedIn(jd, k)' = ChargedIn(jd, k)  BY <5>1 DEF ChargedIn
        <5>3. CounterTruth'  BY <5>1, <5>2, UnchargedPreserves
        <5> QED  BY <5>1, <5>3, <2>0 DEF TypeOK, IsCounterStore, HistoryInPast
      <4> QED  BY <4>1, <4>2, <4>3
    <3>3. TypeOK'
      BY <2>0, <2>3, <3>1, <3>2 DEF Fail, TypeOK, IsCounterStore, Outcome
    <3> QED  BY <3>2, <3>3 DEF IInv
  <2>4. CASE Tick  BY <2>4, TickPreserves
  <2>5. CASE UNCHANGED vars
    <3>1. \A jd, k : ChargedIn(jd, k)' = ChargedIn(jd, k)  BY <2>5 DEF vars, ChargedIn
    <3>2. CounterTruth'  BY <2>5, <3>1, UnchargedPreserves DEF vars
    <3> QED  BY <2>0, <2>5, <3>2 DEF vars, IInv, TypeOK, HistoryInPast
  <2> QED  BY <2>1, <2>2, <2>3, <2>4, <2>5 DEF Next
<1> QED  BY <1>1, <1>2, PTL DEF Spec

-----------------------------------------------------------------------------
\* The state of the request limiter keeps its type.
THEOREM TypeCorrect == Spec => []TypeOK
<1>1. IInv => TypeOK  BY DEF IInv
<1> QED  BY <1>1, InvariantHolds, PTL

\* The counters acquire.lua reads are the numbers of requests charged in the
\* current and the previous window: expiry never loses a charge that still
\* counts, for every window size and margin.
THEOREM ReadsAreTrue == Spec => []CountersFaithful
<1>1. IInv => CountersFaithful
  <2> SUFFICES ASSUME IInv, NEW id \in Ids,
                      NEW k \in {WindowIndex(now, Window) - 1, WindowIndex(now, Window)}
               PROVE  Count(counters, <<id, k>>) = Cardinality(ChargedIn(id, k))
    BY DEF CountersFaithful
  <2>1. WindowIndex(now, Window) \in Nat
    BY WindowOfTime, RequestConstants DEF IInv, TypeOK
  <2>2. CASE k \in Nat
    <3>1. KeyTruth(id, k) /\ MissingKeyTruth(id, k)  BY <2>2 DEF IInv, CounterTruth
    <3>2. WindowIndex(now, Window) <= k + 1  BY <2>1
    <3>3. CASE <<id, k>> \in DOMAIN counters  BY <3>1, <3>3 DEF KeyTruth, Count
    <3>4. CASE <<id, k>> \notin DOMAIN counters
      BY <3>1, <3>2, <3>4, FS_EmptySet DEF MissingKeyTruth, Count
    <3> QED  BY <3>3, <3>4
  <2>3. CASE k \notin Nat
    <3>1. <<id, k>> \notin DOMAIN counters  BY <2>3 DEF IInv, TypeOK
    <3>2. \A i \in DOMAIN requests : WindowIndex(requests[i].at, Window) \in Nat
      <4>1. \A i \in DOMAIN requests : requests[i].at \in Nat
        BY HistoryTyped DEF IInv
      <4> QED  BY <4>1, WindowOfTime, RequestConstants
    <3>3. ChargedIn(id, k) = {}  BY <2>3, <3>2 DEF ChargedIn
    <3> QED  BY <3>1, <3>3, FS_EmptySet DEF Count
  <2> QED  BY <2>2, <2>3
<1> QED  BY <1>1, InvariantHolds, PTL

\* No fixed window of any identity is charged more than limit requests.
THEOREM WindowsBounded == Spec => []WindowBound
<1>1. IInv => WindowBound
  BY DEF IInv, CounterTruth, WindowBound
<1> QED  BY <1>1, InvariantHolds, PTL

\* A union has at most as many elements as its parts together.
LEMMA UnionBound ==
    ASSUME NEW S, NEW T, IsFiniteSet(S), IsFiniteSet(T)
    PROVE  Cardinality(S \cup T) <= Cardinality(S) + Cardinality(T)
  <1>1. /\ IsFiniteSet(S \cup T)
        /\ Cardinality(S \cup T) =
              Cardinality(S) + Cardinality(T) - Cardinality(S \cap T)
    BY FS_Union
  <1>2. IsFiniteSet(S \cap T)  BY FS_Intersection
  <1> QED  BY <1>1, <1>2, FS_CardinalityType

\* The documented 2x burst bound: a window-long interval meets at most two
\* adjacent fixed windows, each charged at most limit times.
THEOREM BurstsBounded == Spec => []BurstBound
<1>1. IInv => BurstBound
  <2> SUFFICES ASSUME IInv, NEW id \in Ids, NEW t \in 0 .. now
               PROVE  Cardinality(ChargedUpTo(id, t)) <= 2 * Limit
    BY DEF BurstBound
  <2> DEFINE k == WindowIndex(t, Window)
             A == ChargedIn(id, k - 1)
             B == ChargedIn(id, k)
  <2>1. TypeOK /\ t \in Nat /\ Window \in Nat \ {0} /\ Limit \in Nat
    BY RequestConstants DEF IInv, TypeOK
  <2>2. k \in Nat  BY <2>1, WindowOfTime
  <2>3. ChargedUpTo(id, t) \subseteq A \cup B
    <3> SUFFICES ASSUME NEW i \in ChargedUpTo(id, t) PROVE i \in A \cup B  OBVIOUS
    <3>1. /\ i \in DOMAIN requests /\ requests[i].at \in Nat
          /\ t - Window < requests[i].at /\ requests[i].at <= t
          /\ requests[i].id = id /\ requests[i].charged
      BY <2>1, HistoryTyped DEF ChargedUpTo
    <3>2. WindowIndex(requests[i].at, Window) \in {k - 1, k}
      BY <3>1, <2>1, AdjacentWindows
    <3> QED  BY <3>1, <3>2 DEF ChargedIn
  <2>4. IsFiniteSet(A) /\ Cardinality(A) \in Nat /\ IsFiniteSet(B) /\ Cardinality(B) \in Nat
    BY <2>1, ChargedFinite
  <2>5. Cardinality(B) <= Limit  BY <2>2 DEF IInv, CounterTruth
  <2>6. Cardinality(A) <= Limit
    <3>1. CASE k - 1 \in Nat  BY <3>1 DEF IInv, CounterTruth
    <3>2. CASE k - 1 \notin Nat
      <4>1. \A i \in DOMAIN requests : requests[i].at \in Nat  BY <2>1, HistoryTyped
      <4>2. \A i \in DOMAIN requests : WindowIndex(requests[i].at, Window) \in Nat
        BY <4>1, <2>1, WindowOfTime
      <4>3. A = {}  BY <3>2, <4>2 DEF ChargedIn
      <4> QED  BY <4>3, <2>1, FS_EmptySet
    <3> QED  BY <3>1, <3>2
  <2> HIDE DEF A, B
  <2>7. Cardinality(A \cup B) <= Cardinality(A) + Cardinality(B)  BY <2>4, UnionBound
  <2>8. IsFiniteSet(A \cup B) /\ Cardinality(A \cup B) \in Nat
    BY <2>4, FS_Union, FS_CardinalityType
  <2>9. Cardinality(ChargedUpTo(id, t)) <= Cardinality(A \cup B)
    BY <2>3, <2>8, FS_Subset
  <2>10. Cardinality(ChargedUpTo(id, t)) \in Nat
    BY <2>3, <2>8, FS_Subset, FS_CardinalityType
  <2> QED  BY <2>1, <2>4, <2>5, <2>6, <2>7, <2>8, <2>9, <2>10
<1> QED  BY <1>1, InvariantHolds, PTL
-----------------------------------------------------------------------------
\* What is recorded at the end of the history, and what stays.
LEMMA RecordEffect ==
    ASSUME TypeOK, NEW id \in Ids, NEW c \in BOOLEAN, NEW f \in BOOLEAN, Record(id, c, f)
    PROVE  /\ Len(requests') = Len(requests) + 1
           /\ DOMAIN requests' = DOMAIN requests \cup {Len(requests')}
           /\ requests'[Len(requests')] = [id |-> id, at |-> now, charged |-> c, forwarded |-> f]
           /\ \A i \in DOMAIN requests : requests'[i] = requests[i]
  <1>1. requests \in Seq(Request)  BY DEF TypeOK
  <1>2. requests' = Append(requests, [id |-> id, at |-> now, charged |-> c, forwarded |-> f])
    BY DEF Record
  <1> QED  BY <1>1, <1>2

\* With on_error = "fail_closed" nothing reaches the application uncharged, for
\* any number of failed calls and whether or not their scripts had run.
THEOREM ForwardedIsCharged == Spec => []FailClosedForwardsCharged
<1>1. Init => FailClosedForwardsCharged  BY DEF Init, FailClosedForwardsCharged
<1>2. TypeOK /\ FailClosedForwardsCharged /\ [Next]_vars => FailClosedForwardsCharged'
  <2> SUFFICES ASSUME TypeOK, FailClosedForwardsCharged, [Next]_vars, ~FailOpen,
                      NEW i \in DOMAIN requests', requests'[i].forwarded
               PROVE  requests'[i].charged
    BY DEF FailClosedForwardsCharged
  <2>1. CASE requests' = requests  BY <2>1 DEF FailClosedForwardsCharged
  <2>2. ASSUME NEW id \in Ids, NEW c \in BOOLEAN, NEW f \in BOOLEAN, Record(id, c, f), f => c
        PROVE  requests'[i].charged
    <3>1. CASE i \in DOMAIN requests
      BY <2>2, <3>1, RecordEffect DEF FailClosedForwardsCharged
    <3>2. CASE i = Len(requests')  BY <2>2, <3>2, RecordEffect
    <3> QED  BY <2>2, <3>1, <3>2, RecordEffect
  <2>3. ASSUME NEW id \in Ids, Admit(id) PROVE requests'[i].charged
    BY <2>2, <2>3 DEF Admit
  <2>4. ASSUME NEW id \in Ids, NEW effective \in BOOLEAN, Fail(id, effective)
        PROVE  requests'[i].charged
    <3>1. FailOpen = FALSE  BY RequestConstants
    <3>2. CASE effective  BY <2>2, <2>4, <3>1, <3>2 DEF Fail
    <3>3. CASE ~effective  BY <2>1, <2>4, <3>1, <3>3 DEF Fail
    <3> QED  BY <3>2, <3>3
  <2> QED  BY <2>1, <2>3, <2>4 DEF Next, Block, Tick, vars
<1> QED  BY <1>1, <1>2, TypeCorrect, PTL DEF Spec

\* AdmittedAfter in the next state.
AdmittedNext(id, n) ==
    UnderLimit(Limit, Count(counters', CurrentKey(id)') + n,
               Count(counters', PreviousKey(id)'), now', Window)

\* Right after an admission with gap = limit - estimate (times the window), n + 1
\* further requests are admitted as long as more than n + 1 windows of the gap
\* were there.
LEMMA AdmitLeaves ==
    ASSUME TypeOK, NEW id \in Ids, Admit(id)
    PROVE  \E gap \in Int :
             /\ gap > 0
             /\ reply'.remaining = (gap \div Window) - 1
             /\ \A n \in Int : AdmittedNext(id, n) <=> gap > (n + 1) * Window
  <1> DEFINE w == WindowIndex(now, Window)
             cur == Count(counters, CurrentKey(id))
             prev == Count(counters, PreviousKey(id))
             gap == Limit * Window - ScaledEstimate(cur, prev, now, Window)
  <1>1. /\ now \in Nat /\ Window \in Nat \ {0} /\ Limit \in Nat
        /\ w \in Nat /\ Elapsed(now, Window) \in 0 .. (Window - 1)
    BY WindowOfTime, RequestConstants DEF TypeOK
  <1>2. cur \in Nat /\ prev \in Nat  BY CountType DEF TypeOK, IsCounterStore
  <1>3. now' = now /\ counters' = Increment(counters, CurrentKey(id), now, Window, Margin)
    BY DEF Admit, Charge
  <1>4. CurrentKey(id)' = CurrentKey(id) /\ PreviousKey(id)' = PreviousKey(id)
    BY <1>3 DEF CurrentKey, PreviousKey
  <1>5. PreviousKey(id) # CurrentKey(id)  BY <1>1 DEF CurrentKey, PreviousKey
  <1>6. Count(counters', CurrentKey(id)) = cur + 1  BY <1>3 DEF Increment, Count
  <1>7. Count(counters', PreviousKey(id)) = prev  BY <1>3, <1>5 DEF Increment, Count
  <1>8. gap \in Int  BY <1>1, <1>2 DEF ScaledEstimate
  <1>9. gap > 0  BY <1>1, <1>2 DEF Admit, Admissible, UnderLimit, ScaledEstimate
  <1>10. ASSUME NEW n \in Int PROVE AdmittedNext(id, n) <=> gap > (n + 1) * Window
    <2>1. AdmittedNext(id, n) <=> UnderLimit(Limit, cur + 1 + n, prev, now, Window)
      BY <1>3, <1>4, <1>6, <1>7 DEF AdmittedNext
    <2>2. ScaledEstimate(cur + 1 + n, prev, now, Window)
            = ScaledEstimate(cur, prev, now, Window) + (n + 1) * Window
      BY <1>1, <1>2 DEF ScaledEstimate
    <2>3. /\ ScaledEstimate(cur, prev, now, Window) \in Int
          /\ Limit * Window \in Int /\ (n + 1) * Window \in Int
      BY <1>1, <1>2 DEF ScaledEstimate
    <2> QED  BY <2>1, <2>2, <2>3 DEF UnderLimit
  <1> HIDE DEF gap, cur, prev
  <1>11. gap \div Window \in Nat
    BY <1>1, <1>8, <1>9
  <1>12. Remaining(id) = IF gap \div Window > 0 THEN gap \div Window ELSE 0
    BY DEF Remaining, RemainingTokens, gap, cur, prev
  <1>13. reply'.remaining = (gap \div Window) - 1  BY <1>11, <1>12 DEF Admit
  <1> QED  BY <1>8, <1>9, <1>10, <1>13

\* The header therefore grants what it says.
LEMMA AdmitGrants ==
    ASSUME TypeOK, NEW id \in Ids, Admit(id)
    PROVE  /\ reply'.remaining > 0 => AdmittedNext(id, reply'.remaining - 1)
           /\ ~AdmittedNext(id, reply'.remaining + 1)
  <1>1. PICK gap \in Int :
             /\ gap > 0
             /\ reply'.remaining = (gap \div Window) - 1
             /\ \A n \in Int : AdmittedNext(id, n) <=> gap > (n + 1) * Window
    BY AdmitLeaves
  <1> DEFINE k == gap \div Window
  <1>2. Window \in Nat \ {0}  BY RequestConstants DEF ValidArguments
  <1>3. k \in Int /\ k * Window <= gap /\ gap < (k + 1) * Window  BY <1>1, <1>2
  <1> HIDE DEF k
  <1>4. reply'.remaining = k - 1  BY <1>1 DEF k
  <1>5. ~AdmittedNext(id, k)  BY <1>1, <1>2, <1>3
  <1>6. AdmittedNext(id, k - 2)
    <2>1. (k - 1) * Window < k * Window  BY <1>2, <1>3
    <2>2. gap > (k - 2 + 1) * Window  BY <1>2, <1>3, <2>1
    <2> QED  BY <1>1, <1>3, <2>2
  <1>7. (k - 1) + 1 = k /\ (k - 1) - 1 = k - 2  BY <1>3
  <1> QED  BY <1>4, <1>5, <1>6, <1>7

\* No answer is dated in the future.
ReplyInPast == reply.at <= now

\* The remaining-tokens header of an answer never promises a request that is
\* then refused, and falls short by at most one, for every limit, window and
\* counter.
THEOREM HeaderIsGranted == Spec => []RemainingGranted
<1>1. Init => ReplyInPast /\ RemainingGranted
  BY DEF Init, NoReply, ReplyInPast, RemainingGranted
<1>2. TypeOK /\ ReplyInPast /\ RemainingGranted /\ [Next]_vars => ReplyInPast' /\ RemainingGranted'
  <2> SUFFICES ASSUME TypeOK, ReplyInPast, RemainingGranted, [Next]_vars
               PROVE  ReplyInPast' /\ RemainingGranted'
    OBVIOUS
  <2>0. now \in Nat /\ reply.at \in Nat  BY DEF TypeOK
  <2>1. ASSUME NEW id \in Ids, Admit(id) PROVE ReplyInPast' /\ RemainingGranted'
    <3>1. now' = now /\ reply'.at = now  BY <2>1 DEF Admit
    <3>2. requests'[Len(requests')].id = id
      <4>1. Record(id, TRUE, TRUE)  BY <2>1 DEF Admit
      <4>2. requests'[Len(requests')] = [id |-> id, at |-> now, charged |-> TRUE, forwarded |-> TRUE]
        BY <4>1, RecordEffect
      <4> QED  BY <4>2
    <3>3. /\ reply'.remaining > 0 => AdmittedNext(id, reply'.remaining - 1)
          /\ ~AdmittedNext(id, reply'.remaining + 1)
      BY <2>1, AdmitGrants
    <3>4. (/\ reply.remaining > 0 => AdmittedAfter(id, reply.remaining - 1)
           /\ ~AdmittedAfter(id, reply.remaining + 1))'
      BY <3>3 DEF AdmittedNext, AdmittedAfter
    <3> QED  BY <2>0, <3>1, <3>2, <3>4 DEF ReplyInPast, RemainingGranted
  <2>2. ASSUME NEW id \in Ids, Block(id) PROVE ReplyInPast' /\ RemainingGranted'
    BY <2>0, <2>2 DEF Block, ReplyInPast, RemainingGranted
  <2>3. ASSUME NEW id \in Ids, NEW effective \in BOOLEAN, Fail(id, effective)
        PROVE  ReplyInPast' /\ RemainingGranted'
    BY <2>0, <2>3 DEF Fail, ReplyInPast, RemainingGranted
  <2>4. CASE Tick  BY <2>0, <2>4 DEF Tick, ReplyInPast, RemainingGranted
  <2>5. CASE UNCHANGED vars
    BY <2>5 DEF vars, ReplyInPast, RemainingGranted, AdmittedAfter, CurrentKey, PreviousKey
  <2> QED  BY <2>1, <2>2, <2>3, <2>4, <2>5 DEF Next
<1> QED  BY <1>1, <1>2, TypeCorrect, PTL DEF Spec
=============================================================================
