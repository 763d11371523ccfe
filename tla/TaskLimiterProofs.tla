--------------------------- MODULE TaskLimiterProofs ---------------------------
(***************************************************************************)
(* The limits that Redis itself enforces hold for every set of tasks,      *)
(* clients, workers and threads, every limit and lease, and without any    *)
(* assumption about heartbeats, replies or the speed of processes.  What   *)
(* holds of the processes needs some of these: they are hypotheses of the  *)
(* last three theorems (OwnDeadline, Undisturbed, Punctual).               *)
(***************************************************************************)
EXTENDS TaskLimiter, SlidingWindowProofs, FiniteSetTheorems

\* What the constructor checks is used throughout.
USE DEF ValidArguments

(***************************************************************************)
(* The inductive invariant.  SlotBound speaks of a cardinality, so the     *)
(* concurrency set must be known to be finite; and what a client pushes    *)
(* into the buffer is the task it claimed.                                 *)
(***************************************************************************)
ClaimsNameTasks == \A c \in Callers : call[c].pc = "claimed" => call[c].task \in Tasks

LimitInv ==
    TypeOK /\ ClaimsNameTasks /\ RateBound /\ IsFiniteSet(DOMAIN leases) /\ SlotBound

-----------------------------------------------------------------------------
\* Seconds of the Redis clock are natural numbers.
LEMMA SecondType == ASSUME NEW t \in Nat PROVE Second(t) \in Nat
  BY TaskConstants DEF Second

\* The TTL of an in-flight key is a natural number of milliseconds.
LEMMA InflightTTLType == ASSUME NEW t \in Tasks PROVE Sec * InflightTTL(t) \in Nat
  <1>1. \A n \in Int : AtLeastOne(n) \in Nat  BY DEF AtLeastOne
  <1>2. \A ms \in Nat : CeilSec(ms) \in Nat
    <2> TAKE ms \in Nat
    <2>1. ms + Sec - 1 \in Nat /\ Sec \in Nat \ {0}  BY TaskConstants
    <2> QED  BY <2>1 DEF CeilSec
  <1>3. MaxAgeArg(t) \in Int
    <2>1. CASE t \in Markers
      BY <2>1, <1>1, <1>2, TaskConstants DEF MaxAgeArg
    <2>2. CASE t \notin Markers
      BY <2>2, TaskConstants DEF MaxAgeArg, Tasks
    <2> QED  BY <2>1, <2>2
  <1>4. InflightTTL(t) \in Nat
    BY <1>1, <1>2, <1>3, TaskConstants DEF InflightTTL
  <1> QED  BY <1>4, TaskConstants

\* Reclaiming expired leases only removes leases.
LEMMA HealedType ==
    ASSUME TypeOK
    PROVE  /\ HealedLeases \in [DOMAIN HealedLeases -> Nat]
           /\ DOMAIN HealedLeases \subseteq DOMAIN leases
           /\ DOMAIN HealedLeases \subseteq Tasks
  BY DEF TypeOK, HealedLeases

-----------------------------------------------------------------------------
\* Every action preserves the type invariant; one step per action, and one
\* below it for each variable the action changes.
LEMMA TypePreserved ==
    ASSUME TypeOK, ClaimsNameTasks, [Next]_vars
    PROVE  TypeOK' /\ ClaimsNameTasks'
  <1> DEFINE Call == [pc : Pc, task : Tasks \cup {NoTask}, until : Nat]
             Goal == TypeOK' /\ ClaimsNameTasks'
  <1>0. /\ Second(now) + Lease \in Nat /\ NoTask \notin Tasks
        /\ Sec \in Nat /\ AcquireTimeout \in Nat /\ Horizon \in Nat
        /\ Markers \subseteq Callers /\ Markers \subseteq Tasks /\ Jobs \subseteq Tasks
        /\ \A t \in Tasks : t \notin Markers => t \in Jobs
    BY SecondType, TaskConstants DEF TypeOK, Callers, Tasks
  <1>1. ASSUME NEW c \in Callers, NEW t \in Tasks, Claim(c, t) PROVE Goal
    <2>1. now + Sec * InflightTTL(t) \in Nat  BY InflightTTLType DEF TypeOK
    <2>2. inflight' \in [DOMAIN inflight' -> [expires : Nat]] /\ DOMAIN inflight' \subseteq Tasks
      BY <1>1, <2>1 DEF TypeOK, Claim, With
    <2>3. call' \in [Callers -> Call] /\ ClaimsNameTasks'
      BY <1>0, <1>1 DEF TypeOK, Claim, Pc, ClaimsNameTasks
    <2> QED  BY <1>1, <2>2, <2>3 DEF TypeOK, Claim
  <1>2. ASSUME NEW c \in Callers, Push(c) PROVE Goal
    <2>1. buffer' \subseteq [task : Tasks, arrived : Nat]
      BY <1>2 DEF TypeOK, Push, ClaimsNameTasks
    <2>2. call' \in [Callers -> Call] /\ ClaimsNameTasks'
      BY <1>0, <1>2 DEF TypeOK, Push, Pc, NoCall, ClaimsNameTasks
    <2> QED  BY <1>2, <2>1, <2>2 DEF TypeOK, Push
  <1>3. ASSUME NEW c \in Callers, NEW e \in BOOLEAN, NEW d \in BOOLEAN, PushFails(c, e, d)
        PROVE  Goal
    <2>1. buffer' \subseteq [task : Tasks, arrived : Nat]
      BY <1>3 DEF TypeOK, PushFails, ClaimsNameTasks
    <2>2. inflight' \in [DOMAIN inflight' -> [expires : Nat]] /\ DOMAIN inflight' \subseteq Tasks
      BY <1>3 DEF TypeOK, PushFails, CleanedUp, Without
    <2>3. call' \in [Callers -> Call] /\ ClaimsNameTasks'
      BY <1>0, <1>3 DEF TypeOK, PushFails, Pc, NoCall, ClaimsNameTasks
    <2> QED  BY <1>3, <2>1, <2>2, <2>3 DEF TypeOK, PushFails, Fault
  <1>4. ASSUME NEW m \in Markers, Wait(m) PROVE Goal
    <2>1. signal' \in [DOMAIN signal' -> [expires : Nat]] /\ DOMAIN signal' \subseteq Markers
      BY <1>4 DEF TypeOK, Wait, Without
    <2>2. call' \in [Callers -> Call] /\ ClaimsNameTasks'
      <3>1. m \in Callers /\ call \in [Callers -> Call] /\ now + AcquireTimeout \in Nat
        BY <1>0 DEF TypeOK
      <3>2. CASE m \in DOMAIN signal
        <4>1. call' = [call EXCEPT ![m].pc = "holding"]  BY <1>4, <3>2 DEF Wait
        <4> QED  BY <3>1, <4>1 DEF Pc, ClaimsNameTasks
      <3>3. CASE m \notin DOMAIN signal
        <4>1. call' = [call EXCEPT ![m] = [@ EXCEPT !.pc = "waiting", !.until = now + AcquireTimeout]]
          BY <1>4, <3>3 DEF Wait
        <4> QED  BY <3>1, <4>1 DEF Pc, ClaimsNameTasks
      <3> QED  BY <3>2, <3>3
    <2> QED  BY <1>4, <2>1, <2>2 DEF TypeOK, Wait
  <1>5. ASSUME NEW m \in Markers, TimeOut(m) PROVE Goal
    <2>1. call' \in [Callers -> Call] /\ ClaimsNameTasks'
      BY <1>0, <1>5 DEF TypeOK, TimeOut, Pc, ClaimsNameTasks
    <2> QED  BY <1>5, <2>1 DEF TypeOK, TimeOut, redisVars
  <1>6. ASSUME NEW t, ReleaseKeys(t)
        PROVE  /\ leases' \in [DOMAIN leases' -> Nat] /\ DOMAIN leases' \subseteq Tasks
               /\ inflight' \in [DOMAIN inflight' -> [expires : Nat]]
               /\ DOMAIN inflight' \subseteq Tasks
    BY <1>6 DEF TypeOK, ReleaseKeys, Without
  <1>7. ASSUME NEW m \in Markers, ReleaseCaller(m) PROVE Goal
    <2>1. call' \in [Callers -> Call] /\ ClaimsNameTasks'
      BY <1>0, <1>7 DEF TypeOK, ReleaseCaller, Pc, ClaimsNameTasks
    <2> QED  BY <1>6, <1>7, <2>1 DEF TypeOK, ReleaseCaller, ReleaseKeys
  <1>8. ASSUME NEW w \in Workers, ConsumeNothing(w) PROVE Goal
    BY <1>8, HealedType DEF TypeOK, ConsumeNothing, ClaimsNameTasks
  <1>9. ASSUME NEW w \in Workers, ConsumeExpired(w) PROVE Goal
    <2>1. PICK e \in buffer :
              /\ dlq' = IF e.task \in Markers THEN dlq ELSE dlq \cup {e}
              /\ buffer' = buffer \ {e} /\ inflight' = Without(inflight, e.task)
      BY <1>9 DEF ConsumeExpired, Heads
    <2>2. dlq' \subseteq [task : Jobs, arrived : Nat]  BY <1>0, <2>1 DEF TypeOK
    <2>3. inflight' \in [DOMAIN inflight' -> [expires : Nat]] /\ DOMAIN inflight' \subseteq Tasks
      BY <2>1 DEF TypeOK, Without
    <2> QED  BY <1>9, <2>1, <2>2, <2>3, HealedType DEF TypeOK, ConsumeExpired, ClaimsNameTasks
  <1>10. ASSUME NEW w \in Workers, ConsumeDropped(w) PROVE Goal
    <2>1. PICK e \in buffer : buffer' = buffer \ {e} /\ inflight' = Without(inflight, e.task)
      BY <1>10 DEF ConsumeDropped, Heads
    <2>2. inflight' \in [DOMAIN inflight' -> [expires : Nat]] /\ DOMAIN inflight' \subseteq Tasks
      BY <2>1 DEF TypeOK, Without
    <2> QED  BY <1>10, <2>1, <2>2, HealedType DEF TypeOK, ConsumeDropped, ClaimsNameTasks
  <1>11. ASSUME NEW w \in Workers, ConsumeAdmits(w) PROVE Goal
    <2>1. PICK e \in buffer :
              /\ buffer' = buffer \ {e}
              /\ leases' = With(HealedLeases, e.task, Second(now) + Lease)
              /\ IF e.task \in Markers
                 THEN SignalCaller(e.task) /\ hand' = hand
                 ELSE hand' = [hand EXCEPT ![w] = e.task] /\ call' = call /\ signal' = signal
      BY <1>11 DEF ConsumeAdmits, Heads
    <2>2. e.task \in Tasks  BY DEF TypeOK
    <2>3. leases' \in [DOMAIN leases' -> Nat] /\ DOMAIN leases' \subseteq Tasks
      BY <1>0, <2>1, <2>2, HealedType DEF With
    <2>4. hand' \in [Workers -> Jobs \cup {NoTask}]  BY <1>0, <2>1, <2>2 DEF TypeOK
    <2>5. call' \in [Callers -> Call] /\ ClaimsNameTasks'
      <3>1. call \in [Callers -> Call]  BY DEF TypeOK
      <3>2. CASE call' = call  BY <3>1, <3>2 DEF ClaimsNameTasks
      <3>3. CASE call' # call
        <4>1. e.task \in Callers /\ call' = [call EXCEPT ![e.task].pc = "holding"]
          BY <1>0, <2>1, <3>3 DEF SignalCaller
        <4> QED  BY <3>1, <4>1 DEF Pc, ClaimsNameTasks
      <3> QED  BY <3>2, <3>3
    <2>6. signal' \in [DOMAIN signal' -> [expires : Nat]] /\ DOMAIN signal' \subseteq Markers
      <3>1. (IF NestedPayload THEN Horizon ELSE now + AcquireTimeout) \in Nat
        BY <1>0 DEF TypeOK
      <3> QED  BY <2>1, <3>1 DEF TypeOK, SignalCaller, With
    <2>7. /\ counters' \in [DOMAIN counters' -> [n : Nat \ {0}, expires : Nat]]
          /\ DOMAIN counters' \subseteq Nat
      <3>1. /\ now \in Nat /\ Window \in Nat \ {0} /\ Margin \in Nat
            /\ IsCounterStore(counters) /\ DOMAIN counters \subseteq Nat
        BY TaskConstants DEF TypeOK, IsCounterStore
      <3>2. WindowIndex(now, Window) \in Nat  BY <3>1, WindowOfTime
      <3> QED  BY <1>11, <3>1, <3>2 DEF ConsumeAdmits, Increment, Count, IsCounterStore
    <2> QED  BY <1>11, <2>1, <2>3, <2>4, <2>5, <2>6, <2>7 DEF TypeOK, ConsumeAdmits
  <1>12. ASSUME NEW w \in Workers, Dispatch(w) \/ DispatchFails(w) PROVE Goal
    <2>1. hand' \in [Workers -> Jobs \cup {NoTask}]
      BY <1>12 DEF TypeOK, Dispatch, DispatchFails
    <2>2. thread' \in [Threads -> [task : Jobs \cup {NoTask}, entered : BOOLEAN]]
      <3>1. CASE Dispatch(w)
        <4>1. hand[w] \in Jobs  BY <3>1 DEF TypeOK, Dispatch
        <4>2. PICK th \in Threads :
                  thread' = [thread EXCEPT ![th] = [task |-> hand[w], entered |-> FALSE]]
          BY <3>1 DEF Dispatch, FreeThreads
        <4> QED  BY <4>1, <4>2 DEF TypeOK
      <3>2. CASE DispatchFails(w)  BY <3>2 DEF TypeOK, DispatchFails
      <3> QED  BY <1>12, <3>1, <3>2
    <2> QED
      BY <1>12, <2>1, <2>2
      DEF TypeOK, Dispatch, DispatchFails, Fault, redisVars, ClaimsNameTasks
  <1>13. ASSUME NEW w \in Workers, Crash(w) PROVE Goal
    <2>1. thread' \in [Threads -> [task : Jobs \cup {NoTask}, entered : BOOLEAN]]
      BY <1>13 DEF TypeOK, Crash, FreeThread
    <2> QED  BY <1>13, <2>1 DEF TypeOK, Crash, Fault, redisVars, ClaimsNameTasks
  <1>14. ASSUME NEW th \in Threads, Enter(th) \/ Release(th) \/ ReleaseFails(th) PROVE Goal
    <2>1. thread' \in [Threads -> [task : Jobs \cup {NoTask}, entered : BOOLEAN]]
      <3>1. CASE Enter(th)  BY <3>1 DEF TypeOK, Enter
      <3>2. CASE Release(th) \/ ReleaseFails(th)
        <4>1. thread' = [thread EXCEPT ![th] = FreeThread]
          BY <3>2 DEF Release, ReleaseFails
        <4>2. FreeThread \in [task : Jobs \cup {NoTask}, entered : BOOLEAN]
          BY DEF FreeThread
        <4> QED  BY <4>1, <4>2 DEF TypeOK
      <3> QED  BY <1>14, <3>1, <3>2
    <2>2. CASE Enter(th)
      BY <2>1, <2>2 DEF TypeOK, Enter, redisVars, ClaimsNameTasks
    <2>3. CASE Release(th)
      BY <1>6, <2>1, <2>3 DEF TypeOK, Release, ReleaseKeys, ClaimsNameTasks
    <2>4. CASE ReleaseFails(th)
      BY <2>1, <2>4 DEF TypeOK, ReleaseFails, Fault, redisVars, ClaimsNameTasks
    <2> QED  BY <1>14, <2>2, <2>3, <2>4
  <1>15. ASSUME NEW t \in Tasks, Renew(t) PROVE Goal
    <2>1. leases' \in [DOMAIN leases' -> Nat] /\ DOMAIN leases' \subseteq Tasks
      BY <1>0, <1>15 DEF TypeOK, Renew
    <2> QED  BY <1>15, <2>1 DEF TypeOK, Renew, ClaimsNameTasks
  <1>16. ASSUME NEW c \in Callers, CallerCrash(c) PROVE Goal
    <2>1. call' \in [Callers -> Call] /\ ClaimsNameTasks'
      BY <1>0, <1>16 DEF TypeOK, CallerCrash, Pc, NoCall, ClaimsNameTasks
    <2> QED  BY <1>16, <2>1 DEF TypeOK, CallerCrash, Fault, redisVars
  <1>17. CASE Tick
    <2>1. /\ counters' \in [DOMAIN counters' -> [n : Nat \ {0}, expires : Nat]]
          /\ DOMAIN counters' \subseteq Nat
      BY <1>17 DEF TypeOK, Tick, AliveAt
    <2>2. inflight' \in [DOMAIN inflight' -> [expires : Nat]] /\ DOMAIN inflight' \subseteq Tasks
      BY <1>17 DEF TypeOK, Tick, AliveAt
    <2>3. signal' \in [DOMAIN signal' -> [expires : Nat]] /\ DOMAIN signal' \subseteq Markers
      BY <1>17 DEF TypeOK, Tick, AliveAt
    <2> QED  BY <1>17, <2>1, <2>2, <2>3 DEF TypeOK, Tick, ClaimsNameTasks
  <1>18. CASE UNCHANGED vars
    BY <1>18 DEF TypeOK, vars, redisVars, ClaimsNameTasks
  <1> QED
    BY <1>1, <1>2, <1>3, <1>4, <1>5, <1>7, <1>8, <1>9, <1>10, <1>11, <1>12, <1>13, <1>14,
       <1>15, <1>16, <1>17, <1>18
    DEF Next, Scheduling, Acquiring, Working, Consume

-----------------------------------------------------------------------------
\* Only an admission adds a lease, and only an admission or the passing of time
\* changes a counter.
LEMMA OnlyAdmissionsTake ==
    ASSUME TypeOK, [Next]_vars
    PROVE  \/ \E w \in Workers : ConsumeAdmits(w)
           \/ /\ DOMAIN leases' \subseteq DOMAIN leases
              /\ (counters' = counters /\ now' = now) \/ Tick
  <1>1. ASSUME NEW t, ReleaseKeys(t)
        PROVE  DOMAIN leases' \subseteq DOMAIN leases /\ counters' = counters
    BY <1>1 DEF ReleaseKeys, Without
  <1>2. CASE Scheduling  BY <1>2 DEF Scheduling, Claim, Push, PushFails
  <1>3. CASE Acquiring
    BY <1>1, <1>3 DEF Acquiring, Wait, TimeOut, ReleaseCaller, redisVars
  <1>4. ASSUME NEW w \in Workers,
               ConsumeNothing(w) \/ ConsumeExpired(w) \/ ConsumeDropped(w)
        PROVE  DOMAIN leases' \subseteq DOMAIN leases /\ counters' = counters /\ now' = now
    BY <1>4, HealedType DEF ConsumeNothing, ConsumeExpired, ConsumeDropped
  <1>5. ASSUME NEW w \in Workers, Dispatch(w) \/ DispatchFails(w) \/ Crash(w)
        PROVE  leases' = leases /\ counters' = counters /\ now' = now
    BY <1>5 DEF Dispatch, DispatchFails, Crash, redisVars
  <1>6. ASSUME NEW th \in Threads, Enter(th) \/ Release(th) \/ ReleaseFails(th)
        PROVE  DOMAIN leases' \subseteq DOMAIN leases /\ counters' = counters /\ now' = now
    BY <1>1, <1>6 DEF Enter, Release, ReleaseFails, redisVars
  <1>7. ASSUME NEW t \in Tasks, Renew(t)
        PROVE  DOMAIN leases' = DOMAIN leases /\ counters' = counters /\ now' = now
    BY <1>7 DEF Renew, TypeOK
  <1>8. CASE Tick  BY <1>8 DEF Tick
  <1>9. ASSUME NEW c \in Callers, CallerCrash(c)
        PROVE  leases' = leases /\ counters' = counters /\ now' = now
    BY <1>9 DEF CallerCrash, redisVars
  <1>10. CASE UNCHANGED vars  BY <1>10 DEF vars, redisVars
  <1> QED
    BY <1>2, <1>3, <1>4, <1>5, <1>6, <1>7, <1>8, <1>9, <1>10 DEF Next, Working, Consume

\* What an admission does: one lease for one task, one token of the current
\* window, and the window stays within the limit.
LEMMA AdmissionEffect ==
    ASSUME TypeOK, NEW w \in Workers, ConsumeAdmits(w)
    PROVE  /\ \E t \in Tasks : DOMAIN leases' = DOMAIN HealedLeases \cup {t}
           /\ CurrentCount + 1 <= Limit
           /\ Count(counters', WindowIndex(now, Window)) = CurrentCount + 1
           /\ \A k \in DOMAIN counters' :
                \/ k = WindowIndex(now, Window) /\ counters'[k].n = CurrentCount + 1
                \/ k \in DOMAIN counters /\ counters'[k] = counters[k]
  <1> DEFINE key == WindowIndex(now, Window)
  <1>1. \E t \in Tasks : DOMAIN leases' = DOMAIN HealedLeases \cup {t}
    <2>1. PICK e \in buffer : leases' = With(HealedLeases, e.task, Second(now) + Lease)
      BY DEF ConsumeAdmits, Heads
    <2>2. e.task \in Tasks  BY DEF TypeOK
    <2> QED  BY <2>1, <2>2 DEF With
  <1>2. /\ now \in Nat /\ Window \in Nat \ {0} /\ Margin \in Nat /\ Limit \in Nat
        /\ IsCounterStore(counters)
    BY TaskConstants DEF TypeOK, IsCounterStore
  <1>3. CurrentCount + 1 <= Limit
    <2>1. CurrentCount \in Nat /\ PreviousCount \in Nat
      BY <1>2, CountType DEF CurrentCount, PreviousCount
    <2>2. UnderLimit(Limit, CurrentCount, PreviousCount, now, Window)
      BY DEF ConsumeAdmits, MayAdmit
    <2> QED  BY <1>2, <2>1, <2>2, AdmissionBelowLimit
  <1>4. counters' = Increment(counters, key, now, Window, Margin)  BY DEF ConsumeAdmits
  <1> HIDE DEF key
  <1>5. /\ DOMAIN counters' = DOMAIN counters \cup {key}
        /\ counters'[key].n = Count(counters, key) + 1
        /\ \A k \in DOMAIN counters \ {key} : counters'[k] = counters[k]
    BY <1>2, <1>4 DEF Increment
  <1>6. CurrentCount = Count(counters, key)  BY DEF CurrentCount, key
  <1> QED  BY <1>1, <1>3, <1>5, <1>6 DEF Count, key

\* LimitInv is an invariant of the specification.
LEMMA LimitInvHolds == Spec => []LimitInv
<1>1. Init => LimitInv
  <2> SUFFICES ASSUME Init PROVE LimitInv  OBVIOUS
  <2>1. TypeOK /\ ClaimsNameTasks
    BY DEF Init, TypeOK, ClaimsNameTasks, FreeThread, NoCall, Pc
  <2>2. RateBound  BY DEF Init, RateBound
  <2>3. DOMAIN leases = {}  BY DEF Init
  <2> QED  BY <2>1, <2>2, <2>3, FS_EmptySet, TaskConstants DEF LimitInv, SlotBound
<1>2. LimitInv /\ [Next]_vars => LimitInv'
  <2> SUFFICES ASSUME LimitInv, [Next]_vars PROVE LimitInv'  OBVIOUS
  <2>1. /\ TypeOK /\ ClaimsNameTasks /\ RateBound
        /\ IsFiniteSet(DOMAIN leases) /\ Cardinality(DOMAIN leases) <= MaxConcurrency
    BY DEF LimitInv, SlotBound
  <2>2. TypeOK' /\ ClaimsNameTasks'  BY <2>1, TypePreserved
  <2>3. CASE /\ DOMAIN leases' \subseteq DOMAIN leases
             /\ (counters' = counters /\ now' = now) \/ Tick
    <3>1. /\ IsFiniteSet(DOMAIN leases')
          /\ Cardinality(DOMAIN leases') <= Cardinality(DOMAIN leases)
      BY <2>1, <2>3, FS_Subset
    <3>2. Cardinality(DOMAIN leases') \in Nat /\ Cardinality(DOMAIN leases) \in Nat
      BY <2>1, <3>1, FS_CardinalityType
    <3>3. SlotBound'  BY <2>1, <3>1, <3>2, TaskConstants DEF SlotBound
    <3>4. RateBound'  BY <2>1, <2>3 DEF RateBound, Tick, AliveAt
    <3> QED  BY <2>2, <3>1, <3>3, <3>4 DEF LimitInv
  <2>4. ASSUME NEW w \in Workers, ConsumeAdmits(w) PROVE LimitInv'
    <3>1. PICK t \in Tasks : DOMAIN leases' = DOMAIN HealedLeases \cup {t}
      BY <2>1, <2>4, AdmissionEffect
    <3>2. IsFiniteSet(DOMAIN HealedLeases)  BY <2>1, HealedType, FS_Subset
    <3>3. Cardinality(DOMAIN HealedLeases) \in Nat  BY <3>2, FS_CardinalityType
    <3>4. Cardinality(DOMAIN HealedLeases) < MaxConcurrency
      BY <2>4 DEF ConsumeAdmits, MayAdmit, ActiveNow
    <3>5. /\ IsFiniteSet(DOMAIN leases')
          /\ \/ Cardinality(DOMAIN leases') = Cardinality(DOMAIN HealedLeases)
             \/ Cardinality(DOMAIN leases') = Cardinality(DOMAIN HealedLeases) + 1
      BY <3>1, <3>2, FS_AddElement
    <3>6. SlotBound'  BY <3>3, <3>4, <3>5, TaskConstants DEF SlotBound
    <3>7. RateBound'
      BY <2>1, <2>4, AdmissionEffect DEF RateBound
    <3> QED  BY <2>2, <3>5, <3>6, <3>7 DEF LimitInv
  <2> QED  BY <2>1, <2>3, <2>4, OnlyAdmissionsTake
<1> QED  BY <1>1, <1>2, PTL DEF Spec

-----------------------------------------------------------------------------
\* The keys of the limiter and the processes using them keep their types.
THEOREM TaskTypeCorrect == Spec => []TypeOK
<1>1. LimitInv => TypeOK  BY DEF LimitInv
<1> QED  BY <1>1, LimitInvHolds, PTL

\* No window's counter passes the rate limit, for every limit and window size
\* and any number of workers, failures and crashes.
THEOREM RateLimitKept == Spec => []RateBound
<1>1. LimitInv => RateBound  BY DEF LimitInv
<1> QED  BY <1>1, LimitInvHolds, PTL

\* The concurrency set never holds more than max_concurrency leases, for any
\* number of workers, late heartbeats, failures and crashes.
THEOREM ConcurrencyKept == Spec => []SlotBound
<1>1. LimitInv => SlotBound  BY DEF LimitInv
<1> QED  BY <1>1, LimitInvHolds, PTL

\* consume.lua is the only step that takes an entry out of the buffer, and what
\* it takes is handed out, put into the dead letter queue, or a marker: for any
\* number of workers, failures and crashes no job is dropped.
THEOREM JobsAreKept == Spec => JobsNotDropped
<1> DEFINE Kept ==
        \A e \in buffer \ buffer' : e.task \in Jobs =>
            e \in dlq' \/ \E w \in Workers : hand[w] = NoTask /\ hand'[w] = e.task
<1>1. TypeOK /\ [Next]_vars => [Kept]_vars
  <2> SUFFICES ASSUME TypeOK, Next, NEW e \in buffer \ buffer', e.task \in Jobs
               PROVE  e \in dlq' \/ \E w \in Workers : hand[w] = NoTask /\ hand'[w] = e.task
    OBVIOUS
  <2>1. e.task \notin Markers  BY TaskConstants
  <2>2. \E w \in Workers : ConsumeExpired(w) \/ ConsumeDropped(w) \/ ConsumeAdmits(w)
    BY DEF Next, Scheduling, Acquiring, Working, Consume, Claim, Push, PushFails, Wait,
           TimeOut, ReleaseCaller, ConsumeNothing, Dispatch, DispatchFails, Crash, Enter,
           Release, ReleaseFails, ReleaseKeys, Renew, CallerCrash, Tick, redisVars
  <2>3. PICK w \in Workers : ConsumeExpired(w) \/ ConsumeDropped(w) \/ ConsumeAdmits(w)
    BY <2>2
  <2>4. CASE ConsumeExpired(w)  BY <2>1, <2>4 DEF ConsumeExpired
  <2>5. CASE ConsumeDropped(w)  BY <2>1, <2>5 DEF ConsumeDropped, DeadlinePassed
  <2>6. CASE ConsumeAdmits(w)
    <3>1. hand[w] = NoTask /\ hand' = [hand EXCEPT ![w] = e.task]
      BY <2>1, <2>6 DEF ConsumeAdmits, Consuming
    <3>2. hand'[w] = e.task  BY <3>1 DEF TypeOK
    <3> QED  BY <3>1, <3>2
  <2> QED  BY <2>3, <2>4, <2>5, <2>6
<1> QED  BY <1>1, TaskTypeCorrect, PTL DEF Spec, JobsNotDropped

-----------------------------------------------------------------------------
(***************************************************************************)
(* The limiter implements SlotPool.  For the mapping of a window's counter *)
(* to spent tokens one more fact is needed: no counter exists before its   *)
(* window begins, and none expires before the next window has ended.       *)
(***************************************************************************)
CountersInTime ==
    \A k \in DOMAIN counters :
        k <= WindowIndex(now, Window) /\ Window * (k + 2) <= counters[k].expires

PoolInv == LimitInv /\ CountersInTime

\* The clock moves by a millisecond: the window stays or is the next one, and
\* the counter of the current window is still there.
LEMMA TickKeepsCount ==
    ASSUME PoolInv, Tick
    PROVE  /\ CountersInTime'
           /\ \/ /\ WindowIndex(now, Window)' = WindowIndex(now, Window)
                 /\ CurrentCount' = CurrentCount
              \/ /\ WindowIndex(now, Window)' = WindowIndex(now, Window) + 1
                 /\ CurrentCount' = 0
  <1> DEFINE i == WindowIndex(now, Window)
             j == WindowIndex(now', Window)
  <1>1. /\ now \in Nat /\ now' = now + 1 /\ Window \in Nat \ {0}
        /\ IsCounterStore(counters) /\ DOMAIN counters \subseteq Nat
    BY TaskConstants DEF PoolInv, LimitInv, TypeOK, IsCounterStore, Tick
  <1>2. /\ i \in Nat /\ j \in Nat /\ i <= j
        /\ now = Window * i + Elapsed(now, Window) /\ Elapsed(now, Window) \in 0 .. (Window - 1)
    <2> HIDE DEF i, j
    <2>1. /\ i \in Nat /\ Elapsed(now, Window) \in 0 .. (Window - 1)
          /\ now = Window * i + Elapsed(now, Window)
      BY <1>1, WindowOfTime DEF i
    <2>2. now' \in Nat /\ now <= now'  BY <1>1
    <2>3. j \in Nat  BY <1>1, <2>2, WindowOfTime DEF j
    <2>4. i <= j  BY <1>1, <2>2, WindowMonotone DEF i, j
    <2> QED  BY <2>1, <2>3, <2>4
  <1>3. j <= i + 1
    <2>1. now' < Window * ((i + 1) + 1)  BY <1>1, <1>2
    <2> QED  BY <2>1, <1>1, <1>2, WindowBefore
  <1>4. /\ DOMAIN counters' = {k \in DOMAIN counters : now' <= counters[k].expires}
        /\ \A k \in DOMAIN counters' : counters'[k] = counters[k]
    <2>1. counters' = AliveAt(counters, now') /\ now' \in Nat  BY <1>1 DEF Tick
    <2> QED  BY <2>1, <1>1, AliveEffect
  <1>5. \A k \in DOMAIN counters :
            k \in Nat /\ counters[k].expires \in Nat
            /\ k <= i /\ Window * (k + 2) <= counters[k].expires
    BY <1>1 DEF PoolInv, CountersInTime, IsCounterStore
  <1>6. CountersInTime'
    <2>1. ASSUME NEW k \in DOMAIN counters'
          PROVE  k <= j /\ Window * (k + 2) <= counters'[k].expires
      BY <2>1, <1>2, <1>4, <1>5
    <2> QED  BY <2>1 DEF CountersInTime
  <1>7. CASE j = i
    <2>1. i \in DOMAIN counters => i \in DOMAIN counters'
      <3> SUFFICES ASSUME i \in DOMAIN counters PROVE now' <= counters[i].expires
        BY <1>4
      <3>1. now' <= Window * (i + 2)  BY <1>1, <1>2
      <3>2. Window * (i + 2) \in Nat  BY <1>1, <1>2
      <3> QED  BY <3>1, <3>2, <1>1, <1>5
    <2>2. Count(counters', i) = Count(counters, i)  BY <2>1, <1>4 DEF Count
    <2>3. CurrentCount' = CurrentCount  BY <2>2, <1>7 DEF CurrentCount
    <2> QED  BY <2>3, <1>6, <1>7
  <1>8. CASE j = i + 1
    <2>1. j \notin DOMAIN counters'  BY <1>2, <1>4, <1>5, <1>8
    <2>2. CurrentCount' = 0  BY <2>1 DEF CurrentCount, Count
    <2> QED  BY <2>2, <1>6, <1>8
  <1> QED  BY <1>2, <1>3, <1>7, <1>8

\* An admission writes the counter of the current window only, and one it
\* creates lives for two windows and more.
LEMMA AdmissionInTime ==
    ASSUME PoolInv, NEW w \in Workers, ConsumeAdmits(w)
    PROVE  CountersInTime' /\ now' = now
  <1> DEFINE i == WindowIndex(now, Window)
  <1>1. /\ now \in Nat /\ Window \in Nat \ {0} /\ Margin \in Nat
        /\ IsCounterStore(counters) /\ DOMAIN counters \subseteq Nat
    BY TaskConstants DEF PoolInv, LimitInv, TypeOK, IsCounterStore
  <1>2. now' = now /\ counters' = Increment(counters, i, now, Window, Margin)
    BY DEF ConsumeAdmits
  <1>3. /\ i \in Nat
        /\ now = Window * i + Elapsed(now, Window) /\ Elapsed(now, Window) \in 0 .. (Window - 1)
    BY <1>1, WindowOfTime
  <1>4. Window * (i + 2) <= now + 2 * Window + Margin  BY <1>1, <1>3
  <1> HIDE DEF i
  <1>5. /\ DOMAIN counters' = DOMAIN counters \cup {i}
        /\ \A k \in DOMAIN counters \ {i} : counters'[k] = counters[k]
        /\ i \in DOMAIN counters => counters'[i].expires = counters[i].expires
        /\ i \notin DOMAIN counters => counters'[i].expires = now + 2 * Window + Margin
    BY <1>1, <1>2 DEF Increment, Count, IsCounterStore
  <1>6. \A k \in DOMAIN counters : k <= i /\ Window * (k + 2) <= counters[k].expires
    BY DEF PoolInv, CountersInTime, i
  <1>7. ASSUME NEW k \in DOMAIN counters'
        PROVE  k <= i /\ Window * (k + 2) <= counters'[k].expires
    <2>1. CASE k = i /\ i \notin DOMAIN counters  BY <2>1, <1>3, <1>4, <1>5
    <2>2. CASE k \in DOMAIN counters  BY <2>2, <1>5, <1>6
    <2> QED  BY <2>1, <2>2, <1>5, <1>7
  <1> QED  BY <1>2, <1>7 DEF CountersInTime, i

\* Every step of the limiter is a step of the pool, or leaves it as it is, and
\* keeps the counters in time.
LEMMA StepRefinesPool ==
    ASSUME PoolInv, LimitInv', [Next]_vars
    PROVE  CountersInTime' /\ [Pool!Next]_(Pool!vars)
  <1>1. TypeOK /\ CountersInTime /\ Cardinality(DOMAIN leases') <= MaxConcurrency
    BY DEF PoolInv, LimitInv, SlotBound
  <1>2. ASSUME NEW w \in Workers, ConsumeAdmits(w)
        PROVE  CountersInTime' /\ Pool!Next
    <2>1. CountersInTime' /\ now' = now  BY <1>2, AdmissionInTime
    <2>2. CurrentCount + 1 <= Limit /\ CurrentCount' = CurrentCount + 1
      BY <1>1, <1>2, <2>1, AdmissionEffect DEF CurrentCount
    <2>3. PICK t \in Tasks : DOMAIN leases' = DOMAIN HealedLeases \cup {t}
      BY <1>1, <1>2, AdmissionEffect
    <2>4. t \in DOMAIN leases' /\ DOMAIN leases' \subseteq DOMAIN leases \cup {t}
      BY <1>1, <2>3, HealedType
    <2>5. CurrentCount \in Nat /\ Limit \in Nat
      BY <1>1, CountType, TaskConstants DEF CurrentCount, TypeOK, IsCounterStore
    <2>6. CurrentCount < Limit  BY <2>2, <2>5
    <2>7. Pool!Cardinality(DOMAIN leases') = Cardinality(DOMAIN leases')
      BY Zenon DEF Pool!Cardinality, Cardinality
    <2>8. Pool!Admit(t)  BY <1>1, <2>1, <2>2, <2>4, <2>6, <2>7 DEF Pool!Admit
    <2> QED  BY <2>1, <2>8 DEF Pool!Next
  <1>3. CASE Tick
    <2>1. DOMAIN leases' = DOMAIN leases  BY <1>3 DEF Tick
    <2> QED  BY <1>3, <2>1, TickKeepsCount DEF Pool!Next, Pool!GiveBack, Pool!NextWindow
  <1>4. CASE DOMAIN leases' \subseteq DOMAIN leases /\ counters' = counters /\ now' = now
    <2>1. CurrentCount' = CurrentCount  BY <1>4 DEF CurrentCount
    <2>2. CountersInTime'  BY <1>1, <1>4 DEF CountersInTime
    <2> QED  BY <1>4, <2>1, <2>2 DEF Pool!Next, Pool!GiveBack
  <1> QED  BY <1>1, <1>2, <1>3, <1>4, OnlyAdmissionsTake

\* The buffered limiter implements the pool of slots with a budget per window,
\* for any number of workers, clients, callers, failures and crashes and any
\* window, lease and limits: what the scripts of consume.lua, renew.lua and
\* release.lua do to counters and leases is explained by SlotPool alone.
THEOREM LimiterImplementsPool == Spec => ImplementsPool
<1>1. Init => CountersInTime /\ Pool!Init
  <2> SUFFICES ASSUME Init PROVE CountersInTime /\ Pool!Init  OBVIOUS
  <2>1. DOMAIN counters = {} /\ DOMAIN leases = {} /\ now = 0  BY DEF Init
  <2>2. CountersInTime  BY <2>1 DEF CountersInTime
  <2>3. WindowIndex(now, Window) = 0  BY <2>1, TaskConstants DEF WindowIndex
  <2>4. CurrentCount = 0  BY <2>1 DEF CurrentCount, Count
  <2> QED  BY <2>1, <2>2, <2>3, <2>4 DEF Pool!Init
<1>2. LimitInv /\ LimitInv' /\ CountersInTime /\ [Next]_vars
        => CountersInTime' /\ [Pool!Next]_(Pool!vars)
  BY StepRefinesPool DEF PoolInv
<1> QED  BY <1>1, <1>2, LimitInvHolds, PTL DEF Spec, ImplementsPool, Pool!Spec

-----------------------------------------------------------------------------
(***************************************************************************)
(* No slot for a caller that has given up.  The marker of an acquire() is  *)
(* in the hands of one process only, its caller: CallersNamed.             *)
(***************************************************************************)
CallersNamed ==
    /\ \A m \in Markers : call[m].pc # "idle" => call[m].task = m
    /\ \A c \in Clients : call[c].pc \in {"idle", "claimed"}
    /\ \A c \in Clients : call[c].pc = "claimed" => call[c].task \in Jobs

\* A caller of acquire() schedules its own marker, and a client only jobs: what
\* is in the buffer under a marker was put there by its caller.
LEMMA NamesPreserved ==
    ASSUME TypeOK, CallersNamed, [Next]_vars
    PROVE  CallersNamed'
  <1>0. /\ Markers \subseteq Callers /\ Clients \subseteq Callers /\ Markers \cap Clients = {}
        /\ call \in [Callers -> [pc : Pc, task : Tasks \cup {NoTask}, until : Nat]]
        /\ Callers = Clients \cup Markers
    BY TaskConstants DEF Callers, TypeOK
  <1>1. ASSUME NEW c \in Callers, NEW t \in Tasks, Claim(c, t) PROVE CallersNamed'
    BY <1>0, <1>1 DEF Claim, CallersNamed
  <1>2. ASSUME NEW c \in Callers, Push(c) PROVE CallersNamed'
    BY <1>0, <1>2 DEF Push, CallersNamed, NoCall
  <1>3. ASSUME NEW c \in Callers, NEW e \in BOOLEAN, NEW d \in BOOLEAN, PushFails(c, e, d)
        PROVE  CallersNamed'
    BY <1>0, <1>3 DEF PushFails, CallersNamed, NoCall
  <1>4. ASSUME NEW m \in Markers, Wait(m) PROVE CallersNamed'
    BY <1>0, <1>4 DEF Wait, CallersNamed
  <1>5. ASSUME NEW m \in Markers, TimeOut(m) \/ ReleaseCaller(m) PROVE CallersNamed'
    BY <1>0, <1>5 DEF TimeOut, ReleaseCaller, CallersNamed
  <1>6. ASSUME NEW w \in Workers, ConsumeAdmits(w) PROVE CallersNamed'
    <2>1. call' = call \/ \E m \in Markers :
              call[m].pc = "waiting" /\ call' = [call EXCEPT ![m].pc = "holding"]
      BY <1>6 DEF ConsumeAdmits, SignalCaller
    <2> QED  BY <1>0, <2>1 DEF CallersNamed
  <1>7. ASSUME NEW c \in Callers, CallerCrash(c) PROVE CallersNamed'
    BY <1>0, <1>7 DEF CallerCrash, CallersNamed, NoCall
  <1>8. CASE UNCHANGED call  BY <1>8 DEF CallersNamed
  <1>9. ASSUME NEW w \in Workers,
               \/ ConsumeNothing(w) \/ ConsumeExpired(w) \/ ConsumeDropped(w)
               \/ Dispatch(w) \/ DispatchFails(w) \/ Crash(w)
        PROVE  UNCHANGED call
    BY <1>9 DEF ConsumeNothing, ConsumeExpired, ConsumeDropped, Dispatch, DispatchFails, Crash
  <1>10. ASSUME NEW th \in Threads, Enter(th) \/ Release(th) \/ ReleaseFails(th)
         PROVE  UNCHANGED call
    BY <1>10 DEF Enter, Release, ReleaseFails
  <1> QED
    BY <1>1, <1>2, <1>3, <1>4, <1>5, <1>6, <1>7, <1>8, <1>9, <1>10
    DEF Next, Scheduling, Acquiring, Working, Consume, Renew, Tick, vars

(***************************************************************************)
(* Patience(m) follows one acquire() call: it has no lease before its      *)
(* push; between push and BLPOP a lease comes with a signal that outlives  *)
(* the call's own deadline, so that BLPOP finds it; a caller that blocks,  *)
(* or has given up, has no lease, and by the time it gives up the deadline *)
(* of its marker, which the scripts check, has passed as well.             *)
(***************************************************************************)
EntriesBefore(m, u) == \A e \in buffer : e.task = m => e.arrived + AcquireTimeout <= u

Patience(m) ==
    /\ call[m].pc \in {"idle", "claimed"} =>
          m \notin DOMAIN leases /\ \A e \in buffer : e.task # m
    /\ call[m].pc = "pushed" =>
          /\ now <= call[m].until /\ call[m].until <= now + AcquireTimeout
          /\ m \in DOMAIN leases => m \in DOMAIN signal /\ call[m].until <= signal[m].expires
    /\ call[m].pc \in {"pushed", "waiting"} => EntriesBefore(m, call[m].until)
    /\ call[m].pc \in {"waiting", "timedout"} => m \notin DOMAIN leases
    /\ call[m].pc = "timedout" => EntriesBefore(m, now)

Patient == \A m \in Markers : Patience(m)

\* Every action keeps the promise made to every caller; one step per action.
LEMMA PatiencePreserved ==
    ASSUME PromptCalls, ~NestedPayload, TypeOK, TypeOK', CallersNamed, Patient, [Next]_vars,
           NEW m \in Markers
    PROVE  Patience(m)'
  <1>0. /\ m \in Callers /\ m \notin Clients /\ Callers = Clients \cup Markers
        /\ call \in [Callers -> [pc : Pc, task : Tasks \cup {NoTask}, until : Nat]]
        /\ now \in Nat /\ AcquireTimeout \in Nat
        /\ buffer \subseteq [task : Tasks, arrived : Nat]
        /\ \A c \in Callers : call[c].pc = "claimed" /\ call[c].task = m => c = m
    BY TaskConstants DEF Callers, TypeOK, CallersNamed
  <1>p. Patience(m)  BY DEF Patient
  <1>1. ASSUME NEW c \in Callers, NEW t \in Tasks, Claim(c, t) PROVE Patience(m)'
    BY <1>0, <1>1, <1>p DEF Claim, Patience, EntriesBefore
  <1>2. ASSUME NEW c \in Callers, Push(c) PROVE Patience(m)'
    BY <1>0, <1>2, <1>p DEF Push, Patience, EntriesBefore, NoCall
  <1>3. ASSUME NEW c \in Callers, NEW e \in BOOLEAN, NEW d \in BOOLEAN, PushFails(c, e, d)
        PROVE  Patience(m)'
    BY <1>0, <1>3, <1>p DEF PushFails, Patience, EntriesBefore, NoCall
  <1>4. ASSUME NEW k \in Markers, Wait(k) PROVE Patience(m)'
    BY <1>0, <1>4, <1>p DEF Wait, Patience, EntriesBefore, Without
  <1>5. ASSUME NEW k \in Markers, TimeOut(k) PROVE Patience(m)'
    BY <1>0, <1>5, <1>p DEF TimeOut, redisVars, Patience, EntriesBefore
  <1>6. ASSUME NEW k \in Markers, ReleaseCaller(k) PROVE Patience(m)'
    BY <1>0, <1>6, <1>p DEF ReleaseCaller, ReleaseKeys, Without, Patience, EntriesBefore
  <1>7. ASSUME NEW w \in Workers, ConsumeNothing(w) \/ ConsumeExpired(w) \/ ConsumeDropped(w)
        PROVE  Patience(m)'
    <2>1. /\ DOMAIN leases' \subseteq DOMAIN leases /\ buffer' \subseteq buffer
          /\ UNCHANGED <<now, signal, call>>
      BY <1>7, HealedType DEF ConsumeNothing, ConsumeExpired, ConsumeDropped
    <2> QED  BY <1>0, <1>p, <2>1 DEF Patience, EntriesBefore
  <1>8. ASSUME NEW w \in Workers, ConsumeAdmits(w) PROVE Patience(m)'
    <2>1. PICK e \in buffer :
              /\ ~DeadlinePassed(e)
              /\ buffer' = buffer \ {e}
              /\ leases' = With(HealedLeases, e.task, Second(now) + Lease)
              /\ IF e.task \in Markers
                 THEN SignalCaller(e.task) /\ hand' = hand
                 ELSE hand' = [hand EXCEPT ![w] = e.task] /\ call' = call /\ signal' = signal
      BY <1>8 DEF ConsumeAdmits, Heads
    <2>2. now' = now /\ DOMAIN leases' \subseteq DOMAIN leases \cup {e.task}
      BY <1>8, <2>1, HealedType DEF ConsumeAdmits, With
    <2>3. CASE e.task # m
      <3>1. /\ call'[m] = call[m] /\ buffer' \subseteq buffer
            /\ m \in DOMAIN signal => m \in DOMAIN signal' /\ signal'[m] = signal[m]
        BY <1>0, <2>1, <2>3 DEF SignalCaller, With, TypeOK
      <3> QED  BY <1>0, <1>p, <2>2, <2>3, <3>1 DEF Patience, EntriesBefore
    <2>4. CASE e.task = m
      <3>1. now < e.arrived + AcquireTimeout  BY <1>0, <2>1, <2>4 DEF DeadlinePassed
      <3>2. call[m].pc \notin {"idle", "claimed", "timedout"}
        BY <1>0, <1>p, <2>4, <3>1 DEF Patience, EntriesBefore
      <3>3. CASE call[m].pc = "waiting"
        BY <1>0, <2>1, <2>4, <3>3 DEF SignalCaller, Patience
      <3>4. CASE call[m].pc # "waiting"
        <4>1. /\ call' = call /\ m \in DOMAIN signal'
              /\ signal'[m].expires = now + AcquireTimeout
          BY <2>1, <2>4, <3>4 DEF SignalCaller, With
        <4> QED  BY <1>0, <1>p, <2>1, <2>2, <3>2, <3>4, <4>1 DEF Patience, EntriesBefore
      <3> QED  BY <3>3, <3>4
    <2> QED  BY <2>3, <2>4
  <1>9. ASSUME NEW w \in Workers, Dispatch(w) \/ DispatchFails(w) \/ Crash(w) PROVE Patience(m)'
    BY <1>p, <1>9 DEF Dispatch, DispatchFails, Crash, redisVars, Patience, EntriesBefore
  <1>10. ASSUME NEW th \in Threads, Enter(th) \/ ReleaseFails(th) PROVE Patience(m)'
    BY <1>p, <1>10 DEF Enter, ReleaseFails, redisVars, Patience, EntriesBefore
  <1>11. ASSUME NEW th \in Threads, Release(th) PROVE Patience(m)'
    BY <1>p, <1>11 DEF Release, ReleaseKeys, Without, Patience, EntriesBefore
  <1>12. ASSUME NEW t \in Tasks, Renew(t) PROVE Patience(m)'
    BY <1>p, <1>12 DEF Renew, Patience, EntriesBefore, TypeOK
  <1>13. ASSUME NEW c \in Callers, CallerCrash(c) PROVE Patience(m)'
    BY <1>0, <1>p, <1>13 DEF CallerCrash, redisVars, Patience, EntriesBefore, NoCall
  <1>14. CASE Tick
    <2>1. now' = now + 1 /\ UNCHANGED <<buffer, leases, call>>  BY <1>14 DEF Tick
    <2>2. call[m].pc = "pushed" => now + 1 <= call[m].until
      BY <1>0, <1>14 DEF Tick, Permitted
    <2>3. \A k \in DOMAIN signal : signal[k].expires \in Nat
      BY DEF TypeOK
    <2>4. m \in DOMAIN signal /\ now + 1 <= signal[m].expires
            => m \in DOMAIN signal' /\ signal'[m] = signal[m]
      BY <1>14 DEF Tick, AliveAt
    <2> QED  BY <1>0, <1>p, <2>1, <2>2, <2>3, <2>4 DEF Patience, EntriesBefore
  <1>15. CASE UNCHANGED vars  BY <1>p, <1>15 DEF vars, redisVars, Patience, EntriesBefore
  <1> QED
    BY <1>1, <1>2, <1>3, <1>4, <1>5, <1>6, <1>7, <1>8, <1>9, <1>10, <1>11, <1>12, <1>13,
       <1>14, <1>15
    DEF Next, Scheduling, Acquiring, Working, Consume
\* What the property needs of the environment: acquire() reaches BLPOP before its
\* deadline, and the backend does not wrap the payload, which would hide the
\* deadline from consume.lua.
OwnDeadline == PromptCalls /\ ~NestedPayload

\* An acquire() that raised AcquireTimeout has no slot and never gets one, for any
\* number of callers, workers, late heartbeats, failures and crashes, as long as
\* consume.lua can read the deadline in the marker.
THEOREM SlotsAreNotAbandoned == Spec => [](OwnDeadline => NoAbandonedSlot)
<1> DEFINE PatienceInv == CallersNamed /\ Patient
           Inv == OwnDeadline => PatienceInv
<1>1. Init => Inv
  <2> SUFFICES ASSUME Init PROVE PatienceInv  OBVIOUS
  <2>1. CallersNamed  BY DEF Init, CallersNamed, NoCall, Callers
  <2>2. Patient  BY DEF Init, Patient, Patience, NoCall, Callers
  <2> QED  BY <2>1, <2>2
<1>2. TypeOK /\ TypeOK' /\ Inv /\ [Next]_vars => Inv'
  <2> SUFFICES ASSUME TypeOK, TypeOK', OwnDeadline, CallersNamed, Patient, [Next]_vars
               PROVE  CallersNamed' /\ Patient'
    BY DEF OwnDeadline
  <2>1. CallersNamed'  BY NamesPreserved
  <2>2. ASSUME NEW m \in Markers PROVE Patience(m)'
    BY PatiencePreserved DEF OwnDeadline
  <2> QED  BY <2>1, <2>2 DEF Patient
<1>3. Inv => (OwnDeadline => NoAbandonedSlot)
  BY DEF Patient, Patience, NoAbandonedSlot
<1> QED  BY <1>1, <1>2, <1>3, TaskTypeCorrect, PTL DEF Spec

-----------------------------------------------------------------------------
(***************************************************************************)
(* Deduplication.  Places(t) are all places at which a copy of task t can  *)
(* be: with a client that claimed it, in the buffer, in the hand of a      *)
(* worker, on a thread, with its acquire() caller, or in a signal the      *)
(* caller will find.  The tags keep the places of one process apart.       *)
(***************************************************************************)
ClaimsOf(t)  == {c \in Callers : call[c].pc = "claimed" /\ call[c].task = t}
EntriesOf(t) == {e \in buffer : e.task = t}
HandsOf(t)   == {w \in Workers : hand[w] = t}
ThreadsOf(t) == {th \in Threads : thread[th].task = t}
CallersOf(t) == {m \in Markers : m = t /\ call[m].pc = "holding"}
SignalsOf(t) == {m \in Markers : m = t /\ call[m].pc = "pushed" /\ m \in DOMAIN signal}

Places(t) ==
    ({"claim"} \X ClaimsOf(t)) \cup ({"buffer"} \X EntriesOf(t)) \cup ({"hand"} \X HandsOf(t))
        \cup ({"thread"} \X ThreadsOf(t)) \cup ({"caller"} \X CallersOf(t))
        \cup ({"signal"} \X SignalsOf(t))

\* A task is in one place at most.
Single(t) == \A p, q \in Places(t) : p = q

\* A marker is signalled only after it was pushed.
SignalsLate == \A m \in DOMAIN signal : call[m].pc \notin {"idle", "claimed"}

\* What keeps a second copy out: the in-flight key of a job, and for a marker that
\* its caller schedules it once.
Guarded(t) ==
    IF t \in Markers THEN call[t].pc = "idle" => Places(t) = {}
                     ELSE t \notin DOMAIN inflight => Places(t) = {}

\* What one step may do to the places of a task: empty some, move a copy from one
\* to another, or create the only one.
Moves(t) ==
    \/ Places(t)' \subseteq Places(t)
    \/ \E p \in Places(t) : \E q : Places(t)' \subseteq (Places(t) \ {p}) \cup {q}
    \/ Places(t) = {} /\ \E q : Places(t)' \subseteq {q}

\* Such steps keep a task in one place.
LEMMA MoveKeepsSingle == ASSUME NEW t, Single(t), Moves(t) PROVE Single(t)'
  BY DEF Single, Moves

\* A task that leaves its only place is nowhere: its key may be deleted.
LEMMA SinglePlace ==
    ASSUME NEW t, Single(t), NEW p \in Places(t), Places(t)' \subseteq Places(t) \ {p}
    PROVE  Places(t)' = {}
  BY DEF Single

\* The inductive invariant behind AtMostOneCopy.
CopyInv ==
    /\ TypeOK /\ CallersNamed /\ SignalsLate
    /\ \A t \in Tasks : Single(t) /\ Guarded(t)

\* SET NX: the key was free, so there was no copy.
LEMMA ClaimStep ==
    ASSUME CopyInv, NEW c \in Callers, NEW u \in Tasks, Claim(c, u), NEW t \in Tasks
    PROVE  Moves(t) /\ Guarded(t)' /\ SignalsLate'
  <1>0. /\ Markers \subseteq Callers /\ Markers \subseteq Tasks
        /\ call \in [Callers -> [pc : Pc, task : Tasks \cup {NoTask}, until : Nat]]
        /\ DOMAIN signal \subseteq Markers /\ Guarded(t) /\ SignalsLate
        /\ \A m \in Markers : m \notin Jobs
    BY TaskConstants DEF CopyInv, TypeOK, Callers, Tasks
  <1>1. /\ EntriesOf(t)' = EntriesOf(t) /\ HandsOf(t)' = HandsOf(t)
        /\ ThreadsOf(t)' = ThreadsOf(t)
    BY DEF Claim, EntriesOf, HandsOf, ThreadsOf
  <1>2. CallersOf(t)' = CallersOf(t) /\ SignalsOf(t)' = SignalsOf(t)
    BY <1>0 DEF Claim, CallersOf, SignalsOf
  <1>3. SignalsLate'  BY <1>0 DEF Claim, SignalsLate
  <1>4. ClaimsOf(t)' = IF t = u THEN ClaimsOf(t) \cup {c} ELSE ClaimsOf(t)
    BY <1>0 DEF Claim, ClaimsOf
  <1>5. CASE t = u
    <2>1. Places(t) = {}
      BY <1>0, <1>5 DEF Claim, Guarded
    <2>2. Places(t)' \subseteq {<<"claim", c>>}
      BY <1>1, <1>2, <1>4, <1>5, <2>1 DEF Places
    <2>3. Guarded(t)'
      BY <1>0, <1>5 DEF Claim, Guarded, With
    <2> QED  BY <1>3, <2>1, <2>2, <2>3 DEF Moves
  <1>6. CASE t # u
    <2>1. Places(t)' = Places(t)  BY <1>1, <1>2, <1>4, <1>6 DEF Places
    <2>2. Guarded(t)'  BY <1>0, <1>6, <2>1 DEF Claim, Guarded, With
    <2> QED  BY <1>3, <2>1, <2>2 DEF Moves
  <1> QED  BY <1>5, <1>6

\* schedule.lua moves the copy from its client into the buffer.
LEMMA PushStep ==
    ASSUME CopyInv, NEW c \in Callers, Push(c), NEW t \in Tasks
    PROVE  Moves(t) /\ Guarded(t)' /\ SignalsLate'
  <1>0. /\ Markers \subseteq Callers /\ Callers = Clients \cup Markers
        /\ call \in [Callers -> [pc : Pc, task : Tasks \cup {NoTask}, until : Nat]]
        /\ DOMAIN signal \subseteq Markers /\ Guarded(t) /\ SignalsLate /\ CallersNamed
    BY TaskConstants DEF CopyInv, TypeOK, Callers
  <1>1. /\ HandsOf(t)' = HandsOf(t) /\ ThreadsOf(t)' = ThreadsOf(t)
        /\ \A e \in EntriesOf(t)' \ EntriesOf(t) :
              t = call[c].task /\ e = [task |-> t, arrived |-> now]
    BY DEF Push, EntriesOf, HandsOf, ThreadsOf
  <1>2. CallersOf(t)' = CallersOf(t) /\ SignalsOf(t)' = SignalsOf(t)
    BY <1>0 DEF Push, CallersOf, SignalsOf, NoCall, SignalsLate
  <1>3. SignalsLate'  BY <1>0 DEF Push, SignalsLate, NoCall
  <1>4. ClaimsOf(t)' = ClaimsOf(t) \ {c}
    BY <1>0 DEF Push, ClaimsOf, NoCall
  <1>5. CASE t = call[c].task
    <2>1. <<"claim", c>> \in Places(t)  BY <1>5 DEF Push, Places, ClaimsOf
    <2>2. Places(t)' \subseteq
              (Places(t) \ {<<"claim", c>>}) \cup {<<"buffer", [task |-> t, arrived |-> now]>>}
      BY <1>1, <1>2, <1>4 DEF Places
    <2>3. Guarded(t)'
      BY <1>0, <2>1 DEF Push, Guarded, NoCall
    <2> QED  BY <1>3, <2>1, <2>2, <2>3 DEF Moves
  <1>6. CASE t # call[c].task
    <2>1. Places(t)' \subseteq Places(t)  BY <1>1, <1>2, <1>4, <1>6 DEF Places
    <2>2. Guarded(t)'  BY <1>0, <1>6, <2>1 DEF Push, Guarded, NoCall
    <2> QED  BY <1>3, <2>1, <2>2 DEF Moves
  <1> QED  BY <1>5, <1>6

\* A failed schedule.lua: the key is cleaned up only after the claim is gone.
LEMMA PushFailsStep ==
    ASSUME DefiniteReplies, CopyInv, NEW c \in Callers, NEW d \in BOOLEAN, NEW e \in BOOLEAN,
           PushFails(c, e, d), NEW t \in Tasks
    PROVE  Moves(t) /\ Guarded(t)' /\ SignalsLate'
  <1>0. /\ Markers \subseteq Callers /\ Callers = Clients \cup Markers
        /\ call \in [Callers -> [pc : Pc, task : Tasks \cup {NoTask}, until : Nat]]
        /\ DOMAIN signal \subseteq Markers /\ Guarded(t) /\ SignalsLate /\ CallersNamed
        /\ Single(t)
    BY TaskConstants DEF CopyInv, TypeOK, Callers
  <1>1. /\ HandsOf(t)' = HandsOf(t) /\ ThreadsOf(t)' = ThreadsOf(t)
        /\ EntriesOf(t)' = EntriesOf(t)
    BY DEF PushFails, EntriesOf, HandsOf, ThreadsOf
  <1>2. CallersOf(t)' = CallersOf(t) /\ SignalsOf(t)' = SignalsOf(t)
    BY <1>0 DEF PushFails, CallersOf, SignalsOf, NoCall
  <1>3. SignalsLate'  BY <1>0 DEF PushFails, SignalsLate, NoCall
  <1>4. ClaimsOf(t)' = ClaimsOf(t) \ {c}
    BY <1>0 DEF PushFails, ClaimsOf, NoCall
  <1>5. Places(t)' \subseteq Places(t) \ {<<"claim", c>>}
    BY <1>1, <1>2, <1>4 DEF Places
  <1>6. Guarded(t)'
    <2>1. CASE t = call[c].task
      <3>1. <<"claim", c>> \in Places(t)  BY <2>1 DEF PushFails, Places, ClaimsOf
      <3> QED  BY <1>0, <1>5, <3>1, SinglePlace DEF Guarded
    <2>2. CASE t # call[c].task
      <3>1. t \in DOMAIN inflight => t \in DOMAIN inflight'
        BY <2>2 DEF PushFails, CleanedUp, Without
      <3>2. t \in Markers => (call'[t].pc = "idle" => call[t].pc = "idle")
        BY <1>0, <2>2 DEF PushFails, CallersNamed
      <3> QED  BY <1>0, <1>5, <3>1, <3>2 DEF Guarded
    <2> QED  BY <2>1, <2>2
  <1> QED  BY <1>3, <1>5, <1>6 DEF Moves

\* BLPOP moves the copy from the signal to the caller.
LEMMA CallerStep ==
    ASSUME CopyInv, NEW m \in Markers,
           Wait(m) \/ TimeOut(m) \/ ReleaseCaller(m), NEW t \in Tasks
    PROVE  Moves(t) /\ Guarded(t)' /\ SignalsLate'
  <1>0. /\ Markers \subseteq Callers
        /\ call \in [Callers -> [pc : Pc, task : Tasks \cup {NoTask}, until : Nat]]
        /\ DOMAIN signal \subseteq Markers /\ Guarded(t) /\ SignalsLate
    BY TaskConstants DEF CopyInv, TypeOK, Callers
  <1>1. /\ HandsOf(t)' = HandsOf(t) /\ ThreadsOf(t)' = ThreadsOf(t)
        /\ EntriesOf(t)' = EntriesOf(t)
    BY DEF Wait, TimeOut, ReleaseCaller, ReleaseKeys, redisVars, EntriesOf, HandsOf, ThreadsOf
  <1>2. ClaimsOf(t)' = ClaimsOf(t)
    BY <1>0 DEF Wait, TimeOut, ReleaseCaller, ClaimsOf
  <1>3. SignalsLate'
    BY <1>0 DEF Wait, TimeOut, ReleaseCaller, ReleaseKeys, redisVars, Without, SignalsLate
  <1>4. \/ CallersOf(t)' \subseteq CallersOf(t) /\ SignalsOf(t)' \subseteq SignalsOf(t)
        \/ t = m /\ m \in SignalsOf(t) /\ SignalsOf(t)' = {} /\ CallersOf(t)' \subseteq {m}
    BY <1>0 DEF Wait, TimeOut, ReleaseCaller, ReleaseKeys, redisVars, Without, CallersOf, SignalsOf
  <1>5. Moves(t)
    <2>1. CASE CallersOf(t)' \subseteq CallersOf(t) /\ SignalsOf(t)' \subseteq SignalsOf(t)
      <3>1. Places(t)' \subseteq Places(t)  BY <1>1, <1>2, <2>1 DEF Places
      <3> QED  BY <3>1 DEF Moves
    <2>2. CASE /\ t = m /\ m \in SignalsOf(t)
               /\ SignalsOf(t)' = {} /\ CallersOf(t)' \subseteq {m}
      <3>1. /\ <<"signal", m>> \in Places(t)
            /\ Places(t)' \subseteq (Places(t) \ {<<"signal", m>>}) \cup {<<"caller", m>>}
        BY <1>1, <1>2, <2>2 DEF Places
      <3> QED  BY <3>1 DEF Moves
    <2> QED  BY <1>4, <2>1, <2>2
  <1>6. Guarded(t)'
    <2>1. CASE t \in Markers
      <3>1. call'[t].pc # "idle" \/ (call'[t] = call[t] /\ t # m)
        BY <1>0, <2>1 DEF Wait, TimeOut, ReleaseCaller
      <3>2. t # m => CallersOf(t)' = CallersOf(t) /\ SignalsOf(t)' = SignalsOf(t)
        BY <1>0 DEF Wait, TimeOut, ReleaseCaller, ReleaseKeys, redisVars, Without,
                    CallersOf, SignalsOf
      <3>3. t # m => Places(t)' = Places(t)  BY <1>1, <1>2, <3>2 DEF Places
      <3> QED  BY <1>0, <2>1, <3>1, <3>3 DEF Guarded
    <2>2. CASE t \notin Markers
      <3>1. CallersOf(t)' = CallersOf(t) /\ SignalsOf(t)' = SignalsOf(t)
        BY <2>2 DEF CallersOf, SignalsOf
      <3>2. Places(t)' = Places(t)  BY <1>1, <1>2, <3>1 DEF Places
      <3>3. t \in DOMAIN inflight => t \in DOMAIN inflight'
        BY <2>2 DEF Wait, TimeOut, ReleaseCaller, ReleaseKeys, redisVars, Without
      <3> QED  BY <1>0, <2>2, <3>2, <3>3 DEF Guarded
    <2> QED  BY <2>1, <2>2
  <1> QED  BY <1>3, <1>5, <1>6

\* A process that dies takes its copy along.
LEMMA CallerCrashStep ==
    ASSUME CopyInv, NEW c \in Callers, CallerCrash(c), NEW t \in Tasks
    PROVE  Moves(t) /\ Guarded(t)' /\ SignalsLate'
  <1>0. /\ Markers \subseteq Callers
        /\ call \in [Callers -> [pc : Pc, task : Tasks \cup {NoTask}, until : Nat]]
        /\ DOMAIN signal \subseteq Markers /\ Guarded(t) /\ SignalsLate
    BY TaskConstants DEF CopyInv, TypeOK, Callers
  <1>1. /\ HandsOf(t)' = HandsOf(t) /\ ThreadsOf(t)' = ThreadsOf(t)
        /\ EntriesOf(t)' = EntriesOf(t)
    BY DEF CallerCrash, redisVars, EntriesOf, HandsOf, ThreadsOf
  <1>2. /\ ClaimsOf(t)' \subseteq ClaimsOf(t) /\ CallersOf(t)' \subseteq CallersOf(t)
        /\ SignalsOf(t)' \subseteq SignalsOf(t)
    BY <1>0 DEF CallerCrash, redisVars, ClaimsOf, CallersOf, SignalsOf, NoCall
  <1>3. SignalsLate'  BY <1>0 DEF CallerCrash, redisVars, SignalsLate, NoCall
  <1>4. Places(t)' \subseteq Places(t)  BY <1>1, <1>2 DEF Places
  <1>5. Guarded(t)'  BY <1>0, <1>4 DEF CallerCrash, redisVars, Guarded
  <1> QED  BY <1>3, <1>4, <1>5 DEF Moves

\* An entry that consume.lua drops is the only copy, and its key goes with it.
LEMMA DropStep ==
    ASSUME CopyInv, NEW w \in Workers,
           ConsumeNothing(w) \/ ConsumeExpired(w) \/ ConsumeDropped(w), NEW t \in Tasks
    PROVE  Moves(t) /\ Guarded(t)' /\ SignalsLate'
  <1>0. Guarded(t) /\ SignalsLate /\ Single(t)  BY DEF CopyInv
  <1>1. UNCHANGED <<hand, thread, call, signal>>
    BY DEF ConsumeNothing, ConsumeExpired, ConsumeDropped
  <1>2. /\ HandsOf(t)' = HandsOf(t) /\ ThreadsOf(t)' = ThreadsOf(t)
        /\ ClaimsOf(t)' = ClaimsOf(t) /\ CallersOf(t)' = CallersOf(t)
        /\ SignalsOf(t)' = SignalsOf(t) /\ SignalsLate'
    BY <1>0, <1>1 DEF ClaimsOf, HandsOf, ThreadsOf, CallersOf, SignalsOf, SignalsLate
  <1>3. CASE UNCHANGED <<buffer, inflight>>
    <2>1. Places(t)' = Places(t)  BY <1>2, <1>3 DEF Places, EntriesOf
    <2> QED  BY <1>0, <1>1, <1>2, <1>3, <2>1 DEF Moves, Guarded
  <1>4. ASSUME NEW e \in buffer, buffer' = buffer \ {e}, inflight' = Without(inflight, e.task)
        PROVE  Moves(t) /\ Guarded(t)'
    <2>1. Places(t)' \subseteq Places(t) \ {<<"buffer", e>>}
      BY <1>2, <1>4 DEF Places, EntriesOf
    <2>2. CASE e.task = t
      <3>1. <<"buffer", e>> \in Places(t)  BY <2>2 DEF Places, EntriesOf
      <3> QED  BY <1>0, <2>1, <3>1, SinglePlace DEF Moves, Guarded
    <2>3. CASE e.task # t
      <3>1. t \in DOMAIN inflight => t \in DOMAIN inflight'  BY <1>4, <2>3 DEF Without
      <3> QED  BY <1>0, <1>1, <2>1, <3>1 DEF Moves, Guarded
    <2> QED  BY <2>2, <2>3
  <1> QED
    BY <1>2, <1>3, <1>4 DEF ConsumeNothing, ConsumeExpired, ConsumeDropped, Heads

\* An admission moves the copy from the buffer to the worker, or to the caller
\* or its signal.
LEMMA AdmitStep ==
    ASSUME CopyInv, NEW w \in Workers, ConsumeAdmits(w), NEW t \in Tasks
    PROVE  Moves(t) /\ Guarded(t)' /\ SignalsLate'
  <1>0. /\ Markers \subseteq Callers /\ NoTask \notin Tasks /\ Markers \subseteq Tasks
        /\ call \in [Callers -> [pc : Pc, task : Tasks \cup {NoTask}, until : Nat]]
        /\ hand \in [Workers -> Jobs \cup {NoTask}] /\ buffer \subseteq [task : Tasks, arrived : Nat]
        /\ DOMAIN signal \subseteq Markers /\ Guarded(t) /\ SignalsLate /\ CallersNamed
    BY TaskConstants DEF CopyInv, TypeOK, Callers, Tasks
  <1>1. PICK e \in buffer :
            /\ buffer' = buffer \ {e}
            /\ IF e.task \in Markers
               THEN SignalCaller(e.task) /\ hand' = hand
               ELSE hand' = [hand EXCEPT ![w] = e.task] /\ call' = call /\ signal' = signal
    BY DEF ConsumeAdmits, Heads
  <1>2. hand[w] = NoTask /\ UNCHANGED <<inflight, thread>>
    BY DEF ConsumeAdmits, Consuming
  <1>3. /\ <<"buffer", e>> \in Places(e.task)
        /\ e.task \in Markers => call[e.task].pc \notin {"idle", "claimed"}
    <2>1. e.task \in Tasks /\ Single(e.task) /\ Guarded(e.task)  BY <1>0 DEF CopyInv
    <2>2. <<"buffer", e>> \in Places(e.task)  BY DEF Places, EntriesOf
    <2>3. e.task \in Markers => call[e.task].pc # "idle"  BY <2>1, <2>2 DEF Guarded
    <2>4. ASSUME e.task \in Markers, call[e.task].pc = "claimed" PROVE FALSE
      <3>1. <<"claim", e.task>> \in Places(e.task)
        BY <1>0, <2>4 DEF Places, ClaimsOf, CallersNamed
      <3>2. <<"claim", e.task>> # <<"buffer", e>>  OBVIOUS
      <3> QED  BY <2>1, <2>2, <3>1, <3>2 DEF Single
    <2> QED  BY <2>2, <2>3, <2>4
  <1>4. SignalsLate'
    BY <1>0, <1>1, <1>3 DEF SignalsLate, SignalCaller, With
  <1>5. /\ ThreadsOf(t)' = ThreadsOf(t) /\ EntriesOf(t)' = EntriesOf(t) \ {e}
        /\ ClaimsOf(t)' = ClaimsOf(t)
    BY <1>0, <1>1, <1>2 DEF ThreadsOf, EntriesOf, ClaimsOf, SignalCaller
  <1>6. CASE t # e.task
    <2>1. /\ HandsOf(t)' = HandsOf(t)
          /\ CallersOf(t)' = CallersOf(t) /\ SignalsOf(t)' = SignalsOf(t)
      BY <1>0, <1>1, <1>2, <1>6 DEF HandsOf, CallersOf, SignalsOf, SignalCaller, With
    <2>2. Places(t)' \subseteq Places(t)  BY <1>5, <2>1 DEF Places
    <2>3. t \in Markers => call'[t] = call[t]  BY <1>0, <1>1, <1>6 DEF SignalCaller
    <2> QED  BY <1>0, <1>2, <1>4, <2>2, <2>3 DEF Moves, Guarded
  <1>7. CASE t = e.task /\ t \notin Markers
    <2>1. /\ HandsOf(t)' \subseteq HandsOf(t) \cup {w}
          /\ CallersOf(t)' = CallersOf(t) /\ SignalsOf(t)' = SignalsOf(t)
      BY <1>0, <1>1, <1>2, <1>7 DEF HandsOf, CallersOf, SignalsOf
    <2>2. Places(t)' \subseteq (Places(t) \ {<<"buffer", e>>}) \cup {<<"hand", w>>}
      BY <1>5, <2>1 DEF Places
    <2>3. t \in DOMAIN inflight'  BY <1>0, <1>2, <1>3, <1>7 DEF Guarded
    <2> QED  BY <1>3, <1>4, <1>7, <2>2, <2>3 DEF Moves, Guarded
  <1>8. CASE t = e.task /\ t \in Markers
    <2>1. HandsOf(t)' = HandsOf(t)  BY <1>1, <1>8 DEF HandsOf
    <2>2. \/ CallersOf(t)' = CallersOf(t) /\ SignalsOf(t)' \subseteq SignalsOf(t) \cup {t}
          \/ CallersOf(t)' \subseteq CallersOf(t) \cup {t} /\ SignalsOf(t)' \subseteq SignalsOf(t)
      BY <1>0, <1>1, <1>8 DEF CallersOf, SignalsOf, SignalCaller, With
    <2>3. \/ Places(t)' \subseteq (Places(t) \ {<<"buffer", e>>}) \cup {<<"signal", t>>}
          \/ Places(t)' \subseteq (Places(t) \ {<<"buffer", e>>}) \cup {<<"caller", t>>}
      BY <1>5, <2>1, <2>2 DEF Places
    <2>4. call'[t].pc # "idle"  BY <1>0, <1>1, <1>3, <1>8 DEF SignalCaller
    <2> QED  BY <1>3, <1>4, <1>8, <2>3, <2>4 DEF Moves, Guarded
  <1> QED  BY <1>6, <1>7, <1>8

\* Dispatch moves the copy from the drain loop to a thread; __exit__ deletes the
\* key together with the copy.
LEMMA WorkStep ==
    ASSUME CopyInv, NEW t \in Tasks,
           \/ \E w \in Workers : Dispatch(w) \/ DispatchFails(w) \/ Crash(w)
           \/ \E th \in Threads : Enter(th) \/ Release(th) \/ ReleaseFails(th)
           \/ \E u \in Tasks : Renew(u)
    PROVE  Moves(t) /\ Guarded(t)' /\ SignalsLate'
  <1>0. /\ NoTask \notin Tasks /\ Guarded(t) /\ SignalsLate /\ Single(t)
        /\ hand \in [Workers -> Jobs \cup {NoTask}]
        /\ thread \in [Threads -> [task : Jobs \cup {NoTask}, entered : BOOLEAN]]
    BY TaskConstants DEF CopyInv, TypeOK
  <1>1. UNCHANGED <<call, signal, buffer>>
    BY DEF Dispatch, DispatchFails, Crash, Enter, Release, ReleaseFails, ReleaseKeys, Renew,
           redisVars
  <1>2. /\ EntriesOf(t)' = EntriesOf(t) /\ ClaimsOf(t)' = ClaimsOf(t)
        /\ CallersOf(t)' = CallersOf(t) /\ SignalsOf(t)' = SignalsOf(t) /\ SignalsLate'
    BY <1>0, <1>1 DEF ClaimsOf, EntriesOf, CallersOf, SignalsOf, SignalsLate
  <1>3. ASSUME NEW w \in Workers, Dispatch(w) PROVE Moves(t) /\ Guarded(t)'
    <2>1. PICK th \in FreeThreads(w) :
              thread' = [thread EXCEPT ![th] = [task |-> hand[w], entered |-> FALSE]]
      BY <1>3 DEF Dispatch
    <2>2. UNCHANGED inflight /\ hand' = [hand EXCEPT ![w] = NoTask] /\ hand[w] # NoTask
      BY <1>3 DEF Dispatch, redisVars
    <2>3. th \in Threads /\ thread[th].task = NoTask  BY <2>1 DEF FreeThreads, FreeThread
    <2>4. CASE hand[w] = t
      <3>1. HandsOf(t)' = HandsOf(t) \ {w} /\ ThreadsOf(t)' = ThreadsOf(t) \cup {th}
        BY <1>0, <2>1, <2>2, <2>3, <2>4 DEF HandsOf, ThreadsOf
      <3>2. <<"hand", w>> \in Places(t)  BY <2>4 DEF Places, HandsOf
      <3>3. Places(t)' \subseteq (Places(t) \ {<<"hand", w>>}) \cup {<<"thread", th>>}
        BY <1>2, <3>1 DEF Places
      <3> QED  BY <1>0, <1>1, <2>2, <3>2, <3>3 DEF Moves, Guarded
    <2>5. CASE hand[w] # t
      <3>1. HandsOf(t)' = HandsOf(t) /\ ThreadsOf(t)' = ThreadsOf(t)
        BY <1>0, <2>1, <2>2, <2>3, <2>5 DEF HandsOf, ThreadsOf
      <3>2. Places(t)' = Places(t)  BY <1>2, <3>1 DEF Places
      <3> QED  BY <1>0, <1>1, <2>2, <3>2 DEF Moves, Guarded
    <2> QED  BY <2>4, <2>5
  <1>4. ASSUME UNCHANGED inflight, HandsOf(t)' \subseteq HandsOf(t),
               ThreadsOf(t)' \subseteq ThreadsOf(t)
        PROVE  Moves(t) /\ Guarded(t)'
    <2>1. Places(t)' \subseteq Places(t)  BY <1>2, <1>4 DEF Places
    <2> QED  BY <1>0, <1>1, <1>4, <2>1 DEF Moves, Guarded
  <1>5. ASSUME NEW w \in Workers, DispatchFails(w) \/ Crash(w) PROVE Moves(t) /\ Guarded(t)'
    <2>1. UNCHANGED inflight  BY <1>5 DEF DispatchFails, Crash, redisVars
    <2>2. HandsOf(t)' \subseteq HandsOf(t) /\ ThreadsOf(t)' \subseteq ThreadsOf(t)
      BY <1>0, <1>5 DEF DispatchFails, Crash, HandsOf, ThreadsOf, FreeThread
    <2> QED  BY <1>4, <2>1, <2>2
  <1>6. ASSUME NEW th \in Threads, Enter(th) \/ ReleaseFails(th) PROVE Moves(t) /\ Guarded(t)'
    <2>1. UNCHANGED inflight /\ HandsOf(t)' = HandsOf(t)
      BY <1>6 DEF Enter, ReleaseFails, redisVars, HandsOf
    <2>2. ThreadsOf(t)' \subseteq ThreadsOf(t)
      BY <1>0, <1>6 DEF Enter, ReleaseFails, ThreadsOf, FreeThread
    <2> QED  BY <1>4, <2>1, <2>2
  <1>7. ASSUME NEW th \in Threads, Release(th) PROVE Moves(t) /\ Guarded(t)'
    <2>1. HandsOf(t)' = HandsOf(t) /\ ThreadsOf(t)' = ThreadsOf(t) \ {th}
      BY <1>0, <1>7 DEF Release, HandsOf, ThreadsOf, FreeThread
    <2>2. Places(t)' \subseteq Places(t) \ {<<"thread", th>>}  BY <1>2, <2>1 DEF Places
    <2>3. CASE thread[th].task = t
      <3>1. <<"thread", th>> \in Places(t)  BY <2>3 DEF Places, ThreadsOf
      <3> QED  BY <1>0, <2>2, <3>1, SinglePlace DEF Moves, Guarded
    <2>4. CASE thread[th].task # t
      <3>1. t \in DOMAIN inflight => t \in DOMAIN inflight'
        BY <1>7, <2>4 DEF Release, ReleaseKeys, Without
      <3> QED  BY <1>0, <1>1, <2>2, <3>1 DEF Moves, Guarded
    <2> QED  BY <2>3, <2>4
  <1>8. ASSUME NEW u \in Tasks, Renew(u) PROVE Moves(t) /\ Guarded(t)'
    BY <1>4, <1>8 DEF Renew, HandsOf, ThreadsOf
  <1> QED  BY <1>2, <1>3, <1>5, <1>6, <1>7, <1>8

\* No in-flight key of a task with a copy expires (MarkersOutlive).
LEMMA TickStep ==
    ASSUME MarkersOutlive, CopyInv, Tick, NEW t \in Tasks
    PROVE  Moves(t) /\ Guarded(t)' /\ SignalsLate'
  <1>0. Guarded(t) /\ SignalsLate  BY DEF CopyInv
  <1>1. UNCHANGED <<hand, thread, call, buffer>> /\ DOMAIN signal' \subseteq DOMAIN signal
    BY DEF Tick, AliveAt
  <1>2. /\ HandsOf(t)' = HandsOf(t) /\ ThreadsOf(t)' = ThreadsOf(t)
        /\ ClaimsOf(t)' = ClaimsOf(t) /\ CallersOf(t)' = CallersOf(t)
        /\ EntriesOf(t)' = EntriesOf(t)
        /\ SignalsOf(t)' \subseteq SignalsOf(t) /\ SignalsLate'
    BY <1>0, <1>1 DEF ClaimsOf, HandsOf, ThreadsOf, CallersOf, EntriesOf, SignalsOf, SignalsLate
  <1>3. Places(t)' \subseteq Places(t)  BY <1>2 DEF Places
  <1>4. ASSUME t \notin Markers, Places(t) # {} PROVE Copies(t) # {}
    <2>1. SignalsOf(t) = {}  BY <1>4 DEF SignalsOf
    <2>2. \/ ClaimsOf(t) # {} \/ EntriesOf(t) # {} \/ HoldersOf(t) # {}
      BY <1>4, <2>1 DEF Places, HandsOf, ThreadsOf, CallersOf, HoldersOf
    <2> QED  BY <2>2 DEF Copies, ClaimsOf, EntriesOf
  <1>5. ASSUME t \notin Markers, Places(t) # {} PROVE t \in DOMAIN inflight'
    <2>1. t \in DOMAIN inflight  BY <1>0, <1>5 DEF Guarded
    <2>2. now + 1 <= inflight[t].expires  BY <1>4, <1>5, <2>1 DEF Tick, Permitted
    <2> QED  BY <2>1, <2>2 DEF Tick, AliveAt
  <1>6. Guarded(t)'  BY <1>0, <1>1, <1>3, <1>5 DEF Guarded
  <1> QED  BY <1>2, <1>3, <1>6 DEF Moves
\* The invariant is inductive.
LEMMA CopyInvStep ==
    ASSUME MarkersOutlive, DefiniteReplies, CopyInv, TypeOK', [Next]_vars
    PROVE  CopyInv'
  <1>1. CallersNamed'  BY NamesPreserved DEF CopyInv
  <1>2. ASSUME NEW t \in Tasks PROVE Moves(t) /\ Guarded(t)' /\ SignalsLate'
    <2>1. CASE Scheduling  BY <2>1, ClaimStep, PushStep, PushFailsStep DEF Scheduling
    <2>2. CASE Acquiring  BY <2>2, CallerStep DEF Acquiring
    <2>3. CASE Working  BY <2>3, DropStep, AdmitStep, WorkStep DEF Working, Consume
    <2>4. CASE Tick  BY <2>4, TickStep
    <2>5. CASE \E c \in Callers : CallerCrash(c)  BY <2>5, CallerCrashStep
    <2>6. CASE UNCHANGED vars
      <3>1. Places(t)' = Places(t)
        BY <2>6 DEF vars, redisVars, Places, ClaimsOf, EntriesOf, HandsOf, ThreadsOf,
                    CallersOf, SignalsOf
      <3> QED  BY <2>6, <3>1 DEF vars, redisVars, CopyInv, Moves, Guarded, SignalsLate
    <2> QED  BY <2>1, <2>2, <2>3, <2>4, <2>5, <2>6 DEF Next
  <1>3. ASSUME NEW t \in Tasks PROVE Single(t)'
    BY <1>2, MoveKeepsSingle DEF CopyInv
  <1>4. SignalsLate'
    <2>1. CASE Tasks # {}  BY <1>2, <2>1
    <2>2. CASE Tasks = {}  BY <2>2 DEF TypeOK, SignalsLate, Tasks
    <2> QED  BY <2>1, <2>2
  <1> QED  BY <1>1, <1>2, <1>3, <1>4 DEF CopyInv

\* Initially there are no copies.
LEMMA CopyInvInit == ASSUME Init PROVE CopyInv
  <1>1. TypeOK  BY DEF Init, TypeOK, FreeThread, NoCall, Pc
  <1>2. CallersNamed /\ SignalsLate
    BY DEF Init, CallersNamed, SignalsLate, NoCall, Callers
  <1>3. ASSUME NEW t \in Tasks PROVE Places(t) = {}
    <2>1. NoTask # t  BY TaskConstants
    <2>2. /\ ClaimsOf(t) = {} /\ EntriesOf(t) = {} /\ HandsOf(t) = {} /\ ThreadsOf(t) = {}
          /\ CallersOf(t) = {} /\ SignalsOf(t) = {}
      BY <2>1 DEF Init, ClaimsOf, EntriesOf, HandsOf, ThreadsOf, CallersOf, SignalsOf,
                  FreeThread, NoCall, Callers
    <2> QED  BY <2>2 DEF Places
  <1> QED  BY <1>1, <1>2, <1>3 DEF CopyInv, Single, Guarded

\* What deduplication needs of the environment.
Undisturbed == MarkersOutlive /\ DefiniteReplies

\* The invariant holds throughout, where in-flight keys outlive their tasks.
LEMMA CopyInvHolds == Spec => [](Undisturbed => CopyInv)
<1> DEFINE Inv == Undisturbed => CopyInv
<1>1. Init => Inv  BY CopyInvInit
<1>2. TypeOK' /\ Inv /\ [Next]_vars => Inv'
  <2> SUFFICES ASSUME TypeOK', Undisturbed, CopyInv, [Next]_vars PROVE CopyInv'
    BY DEF Undisturbed
  <2> QED  BY CopyInvStep DEF Undisturbed
<1> QED  BY <1>1, <1>2, TaskTypeCorrect, PTL DEF Spec

\* A task is never claimed, buffered or run twice at the same time, for any number
\* of clients, workers, late heartbeats, failures and crashes: schedule_task, the
\* scripts and the clean-ups delete an in-flight key only with the last copy.
THEOREM TasksAreDeduplicated == Spec => [](Undisturbed => AtMostOneCopy)
<1>1. (Undisturbed => CopyInv) => (Undisturbed => AtMostOneCopy)
  <2> SUFFICES ASSUME CopyInv, NEW t \in Tasks PROVE Cardinality(Copies(t)) <= 1
    BY DEF AtMostOneCopy
  <2>1. Single(t)  BY DEF CopyInv
  <2>2. ASSUME NEW x \in Copies(t), NEW y \in Copies(t) PROVE x = y
    <3>1. ASSUME NEW z \in Copies(t)
          PROVE  \/ \E c \in ClaimsOf(t) : z = <<"claim", c>>
                 \/ \E e \in EntriesOf(t) : z = <<"buffer", e.arrived>>
                 \/ \E w \in HandsOf(t) : z = <<"holder", w>>
                 \/ \E th \in ThreadsOf(t) : z = <<"holder", th>>
                 \/ \E m \in CallersOf(t) : z = <<"holder", m>>
      BY <3>1 DEF Copies, HoldersOf, ClaimsOf, EntriesOf, HandsOf, ThreadsOf, CallersOf
    <3>2. ASSUME NEW z \in Copies(t)
          PROVE  \E p \in Places(t) :
                    \/ p[1] = "claim" /\ z = <<"claim", p[2]>>
                    \/ p[1] = "buffer" /\ z = <<"buffer", p[2].arrived>>
                    \/ p[1] \in {"hand", "thread", "caller"} /\ z = <<"holder", p[2]>>
      <4>1. ASSUME NEW c \in ClaimsOf(t) PROVE <<"claim", c>> \in Places(t)  BY DEF Places
      <4>2. ASSUME NEW e \in EntriesOf(t) PROVE <<"buffer", e>> \in Places(t)  BY DEF Places
      <4>3. ASSUME NEW w \in HandsOf(t) PROVE <<"hand", w>> \in Places(t)  BY DEF Places
      <4>4. ASSUME NEW w \in ThreadsOf(t) PROVE <<"thread", w>> \in Places(t)  BY DEF Places
      <4>5. ASSUME NEW w \in CallersOf(t) PROVE <<"caller", w>> \in Places(t)  BY DEF Places
      <4> HIDE DEF Places
      <4> QED  BY <3>1, <4>1, <4>2, <4>3, <4>4, <4>5
    <3> QED  BY <2>1, <3>2 DEF Single
  <2>3. CASE Copies(t) = {}  BY <2>3, FS_EmptySet
  <2>4. CASE Copies(t) # {}
    <3>1. PICK x : Copies(t) = {x}  BY <2>2, <2>4
    <3> QED  BY <3>1, FS_Singleton
  <2> QED  BY <2>3, <2>4
<1> QED  BY <1>1, CopyInvHolds, PTL

-----------------------------------------------------------------------------
(***************************************************************************)
(* The real concurrency limit.  A task in the hands of a process, or on    *)
(* the way to its caller, has a lease that has not run out (Leased):       *)
(* consume.lua does not reclaim it, and no other copy of the task can      *)
(* release it.  So the holders are no more than the leases.                *)
(***************************************************************************)
Held(t) ==
    \/ \E w \in Workers : hand[w] = t
    \/ \E th \in Threads : thread[th].task = t
    \/ t \in Markers /\ call[t].pc = "holding"
    \/ t \in Markers /\ call[t].pc = "pushed" /\ t \in DOMAIN signal

Leased(t) == Held(t) => t \in DOMAIN leases /\ Second(now) <= leases[t]

\* Every action keeps the leases of all tasks that are in the hands of processes.
LEMMA LeasedStep ==
    ASSUME TimelyHeartbeats, CopyInv, CopyInv', [Next]_vars, NEW t \in Tasks, Leased(t)
    PROVE  Leased(t)'
  <1>0. /\ Markers \subseteq Callers /\ NoTask \notin Tasks /\ t # NoTask
        /\ \A m \in Markers : m \notin Jobs \cup {NoTask}
        /\ call \in [Callers -> [pc : Pc, task : Tasks \cup {NoTask}, until : Nat]]
        /\ hand \in [Workers -> Jobs \cup {NoTask}]
        /\ thread \in [Threads -> [task : Jobs \cup {NoTask}, entered : BOOLEAN]]
        /\ buffer \subseteq [task : Tasks, arrived : Nat]
        /\ leases \in [DOMAIN leases -> Nat]
        /\ DOMAIN signal \subseteq Markers /\ SignalsLate
    BY TaskConstants DEF CopyInv, TypeOK, Callers, Tasks
  <1>s. Second(now) <= Second(now) + Lease
    <2>1. Second(now) \in Nat  BY SecondType DEF CopyInv, TypeOK
    <2> QED  BY <2>1, TaskConstants
  <1>k. ASSUME UNCHANGED <<now, leases>>, Held(t)' => Held(t) PROVE Leased(t)'
    BY <1>k DEF Leased
  <1>1. ASSUME NEW c \in Callers, NEW u \in Tasks, Claim(c, u) PROVE Leased(t)'
    BY <1>0, <1>1, <1>k DEF Claim, Held
  <1>2. ASSUME NEW c \in Callers, Push(c) PROVE Leased(t)'
    <2>1. Held(t)' => Held(t)  BY <1>0, <1>2 DEF Push, Held, NoCall, SignalsLate
    <2> QED  BY <1>2, <1>k, <2>1 DEF Push
  <1>3. ASSUME NEW c \in Callers, NEW e \in BOOLEAN, NEW d \in BOOLEAN, PushFails(c, e, d)
        PROVE  Leased(t)'
    <2>1. Held(t)' => Held(t)  BY <1>0, <1>3 DEF PushFails, Held, NoCall
    <2> QED  BY <1>3, <1>k, <2>1 DEF PushFails
  <1>4. ASSUME NEW m \in Markers, Wait(m) PROVE Leased(t)'
    <2>1. Held(t)' => Held(t)  BY <1>0, <1>4 DEF Wait, Without, Held
    <2> QED  BY <1>4, <1>k, <2>1 DEF Wait
  <1>5. ASSUME NEW m \in Markers, TimeOut(m) PROVE Leased(t)'
    <2>1. Held(t)' => Held(t)  BY <1>0, <1>5 DEF TimeOut, redisVars, Held
    <2> QED  BY <1>5, <1>k, <2>1 DEF TimeOut, redisVars
  <1>6. ASSUME NEW m \in Markers, ReleaseCaller(m) PROVE Leased(t)'
    <2>1. t # m => (Held(t)' => Held(t))
      BY <1>0, <1>6 DEF ReleaseCaller, ReleaseKeys, Held
    <2>2. ~Held(m)'  BY <1>0, <1>6 DEF ReleaseCaller, Held
    <2> QED  BY <1>6, <2>1, <2>2 DEF ReleaseCaller, ReleaseKeys, Without, Leased
  <1>7. ASSUME t \in DOMAIN HealedLeases => t \in DOMAIN leases' /\ leases'[t] = leases[t],
               Held(t)' => Held(t), UNCHANGED now
        PROVE  Leased(t)'
    BY <1>7 DEF HealedLeases, Leased
  <1>8. ASSUME NEW w \in Workers, ConsumeNothing(w) \/ ConsumeExpired(w) \/ ConsumeDropped(w)
        PROVE  Leased(t)'
    <2>1. leases' = HealedLeases /\ UNCHANGED <<now, hand, thread, call, signal>>
      BY <1>8 DEF ConsumeNothing, ConsumeExpired, ConsumeDropped
    <2>2. t \in DOMAIN HealedLeases => t \in DOMAIN leases' /\ leases'[t] = leases[t]
      BY <2>1 DEF HealedLeases
    <2>3. Held(t)' => Held(t)  BY <2>1 DEF Held
    <2> QED  BY <1>7, <2>1, <2>2, <2>3
  <1>9. ASSUME NEW w \in Workers, ConsumeAdmits(w) PROVE Leased(t)'
    <2>1. PICK e \in buffer :
              /\ leases' = With(HealedLeases, e.task, Second(now) + Lease)
              /\ IF e.task \in Markers
                 THEN SignalCaller(e.task) /\ hand' = hand
                 ELSE hand' = [hand EXCEPT ![w] = e.task] /\ call' = call /\ signal' = signal
      BY <1>9 DEF ConsumeAdmits, Heads
    <2>2. UNCHANGED <<now, thread>>  BY <1>9 DEF ConsumeAdmits
    <2>3. CASE t = e.task
      BY <1>s, <2>1, <2>2, <2>3 DEF With, Leased
    <2>4. CASE t # e.task
      <3>1. t \in DOMAIN HealedLeases => t \in DOMAIN leases' /\ leases'[t] = leases[t]
        BY <2>1, <2>4 DEF With, HealedLeases
      <3>2. Held(t)' => Held(t)  BY <1>0, <2>1, <2>2, <2>4 DEF SignalCaller, With, Held
      <3> QED  BY <1>7, <2>2, <3>1, <3>2
    <2> QED  BY <2>3, <2>4
  <1>10. ASSUME NEW w \in Workers, Dispatch(w) PROVE Leased(t)'
    <2>1. PICK th \in Threads :
              thread' = [thread EXCEPT ![th] = [task |-> hand[w], entered |-> FALSE]]
      BY <1>10 DEF Dispatch, FreeThreads
    <2>2. /\ UNCHANGED <<now, leases, call, signal>>
          /\ hand' = [hand EXCEPT ![w] = NoTask]
      BY <1>10 DEF Dispatch, redisVars
    <2>3. Held(t)' => Held(t)  BY <1>0, <2>1, <2>2 DEF Held
    <2> QED  BY <1>k, <2>2, <2>3
  <1>11. ASSUME NEW w \in Workers, DispatchFails(w) \/ Crash(w) PROVE Leased(t)'
    <2>1. Held(t)' => Held(t)
      BY <1>0, <1>11 DEF DispatchFails, Crash, redisVars, FreeThread, Held
    <2> QED  BY <1>11, <1>k, <2>1 DEF DispatchFails, Crash, redisVars
  <1>12. ASSUME NEW th \in Threads, Enter(th) \/ ReleaseFails(th) PROVE Leased(t)'
    <2>1. Held(t)' => Held(t)
      BY <1>0, <1>12 DEF Enter, ReleaseFails, redisVars, FreeThread, Held
    <2> QED  BY <1>12, <1>k, <2>1 DEF Enter, ReleaseFails, redisVars
  <1>13. ASSUME NEW th \in Threads, Release(th) PROVE Leased(t)'
    <2>1. /\ leases' = Without(leases, thread[th].task)
          /\ UNCHANGED <<now, hand, call, signal, buffer>>
          /\ thread' = [thread EXCEPT ![th] = FreeThread]
      BY <1>13 DEF Release, ReleaseKeys
    <2>2. Held(t)' => Held(t)  BY <1>0, <2>1 DEF FreeThread, Held
    <2>3. CASE t = thread[th].task
      <3>1. <<"thread", th>> \in Places(t)  BY <2>3 DEF Places, ThreadsOf
      <3>2. HandsOf(t) = {} /\ CallersOf(t) = {} /\ SignalsOf(t) = {} /\ ThreadsOf(t) = {th}
        <4>1. Single(t)  BY DEF CopyInv
        <4>2. ASSUME NEW x PROVE /\ <<"hand", x>> # <<"thread", th>>
                                 /\ <<"caller", x>> # <<"thread", th>>
                                 /\ <<"signal", x>> # <<"thread", th>>
                                 /\ <<"thread", x>> = <<"thread", th>> => x = th
          OBVIOUS
        <4>3. ASSUME NEW x PROVE /\ x \in HandsOf(t) => <<"hand", x>> \in Places(t)
                                 /\ x \in CallersOf(t) => <<"caller", x>> \in Places(t)
                                 /\ x \in SignalsOf(t) => <<"signal", x>> \in Places(t)
                                 /\ x \in ThreadsOf(t) => <<"thread", x>> \in Places(t)
          BY DEF Places
        <4>4. th \in ThreadsOf(t)  BY <2>3 DEF ThreadsOf
        <4> QED  BY <3>1, <4>1, <4>2, <4>3, <4>4 DEF Single
      <3>3. ~Held(t)'
        BY <1>0, <2>1, <3>2 DEF Held, HandsOf, CallersOf, SignalsOf, ThreadsOf, FreeThread
      <3> QED  BY <3>3 DEF Leased
    <2>4. CASE t # thread[th].task
      BY <2>1, <2>2, <2>4 DEF Without, Leased
    <2> QED  BY <2>3, <2>4
  <1>14. ASSUME NEW u \in Tasks, Renew(u) PROVE Leased(t)'
    <2>1. Held(t)' => Held(t)  BY <1>14 DEF Renew, Held
    <2> QED  BY <1>0, <1>s, <1>14, <2>1 DEF Renew, Leased
  <1>15. ASSUME NEW c \in Callers, CallerCrash(c) PROVE Leased(t)'
    <2>1. Held(t)' => Held(t)  BY <1>0, <1>15 DEF CallerCrash, redisVars, NoCall, Held
    <2> QED  BY <1>15, <1>k, <2>1 DEF CallerCrash, redisVars
  <1>16. CASE Tick
    <2>1. Held(t)' => Held(t)  BY <1>16 DEF Tick, AliveAt, Held
    <2>2. Held(t) => HoldersOf(t) # {} \/ (t \in DOMAIN signal /\ call[t].pc = "pushed")
      BY DEF Held, HoldersOf
    <2>3. Held(t) => Second(now + 1) <= leases[t]
      BY <1>16, <2>2 DEF Tick, Permitted, Leased
    <2>4. now' = now + 1 /\ leases' = leases  BY <1>16 DEF Tick
    <2> QED  BY <2>1, <2>3, <2>4 DEF Leased
  <1>17. CASE UNCHANGED vars  BY <1>17, <1>k DEF vars, redisVars, Held
  <1> QED
    BY <1>1, <1>2, <1>3, <1>4, <1>5, <1>6, <1>8, <1>9, <1>10, <1>11, <1>12, <1>13,
       <1>14, <1>15, <1>16, <1>17
    DEF Next, Scheduling, Acquiring, Working, Consume

\* What the bound needs of the environment: deduplication, and heartbeats in time.
Punctual == Undisturbed /\ TimelyHeartbeats

\* At most max_concurrency tasks are in the hands of processes at any time, for any
\* number of workers, threads, callers, failures and crashes: the leases Redis
\* counts stand for all that really runs.
THEOREM ExecutionsBounded == Spec => [](Punctual => ExecutionBound)
<1> DEFINE AllLeased == \A t \in Tasks : Leased(t)
           Inv == Punctual => AllLeased
           Copy == Undisturbed => CopyInv
<1>1. Init => Inv
  <2> SUFFICES ASSUME Init, NEW t \in Tasks PROVE ~Held(t)  BY DEF Leased
  <2> QED  BY TaskConstants DEF Init, Held, FreeThread, NoCall, Callers
<1>2. Copy /\ Copy' /\ Inv /\ [Next]_vars => Inv'
  <2> SUFFICES ASSUME Punctual, CopyInv, CopyInv', AllLeased, [Next]_vars, NEW t \in Tasks
               PROVE  Leased(t)'
    BY DEF Punctual, Undisturbed
  <2> QED  BY LeasedStep DEF Punctual
<1>3. LimitInv /\ Copy /\ Inv => (Punctual => ExecutionBound)
  <2> SUFFICES ASSUME LimitInv, CopyInv, AllLeased
               PROVE  Cardinality(Holders) <= MaxConcurrency
    BY DEF Punctual, ExecutionBound
  <2>1. ASSUME NEW t \in Tasks, NEW g \in HoldersOf(t), NEW h \in HoldersOf(t) PROVE g = h
    <3>1. Single(t)  BY DEF CopyInv
    <3>2. ASSUME NEW k \in HoldersOf(t)
          PROVE  \E p \in Places(t) : p[2] = k
      <4>1. k \in HandsOf(t) \/ k \in ThreadsOf(t) \/ k \in CallersOf(t)
        BY <3>2 DEF HoldersOf, HandsOf, ThreadsOf, CallersOf
      <4>2. CASE k \in HandsOf(t)
        <5>1. <<"hand", k>> \in Places(t)  BY <4>2 DEF Places
        <5> QED  BY <5>1
      <4>3. CASE k \in ThreadsOf(t)
        <5>1. <<"thread", k>> \in Places(t)  BY <4>3 DEF Places
        <5> QED  BY <5>1
      <4>4. CASE k \in CallersOf(t)
        <5>1. <<"caller", k>> \in Places(t)  BY <4>4 DEF Places
        <5> QED  BY <5>1
      <4> QED  BY <4>1, <4>2, <4>3, <4>4
    <3> QED  BY <3>1, <3>2 DEF Single
  <2>2. ASSUME NEW t \in Tasks, HoldersOf(t) # {} PROVE t \in DOMAIN leases
    <3>1. Held(t)  BY <2>2 DEF HoldersOf, Held
    <3> QED  BY <3>1 DEF Leased
  <2> DEFINE TaskOf(h) == CHOOSE t \in Tasks : h \in HoldersOf(t)
             f == [h \in Holders |-> TaskOf(h)]
  <2>3. ASSUME NEW h \in Holders PROVE TaskOf(h) \in Tasks /\ h \in HoldersOf(TaskOf(h))
    BY <2>3 DEF Holders
  <2> HIDE DEF TaskOf
  <2>4. f \in [Holders -> DOMAIN leases]  BY <2>2, <2>3
  <2>5. \A g, h \in Holders : f[g] = f[h] => g = h
    <3> SUFFICES ASSUME NEW g \in Holders, NEW h \in Holders, TaskOf(g) = TaskOf(h)
                 PROVE  g = h
      OBVIOUS
    <3> QED  BY <2>1, <2>3
  <2> HIDE DEF f
  <2>6. f \in Injection(Holders, DOMAIN leases)
    BY <2>4, <2>5 DEF Injection, IsInjective
  <2>7. /\ IsFiniteSet(DOMAIN leases) /\ Cardinality(DOMAIN leases) <= MaxConcurrency
    BY DEF LimitInv, SlotBound
  <2>8. IsFiniteSet(Holders) /\ Cardinality(Holders) <= Cardinality(DOMAIN leases)
    BY <2>6, <2>7, FS_Injection
  <2>9. Cardinality(Holders) \in Nat /\ Cardinality(DOMAIN leases) \in Nat
    BY <2>7, <2>8, FS_CardinalityType
  <2> QED  BY <2>7, <2>8, <2>9, TaskConstants
<1> QED  BY <1>1, <1>2, <1>3, LimitInvHolds, CopyInvHolds, PTL DEF Spec
=============================================================================
