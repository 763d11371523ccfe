--------------------------- MODULE DrainLoopProofs ---------------------------
(***************************************************************************)
(* Wake-ups are not lost, for any number of workers, senders, threads and  *)
(* tasks, as long as no call fails and no entry is found too old; and a    *)
(* rate-limited drain sleeps as long as it should, for any limit, window   *)
(* and counters.                                                           *)
(***************************************************************************)
EXTENDS DrainLoop, TokenRecovery, SlidingWindowProofs, FiniteSetTheorems

USE DEF redisVars, wakeVars, loopVars

Answers ==
    [status : {"none", "yielded", "blocked", "expired", "skipped", "admitted"},
     more : BOOLEAN, full : BOOLEAN, dry : BOOLEAN]

\* What the follow-up of an answer will be, seen from the moment consume()
\* returned it: the drain loop of its worker wakes itself again.
GoesOn(r) ==
    \/ r.status = "admitted" /\ r.more
    \/ r.status = "yielded"
    \/ r.status = "blocked" /\ r.more /\ ~r.full /\ r.dry

\* Attended, without the workers that are about to act on an answer that ends
\* their drain: two of them must not count on each other.
Secured ==
    \/ \E w \in Workers : \/ nextWake[w] # "none" \/ w \in channel \/ pc[w] = "draining"
                          \/ pc[w] = "deciding" /\ GoesOn(result[w])
    \/ posted # {}
    \/ \E s \in Senders : trigger[s] > 0
    \/ \E th \in Threads : stage[th] = "released"

\* An answer is there only while its worker acts on it.
AnswersActedOn ==
    \A w \in Workers :
        IF pc[w] = "deciding" THEN result[w].status # "none" ELSE result[w] = NoResult

\* Without failures every lease has a holder, and whenever an entry could be
\* admitted somebody is on the way.
WakeInv ==
    (faults = 0 /\ stale = 0) =>
        /\ abandoned = 0
        /\ (buffer > 0 /\ Active < MaxConcurrency) => Secured

DrainInv == TypeOK /\ AnswersActedOn /\ WakeInv

-----------------------------------------------------------------------------
\* The two sets of leases with a holder are finite.
LEMMA HoldersFinite ==
    ASSUME NEW P, P \subseteq Workers \/ P \subseteq Threads
    PROVE  IsFiniteSet(P) /\ Cardinality(P) \in Nat
  <1>1. IsFiniteSet(P)  BY DrainConstants, FS_Subset
  <1> QED  BY <1>1, FS_CardinalityType

\* What wake() leaves behind: a target, or a coroutine that will set one.
LEMMA WakeEffect ==
    ASSUME TypeOK, NEW w \in Workers, NEW when \in {"now", "later"}, Wake(w, when)
    PROVE  /\ nextWake' \in [Workers -> {"none", "now", "later"}]
           /\ posted' \subseteq AsyncWorkers \X {"now", "later"}
           /\ started' \in [Workers -> BOOLEAN]
           /\ (\E v \in Workers : nextWake'[v] # "none") \/ posted' # {}
  <1>1. CASE w \in AsyncWorkers
    <2>1. posted' = posted \cup {<<w, when>>} /\ nextWake' = nextWake /\ started' = started
      BY <1>1 DEF Wake
    <2>2. <<w, when>> \in AsyncWorkers \X {"now", "later"}  BY <1>1
    <2>3. posted' # {}  BY <2>1
    <2> QED  BY <2>1, <2>2, <2>3 DEF TypeOK
  <1>2. CASE w \notin AsyncWorkers
    <2>1. WakeTarget(w, when) \in {"now", "later"}  BY DEF WakeTarget, TypeOK
    <2>2. nextWake' = [nextWake EXCEPT ![w] = WakeTarget(w, when)]
          /\ started' = [started EXCEPT ![w] = TRUE] /\ posted' = posted
      BY <1>2 DEF Wake, SetWake
    <2>3. nextWake'[w] # "none"  BY <2>1, <2>2 DEF TypeOK
    <2> QED  BY <2>1, <2>2, <2>3 DEF TypeOK
  <1> QED  BY <1>1, <1>2

\* The same for the coroutine itself.
LEMMA SetWakeEffect ==
    ASSUME TypeOK, NEW w \in Workers, NEW when \in {"now", "later"}, SetWake(w, when)
    PROVE  /\ nextWake' \in [Workers -> {"none", "now", "later"}]
           /\ started' \in [Workers -> BOOLEAN]
           /\ \E v \in Workers : nextWake'[v] # "none"
  <1>1. WakeTarget(w, when) \in {"now", "later"}  BY DEF WakeTarget, TypeOK
  <1>2. nextWake' = [nextWake EXCEPT ![w] = WakeTarget(w, when)]
        /\ started' = [started EXCEPT ![w] = TRUE]
    BY DEF SetWake
  <1>3. nextWake'[w] # "none"  BY <1>1, <1>2 DEF TypeOK
  <1> QED  BY <1>1, <1>2, <1>3 DEF TypeOK

\* The follow-up of an answer is a wake-up or none.
LEMMA FollowUpType ==
    ASSUME NEW r \in Answers, r.status \notin {"none", "admitted"}
    PROVE  FollowUp(r) \in {"none", "now", "later"} /\ (GoesOn(r) => FollowUp(r) = "later")
  <1>1. r.status \in {"yielded", "blocked", "expired", "skipped"}
        /\ r.more \in BOOLEAN /\ r.full \in BOOLEAN /\ r.dry \in BOOLEAN
    BY DEF Answers
  <1> QED  BY <1>1 DEF FollowUp, GoesOn

-----------------------------------------------------------------------------
(***************************************************************************)
(* The type invariant, action by action                                    *)
(***************************************************************************)

\* consume.lua's answers have their type.
LEMMA ConsumeType ==
    ASSUME TypeOK, NEW w \in Workers, Consume(w)
    PROVE  TypeOK' /\ pc'[w] = "deciding" /\ result'[w].status # "none"
           /\ \A v \in Workers \ {w} : pc'[v] = pc[v] /\ result'[v] = result[v]
  <1>1. ASSUME NEW a \in Answers, a.status # "none", Consuming(w, a), buffer' \in Nat,
               tokens' \in Nat, lastConsumer' \in Workers \cup {NoWorker}, stale' \in Nat
        PROVE  TypeOK' /\ pc'[w] = "deciding" /\ result'[w].status # "none"
               /\ \A v \in Workers \ {w} : pc'[v] = pc[v] /\ result'[v] = result[v]
    BY <1>1 DEF Consuming, TypeOK, Answers
  <1>2. CASE ConsumeYields(w)
    <2>1. [NoResult EXCEPT !.status = "yielded"] \in Answers
          /\ [NoResult EXCEPT !.status = "yielded"].status # "none"
      BY DEF NoResult, Answers
    <2> QED  BY <1>1, <1>2, <2>1 DEF ConsumeYields, TypeOK
  <1>3. CASE ConsumeBlocked(w)
    <2> DEFINE a == [status |-> "blocked", more |-> buffer > 0,
                     full |-> Active >= MaxConcurrency, dry |-> tokens = 0]
    <2>1. a \in Answers /\ a.status # "none"  BY DEF Answers
    <2> QED  BY <1>1, <1>3, <2>1 DEF ConsumeBlocked, TypeOK
  <1>4. CASE ConsumeAdmits(w)
    <2> DEFINE a == [status |-> "admitted", more |-> buffer > 1, full |-> FALSE, dry |-> FALSE]
    <2>1. a \in Answers /\ a.status # "none"  BY DEF Answers
    <2>2. buffer' \in Nat /\ tokens' \in Nat  BY <1>4 DEF ConsumeAdmits, Permitted, TypeOK
    <2> QED  BY <1>1, <1>4, <2>1, <2>2 DEF ConsumeAdmits, TypeOK
  <1>5. ASSUME NEW status \in {"expired", "skipped"}, NEW dry \in BOOLEAN,
               ConsumeStale(w, status, dry)
        PROVE  TypeOK' /\ pc'[w] = "deciding" /\ result'[w].status # "none"
               /\ \A v \in Workers \ {w} : pc'[v] = pc[v] /\ result'[v] = result[v]
    <2> DEFINE a == [status |-> status, more |-> buffer > 1, full |-> FALSE, dry |-> dry]
    <2>1. a \in Answers /\ a.status # "none"  BY DEF Answers
    <2>2. buffer' \in Nat /\ stale' \in Nat  BY <1>5 DEF ConsumeStale, Stale, TypeOK
    <2> QED  BY <1>1, <1>5, <2>1, <2>2 DEF ConsumeStale, TypeOK
  <1> QED  BY <1>2, <1>3, <1>4, <1>5 DEF Consume

\* The type of the whole state.
LEMMA TypeStep ==
    ASSUME TypeOK, AnswersActedOn, [Next]_vars
    PROVE  TypeOK'
  <1>1. ASSUME NEW s \in Senders, Schedule(s) PROVE TypeOK'
    BY <1>1 DEF Schedule, TypeOK
  <1>2. ASSUME NEW s \in Senders, NEW published \in BOOLEAN, Trigger(s, published) PROVE TypeOK'
    <2>1. faults' \in Nat /\ channel' \subseteq Workers /\ trigger' \in [Senders -> Nat]
      BY <1>2 DEF Trigger, Fault, Signalled, TypeOK
    <2>2. CASE s \in Workers
      <3>1. Wake(s, "now")  BY <1>2, <2>2 DEF Trigger
      <3> QED  BY <1>2, <2>1, <2>2, <3>1, WakeEffect DEF Trigger, TypeOK
    <2>3. CASE s \notin Workers  BY <1>2, <2>1, <2>3 DEF Trigger, NoWake, TypeOK
    <2> QED  BY <2>2, <2>3
  <1>3. ASSUME NEW w \in Workers, Deliver(w) PROVE TypeOK'
    <2>1. Wake(w, "now")  BY <1>3 DEF Deliver
    <2> QED  BY <1>3, <2>1, WakeEffect DEF Deliver, TypeOK
  <1>4. ASSUME NEW w \in AsyncWorkers, NEW when \in {"now", "later"}, WakeAsync(w, when) PROVE TypeOK'
    <2>1. SetWake(w, when) /\ w \in Workers  BY <1>4, DrainConstants DEF WakeAsync
    <2> QED  BY <1>4, <2>1, SetWakeEffect DEF WakeAsync, TypeOK
  <1>5. ASSUME NEW w \in Workers, LoseSignal(w) PROVE TypeOK'
    BY <1>5 DEF LoseSignal, Fault, TypeOK
  <1>6. ASSUME NEW w \in Workers, StartDrain(w) \/ Watchdog(w) PROVE TypeOK'
    BY <1>6 DEF StartDrain, Watchdog, TypeOK
  <1>7. ASSUME NEW w \in Workers, NoCapacity(w) PROVE TypeOK'
    <2>1. Wake(w, "later")  BY <1>7 DEF NoCapacity
    <2> QED  BY <1>7, <2>1, WakeEffect DEF NoCapacity, TypeOK
  <1>8. ASSUME NEW w \in Workers, NEW effective \in BOOLEAN, ConsumeFails(w, effective) PROVE TypeOK'
    <2>1. Wake(w, "later")  BY <1>8 DEF ConsumeFails
    <2>2. /\ {buffer', tokens', abandoned', faults'} \subseteq Nat
          /\ {lastConsumer', lastCaller'} \subseteq Workers \cup {NoWorker}
      BY <1>8 DEF ConsumeFails, Fault, Permitted, TypeOK
    <2> QED  BY <1>8, <2>1, <2>2, WakeEffect DEF ConsumeFails, TypeOK
  <1>9. ASSUME NEW w \in Workers, Decided(w)
        PROVE  /\ pc' \in [Workers -> {"waiting", "draining", "deciding"}]
               /\ result' \in [Workers -> Answers]
    BY <1>9 DEF Decided, NoResult, TypeOK, Answers
  <1>10. ASSUME NEW w \in Workers, Dispatch(w) PROVE TypeOK'
    <2>1. Decided(w)  BY <1>10 DEF Dispatch
    <2>2. stage' \in [Threads -> {"free", "running", "released", "woken"}]
      BY <1>10 DEF Dispatch, FreeThreads, TypeOK
    <2>3. CASE result[w].more
      <3>1. Wake(w, "now")  BY <1>10, <2>3 DEF Dispatch
      <3> QED  BY <1>9, <1>10, <2>1, <2>2, <3>1, WakeEffect DEF Dispatch, TypeOK, Answers
    <2>4. CASE ~result[w].more
      BY <1>9, <1>10, <2>1, <2>2, <2>4 DEF Dispatch, NoWake, TypeOK, Answers
    <2> QED  BY <2>3, <2>4
  <1>11. ASSUME NEW w \in Workers, DispatchFails(w) PROVE TypeOK'
    <2>1. Decided(w) /\ Wake(w, "later")  BY <1>11 DEF DispatchFails
    <2> QED  BY <1>9, <1>11, <2>1, WakeEffect DEF DispatchFails, Fault, TypeOK, Answers
  <1>12. ASSUME NEW w \in Workers, NotAdmitted(w) PROVE TypeOK'
    <2>1. Decided(w) /\ pc[w] = "deciding"  BY <1>12 DEF NotAdmitted, Decided
    <2>2. FollowUp(result[w]) \in {"none", "now", "later"}
      BY <1>12, <2>1, FollowUpType DEF NotAdmitted, AnswersActedOn, TypeOK, Answers
    <2>3. CASE FollowUp(result[w]) = "none"
      BY <1>9, <1>12, <2>1, <2>3 DEF NotAdmitted, NoWake, TypeOK, Answers
    <2>4. CASE FollowUp(result[w]) # "none"
      <3>1. Wake(w, FollowUp(result[w])) /\ FollowUp(result[w]) \in {"now", "later"}
        BY <1>12, <2>2, <2>4 DEF NotAdmitted
      <3> QED  BY <1>9, <1>12, <2>1, <3>1, WakeEffect DEF NotAdmitted, TypeOK, Answers
    <2> QED  BY <2>3, <2>4
  <1>13. ASSUME NEW th \in Threads, Release(th) \/ ReleaseFails(th) \/ Leave(th) PROVE TypeOK'
    BY <1>13 DEF Release, ReleaseFails, Leave, Signalled, Fault, TypeOK
  <1>14. ASSUME NEW th \in Threads, WakeOwner(th) PROVE TypeOK'
    <2>1. Wake(Owner[th], "now") /\ Owner[th] \in Workers  BY <1>14, DrainConstants DEF WakeOwner
    <2> QED  BY <1>14, <2>1, WakeEffect DEF WakeOwner, TypeOK
  <1>15. ASSUME NEW w \in Workers, Crash(w) PROVE TypeOK'
    <2> DEFINE P == {th \in Threads : Owner[th] = w /\ stage[th] = "running"}
    <2>1. Cardinality(P) \in Nat  BY HoldersFinite
    <2>2. abandoned' \in Nat /\ faults' \in Nat
      BY <1>15, <2>1 DEF Crash, Fault, TypeOK
    <2> QED  BY <1>15, <2>2 DEF Crash, NoResult, TypeOK
  <1>16. CASE LeaseRunsOut \/ Refill \/ FairnessExpires
    BY <1>16 DEF LeaseRunsOut, Refill, FairnessExpires, TypeOK
  <1>17. CASE UNCHANGED vars  BY <1>17 DEF vars, TypeOK
  <1>18. ASSUME NEW w \in Workers, LoopStep(w) PROVE TypeOK'
    BY <1>6, <1>7, <1>10, <1>12, <1>18, ConsumeType DEF LoopStep
  <1>19. CASE Failure
    BY <1>2, <1>5, <1>8, <1>11, <1>13, <1>15, <1>19 DEF Failure
  <1> QED
    BY <1>1, <1>2, <1>3, <1>4, <1>13, <1>14, <1>16, <1>17, <1>18, <1>19 DEF Next, TaskEnds

-----------------------------------------------------------------------------
(***************************************************************************)
(* Wake-ups                                                                *)
(***************************************************************************)

\* The number of leases depends on these sets only.
LEMMA ActiveSame ==
    ASSUME abandoned' = abandoned,
           {th \in Threads : stage'[th] = "running"} = {th \in Threads : stage[th] = "running"},
           {w \in Workers : result'[w].status = "admitted"}
               = {w \in Workers : result[w].status = "admitted"}
    PROVE  Active' = Active
  BY DEF Active

\* Dispatching moves a lease from an answer to a thread.
LEMMA DispatchKeepsActive ==
    ASSUME TypeOK, NEW w \in Workers, Dispatch(w)
    PROVE  Active' = Active
  <1> DEFINE R == {th \in Threads : stage[th] = "running"}
             A == {v \in Workers : result[v].status = "admitted"}
  <1>1. PICK th \in FreeThreads(w) : stage' = [stage EXCEPT ![th] = "running"]
    BY DEF Dispatch
  <1>2. th \in Threads /\ stage[th] = "free"  BY <1>1 DEF FreeThreads
  <1>3. {u \in Threads : stage'[u] = "running"} = R \cup {th} /\ th \notin R
    BY <1>1, <1>2 DEF TypeOK
  <1>4. result' = [result EXCEPT ![w] = NoResult] /\ w \in A  BY DEF Dispatch, Decided
  <1>5. {v \in Workers : result'[v].status = "admitted"} = A \ {w}
    BY <1>4 DEF TypeOK, NoResult
  <1>6. IsFiniteSet(R) /\ IsFiniteSet(A) /\ Cardinality(R) \in Nat /\ Cardinality(A) \in Nat
    BY HoldersFinite
  <1>7. Cardinality(R \cup {th}) = Cardinality(R) + 1  BY <1>3, <1>6, FS_AddElement
  <1>8. Cardinality(A \ {w}) = Cardinality(A) - 1  BY <1>4, <1>6, FS_RemoveElement
  <1>9. abandoned' = abandoned /\ abandoned \in Nat  BY DEF Dispatch, TypeOK
  <1>10. Active = Cardinality(R) + Cardinality(A) + abandoned  BY DEF Active
  <1>11. Active' = Cardinality(R \cup {th}) + Cardinality(A \ {w}) + abandoned
    BY <1>3, <1>5, <1>9 DEF Active
  <1> HIDE DEF R, A
  <1> QED  BY <1>6, <1>7, <1>8, <1>9, <1>10, <1>11

\* The two ways in which a step without a failure keeps the invariant.
LEMMA WakeInvKept ==
    ASSUME WakeInv, faults' = faults, stale' = stale, abandoned' = abandoned,
           Secured' \/ (buffer' = buffer /\ Active' = Active /\ (Secured => Secured'))
    PROVE  WakeInv'
  BY DEF WakeInv

\* A failure, or a stale entry, takes the invariant's premise away.
LEMMA FailureEndsPremise ==
    ASSUME TypeOK, Fault \/ Stale
    PROVE  WakeInv'
  <1>1. faults \in Nat /\ stale \in Nat  BY DEF TypeOK
  <1>2. CASE Fault  BY <1>1, <1>2 DEF Fault, WakeInv
  <1>3. CASE Stale  BY <1>1, <1>3 DEF Stale, WakeInv
  <1> QED  BY <1>2, <1>3

\* A worker that has called consume() either goes on by itself, or there was
\* nothing to be admitted when it was answered.
LEMMA ConsumeWakes ==
    ASSUME DrainInv, NEW w \in Workers, Consume(w)
    PROVE  WakeInv'
  <1>1. TypeOK /\ AnswersActedOn /\ WakeInv  BY DEF DrainInv
  <1>2. ASSUME NEW a \in Answers, Consuming(w, a), GoesOn(a) PROVE Secured'
    <2>1. pc'[w] = "deciding" /\ result'[w] = a  BY <1>1, <1>2 DEF Consuming, TypeOK
    <2> QED  BY <1>2, <2>1 DEF Secured
  <1>3. CASE ConsumeYields(w)
    <2> DEFINE a == [NoResult EXCEPT !.status = "yielded"]
    <2>1. a \in Answers /\ GoesOn(a)  BY DEF NoResult, Answers, GoesOn
    <2>2. Secured'  BY <1>2, <1>3, <2>1 DEF ConsumeYields
    <2> QED  BY <1>1, <1>3, <2>2, WakeInvKept DEF ConsumeYields, Consuming
  <1>4. CASE ConsumeBlocked(w)
    <2> DEFINE a == [status |-> "blocked", more |-> buffer > 0,
                     full |-> Active >= MaxConcurrency, dry |-> tokens = 0]
    <2>1. a \in Answers  BY DEF Answers
    <2>2. Consuming(w, a) /\ (~Permitted(w) \/ buffer = 0) /\ ~MustYield(w)
          /\ buffer' = buffer /\ faults' = faults /\ stale' = stale /\ abandoned' = abandoned
      BY <1>4 DEF ConsumeBlocked, Consuming
    <2>3. Active' = Active
      <3>1. pc[w] = "draining" /\ stage' = stage /\ result' = [result EXCEPT ![w] = a]
        BY <2>2 DEF Consuming
      <3>2. result[w] = NoResult  BY <1>1, <3>1 DEF AnswersActedOn
      <3>3. \A v \in Workers : result'[v].status = "admitted" <=> result[v].status = "admitted"
        BY <1>1, <3>1, <3>2 DEF TypeOK, NoResult
      <3> QED  BY <2>2, <3>1, <3>3, ActiveSame
    <2>4. CASE buffer > 0 /\ Active < MaxConcurrency
      <3>1. tokens \in Nat /\ buffer \in Nat /\ MaxConcurrency \in Nat /\ Active \in Nat
        BY <1>1, HoldersFinite, DrainConstants DEF TypeOK, Active
      <3>2. tokens = 0  BY <2>2, <2>4, <3>1 DEF Permitted
      <3>3. GoesOn(a)
        <4>1. buffer > 0 /\ ~(Active >= MaxConcurrency) /\ tokens = 0  BY <2>4, <3>1, <3>2
        <4>2. a.status = "blocked" /\ a.more = (buffer > 0)
              /\ a.full = (Active >= MaxConcurrency) /\ a.dry = (tokens = 0)
          OBVIOUS
        <4> QED  BY <4>1, <4>2, Zenon DEF GoesOn
      <3>4. Secured'  BY <1>2, <2>1, <2>2, <3>3
      <3> QED  BY <1>1, <2>2, <3>4, WakeInvKept
    <2>5. CASE ~(buffer > 0 /\ Active < MaxConcurrency)
      BY <1>1, <2>2, <2>3, <2>5 DEF WakeInv
    <2> QED  BY <2>4, <2>5
  <1>5. CASE ConsumeAdmits(w)
    <2> DEFINE a == [status |-> "admitted", more |-> buffer > 1, full |-> FALSE, dry |-> FALSE]
    <2>1. a \in Answers  BY DEF Answers
    <2>2. Consuming(w, a) /\ buffer' = buffer - 1 /\ buffer \in Nat
          /\ faults' = faults /\ stale' = stale /\ abandoned' = abandoned
      BY <1>1, <1>5 DEF ConsumeAdmits, Consuming, TypeOK
    <2>3. CASE buffer > 1
      <3>1. GoesOn(a)  BY <2>3 DEF GoesOn
      <3>2. Secured'  BY <1>2, <2>1, <2>2, <3>1
      <3> QED  BY <1>1, <2>2, <3>2, WakeInvKept
    <2>4. CASE ~(buffer > 1)
      <3>1. ~(buffer' > 0)  BY <2>2, <2>4
      <3> QED  BY <1>1, <2>2, <3>1 DEF WakeInv
    <2> QED  BY <2>3, <2>4
  <1>6. ASSUME NEW status \in {"expired", "skipped"}, NEW dry \in BOOLEAN,
               ConsumeStale(w, status, dry)
        PROVE  WakeInv'
    BY <1>1, <1>6, FailureEndsPremise DEF ConsumeStale
  <1> QED  BY <1>3, <1>4, <1>5, <1>6 DEF Consume

\* Every step keeps the answers acted on and the wake-ups secured.
LEMMA WakeStep ==
    ASSUME DrainInv, [Next]_vars
    PROVE  AnswersActedOn' /\ WakeInv'
  <1>0. TypeOK /\ AnswersActedOn /\ WakeInv  BY DEF DrainInv
  <1>1. ASSUME NEW s \in Senders, Schedule(s) PROVE AnswersActedOn' /\ WakeInv'
    <2>1. trigger'[s] > 0  BY <1>0, <1>1 DEF Schedule, TypeOK
    <2>2. Secured'  BY <2>1 DEF Secured
    <2> QED  BY <1>0, <1>1, <2>2, WakeInvKept DEF Schedule, AnswersActedOn
  <1>2. ASSUME pc' = pc, result' = result PROVE AnswersActedOn'
    BY <1>0, <1>2 DEF AnswersActedOn
  <1>3. ASSUME NEW w \in Workers, NEW when \in {"now", "later"}, Wake(w, when) PROVE Secured'
    BY <1>0, <1>3, WakeEffect DEF Secured
  <1>4. ASSUME NEW s \in Senders, NEW published \in BOOLEAN, Trigger(s, published)
        PROVE  AnswersActedOn' /\ WakeInv'
    <2>1. AnswersActedOn'  BY <1>2, <1>4 DEF Trigger
    <2>2. CASE ~published  BY <1>0, <1>4, <2>1, <2>2, FailureEndsPremise DEF Trigger
    <2>3. CASE published
      <3>1. Secured'
        <4>1. CASE s \in Workers  BY <1>3, <1>4, <4>1 DEF Trigger
        <4>2. CASE s \notin Workers
          <5>1. channel' = channel \cup Workers  BY <1>4, <2>3, <4>2 DEF Trigger, Signalled
          <5>2. PICK w : w \in Workers  BY DrainConstants
          <5> QED  BY <5>1, <5>2 DEF Secured
        <4> QED  BY <4>1, <4>2
      <3> QED  BY <1>0, <1>4, <2>1, <2>3, <3>1, WakeInvKept DEF Trigger
    <2> QED  BY <2>2, <2>3
  <1>5. ASSUME NEW w \in Workers, Deliver(w) PROVE AnswersActedOn' /\ WakeInv'
    <2>1. Secured'  BY <1>3, <1>5 DEF Deliver
    <2> QED  BY <1>0, <1>2, <1>5, <2>1, WakeInvKept DEF Deliver
  <1>6. ASSUME NEW w \in AsyncWorkers, NEW when \in {"now", "later"}, WakeAsync(w, when)
        PROVE  AnswersActedOn' /\ WakeInv'
    <2>1. SetWake(w, when) /\ w \in Workers  BY <1>6, DrainConstants DEF WakeAsync
    <2>2. Secured'  BY <1>0, <2>1, SetWakeEffect DEF Secured
    <2> QED  BY <1>0, <1>2, <1>6, <2>2, WakeInvKept DEF WakeAsync
  <1>7. ASSUME NEW w \in Workers, StartDrain(w) \/ Watchdog(w)
        PROVE  AnswersActedOn' /\ WakeInv'
    <2>1. pc' = [pc EXCEPT ![w] = "draining"] /\ result' = result /\ pc[w] = "waiting"
      BY <1>7 DEF StartDrain, Watchdog
    <2>2. AnswersActedOn'  BY <1>0, <2>1 DEF AnswersActedOn, TypeOK
    <2>3. pc'[w] = "draining"  BY <1>0, <2>1 DEF TypeOK
    <2>4. Secured'  BY <2>3 DEF Secured
    <2> QED  BY <1>0, <1>7, <2>2, <2>4, WakeInvKept DEF StartDrain, Watchdog
  <1>8. ASSUME NEW w \in Workers, NoCapacity(w) PROVE AnswersActedOn' /\ WakeInv'
    <2>1. AnswersActedOn'  BY <1>0, <1>8 DEF NoCapacity, AnswersActedOn, TypeOK
    <2>2. Secured'  BY <1>3, <1>8 DEF NoCapacity
    <2> QED  BY <1>0, <1>8, <2>1, <2>2, WakeInvKept DEF NoCapacity
  <1>9. ASSUME NEW w \in Workers, Consume(w) PROVE AnswersActedOn' /\ WakeInv'
    <2>1. AnswersActedOn'  BY <1>0, <1>9, ConsumeType DEF AnswersActedOn
    <2> QED  BY <1>9, <2>1, ConsumeWakes
  <1>10. ASSUME NEW w \in Workers, Decided(w) PROVE AnswersActedOn'
    BY <1>0, <1>10 DEF Decided, AnswersActedOn, TypeOK
  <1>11. ASSUME NEW w \in Workers, Decided(w), ~GoesOn(result[w]), NoWake,
                channel' = channel, trigger' = trigger, Secured,
                \A th \in Threads : stage[th] = "released" => stage'[th] = "released"
         PROVE  Secured'
    <2>1. \A v \in Workers \ {w} : pc'[v] = pc[v] /\ result'[v] = result[v]
      BY <1>0, <1>11 DEF Decided, TypeOK
    <2>2. pc[w] = "deciding"  BY <1>11 DEF Decided
    <2> QED  BY <1>11, <2>1, <2>2 DEF Secured, NoWake
  <1>12. ASSUME NEW w \in Workers, Dispatch(w) PROVE AnswersActedOn' /\ WakeInv'
    <2>1. Decided(w) /\ AnswersActedOn'  BY <1>10, <1>12 DEF Dispatch
    <2>2. CASE result[w].more
      <3>1. Secured'  BY <1>3, <1>12, <2>2 DEF Dispatch
      <3> QED  BY <1>0, <1>12, <2>1, <3>1, WakeInvKept DEF Dispatch
    <2>3. CASE ~result[w].more
      <3>1. ~GoesOn(result[w]) /\ NoWake  BY <1>12, <2>3 DEF Dispatch, GoesOn
      <3>2. \A th \in Threads : stage[th] = "released" => stage'[th] = "released"
        BY <1>0, <1>12 DEF Dispatch, FreeThreads, TypeOK
      <3>3. Secured => Secured'  BY <1>11, <1>12, <2>1, <3>1, <3>2 DEF Dispatch
      <3>4. Active' = Active  BY <1>0, <1>12, DispatchKeepsActive
      <3> QED  BY <1>0, <1>12, <2>1, <3>3, <3>4, WakeInvKept DEF Dispatch
    <2> QED  BY <2>2, <2>3
  <1>13. ASSUME NEW w \in Workers, NotAdmitted(w) PROVE AnswersActedOn' /\ WakeInv'
    <2>1. Decided(w) /\ AnswersActedOn' /\ pc[w] = "deciding"
      BY <1>10, <1>13 DEF NotAdmitted, Decided
    <2>2. FollowUp(result[w]) \in {"none", "now", "later"}
          /\ (GoesOn(result[w]) => FollowUp(result[w]) = "later")
      BY <1>0, <1>13, <2>1, FollowUpType DEF NotAdmitted, AnswersActedOn, TypeOK, Answers
    <2>3. CASE FollowUp(result[w]) # "none"
      <3>1. Secured'  BY <1>3, <1>13, <2>2, <2>3 DEF NotAdmitted
      <3> QED  BY <1>0, <1>13, <2>1, <3>1, WakeInvKept DEF NotAdmitted
    <2>4. CASE FollowUp(result[w]) = "none"
      <3>1. ~GoesOn(result[w]) /\ NoWake  BY <1>13, <2>2, <2>4 DEF NotAdmitted
      <3>2. Secured => Secured'  BY <1>11, <1>13, <2>1, <3>1 DEF NotAdmitted
      <3>3. \A v \in Workers : result'[v].status = "admitted" <=> result[v].status = "admitted"
        BY <1>0, <1>13, <2>1 DEF NotAdmitted, Decided, NoResult, TypeOK
      <3>4. Active' = Active  BY <1>13, <3>3, ActiveSame DEF NotAdmitted
      <3> QED  BY <1>0, <1>13, <2>1, <3>2, <3>4, WakeInvKept DEF NotAdmitted
    <2> QED  BY <2>3, <2>4
  <1>14. ASSUME NEW th \in Threads, Release(th) PROVE AnswersActedOn' /\ WakeInv'
    <2>1. stage'[th] = "released"  BY <1>0, <1>14 DEF Release, TypeOK
    <2>2. Secured'  BY <2>1 DEF Secured
    <2> QED  BY <1>0, <1>2, <1>14, <2>2, WakeInvKept DEF Release
  <1>15. ASSUME NEW th \in Threads, WakeOwner(th) PROVE AnswersActedOn' /\ WakeInv'
    <2>1. Secured'  BY <1>3, <1>15, DrainConstants DEF WakeOwner
    <2> QED  BY <1>0, <1>2, <1>15, <2>1, WakeInvKept DEF WakeOwner
  <1>16. ASSUME NEW th \in Threads, Leave(th) PROVE AnswersActedOn' /\ WakeInv'
    <2>1. \A u \in Threads : /\ stage'[u] = "running" <=> stage[u] = "running"
                             /\ stage[u] = "released" => stage'[u] = "released"
      BY <1>0, <1>16 DEF Leave, TypeOK
    <2>2. Active' = Active  BY <1>16, <2>1, ActiveSame DEF Leave
    <2>3. Secured => Secured'  BY <1>16, <2>1 DEF Leave, Secured
    <2> QED  BY <1>0, <1>2, <1>16, <2>2, <2>3, WakeInvKept DEF Leave
  <1>17. CASE LeaseRunsOut
    <2>1. ~(faults = 0 /\ stale = 0)  BY <1>0, <1>17 DEF LeaseRunsOut, WakeInv, TypeOK
    <2> QED  BY <1>2, <1>17, <2>1 DEF LeaseRunsOut, WakeInv
  <1>18. CASE Refill \/ FairnessExpires \/ UNCHANGED vars
    <2>1. UNCHANGED <<buffer, abandoned, trigger, channel, loopVars, stage, faults, stale>>
      BY <1>18 DEF Refill, FairnessExpires, vars
    <2>2. Active' = Active  BY <2>1, ActiveSame
    <2>3. Secured => Secured'  BY <2>1 DEF Secured
    <2> QED  BY <1>0, <1>2, <2>1, <2>2, <2>3, WakeInvKept
  <1>19. CASE Failure
    <2>1. ASSUME NEW w \in Workers, Crash(w) PROVE AnswersActedOn'
      BY <1>0, <2>1 DEF Crash, AnswersActedOn, TypeOK
    <2>2. ASSUME NEW w \in Workers, NEW effective \in BOOLEAN, ConsumeFails(w, effective)
          PROVE  AnswersActedOn'
      BY <1>0, <2>2 DEF ConsumeFails, AnswersActedOn, TypeOK
    <2>3. ASSUME NEW w \in Workers, LoseSignal(w) PROVE AnswersActedOn'
      BY <1>2, <2>3 DEF LoseSignal
    <2>4. ASSUME NEW w \in Workers, DispatchFails(w) PROVE AnswersActedOn'
      BY <1>10, <2>4 DEF DispatchFails
    <2>5. ASSUME NEW th \in Threads, ReleaseFails(th) PROVE AnswersActedOn'
      BY <1>2, <2>5 DEF ReleaseFails
    <2>6. ASSUME NEW s \in Senders, Trigger(s, FALSE) PROVE AnswersActedOn'
      BY <1>4, <2>6
    <2>7. AnswersActedOn'  BY <1>19, <2>1, <2>2, <2>3, <2>4, <2>5, <2>6 DEF Failure
    <2>8. Fault
      BY <1>19 DEF Failure, Crash, ConsumeFails, LoseSignal, DispatchFails, ReleaseFails, Trigger
    <2> QED  BY <1>0, <2>7, <2>8, FailureEndsPremise
  <1>20. ASSUME NEW w \in Workers, LoopStep(w) PROVE AnswersActedOn' /\ WakeInv'
    BY <1>7, <1>8, <1>9, <1>12, <1>13, <1>20 DEF LoopStep
  <1> QED
    BY <1>1, <1>4, <1>5, <1>6, <1>14, <1>15, <1>16, <1>17, <1>18, <1>19, <1>20
    DEF Next, TaskEnds

\* The invariant holds in every reachable state.
LEMMA DrainInvHolds == Spec => []DrainInv
<1>1. Init => DrainInv
  <2> SUFFICES ASSUME Init PROVE DrainInv  OBVIOUS
  <2>1. TypeOK  BY DrainConstants DEF Init, NoResult, TypeOK
  <2> QED  BY <2>1 DEF Init, DrainInv, AnswersActedOn, WakeInv
<1>2. DrainInv /\ [Next]_vars => DrainInv'
  BY TypeStep, WakeStep DEF DrainInv
<1> QED  BY <1>1, <1>2, PTL DEF Spec

-----------------------------------------------------------------------------
\* The state of drain loops, signals and answers keeps its type.
THEOREM DrainTypeCorrect == Spec => []TypeOK
<1>1. DrainInv => TypeOK  BY DEF DrainInv
<1> QED  BY <1>1, DrainInvHolds, PTL

\* No wake-up is lost before the first failure or stale entry, whatever the
\* number of workers (threads or asyncio), senders and tasks: although workers
\* act on answers of consume.lua that are out of date, and each of two idle
\* workers could count on the other, an entry that could be admitted always has
\* somebody on the way to it.
THEOREM WakeupsAreKept == Spec => []NoLostWakeup
<1>1. DrainInv => NoLostWakeup
  <2>1. Secured => Attended  BY DEF Secured, Attended
  <2> QED  BY <2>1 DEF DrainInv, WakeInv, NoLostWakeup
<1> QED  BY <1>1, DrainInvHolds, PTL

-----------------------------------------------------------------------------
(***************************************************************************)
(* The delay a rate-limited drain sleeps, for any limit, window, counters  *)
(* and jitter: what follows a "blocked" answer of DrainLoop.               *)
(***************************************************************************)

\* The estimate minus the limit, times the window, for counters c and p after e
\* milliseconds of the window.
Excess(c, p, e) == c * Window + p * (Window - e) - RateLimit * Window

\* What the delay computed from the decay of the previous window does: it ends in
\* the window or at its end, the estimate does not fall below the limit before
\* its last millisecond, and the rounding leaves at most the decay of half a
\* millisecond; from there one more millisecond is enough.
LEMMA DecayDelay ==
    ASSUME NEW c \in Nat, NEW p \in Nat, NEW e \in 0 .. (Window - 1),
           ~Fallback(c, p), Excess(c, p, e) >= 0,
           NEW d \in RoundedDelays(Excess(c, p, e), p)
    PROVE  /\ d \in 1 .. (Window - e)
           /\ \A k \in 0 .. (d - 1) : Excess(c, p, e + k) >= 0
           /\ 2 * Excess(c, p, e + d) <= p
           /\ 2 * Excess(c, p, e) <= p => d = 1 /\ Excess(c, p, e + d) < 0
<1> DEFINE num == Excess(c, p, e)
           q == Window - e
<1>1. p > 0 /\ c < RateLimit /\ RateLimit \in Nat /\ Window \in Nat \ {0}
  BY RecoveryConstants DEF Fallback
<1>2. q \in Nat \ {0} /\ e \in Nat
  BY <1>1
<1>3. num \in Nat /\ num <= p * q - 1
  <2>1. (RateLimit - c) * Window >= Window
    BY <1>1
  <2>2. num = p * q - (RateLimit - c) * Window
    BY <1>1, <1>2 DEF Excess
  <2>3. p * q \in Int /\ (RateLimit - c) * Window \in Int /\ num \in Int
    BY <1>1, <1>2, <2>2
  <2>4. num >= 0  OBVIOUS
  <2> HIDE DEF num, q
  <2> QED BY <2>1, <2>2, <2>3, <2>4, <1>1
<1>4. \A k \in Nat : Excess(c, p, e + k) = num - k * p
  BY <1>1, <1>2 DEF Excess
<1>5. /\ d \in Nat \ {0}
      /\ \/ d = 1 /\ num <= p
         \/ num > p /\ 2 * (d * p - num) <= p /\ 2 * (d * p - num) >= -p
  BY <1>1 DEF RoundedDelays
<1> HIDE DEF num, q
<1>6. d * p \in Nat /\ p * q \in Nat
  BY <1>1, <1>2, <1>5
<1>7. d <= q
  <2>1. CASE d = 1  BY <2>1, <1>2
  <2>2. CASE d # 1
    <3> SUFFICES ASSUME d >= q + 1 PROVE FALSE
      BY <1>2, <1>5
    <3>1. d * p >= p * q + p
      BY <1>1, <1>2, <1>5
    <3> QED BY <3>1, <2>2, <1>1, <1>3, <1>5, <1>6
  <2> QED BY <2>1, <2>2
<1>8. \A k \in 0 .. (d - 1) : num - k * p >= 0
  <2> SUFFICES ASSUME NEW k \in 0 .. (d - 1) PROVE num - k * p >= 0
    OBVIOUS
  <2>1. CASE d = 1  BY <2>1, <1>1, <1>3
  <2>2. CASE d # 1
    <3>1. k * p <= d * p - p /\ k * p \in Nat
      BY <1>1, <1>5
    <3> QED BY <3>1, <2>2, <1>1, <1>3, <1>5, <1>6
  <2> QED BY <2>1, <2>2
<1>9. 2 * (num - d * p) <= p
  BY <1>1, <1>3, <1>5, <1>6
<1>10. 2 * num <= p => d = 1 /\ num - d * p < 0
  BY <1>1, <1>3, <1>5, <1>6
<1>11. d \in 1 .. (Window - e)
  BY <1>1, <1>2, <1>5, <1>7 DEF q
<1>12. \A k \in 0 .. (d - 1) : Excess(c, p, e + k) >= 0
  BY <1>4, <1>5, <1>8
<1>13. 2 * Excess(c, p, e + d) <= p
  BY <1>4, <1>5, <1>9
<1>14. 2 * num <= p => d = 1 /\ Excess(c, p, e + d) < 0
  BY <1>4, <1>5, <1>10
<1> QED
  BY <1>11, <1>12, <1>13, <1>14 DEF num

\* The excess of the estimate over the limit at time t, multiplied by the window.
ExcessAt(t) == Excess(Current(t), Previous(t), Elapsed(t, Window))

\* At time t decay cannot free a token within the window.
FallbackAt(t) == Fallback(Current(t), Previous(t))

\* What consume.lua computes at a time of the chain.
LEMMA CountersAt ==
    ASSUME RecoveryTypeOK, NEW t \in Nat, t >= Window
    PROVE  /\ Window \in Nat \ {0}
           /\ WindowIndex(t, Window) \in Nat \ {0}
           /\ Elapsed(t, Window) \in 0 .. (Window - 1)
           /\ Current(t) \in Nat
           /\ Previous(t) \in Nat
           /\ ExcessAt(t) \in Int
           /\ AdmissibleAt(t) <=> ExcessAt(t) < 0
<1>1. Window \in Nat \ {0} /\ RateLimit \in Nat \ {0} /\ old \in Nat /\ recent \in Nat
  BY RecoveryConstants DEF RecoveryTypeOK
<1>2. WindowIndex(t, Window) \in Nat /\ Elapsed(t, Window) \in 0 .. (Window - 1)
  BY <1>1, WindowOfTime
<1>3. 1 <= WindowIndex(t, Window)
  BY <1>1, WindowAfter
<1>4. Current(t) \in Nat /\ Previous(t) \in Nat
  BY <1>1, <1>2, <1>3 DEF Current, Previous, CountAt
<1>5. ExcessAt(t) \in Int
  BY <1>1, <1>2, <1>4 DEF ExcessAt, Excess
<1>6. AdmissibleAt(t) <=> ExcessAt(t) < 0
  <2> DEFINE est == Current(t) * Window
                      + Previous(t) * (Window - Elapsed(t, Window))
             cap == RateLimit * Window
  <2>1. AdmissibleAt(t) <=> est < cap
    BY DEF AdmissibleAt, UnderLimit, ScaledEstimate, Elapsed
  <2>2. est \in Int /\ cap \in Int
    BY <1>1, <1>2, <1>4
  <2>3. ExcessAt(t) = est - cap
    BY <1>1, <1>2, <1>4 DEF ExcessAt, Excess
  <2> HIDE DEF est, cap
  <2> QED  BY <2>1, <2>2, <2>3
<1> QED  BY <1>1, <1>2, <1>3, <1>4, <1>5, <1>6

\* Later in the same window only the elapsed time differs.
LEMMA LaterInWindow ==
    ASSUME RecoveryTypeOK, NEW t \in Nat, NEW k \in Nat, t >= Window,
           Elapsed(t, Window) + k < Window
    PROVE  /\ Current(t + k) = Current(t)
           /\ Previous(t + k) = Previous(t)
           /\ ExcessAt(t + k) = Excess(Current(t), Previous(t), Elapsed(t, Window) + k)
<1>1. /\ WindowIndex(t + k, Window) = WindowIndex(t, Window)
      /\ Elapsed(t + k, Window) = Elapsed(t, Window) + k
  BY SameWindow, RecoveryConstants
<1> QED
  BY <1>1 DEF ExcessAt, Current, Previous, WindowIndex

\* Where a chain of so many refusals stands: after one, the window's end has
\* been waited for or is not needed; after two, only the rounding is left; after
\* three, nothing.
RetriesLeft ==
    /\ now >= Window
    /\ tries <= 3
    /\ tries >= 1 => AdmissibleAt(now) \/ ~FallbackAt(now)
    /\ tries >= 2 => \/ AdmissibleAt(now)
                     \/ ~FallbackAt(now) /\ 2 * ExcessAt(now) <= Previous(now)
    /\ tries = 3 => AdmissibleAt(now)

\* The inductive invariant.
RecoveryInv == RecoveryTypeOK /\ RetriesLeft /\ NeverOversleeps

\* A refusal keeps the types.
LEMMA RefusalType ==
    ASSUME RecoveryInv, RateLimited
    PROVE  RecoveryTypeOK'
<1>1. /\ now \in Nat /\ now >= Window /\ Window \in Nat \ {0}
      /\ Elapsed(now, Window) \in 0 .. (Window - 1)
  BY CountersAt DEF RecoveryInv, RetriesLeft, RecoveryTypeOK
<1>2. PICK d \in BaseDelays(Current(now), Previous(now), now),
           j \in Jitters(Current(now), Previous(now)) :
              now' = now + d + j /\ slept' = [from |-> now, until |-> now + d]
  BY DEF RateLimited
<1>3. d \in Nat
  BY <1>1 DEF BaseDelays, RoundedDelays, ResetIn, Elapsed
<1>4. j \in Nat
  BY RecoveryConstants DEF Jitters
<1> QED
  BY <1>1, <1>2, <1>3, <1>4 DEF RecoveryInv, RecoveryTypeOK, RateLimited

\* A refusal leaves the counters alone: what the next attempt reads depends on
\* its time only.
LEMMA CountersKept ==
    ASSUME RateLimited
    PROVE  /\ Current(now)' = Current(now')
           /\ Previous(now)' = Previous(now')
           /\ AdmissibleAt(now)' <=> AdmissibleAt(now')
           /\ ExcessAt(now)' = ExcessAt(now')
           /\ FallbackAt(now)' <=> FallbackAt(now')
  BY DEF RateLimited, Current, Previous, CountAt, AdmissibleAt, ExcessAt, FallbackAt

\* The branch that waits for the window's end: no attempt would have succeeded
\* before, and this branch is not taken a second time.
LEMMA FallbackRefusal ==
    ASSUME RecoveryInv, RateLimited, FallbackAt(now)
    PROVE  /\ now' \in Nat /\ now' >= now
           /\ slept' = [from |-> now, until |-> now + ResetIn(now, Window)]
           /\ tries = 0
           /\ \A k \in 0 .. (ResetIn(now, Window) - 1) : ~AdmissibleAt(now + k)
           /\ AdmissibleAt(now') \/ ~FallbackAt(now')
<1> DEFINE c == Current(now)
           p == Previous(now)
           e == Elapsed(now, Window)
           r == ResetIn(now, Window)
<1>1. /\ now \in Nat /\ now >= Window /\ Window \in Nat \ {0} /\ RateLimit \in Nat \ {0}
      /\ WindowIndex(now, Window) \in Nat \ {0} /\ e \in 0 .. (Window - 1)
      /\ c \in Nat /\ p \in Nat
      /\ ExcessAt(now) \in Int /\ ExcessAt(now) >= 0
  BY CountersAt, RecoveryConstants DEF RecoveryInv, RetriesLeft, RecoveryTypeOK, RateLimited
<1>2. r \in Nat \ {0} /\ r = Window - e
  BY <1>1 DEF ResetIn
<1>3. PICK j \in Nat : now' = now + r + j /\ slept' = [from |-> now, until |-> now + r]
  BY RecoveryConstants DEF RateLimited, FallbackAt, BaseDelays, Jitters, ResetIn, Elapsed
<1>4. tries = 0
  BY DEF RecoveryInv, RetriesLeft, RateLimited, RecoveryTypeOK
<1>5. ASSUME NEW k \in 0 .. (r - 1) PROVE ~AdmissibleAt(now + k)
  <2>1. k \in Nat /\ e + k < Window  BY <1>1, <1>2
  <2>2. ExcessAt(now + k) = Excess(c, p, e + k)
    BY <1>1, <2>1, LaterInWindow DEF RecoveryInv
  <2>3. Excess(c, p, e + k) >= 0
    <3>1. CASE p = 0
      <4>1. Excess(c, p, e + k) = Excess(c, p, e)
        BY <3>1, <1>1, <2>1 DEF Excess
      <4> QED  BY <4>1, <1>1 DEF ExcessAt
    <3>2. CASE c >= RateLimit
      <4>1. c * Window >= RateLimit * Window /\ p * (Window - (e + k)) >= 0
        BY <3>2, <1>1, <2>1
      <4>2. c * Window \in Int /\ RateLimit * Window \in Int /\ p * (Window - (e + k)) \in Int
        BY <1>1, <2>1
      <4> QED  BY <4>1, <4>2 DEF Excess
    <3> QED  BY <3>1, <3>2, <1>1 DEF FallbackAt, Fallback
  <2> QED
    BY <2>1, <2>2, <2>3, <1>1, CountersAt DEF RecoveryInv
<1>6. AdmissibleAt(now') \/ ~FallbackAt(now')
  <2>1. now' \in Nat /\ now + r \in Nat /\ now + r <= now' /\ now' >= Window
    BY <1>1, <1>2, <1>3
  <2>2. WindowIndex(now + r, Window) = WindowIndex(now, Window) + 1
    BY <1>1, NextWindow
  <2>3. /\ WindowIndex(now', Window) \in Nat
        /\ WindowIndex(now + r, Window) <= WindowIndex(now', Window)
    BY <1>1, <2>1, WindowMonotone
  <2>4. Current(now') = 0
    BY <1>1, <2>2, <2>3 DEF Current, CountAt, WindowIndex
  <2>5. /\ Previous(now') \in Nat /\ Elapsed(now', Window) \in 0 .. (Window - 1)
        /\ ExcessAt(now') \in Int
        /\ AdmissibleAt(now') <=> ExcessAt(now') < 0
    BY <2>1, CountersAt DEF RecoveryInv
  <2>6. CASE Previous(now') = 0
    <3>1. ExcessAt(now')
            = 0 * Window + 0 * (Window - Elapsed(now', Window)) - RateLimit * Window
      BY <2>4, <2>6 DEF ExcessAt, Excess
    <3>2. RateLimit * Window > 0 /\ RateLimit * Window \in Int  BY <1>1
    <3>3. ExcessAt(now') = - (RateLimit * Window)
      BY <3>1, <3>2, <2>5, <1>1
    <3> QED  BY <3>2, <3>3, <2>5
  <2>7. CASE Previous(now') # 0
    BY <2>4, <2>5, <2>7, <1>1 DEF FallbackAt, Fallback
  <2> QED  BY <2>6, <2>7
<1> QED  BY <1>1, <1>2, <1>3, <1>4, <1>5, <1>6

\* The decay branch: the next attempt succeeds when the delay reaches the end of
\* the window; before, the estimate is at most half of prev / window above the limit.
LEMMA DecayRefusal ==
    ASSUME RecoveryInv, RateLimited, ~FallbackAt(now)
    PROVE  \E d \in Nat \ {0} :
             /\ now' = now + d /\ slept' = [from |-> now, until |-> now + d]
             /\ \A k \in 0 .. (d - 1) : ~AdmissibleAt(now + k)
             /\ \/ AdmissibleAt(now')
                \/ ~FallbackAt(now') /\ 2 * ExcessAt(now') <= Previous(now')
             /\ 2 * ExcessAt(now) <= Previous(now) => AdmissibleAt(now')
<1> DEFINE c == Current(now)
           p == Previous(now)
           e == Elapsed(now, Window)
<1>1. /\ now \in Nat /\ now >= Window /\ Window \in Nat \ {0} /\ RateLimit \in Nat \ {0}
      /\ WindowIndex(now, Window) \in Nat \ {0} /\ e \in 0 .. (Window - 1)
      /\ c \in Nat /\ p \in Nat
      /\ ExcessAt(now) \in Int /\ ExcessAt(now) >= 0
  BY CountersAt, RecoveryConstants DEF RecoveryInv, RetriesLeft, RecoveryTypeOK, RateLimited
<1>2. WaitNum(c, p, now) = Excess(c, p, e)
  BY <1>1 DEF WaitNum, Excess, Elapsed
<1>3. PICK d \in RoundedDelays(Excess(c, p, e), p) :
          now' = now + d /\ slept' = [from |-> now, until |-> now + d]
  BY <1>1, <1>2 DEF RateLimited, FallbackAt, BaseDelays, Jitters, RoundedDelays
<1>4. /\ d \in 1 .. (Window - e)
      /\ \A k \in 0 .. (d - 1) : Excess(c, p, e + k) >= 0
      /\ 2 * Excess(c, p, e + d) <= p
      /\ 2 * Excess(c, p, e) <= p => d = 1 /\ Excess(c, p, e + d) < 0
  BY <1>1, DecayDelay DEF ExcessAt, FallbackAt
<1>5. \A k \in 0 .. (d - 1) : ~AdmissibleAt(now + k)
  <2> SUFFICES ASSUME NEW k \in 0 .. (d - 1) PROVE ~AdmissibleAt(now + k)
    OBVIOUS
  <2>1. k \in Nat /\ e + k < Window /\ now + k \in Nat /\ now + k >= Window
    BY <1>1, <1>4
  <2>2. ExcessAt(now + k) = Excess(c, p, e + k)
    BY <1>1, <2>1, LaterInWindow DEF RecoveryInv
  <2>3. ExcessAt(now + k) >= 0 /\ ExcessAt(now + k) \in Int
    BY <2>1, <2>2, <1>4, CountersAt DEF RecoveryInv
  <2> QED  BY <2>1, <2>3, CountersAt DEF RecoveryInv
<1>6. CASE d < Window - e
  <2>1. d \in Nat /\ e + d < Window /\ now + d \in Nat /\ now + d >= Window
    BY <1>1, <1>4, <1>6
  <2>2. /\ Current(now + d) = c /\ Previous(now + d) = p
        /\ ExcessAt(now + d) = Excess(c, p, e + d)
    BY <1>1, <2>1, LaterInWindow DEF RecoveryInv
  <2>3. AdmissibleAt(now + d) <=> Excess(c, p, e + d) < 0
    BY <2>1, <2>2, CountersAt DEF RecoveryInv
  <2>4. ~FallbackAt(now + d)
    BY <2>2 DEF FallbackAt
  <2>5. 2 * ExcessAt(now) <= Previous(now) => AdmissibleAt(now + d)
    BY <1>4, <2>3 DEF ExcessAt
  <2> QED  BY <1>3, <1>4, <1>5, <2>1, <2>2, <2>4, <2>5
<1>7. CASE d = Window - e
  <2>1. /\ WindowIndex(now + d, Window) = WindowIndex(now, Window) + 1
        /\ Elapsed(now + d, Window) = 0
    BY <1>1, <1>7, NextWindow DEF ResetIn
  <2>2. d \in Nat \ {0} /\ now + d \in Nat /\ now + d >= Window
    BY <1>1, <1>4
  <2>3. Current(now + d) = 0 /\ Previous(now + d) = c
    BY <1>1, <2>1 DEF Current, Previous, CountAt, WindowIndex
  <2>4. ExcessAt(now + d) < 0
    <3>1. ExcessAt(now + d) = c * Window - RateLimit * Window
      BY <1>1, <2>1, <2>3 DEF ExcessAt, Excess
    <3>2. c < RateLimit  BY <1>1 DEF FallbackAt, Fallback
    <3>3. c * Window < RateLimit * Window  BY <1>1, <3>2
    <3>4. c * Window \in Int /\ RateLimit * Window \in Int  BY <1>1
    <3> QED  BY <3>1, <3>3, <3>4
  <2>5. AdmissibleAt(now + d)
    BY <2>2, <2>4, CountersAt DEF RecoveryInv
  <2> QED  BY <1>3, <1>5, <2>2, <2>5
<1> QED  BY <1>1, <1>4, <1>6, <1>7

\* Every step preserves the invariant.
LEMMA RecoveryStep ==
    ASSUME RecoveryInv, [RecoveryNext]_recoveryVars
    PROVE  RecoveryInv'
<1> RecoveryTypeOK /\ RetriesLeft /\ NeverOversleeps  BY DEF RecoveryInv
<1>1. CASE RateLimited
  <2>1. RecoveryTypeOK'  BY <1>1, RefusalType
  <2>2. ~AdmissibleAt(now) /\ tries' = tries + 1 /\ UNCHANGED <<old, recent>>
    BY <1>1 DEF RateLimited
  <2>3. tries \in 0 .. 2
    BY <2>2 DEF RetriesLeft, RecoveryTypeOK
  <2>4. now \in Nat /\ now >= Window  BY DEF RetriesLeft, RecoveryTypeOK
  <2>5. PICK d \in Nat \ {0} :
          /\ now' \in Nat /\ now' >= now
          /\ slept' = [from |-> now, until |-> now + d]
          /\ \A k \in 0 .. (d - 1) : ~AdmissibleAt(now + k)
    <3>1. CASE FallbackAt(now)
      <4>1. ResetIn(now, Window) \in Nat \ {0}
        BY <2>4, ResetPositive, RecoveryConstants
      <4> QED  BY <1>1, <3>1, <4>1, FallbackRefusal
    <3>2. CASE ~FallbackAt(now)
      <4>1. PICK d \in Nat \ {0} :
              /\ now' = now + d /\ slept' = [from |-> now, until |-> now + d]
              /\ \A k \in 0 .. (d - 1) : ~AdmissibleAt(now + k)
        BY <1>1, <3>2, DecayRefusal
      <4>2. now' \in Nat /\ now' >= now  BY <2>4, <4>1
      <4> QED  BY <4>1, <4>2
    <3> QED  BY <3>1, <3>2
  <2>6. NeverOversleeps'
    <3>1. \A t \in now .. (now + d - 1) : ~AdmissibleAt(t)
      <4> SUFFICES ASSUME NEW t \in now .. (now + d - 1) PROVE ~AdmissibleAt(t)
        OBVIOUS
      <4>1. t - now \in 0 .. (d - 1) /\ now + (t - now) = t  BY <2>4
      <4> QED  BY <4>1, <2>5
    <3>2. ASSUME NEW t PROVE AdmissibleAt(t)' <=> AdmissibleAt(t)
      BY <2>2 DEF AdmissibleAt, Current, Previous, CountAt
    <3>3. slept'.from = now /\ slept'.until = now + d
      BY <2>5
    <3>4. ASSUME NEW t \in slept'.from .. (slept'.until - 1)
          PROVE  ~AdmissibleAt(t)'
      <4>1. t \in now .. (now + d - 1)  BY <2>4, <3>3
      <4>2. ~AdmissibleAt(t)  BY <3>1, <4>1
      <4> QED  BY <3>2, <4>2
    <3> QED  BY <3>4 DEF NeverOversleeps
  <2>7. RetriesLeft'
    <3>1. now' >= Window  BY <2>4, <2>5, RecoveryConstants
    <3>2. CASE FallbackAt(now)
      <4>1. tries' = 1 /\ (AdmissibleAt(now') \/ ~FallbackAt(now'))
        BY <1>1, <2>2, <3>2, FallbackRefusal
      <4> QED  BY <4>1, <3>1, <1>1, CountersKept DEF RetriesLeft
    <3>3. CASE ~FallbackAt(now)
      <4>1. /\ \/ AdmissibleAt(now')
               \/ ~FallbackAt(now') /\ 2 * ExcessAt(now') <= Previous(now')
            /\ 2 * ExcessAt(now) <= Previous(now) => AdmissibleAt(now')
        BY <1>1, <3>3, DecayRefusal
      <4>2. tries' = 3 => AdmissibleAt(now')
        BY <4>1, <2>2, <2>3 DEF RetriesLeft
      <4> QED  BY <4>1, <4>2, <3>1, <1>1, <2>2, <2>3, CountersKept DEF RetriesLeft
    <3> QED  BY <3>2, <3>3
  <2> QED  BY <2>1, <2>6, <2>7 DEF RecoveryInv
<1>2. CASE Admitted \/ UNCHANGED recoveryVars
  <2>1. UNCHANGED <<now, old, recent, slept, tries>> /\ admitted' \in BOOLEAN
    BY <1>2 DEF Admitted, recoveryVars, RecoveryTypeOK
  <2> QED
    BY <2>1
       DEF RecoveryInv, RetriesLeft, RecoveryTypeOK, NeverOversleeps, AdmissibleAt, Current,
           Previous, CountAt, FallbackAt, ExcessAt
<1> QED  BY <1>1, <1>2 DEF RecoveryNext

\* The invariant holds in every reachable state.
LEMMA RecoveryInvHolds == RecoverySpec => []RecoveryInv
<1>1. RecoveryInit => RecoveryInv
  <2> SUFFICES ASSUME RecoveryInit PROVE RecoveryInv  OBVIOUS
  <2>1. RecoveryTypeOK /\ now >= Window
    <3>1. now \in Nat /\ now >= Window  BY RecoveryConstants DEF RecoveryInit
    <3>2. old \in Nat /\ recent \in Nat  BY RecoveryConstants DEF RecoveryInit
    <3> QED  BY <3>1, <3>2 DEF RecoveryInit, RecoveryTypeOK
  <2>2. RetriesLeft
    BY <2>1 DEF RecoveryInit, RetriesLeft
  <2>3. slept.from .. (slept.until - 1) = {}
    BY <2>1 DEF RecoveryInit, RecoveryTypeOK
  <2> QED  BY <2>1, <2>2, <2>3 DEF RecoveryInv, NeverOversleeps
<1>2. RecoveryInv /\ [RecoveryNext]_recoveryVars => RecoveryInv'
  BY RecoveryStep
<1> QED  BY <1>1, <1>2, PTL DEF RecoverySpec

\* A rate-limited drain never sleeps past a token: whatever the limit, the window
\* and the counters (above the limit too, after update() has lowered it), an
\* attempt at any millisecond before the computed delay has passed would have
\* been refused.
THEOREM DelaysNeverOversleep == RecoverySpec => []NeverOversleeps
<1>1. RecoveryInv => NeverOversleeps  BY DEF RecoveryInv
<1> QED  BY <1>1, RecoveryInvHolds, PTL

\* The retry chain is not a busy loop: whatever the limit, the window, the
\* counters and the jitter, at most three attempts are refused.
THEOREM ThreeRefusalsAtMost == RecoverySpec => []FewRetries
<1>1. RecoveryInv => FewRetries  BY DEF RecoveryInv, RetriesLeft, FewRetries
<1> QED  BY <1>1, RecoveryInvHolds, PTL
=============================================================================
