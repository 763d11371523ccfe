-------------------------- MODULE HeartbeatProofs --------------------------
(***************************************************************************)
(* Proofs about the heartbeat scheduler, for every set of tasks, every     *)
(* lease duration and resolution of the clock, and any number of runs and  *)
(* failures.  No assumption about time is made, but for LeasesAreKept.     *)
(***************************************************************************)
EXTENDS Heartbeat, TLAPS

\* The constants, and what is computed from them, are natural numbers.
LEMMA SmallFacts ==
    /\ NoTask \notin Tasks
    /\ Sec \in Nat \ {0}
    /\ Lease \in Nat
    /\ Interval \in Nat
    /\ Tolerated \in Nat
    /\ \A n \in NewLeases : n \in Nat
    /\ \A t \in Nat : Second(t) \in Nat
<1>1. Sec \in Nat \ {0} /\ Lease \in Nat /\ NewLeases \subseteq Nat \ {0} /\ NoTask \notin Tasks
    BY HeartbeatConstants
<1>2. Tolerated \in Nat
    BY Zenon, HeartbeatConstants
<1>3. Lease * Sec \in Nat
    BY <1>1
<1>4. Interval \in Nat
    BY <1>3 DEF Interval
<1>5. QED
    BY <1>1, <1>2, <1>4 DEF Second

-----------------------------------------------------------------------------
(***************************************************************************)
(* Types                                                                   *)
(***************************************************************************)

\* Adding a key to a dictionary, or overwriting it.
LEMMA WithType ==
    ASSUME NEW S, NEW D, NEW f \in [D -> S], NEW t, NEW v \in S
    PROVE  /\ With(f, t, v) \in [D \cup {t} -> S]
           /\ With(f, t, v)[t] = v
           /\ \A x \in D : x # t => With(f, t, v)[x] = f[x]
BY DEF With

\* Removing a key.
LEMMA WithoutType ==
    ASSUME NEW S, NEW D, NEW f \in [D -> S], NEW t
    PROVE  /\ Without(f, t) \in [D \ {t} -> S]
           /\ \A x \in D \ {t} : Without(f, t)[x] = f[x]
BY DEF Without

\* The empty dictionary.
LEMMA EmptyType ==
    ASSUME NEW S
    PROVE  << >> \in [DOMAIN << >> -> S] /\ DOMAIN << >> = {}
OBVIOUS

Entry == [gen : Nat, healthy : BOOLEAN]

\* A new scheduler has well-typed state.
LEMMA HeartbeatTypeInit == Init => TypeOK
<1> SUFFICES ASSUME Init PROVE TypeOK
    OBVIOUS
<1>1. leases \in [DOMAIN leases -> Nat] /\ DOMAIN leases = {}
    BY EmptyType DEF Init
<1>2. entries \in [DOMAIN entries -> Entry] /\ DOMAIN entries = {}
    BY EmptyType DEF Init
<1>3. stage \in [Tasks -> {"out", "admitted", "running", "exiting"}]
      /\ {t \in Tasks : stage[t] = "running"} = {}
    BY DEF Init
<1>4. QED
    BY <1>1, <1>2, <1>3, SmallFacts DEF Init, TypeOK, Entry

\* Every action keeps the types.
LEMMA HeartbeatTypeStep == TypeOK /\ [Next]_vars => TypeOK'
<1> SUFFICES ASSUME TypeOK, [Next]_vars PROVE TypeOK'
    OBVIOUS
<1> USE SmallFacts DEF TypeOK, schedVars
<1>1. ASSUME NEW t \in Tasks, Admit(t)
      PROVE  TypeOK'
  <2>1. Second(now) + duration \in Nat
      OBVIOUS
  <2>2. leases' \in [DOMAIN leases \cup {t} -> Nat]
      BY <1>1, <2>1, WithType DEF Admit
  <2>3. QED
      BY <1>1, <2>2 DEF Admit
<1>2. ASSUME NEW t \in Tasks, Enter(t)
      PROVE  TypeOK'
  <2>1. [gen |-> 0, healthy |-> TRUE] \in Entry
      BY DEF Entry
  <2>2. entries' \in [DOMAIN entries \cup {t} -> Entry]
      BY <1>2, <2>1, WithType DEF Enter, Entry
  <2>3. heap' \subseteq [due : Nat, task : Tasks, gen : Nat]
      BY <1>2 DEF Enter
  <2>4. DOMAIN entries' = {u \in Tasks : stage'[u] = "running"}
      BY <1>2, <2>2 DEF Enter
  <2>5. shutdown' \in BOOLEAN
      BY <1>2 DEF Enter
  <2>6. QED
      BY <1>2, <2>2, <2>3, <2>4, <2>5 DEF Enter, Entry
<1>3. ASSUME NEW t \in Tasks, Deregister(t)
      PROVE  TypeOK'
  <2>1. entries' \in [DOMAIN entries \ {t} -> Entry]
      BY <1>3, WithoutType DEF Deregister, Entry
  <2>2. DOMAIN entries' = {u \in Tasks : stage'[u] = "running"}
      BY <1>3, <2>1 DEF Deregister
  <2>3. QED
      BY <1>3, <2>1, <2>2 DEF Deregister, Entry
<1>4. ASSUME NEW t \in Tasks, Release(t)
      PROVE  TypeOK'
  <2>1. leases' \in [DOMAIN leases \ {t} -> Nat]
      BY <1>4, WithoutType DEF Release
  <2>2. QED
      BY <1>4, <2>1 DEF Release
<1>5. CASE Pop
    BY <1>5 DEF Pop, Due
<1>6. CASE Renew
    BY <1>6 DEF Renew
<1>7. CASE RenewUnknown \/ RenewRaises
  <2>1. faults' \in Nat /\ current \in Tasks /\ Escapes
      BY <1>7 DEF RenewUnknown, RenewRaises
  <2>2. dropped' \subseteq Tasks /\ ended' = TRUE
      BY <2>1 DEF Escapes
  <2>3. QED
      BY <2>1, <2>2 DEF Escapes
<1>8. CASE RenewFails
  <2>1. CASE "kill" \in OnFailure /\ thread' = "none" /\ current' = NoTask
             /\ entries' = << >> /\ heap' = {} /\ shutdown' = FALSE /\ dropped' = {}
             /\ stage' = [t \in Tasks |-> "out"]
    <3>1. entries' \in [DOMAIN entries' -> Entry] /\ DOMAIN entries' = {}
        BY <2>1, EmptyType
    <3>2. {u \in Tasks : stage'[u] = "running"} = {}
        BY <2>1
    <3>3. faults' \in Nat /\ UNCHANGED <<now, duration, leases, ended, runs>>
        BY <1>8 DEF RenewFails
    <3>4. shutdown' \in BOOLEAN /\ stage' \in [Tasks -> {"out", "admitted", "running", "exiting"}]
        BY <2>1
    <3>5. thread' = "none" /\ current' = NoTask /\ heap' = {} /\ dropped' = {}
        BY <2>1
    <3>6. QED
        BY <3>1, <3>2, <3>3, <3>4, <3>5 DEF Entry
  <2>2. CASE thread' = "failed" /\ UNCHANGED <<current, entries, heap, shutdown, dropped, stage>>
      BY <1>8, <2>2 DEF RenewFails
  <2>3. QED
      BY <1>8, <2>1, <2>2 DEF RenewFails
<1>9. CASE Reschedule
  <2>1. CASE current \in DOMAIN entries
    <3> DEFINE e == [gen |-> entries[current].gen + 1, healthy |-> thread = "renewed"]
    <3>1. entries[current].gen \in Nat
        BY <2>1
    <3>2. e \in Entry
        BY <3>1 DEF Entry
    <3>3. entries' = [entries EXCEPT ![current] = e]
        BY <1>9, <2>1 DEF Reschedule
    <3> HIDE DEF e
    <3>4. entries' \in [DOMAIN entries' -> Entry] /\ DOMAIN entries' = DOMAIN entries
        BY <3>2, <3>3 DEF Entry
    <3>5. heap' \subseteq [due : Nat, task : Tasks, gen : Nat]
        BY <1>9, <2>1, <3>1 DEF Reschedule
    <3>6. QED
        BY <1>9, <3>4, <3>5 DEF Reschedule, Entry
  <2>2. CASE current \notin DOMAIN entries
      BY <1>9, <2>2 DEF Reschedule
  <2>3. QED
      BY <2>1, <2>2
<1>10. CASE Shutdown \/ ThreadStops
    BY <1>10 DEF Shutdown, ThreadStops
<1>11. CASE Reclaim
    BY <1>11 DEF Reclaim
<1>12. CASE ChangeLease
    BY <1>12 DEF ChangeLease
<1>13. CASE Tick
    BY <1>13 DEF Tick
<1>14. CASE UNCHANGED vars
    BY <1>14 DEF vars
<1>15. QED
    BY <1>1, <1>2, <1>3, <1>4, <1>5, <1>6, <1>7, <1>8, <1>9, <1>10, <1>11, <1>12, <1>13, <1>14
       DEF Next, TaskStep, ThreadStep

\* Type correctness; in particular the registered tasks are exactly the running
\* ones, and a renewal is under way exactly while the thread is out of its lock.
THEOREM HeartbeatTypeCorrect == Spec => []TypeOK
<1>1. Init => TypeOK
    BY HeartbeatTypeInit
<1>2. TypeOK /\ [Next]_vars => TypeOK'
    BY HeartbeatTypeStep
<1>3. QED
    BY <1>1, <1>2, PTL DEF Spec

-----------------------------------------------------------------------------
(***************************************************************************)
(* EntriesScheduled is inductive, given the types                          *)
(***************************************************************************)

\* Every action keeps every registered task on the heap, or current, or dropped.
LEMMA ScheduledStep == TypeOK /\ EntriesScheduled /\ [Next]_vars => EntriesScheduled'
<1> SUFFICES ASSUME TypeOK, EntriesScheduled, [Next]_vars,
                    NEW t \in DOMAIN entries' \ dropped', current' # t
             PROVE  \E h \in heap' : h.task = t /\ h.gen = entries'[t].gen
    BY DEF EntriesScheduled
<1>0. TypeOK' /\ t \in Tasks
    BY HeartbeatTypeStep DEF TypeOK
<1> USE SmallFacts DEF schedVars
<1> DEFINE Scheduled == \E h \in heap : h.task = t /\ h.gen = entries[t].gen
<1>a. t \in DOMAIN entries \ dropped /\ current # t => Scheduled
    BY DEF EntriesScheduled
<1>2. ASSUME NEW u \in Tasks, Enter(u)
      PROVE  \E h \in heap' : h.task = t /\ h.gen = entries'[t].gen
  <2>1. CASE t = u
    <3>1. entries'[t].gen = 0
        BY <1>2, <2>1 DEF Enter, With
    <3>2. [due |-> now + Interval, task |-> t, gen |-> 0] \in heap'
        BY <1>2, <2>1 DEF Enter
    <3>3. QED
        BY <3>1, <3>2
  <2>2. CASE t # u
    <3>1. t \in DOMAIN entries /\ entries'[t] = entries[t]
        BY <1>2, <2>2 DEF Enter, With
    <3>2. t \notin dropped /\ current' = current /\ heap \subseteq heap'
        BY <1>2, <2>2 DEF Enter
    <3>3. QED
        BY <1>a, <3>1, <3>2
  <2>3. QED
      BY <2>1, <2>2
<1>3. ASSUME NEW u \in Tasks, Deregister(u)
      PROVE  \E h \in heap' : h.task = t /\ h.gen = entries'[t].gen
  <2>1. t \in DOMAIN entries /\ entries'[t] = entries[t]
      BY <1>3 DEF Deregister, Without
  <2>2. QED
      BY <1>3, <1>a, <2>1 DEF Deregister
<1>5. CASE Pop
  <2>1. PICK h \in Due :
            /\ heap' = heap \ {h}
            /\ IF h.task \in DOMAIN entries /\ entries[h.task].gen = h.gen
               THEN thread' = "renewing" /\ current' = h.task
               ELSE UNCHANGED <<thread, current>>
      BY <1>5 DEF Pop
  <2>2. dropped' = dropped /\ entries' = entries /\ current # t
      BY <1>5, <1>0 DEF Pop, TypeOK
  <2>3. PICK g \in heap : g.task = t /\ g.gen = entries[t].gen
      BY <2>2, <1>a
  <2>4. g # h
      BY <2>1, <2>2, <2>3
  <2>5. QED
      BY <2>1, <2>2, <2>3, <2>4
<1>7. CASE RenewUnknown \/ RenewRaises
  <2>1. entries' = entries /\ heap' = heap /\ dropped' = dropped \cup {current}
      BY <1>7 DEF RenewUnknown, RenewRaises, Escapes
  <2>2. QED
      BY <1>a, <2>1
<1>8. CASE RenewFails
  <2>1. CASE entries' = << >>
      BY <2>1, EmptyType
  <2>2. CASE UNCHANGED <<current, entries, heap, dropped>>
      BY <1>8, <1>a, <2>2 DEF RenewFails
  <2>3. QED
      BY <1>8, <2>1, <2>2 DEF RenewFails
<1>9. CASE Reschedule
  <2>1. dropped' = dropped
      BY <1>9 DEF Reschedule
  <2>2. CASE t = current
    <3>1. current \in DOMAIN entries
        BY <1>9, <2>2 DEF Reschedule
    <3>2. entries'[t].gen = entries[t].gen + 1
        BY <1>9, <2>2, <3>1 DEF Reschedule
    <3>3. [due |-> now + Interval, task |-> t, gen |-> entries[t].gen + 1] \in heap'
        BY <1>9, <2>2, <3>1 DEF Reschedule
    <3>4. QED
        BY <3>2, <3>3
  <2>3. CASE t # current
    <3>1. t \in DOMAIN entries /\ entries'[t] = entries[t] /\ heap \subseteq heap'
        BY <1>9, <2>3 DEF Reschedule, TypeOK
    <3>2. QED
        BY <1>a, <2>1, <2>3, <3>1
  <2>4. QED
      BY <2>2, <2>3
<1>10. CASE UNCHANGED <<entries, heap, current, dropped>>
    BY <1>10, <1>a
<1>11. QED
    BY <1>2, <1>3, <1>5, <1>7, <1>8, <1>9, <1>10
       DEF Next, TaskStep, ThreadStep, Admit, Release, Renew, Shutdown, ThreadStops, Reclaim,
           ChangeLease, Tick, vars

\* Lazy deletion loses nobody: a registered task is being renewed or will be, with
\* no assumption about time, failures or restarts, unless its own renewal raised
\* the exception that ended the thread.
THEOREM NobodyIsForgotten == Spec => []EntriesScheduled
<1>1. Init => EntriesScheduled
  <2>1. DOMAIN << >> = {}
      BY EmptyType
  <2>2. QED
      BY <2>1 DEF Init, EntriesScheduled
<1>2. TypeOK /\ EntriesScheduled /\ [Next]_vars => EntriesScheduled'
    BY ScheduledStep
<1>3. QED
    BY <1>1, <1>2, HeartbeatTypeCorrect, PTL DEF Spec

-----------------------------------------------------------------------------
(***************************************************************************)
(* LeaseKept needs time.  Renewals are timely, updates do not shorten the  *)
(* lease (the interval is computed once, from the first duration), and no  *)
(* more than one failure is to be tolerated: a lease is two intervals      *)
(* long, which leaves time for one renewal to fail and not for two.        *)
(***************************************************************************)

LongEnough == Timely /\ Tolerated <= 1 /\ \A n \in NewLeases : Lease <= n

\* A lease that is live at time `at`.
Covers(L, t, at) == t \in DOMAIN L /\ Second(at) <= L[t]

\* The time from a task's admission or last renewal to the renewal after as many
\* failed ones as are tolerated.
Reach == (1 + Tolerated) * Interval

\* The part of it that further failures may still take.
Spare == IF faults < Tolerated THEN Interval ELSE 0

\* Time is monotone, and an interval fits in the lease as often as it has to.
LEMMA SecondMonotone ==
    ASSUME NEW a \in Nat, NEW b \in Nat, a <= b
    PROVE  Second(a) <= Second(b)
BY SmallFacts DEF Second

\* A lease leaves time for two intervals.
LEMMA ReachFits ==
    ASSUME Tolerated <= 1, NEW a \in Nat
    PROVE  Reach \in Nat /\ Second(a + Reach) <= Second(a) + Lease
<1> USE SmallFacts
<1>1. Lease * Sec \in Nat
    OBVIOUS
<1>2. Interval + Interval <= Lease * Sec
    BY <1>1 DEF Interval
<1>3. Tolerated = 0 \/ Tolerated = 1
    OBVIOUS
<1>4. Reach \in Nat /\ Reach <= Interval + Interval
    BY <1>3 DEF Reach
<1>5. Second(a + Reach) <= Second(a + Lease * Sec)
    BY <1>1, <1>2, <1>4, SecondMonotone
<1>6. Second(a + Lease * Sec) = Second(a) + Lease
    BY DEF Second
<1>7. QED
    BY <1>4, <1>5, <1>6

\* An interval and what may still fail are within reach.
LEMMA SpareFits ==
    ASSUME TypeOK, Tolerated <= 1
    PROVE  Spare \in Nat /\ Interval + Spare <= Reach /\ Spare <= Reach
<1>1. Tolerated = 0 \/ Tolerated = 1
    BY SmallFacts
<1>2. QED
    BY <1>1, SmallFacts DEF Spare, Reach, TypeOK

\* A lease that is live at some time is live before.
LEMMA CoversBefore ==
    ASSUME NEW D, NEW L \in [D -> Nat], NEW t, NEW a \in Nat, NEW b \in Nat, b <= a,
           Covers(L, t, a)
    PROVE  Covers(L, t, b)
<1>1. Second(b) <= Second(a) /\ Second(a) \in Nat /\ Second(b) \in Nat
    BY SecondMonotone, SmallFacts
<1>2. L[t] \in Nat
    BY DEF Covers
<1>3. QED
    BY <1>1, <1>2 DEF Covers

(***************************************************************************)
(* The inductive invariant                                                 *)
(***************************************************************************)

\* As long as no thread has ended nobody's renewal is late, and none is ever
\* scheduled further ahead than one interval.
RenewalsAhead ==
    /\ thread = "none" => heap = {}
    /\ ~ended => thread # "dead" /\ \A h \in heap : now <= h.due
    /\ \A h \in heap : h.due <= now + Interval

LongLeases == Lease <= duration

\* A task that has not started holds a lease long enough for its first renewal
\* and for the failures that are tolerated.
AdmittedCovered ==
    \A t \in Tasks : stage[t] = "admitted" => Covers(leases, t, now + Reach)

\* The running tasks whose lease was not reported to be in danger once too often.
Kept(t) == t \in DOMAIN entries /\ (entries[t].healthy \/ faults <= Tolerated)

KeptLeases == \A t \in Tasks : Kept(t) => t \in DOMAIN leases

\* Every scheduled renewal that would be carried out comes in time, with the
\* failures that are still to be tolerated.  (A task registered anew may find
\* renewals of its former run with its generation: they come earlier.)
ScheduledCovered ==
    \A t \in Tasks : Kept(t) =>
        \A h \in heap : h.task = t /\ h.gen = entries[t].gen => Covers(leases, t, h.due + Spare)

\* The task whose renewal is under way.  Its entry may be younger than the renewal.
CurrentCovered ==
    /\ thread = "renewing" /\ Kept(current) => Covers(leases, current, now + Spare)
    /\ thread = "renewed" /\ current \in DOMAIN entries => Covers(leases, current, now + Reach)
    /\ thread = "failed" /\ Kept(current) =>
           /\ Covers(leases, current, now)
           /\ faults <= Tolerated => Covers(leases, current, now + Interval + Spare)

KeepInv ==
    /\ RenewalsAhead /\ LongLeases /\ AdmittedCovered
    /\ ~ended => KeptLeases /\ ScheduledCovered /\ CurrentCovered

\* The invariant holds for a new scheduler.
LEMMA KeepInit == LongEnough /\ Init => KeepInv
<1> SUFFICES ASSUME LongEnough, Init PROVE KeepInv
    OBVIOUS
<1>1. DOMAIN entries = {}
    BY EmptyType DEF Init
<1>2. KeptLeases /\ ScheduledCovered
    BY <1>1 DEF KeptLeases, ScheduledCovered, Kept
<1>3. CurrentCovered /\ AdmittedCovered
    BY DEF Init, CurrentCovered, AdmittedCovered
<1>4. RenewalsAhead /\ LongLeases
    BY SmallFacts DEF Init, RenewalsAhead, LongLeases
<1>5. QED
    BY <1>2, <1>3, <1>4 DEF KeepInv

\* Every step keeps the heap ahead of the clock and within an interval of it.
LEMMA AheadStep ==
    ASSUME LongEnough, TypeOK, KeepInv, [Next]_vars
    PROVE  RenewalsAhead' /\ LongLeases'
<1> USE SmallFacts DEF schedVars, TypeOK
<1>1. RenewalsAhead /\ LongLeases
    BY DEF KeepInv
<1>2. LongLeases'
  <2>1. duration' = duration \/ duration' \in NewLeases
      BY DEF Next, TaskStep, ThreadStep, Admit, Enter, Deregister, Release, Pop, Renew,
             RenewUnknown, RenewRaises, Escapes, RenewFails, Reschedule, ThreadStops, Shutdown, Reclaim, ChangeLease,
             Tick, vars
  <2>2. QED
      BY <1>1, <2>1 DEF LongLeases, LongEnough
<1>3. RenewalsAhead'
  <2> USE <1>1 DEF RenewalsAhead
  <2>1. CASE UNCHANGED <<now, heap, thread, ended>>
      BY <2>1
  <2>2. ASSUME NEW u \in Tasks, Enter(u)
        PROVE  RenewalsAhead'
      BY <2>2 DEF Enter
  <2>3. CASE Pop
      BY <2>3 DEF Pop
  <2>4. CASE Renew \/ RenewUnknown \/ RenewRaises \/ ThreadStops
      BY <2>4 DEF Renew, RenewUnknown, RenewRaises, Escapes, ThreadStops
  <2>5. CASE RenewFails
      BY <2>5 DEF RenewFails
  <2>6. CASE Reschedule
      BY <2>6 DEF Reschedule
  <2>7. CASE Tick
    <3>1. thread \notin {"renewing", "renewed", "failed"}
          /\ (thread = "idle" => \A h \in heap : h.due > now)
        BY <2>7 DEF Tick, Permitted, LongEnough
    <3>2. QED
        BY <2>7, <3>1 DEF Tick
  <2>8. QED
      BY <2>1, <2>2, <2>3, <2>4, <2>5, <2>6, <2>7
         DEF Next, TaskStep, ThreadStep, Admit, Deregister, Release, Shutdown, Reclaim,
             ChangeLease, vars
<1>4. QED
    BY <1>2, <1>3

\* Reclaiming keeps a lease that is live now, or later.
LEMMA ReclaimKeeps ==
    ASSUME TypeOK, Reclaim, NEW t, NEW a \in Nat, now <= a, Covers(leases, t, a)
    PROVE  Covers(leases', t, a)
<1>1. Covers(leases, t, now)
    BY CoversBefore DEF TypeOK
<1>2. QED
    BY <1>1 DEF Covers, Reclaim

\* A lease written now lasts.
LEMMA NewLeaseLasts ==
    ASSUME LongEnough, TypeOK, LongLeases
    PROVE  /\ Second(now) + duration \in Nat
           /\ Second(now + Reach) <= Second(now) + duration
BY SmallFacts, ReachFits DEF TypeOK, LongLeases, LongEnough

\* Every step leaves an admitted task the time it needs to be registered.
LEMMA AdmittedStep ==
    ASSUME LongEnough, TypeOK, KeepInv, [Next]_vars
    PROVE  AdmittedCovered'
<1> USE SmallFacts DEF schedVars
<1> SUFFICES ASSUME NEW t \in Tasks, stage'[t] = "admitted"
             PROVE  Covers(leases', t, now' + Reach)
    BY DEF AdmittedCovered, Reach
<1>0. /\ stage[t] = "admitted" => Covers(leases, t, now + Reach)
      /\ Reach \in Nat /\ now \in Nat /\ leases \in [DOMAIN leases -> Nat]
    BY ReachFits DEF KeepInv, AdmittedCovered, LongEnough, TypeOK
<1>1. /\ Second(now) + duration \in Nat
      /\ Second(now + Reach) <= Second(now) + duration
    BY NewLeaseLasts DEF KeepInv
<1>2. ASSUME NEW u \in Tasks, Admit(u)
      PROVE  Covers(leases', t, now' + Reach)
  <2>1. CASE t = u
      BY <1>1, <1>2, <2>1 DEF Admit, With, Covers
  <2>2. CASE t # u
    <3>1. stage[t] = "admitted"
        BY <1>2, <2>2 DEF Admit, TypeOK
    <3>2. QED
        BY <1>0, <1>2, <2>2, <3>1 DEF Admit, With, Covers
  <2>3. QED
      BY <2>1, <2>2
<1>3. ASSUME NEW u \in Tasks, Release(u)
      PROVE  Covers(leases', t, now' + Reach)
  <2>1. stage[t] = "admitted" /\ t # u
      BY <1>3 DEF Release, TypeOK
  <2>2. QED
      BY <1>0, <1>3, <2>1 DEF Release, Without, Covers
<1>4. CASE Renew
  <2>1. stage[t] = "admitted" /\ Covers(leases, t, now + Reach) /\ now' = now
      BY <1>0, <1>4 DEF Renew
  <2>2. CASE t = current
      BY <1>1, <1>4, <2>1, <2>2 DEF Renew, Covers, TypeOK
  <2>3. CASE t # current
      BY <1>4, <2>1, <2>3 DEF Renew, Covers, TypeOK
  <2>4. QED
      BY <2>2, <2>3
<1>5. CASE Reclaim
    BY <1>0, <1>5, ReclaimKeeps DEF Reclaim
<1>6. CASE RenewFails
    BY <1>0, <1>6 DEF RenewFails
<1>7. CASE Tick
  <2>1. stage[t] = "admitted" /\ t \in DOMAIN leases /\ now' = now + 1 /\ leases' = leases
      BY <1>0, <1>7 DEF Tick, Covers
  <2>2. Second(now + 1 + Reach) <= leases[t]
      BY <1>7, <2>1 DEF Tick, Permitted, LongEnough, Reach
  <2>3. QED
      BY <2>1, <2>2 DEF Covers
<1>8. CASE UNCHANGED <<now, leases>> /\ (stage[t] = "admitted")
    BY <1>0, <1>8
<1>9. ASSUME NEW u \in Tasks, Enter(u) \/ Deregister(u)
      PROVE  UNCHANGED <<now, leases>> /\ (stage[t] = "admitted")
    BY <1>9 DEF Enter, Deregister, TypeOK
<1>10. QED
    BY <1>2, <1>3, <1>4, <1>5, <1>6, <1>7, <1>8, <1>9
       DEF Next, TaskStep, ThreadStep, Pop, RenewUnknown, RenewRaises, Escapes, Reschedule,
           ThreadStops, Shutdown, ChangeLease, vars

\* The main step: no running task loses its lease unnoticed.
LEMMA KeptStep ==
    ASSUME LongEnough, TypeOK, TypeOK', EntriesScheduled, KeepInv, [Next]_vars, ~ended'
    PROVE  KeptLeases' /\ ScheduledCovered' /\ CurrentCovered'
<1> USE SmallFacts DEF schedVars
<1> DEFINE Goal == KeptLeases' /\ ScheduledCovered' /\ CurrentCovered'
<1>0. /\ ~ended
      /\ KeptLeases /\ ScheduledCovered /\ CurrentCovered /\ RenewalsAhead /\ AdmittedCovered
  <2>1. ~ended
      BY DEF Next, TaskStep, ThreadStep, Admit, Enter, Deregister, Release, Pop, Renew,
             RenewUnknown, RenewRaises, Escapes, RenewFails, Reschedule, ThreadStops, Shutdown, Reclaim, ChangeLease,
             Tick, vars
  <2>2. QED
      BY <2>1 DEF KeepInv
<1>1. /\ now \in Nat /\ leases \in [DOMAIN leases -> Nat] /\ faults \in Nat
      /\ Reach \in Nat /\ Spare \in Nat /\ Interval + Spare <= Reach /\ Spare <= Reach
      /\ \A h \in heap : h.due \in Nat /\ now <= h.due /\ h.due <= now + Interval
      /\ DOMAIN entries = {t \in Tasks : stage[t] = "running"}
    BY <1>0, ReachFits, SpareFits DEF LongEnough, TypeOK, RenewalsAhead
<1>2. /\ Second(now) + duration \in Nat
      /\ Second(now + Reach) <= Second(now) + duration
    BY NewLeaseLasts DEF KeepInv
\* Steps that leave the leases and entries of running tasks and the heap alone.
<1>3. ASSUME UNCHANGED <<entries, thread, current, heap, faults>>, now' = now,
             \A t \in DOMAIN entries : t \in DOMAIN leases =>
                 t \in DOMAIN leases' /\ leases'[t] = leases[t]
      PROVE  Goal
  <2>1. \A t, a : t \in DOMAIN entries /\ Covers(leases, t, a) => Covers(leases', t, a)
      BY <1>3 DEF Covers
  <2>2. \A t : Kept(t)' <=> Kept(t)
      BY <1>3 DEF Kept
  <2>3. Spare' = Spare
      BY <1>3 DEF Spare
  <2>4. KeptLeases'
      BY <1>0, <1>3, <2>2 DEF KeptLeases, Kept
  <2>5. ScheduledCovered'
      BY <1>0, <1>3, <2>1, <2>2, <2>3 DEF ScheduledCovered, Kept
  <2>6. CurrentCovered'
      BY <1>0, <1>3, <2>1, <2>2, <2>3 DEF CurrentCovered, Kept, Reach
  <2>7. QED
      BY <2>4, <2>5, <2>6
<1>4. ASSUME NEW u \in Tasks, Admit(u)
      PROVE  Goal
  <2>1. u \notin DOMAIN entries
      BY <1>1, <1>4 DEF Admit
  <2>2. QED
      BY <1>3, <1>4, <2>1 DEF Admit, With
<1>5. ASSUME NEW u \in Tasks, Release(u)
      PROVE  Goal
  <2>1. u \notin DOMAIN entries
      BY <1>1, <1>5 DEF Release
  <2>2. QED
      BY <1>3, <1>5, <2>1 DEF Release, Without
<1>6. CASE Shutdown \/ ChangeLease \/ UNCHANGED vars
    BY <1>3, <1>6 DEF Shutdown, ChangeLease, vars
<1>7. ASSUME NEW u \in Tasks, Enter(u)
      PROVE  Goal
  <2>1. /\ leases' = leases /\ now' = now /\ faults' = faults /\ current' = current
        /\ thread \in {"renewing", "renewed", "failed"} \/ thread' = "idle"
        /\ thread \in {"renewing", "renewed", "failed"} => thread' = thread
        /\ heap' = heap \cup {[due |-> now + Interval, task |-> u, gen |-> 0]}
      BY <1>0, <1>7 DEF Enter, TypeOK, RenewalsAhead
  <2>2. Covers(leases, u, now + Reach)
      BY <1>0, <1>7 DEF Enter, AdmittedCovered
  <2>3. /\ DOMAIN entries' = DOMAIN entries \cup {u}
        /\ \A t \in DOMAIN entries : t # u => entries'[t] = entries[t]
      BY <1>7 DEF Enter, With
  <2>4. \A t : Kept(t)' => t = u \/ Kept(t)
      BY <2>1, <2>3 DEF Kept
  <2>5. Spare' = Spare
      BY <2>1 DEF Spare
  <2>6. Covers(leases, u, now + Spare) /\ Covers(leases, u, now)
        /\ Covers(leases, u, now + Interval + Spare)
      BY <1>1, <2>2, CoversBefore
  <2>7. KeptLeases'
      BY <1>0, <2>1, <2>2, <2>4 DEF KeptLeases, Covers
  <2>8. ScheduledCovered'
    <3> SUFFICES ASSUME NEW t \in Tasks, Kept(t)', NEW h \in heap', h.task = t,
                        h.gen = entries'[t].gen
                 PROVE  Covers(leases, t, h.due + Spare)
        BY <2>1, <2>5 DEF ScheduledCovered
    <3>1. CASE t = u
      <4>1. h.due \in Nat /\ h.due <= now + Interval
          BY <1>1, <2>1
      <4>2. QED
          BY <1>1, <2>2, <3>1, <4>1, CoversBefore
    <3>2. CASE t # u
      <4>1. h \in heap /\ Kept(t) /\ entries'[t] = entries[t]
          BY <2>1, <2>3, <2>4, <3>2 DEF Kept
      <4>2. QED
          BY <1>0, <4>1 DEF ScheduledCovered
    <3>3. QED
        BY <3>1, <3>2
  <2>9. CurrentCovered'
    <3>1. CASE current = u
        BY <2>1, <2>2, <2>5, <2>6, <3>1 DEF CurrentCovered, Reach
    <3>2. CASE current # u
      <4>1. Kept(current)' => Kept(current)
          BY <2>1, <2>3, <3>2 DEF Kept
      <4>2. current \in DOMAIN entries' => current \in DOMAIN entries
          BY <2>3, <3>2
      <4>3. QED
          BY <1>0, <2>1, <2>5, <4>1, <4>2 DEF CurrentCovered, Reach
    <3>3. QED
        BY <3>1, <3>2
  <2>10. QED
      BY <2>7, <2>8, <2>9
<1>8. ASSUME NEW u \in Tasks, Deregister(u)
      PROVE  Goal
  <2>1. /\ UNCHANGED <<now, leases, heap, thread, current, faults>>
        /\ DOMAIN entries' \subseteq DOMAIN entries
        /\ \A t \in DOMAIN entries' : entries'[t] = entries[t]
      BY <1>8 DEF Deregister, Without
  <2>2. \A t : Kept(t)' => Kept(t)
      BY <2>1 DEF Kept
  <2>3. Spare' = Spare
      BY <2>1 DEF Spare
  <2>4. KeptLeases'
      BY <1>0, <2>1, <2>2 DEF KeptLeases
  <2>5. ScheduledCovered'
      BY <1>0, <2>1, <2>2, <2>3 DEF ScheduledCovered, Kept
  <2>6. CurrentCovered'
      BY <1>0, <2>1, <2>2, <2>3 DEF CurrentCovered, Reach
  <2>7. QED
      BY <2>4, <2>5, <2>6
<1>9. CASE Pop
  <2>1. PICK h \in Due :
            /\ heap' = heap \ {h}
            /\ IF h.task \in DOMAIN entries /\ entries[h.task].gen = h.gen
               THEN thread' = "renewing" /\ current' = h.task
               ELSE UNCHANGED <<thread, current>>
      BY <1>9 DEF Pop
  <2>2. UNCHANGED <<now, leases, entries, faults>> /\ thread = "idle"
      BY <1>9 DEF Pop
  <2>3. h \in heap /\ h.due = now /\ h.task \in Tasks
    <3>1. h \in heap /\ h.due <= now
        BY DEF Due
    <3>2. h.due \in Nat /\ now <= h.due /\ now \in Nat
        BY <1>1, <3>1
    <3>3. h.task \in Tasks
        BY <3>1 DEF TypeOK
    <3>4. QED
        BY <3>1, <3>2, <3>3
  <2>4. (\A t : Kept(t)' <=> Kept(t)) /\ Spare' = Spare
      BY <2>2 DEF Kept, Spare
  <2>5. KeptLeases'
      BY <1>0, <2>2, <2>4 DEF KeptLeases
  <2>6. ScheduledCovered'
      BY <1>0, <2>1, <2>2, <2>4 DEF ScheduledCovered
  <2>7. CurrentCovered'
    <3>1. CASE h.task \in DOMAIN entries /\ entries[h.task].gen = h.gen
      <4>1. Kept(h.task) => Covers(leases, h.task, now + Spare)
          BY <1>0, <2>3, <3>1 DEF ScheduledCovered
      <4>2. QED
          BY <2>1, <2>2, <2>4, <3>1, <4>1 DEF CurrentCovered
    <3>2. CASE ~(h.task \in DOMAIN entries /\ entries[h.task].gen = h.gen)
        BY <2>1, <2>2, <3>2 DEF CurrentCovered
    <3>3. QED
        BY <3>1, <3>2
  <2>8. QED
      BY <2>5, <2>6, <2>7
<1>10. CASE Renew
  <2>1. /\ UNCHANGED <<now, entries, heap, current, faults>> /\ thread' = "renewed"
        /\ current \in DOMAIN leases /\ DOMAIN leases' = DOMAIN leases
        /\ leases'[current] = Second(now) + duration
        /\ \A t \in DOMAIN leases : t # current => leases'[t] = leases[t]
      BY <1>10, <1>1 DEF Renew
  <2>2. (\A t : Kept(t)' <=> Kept(t)) /\ Spare' = Spare
      BY <2>1 DEF Kept, Spare
  <2>3. Covers(leases', current, now + Reach)
      BY <1>2, <2>1 DEF Covers
  <2>4. KeptLeases'
      BY <1>0, <2>1, <2>2 DEF KeptLeases
  <2>5. ScheduledCovered'
    <3> SUFFICES ASSUME NEW t \in Tasks, Kept(t), NEW h \in heap, h.task = t,
                        h.gen = entries[t].gen
                 PROVE  Covers(leases', t, h.due + Spare)
        BY <2>1, <2>2 DEF ScheduledCovered
    <3>1. CASE t = current
      <4>1. leases' \in [DOMAIN leases' -> Nat]
          BY DEF TypeOK
      <4>2. h.due + Spare \in Nat /\ h.due + Spare <= now + Reach /\ now + Reach \in Nat
          BY <1>1
      <4>3. QED
          BY <2>3, <3>1, <4>1, <4>2, CoversBefore
    <3>2. CASE t # current
      <4>1. Covers(leases, t, h.due + Spare)
          BY <1>0 DEF ScheduledCovered
      <4>2. QED
          BY <2>1, <3>2, <4>1 DEF Covers
    <3>3. QED
        BY <3>1, <3>2
  <2>6. CurrentCovered'
      BY <2>1, <2>3 DEF CurrentCovered, Reach
  <2>7. QED
      BY <2>4, <2>5, <2>6
<1>11. CASE RenewFails
  <2>1. CASE entries' = << >> /\ thread' = "none"
    <3>1. DOMAIN entries' = {}
        BY <2>1, EmptyType
    <3>2. QED
        BY <2>1, <3>1 DEF KeptLeases, ScheduledCovered, CurrentCovered, Kept
  <2>2. CASE thread' = "failed" /\ UNCHANGED <<current, entries, heap, shutdown, dropped, stage>>
    <3>1. UNCHANGED <<now, leases>> /\ faults' = faults + 1 /\ thread = "renewing"
        BY <1>11 DEF RenewFails
    <3>2. \A t : Kept(t)' => Kept(t)
        BY <1>1, <2>2, <3>1 DEF Kept
    <3>3. /\ Spare' \in Nat /\ Spare' <= Spare
          /\ faults' <= Tolerated => Interval + Spare' = Spare
        BY <1>1, <3>1 DEF Spare, LongEnough
    <3>4. KeptLeases'
        BY <1>0, <3>1, <3>2 DEF KeptLeases
    <3>5. ScheduledCovered'
      <4> SUFFICES ASSUME NEW t \in Tasks, Kept(t), NEW h \in heap, h.task = t,
                          h.gen = entries[t].gen
                   PROVE  Covers(leases, t, h.due + Spare')
          BY <2>2, <3>1, <3>2 DEF ScheduledCovered
      <4>1. Covers(leases, t, h.due + Spare)
          BY <1>0 DEF ScheduledCovered
      <4>2. h.due + Spare \in Nat /\ h.due + Spare' \in Nat /\ h.due + Spare' <= h.due + Spare
          BY <1>1, <3>3
      <4>3. QED
          BY <1>1, <4>1, <4>2, CoversBefore
    <3>6. CurrentCovered'
      <4> SUFFICES ASSUME Kept(current)
                   PROVE  /\ Covers(leases, current, now)
                          /\ faults' <= Tolerated =>
                                 Covers(leases, current, now + Interval + Spare')
          BY <2>2, <3>1, <3>2 DEF CurrentCovered
      <4>1. Covers(leases, current, now + Spare)
          BY <1>0, <3>1 DEF CurrentCovered
      <4>2. Covers(leases, current, now)
          BY <1>1, <4>1, CoversBefore
      <4>3. faults' <= Tolerated => now + Interval + Spare' = now + Spare
          BY <1>1, <3>3
      <4>4. QED
          BY <4>1, <4>2, <4>3
    <3>7. QED
        BY <3>4, <3>5, <3>6
  <2>3. QED
      BY <1>11, <2>1, <2>2 DEF RenewFails
<1>12. CASE Reschedule
  <2>1. UNCHANGED <<now, leases, faults>> /\ thread' = "idle"
      BY <1>12 DEF Reschedule
  <2>2. CurrentCovered'
      BY <2>1 DEF CurrentCovered
  <2>3. Spare' = Spare
      BY <2>1 DEF Spare
  <2>4. CASE current \notin DOMAIN entries
    <3>1. UNCHANGED <<entries, heap>>
        BY <1>12, <2>4 DEF Reschedule
    <3>2. \A t : Kept(t)' <=> Kept(t)
        BY <2>1, <3>1 DEF Kept
    <3>3. KeptLeases' /\ ScheduledCovered'
        BY <1>0, <2>1, <2>3, <3>1, <3>2 DEF KeptLeases, ScheduledCovered
    <3>4. QED
        BY <2>2, <3>3
  <2>5. CASE current \in DOMAIN entries
    <3>0. PICK c \in DOMAIN entries : c = current
        BY <2>5
    <3>1. /\ heap' = heap \cup {[due |-> now + Interval, task |-> c,
                                 gen |-> entries[c].gen + 1]}
          /\ DOMAIN entries' = DOMAIN entries
          /\ \A t \in DOMAIN entries : t # c => entries'[t] = entries[t]
        BY <1>12, <3>0 DEF Reschedule, TypeOK
    <3>2. entries'[c].healthy <=> thread = "renewed"
        BY <1>12, <3>0 DEF Reschedule, TypeOK
    <3>3. \A t : t # c /\ Kept(t)' => Kept(t)
        BY <2>1, <3>1 DEF Kept
    <3>4. Kept(c)' => Covers(leases, c, now + Interval + Spare)
      <4>1. CASE thread = "renewed"
        <5>1. Covers(leases, c, now + Reach)
            BY <1>0, <3>0, <4>1 DEF CurrentCovered
        <5>2. QED
            BY <1>1, <5>1, CoversBefore
      <4>2. CASE thread # "renewed"
        <5>1. thread = "failed" /\ (Kept(c)' => faults <= Tolerated)
            BY <1>12, <2>1, <3>2, <4>2 DEF Reschedule, Kept
        <5>2. QED
            BY <1>0, <3>0, <5>1 DEF CurrentCovered, Kept
      <4>3. QED
          BY <4>1, <4>2
    <3>5. KeptLeases'
        BY <1>0, <2>1, <3>3, <3>4 DEF KeptLeases, Covers
    <3>6. ScheduledCovered'
      <4> SUFFICES ASSUME NEW t \in Tasks, Kept(t)', NEW h \in heap', h.task = t,
                          h.gen = entries'[t].gen
                   PROVE  Covers(leases, t, h.due + Spare)
          BY <2>1, <2>3 DEF ScheduledCovered
      <4>1. CASE t = c
        <5>1. h.due \in Nat /\ h.due <= now + Interval
            BY <1>1, <3>1
        <5>2. QED
            BY <1>1, <3>4, <4>1, <5>1, CoversBefore
      <4>2. CASE t # c
        <5>1. h \in heap /\ Kept(t) /\ entries'[t] = entries[t]
            BY <3>1, <3>3, <4>2 DEF Kept
        <5>2. QED
            BY <1>0, <5>1 DEF ScheduledCovered
      <4>3. QED
          BY <4>1, <4>2
    <3>7. QED
        BY <2>2, <3>5, <3>6
  <2>6. QED
      BY <2>4, <2>5
<1>13. CASE Reclaim
  <2>1. UNCHANGED <<now, entries, heap, thread, current, faults>>
      BY <1>13 DEF Reclaim
  <2>2. (\A t : Kept(t)' <=> Kept(t)) /\ Spare' = Spare
      BY <2>1 DEF Kept, Spare
  <2>3. \A t, a : a \in Nat /\ now <= a /\ Covers(leases, t, a) => Covers(leases', t, a)
      BY <1>13, ReclaimKeeps
  <2>4. ScheduledCovered'
    <3> SUFFICES ASSUME NEW t \in Tasks, Kept(t), NEW h \in heap, h.task = t,
                        h.gen = entries[t].gen
                 PROVE  Covers(leases', t, h.due + Spare)
        BY <2>1, <2>2 DEF ScheduledCovered
    <3>1. Covers(leases, t, h.due + Spare)
        BY <1>0 DEF ScheduledCovered
    <3>2. h.due + Spare \in Nat /\ now <= h.due + Spare
        BY <1>1
    <3>3. QED
        BY <2>3, <3>1, <3>2
  <2>5. CurrentCovered'
    <3>1. /\ now + Spare \in Nat /\ now + Reach \in Nat /\ now + Interval + Spare \in Nat
          /\ now <= now + Spare /\ now <= now + Reach /\ now <= now + Interval + Spare
          /\ now <= now
        BY <1>1
    <3>2. QED
        BY <1>0, <1>1, <2>1, <2>2, <2>3, <3>1 DEF CurrentCovered, Reach
  <2>6. KeptLeases'
    <3> SUFFICES ASSUME NEW t \in Tasks, Kept(t)
                 PROVE  t \in DOMAIN leases'
        BY <2>2 DEF KeptLeases
    <3>1. t \in DOMAIN entries \ dropped /\ t \in DOMAIN leases
        BY <1>0 DEF KeptLeases, Kept, TypeOK
    <3>2. CASE current = t
      <4>1. thread \in {"renewing", "renewed", "failed"}
          BY <3>2 DEF TypeOK
      <4>2. QED
          BY <2>1, <2>2, <2>5, <3>1, <3>2, <4>1 DEF CurrentCovered, Covers
    <3>3. ASSUME NEW h \in heap, h.task = t, h.gen = entries[t].gen
          PROVE  t \in DOMAIN leases'
        BY <2>1, <2>2, <2>4, <3>3 DEF ScheduledCovered, Covers
    <3>4. QED
        BY <3>1, <3>2, <3>3 DEF EntriesScheduled
  <2>7. QED
      BY <2>4, <2>5, <2>6
<1>14. CASE Tick
  <2>1. UNCHANGED <<leases, entries, heap, thread, faults>>
        /\ thread \notin {"renewing", "renewed", "failed"}
      BY <1>14 DEF Tick, Permitted, LongEnough
  <2>2. (\A t : Kept(t)' <=> Kept(t)) /\ Spare' = Spare
      BY <2>1 DEF Kept, Spare
  <2>3. KeptLeases' /\ ScheduledCovered'
      BY <1>0, <2>1, <2>2 DEF KeptLeases, ScheduledCovered
  <2>4. CurrentCovered'
      BY <2>1 DEF CurrentCovered
  <2>5. QED
      BY <2>3, <2>4
<1>15. CASE RenewUnknown \/ RenewRaises \/ ThreadStops
    BY <1>15 DEF RenewUnknown, RenewRaises, Escapes, ThreadStops
<1>16. QED
    BY <1>4, <1>5, <1>6, <1>7, <1>8, <1>9, <1>10, <1>11, <1>12, <1>13, <1>14, <1>15
       DEF Next, TaskStep, ThreadStep

\* The heartbeat keeps the lease of every running task while its thread lives,
\* whatever tasks start, end and are registered anew around it, and with one
\* failed renewal if one is tolerated; a lease lost to more failures is one whose
\* task is flagged as unhealthy.
THEOREM LeasesAreKept == Spec => [](LongEnough => LeaseKept)
<1> DEFINE Inv == LongEnough => KeepInv
<1>1. Init => Inv
    BY KeepInit
<1>2. TypeOK /\ TypeOK' /\ EntriesScheduled /\ Inv /\ [Next]_vars => Inv'
  <2> SUFFICES ASSUME TypeOK, TypeOK', EntriesScheduled, LongEnough, KeepInv, [Next]_vars
               PROVE  KeepInv'
      BY DEF LongEnough
  <2>1. QED
      BY AheadStep, AdmittedStep, KeptStep DEF KeepInv
<1>3. TypeOK /\ Inv => (LongEnough => LeaseKept)
  <2> SUFFICES ASSUME TypeOK, KeepInv, ~ended, NEW t \in Tasks, stage[t] = "running"
               PROVE  t \in DOMAIN leases \/ (faults > Tolerated /\ ~IsHealthy(t))
      BY DEF LeaseKept
  <2>1. t \in DOMAIN entries /\ entries[t] \in Entry /\ faults \in Nat /\ Tolerated \in Nat
      BY SmallFacts DEF TypeOK, Entry
  <2>2. CASE Kept(t)
      BY <2>2 DEF KeepInv, KeptLeases
  <2>3. CASE ~Kept(t)
      BY <2>1, <2>3 DEF Kept, IsHealthy
  <2>4. QED
      BY <2>2, <2>3
<1>4. QED
    BY <1>1, <1>2, <1>3, HeartbeatTypeCorrect, NobodyIsForgotten, PTL DEF Spec
=============================================================================
