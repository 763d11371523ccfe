------------------------------ MODULE Heartbeat ------------------------------
(***************************************************************************)
(* The heartbeat of one worker process: HeartbeatScheduler (a thread) and  *)
(* AsyncHeartbeatScheduler (an asyncio task) renew the concurrency leases  *)
(* of all running tasks.  Registrations, renewals and releases interleave: *)
(* the scheduler's lock is not held during the Redis call.                 *)
(*                                                                         *)
(* This module is about the assumption TimelyHeartbeats of TaskLimiter.    *)
(* Time is counted in ticks, Sec of them per second; leases expire in      *)
(* whole seconds.                                                          *)
(***************************************************************************)
EXTENDS Naturals

CONSTANTS
    Tasks, NoTask,
    Sec,            \* ticks per second (even)
    Lease,          \* lease_duration when the scheduler is created (s)
    NewLeases,      \* durations a configuration update may set later
    OnFailure,      \* on_failure_action of the lifecycles: some of "warn", "kill"
    MayShutdown,    \* whether shutdown() is called
    Tolerated,      \* number of failed renewals the leases leave time for
    Horizon, MaxFaults, MaxRuns,    \* bounds: clock, failed renewals, task runs
    \* Assumption about the environment:
    Timely          \* due renewals finish within a tick; tasks start early in their lease

ASSUME HeartbeatConstants ==
    /\ NoTask \notin Tasks
    /\ Sec \in Nat \ {0} /\ Sec % 2 = 0
    /\ Lease \in Nat \ {0} /\ NewLeases \subseteq Nat \ {0}
    /\ OnFailure \subseteq {"warn", "kill"}
    /\ {MayShutdown, Timely} \subseteq BOOLEAN
    /\ {Tolerated, Horizon, MaxFaults, MaxRuns} \subseteq Nat

VARIABLES
    now,
    duration,   \* limiter.lease_duration
    leases,     \* "<id>:concurrency": task -> lease expiry (s)
    stage,      \* task -> "out", "admitted", "running" or "exiting"
    entries,    \* _entries: task -> generation and is_healthy
    heap,       \* _heap: the set of scheduled renewals
    thread,     \* the scheduler thread: "none", "idle", "renewing", "renewed", "failed", "dead"
    current,    \* the task it is renewing
    shutdown,   \* _shutdown
    ended,      \* history: the thread has ended at least once
    dropped,    \* history: tasks whose renewal raised what ended the thread
    runs, faults

schedVars == <<entries, heap, thread, current, shutdown, ended, dropped>>
vars == <<now, duration, leases, stage, schedVars, runs, faults>>

\* _interval: computed once, from the lease duration at construction.
Interval == (Lease * Sec) \div 2

Second(t) == t \div Sec
Without(f, t) == [x \in DOMAIN f \ {t} |-> f[x]]
With(f, t, v) == [x \in DOMAIN f \cup {t} |-> IF x = t THEN v ELSE f[x]]

Init ==
    /\ now = 0 /\ duration = Lease
    /\ leases = << >>
    /\ stage = [t \in Tasks |-> "out"]
    /\ entries = << >> /\ heap = {}
    /\ thread = "none" /\ current = NoTask /\ shutdown = FALSE
    /\ ended = FALSE /\ dropped = {}
    /\ runs = 0 /\ faults = 0

-----------------------------------------------------------------------------
(***************************************************************************)
(* The life of a task                                                      *)
(***************************************************************************)

\* consume.lua admits t and the worker dispatches it.
Admit(t) ==
    /\ stage[t] = "out" /\ runs < MaxRuns
    /\ runs' = runs + 1
    /\ leases' = With(leases, t, Second(now) + duration)
    /\ stage' = [stage EXCEPT ![t] = "admitted"]
    /\ UNCHANGED <<now, duration, schedVars, faults>>

\* __enter__ / register: a new entry, a first renewal, and a thread if there is
\* none (or none any more).
Enter(t) ==
    /\ stage[t] = "admitted"
    /\ stage' = [stage EXCEPT ![t] = "running"]
    /\ entries' = With(entries, t, [gen |-> 0, healthy |-> TRUE])
    /\ heap' = heap \cup {[due |-> now + Interval, task |-> t, gen |-> 0]}
    /\ IF thread \in {"none", "dead"}
       THEN thread' = "idle" /\ shutdown' = FALSE
       ELSE UNCHANGED <<thread, shutdown>>
    /\ dropped' = dropped \ {t}
    /\ UNCHANGED <<now, duration, leases, current, ended, runs, faults>>

\* __exit__, first step: deregister.  Scheduled renewals stay in the heap.
Deregister(t) ==
    /\ stage[t] = "running"
    /\ stage' = [stage EXCEPT ![t] = "exiting"]
    /\ entries' = Without(entries, t)
    /\ UNCHANGED <<now, duration, leases, heap, thread, current, shutdown, ended, dropped, runs,
                   faults>>

\* __exit__, second step: release.lua.
Release(t) ==
    /\ stage[t] = "exiting"
    /\ stage' = [stage EXCEPT ![t] = "out"]
    /\ leases' = Without(leases, t)
    /\ UNCHANGED <<now, duration, schedVars, runs, faults>>

\* TaskLifecycle.is_healthy: the outcome of the last renewal, TRUE without an entry.
IsHealthy(t) == t \in DOMAIN entries => entries[t].healthy

-----------------------------------------------------------------------------
(***************************************************************************)
(* The scheduler thread (_run)                                             *)
(***************************************************************************)

Due == {h \in heap : h.due <= now /\ \A g \in heap : h.due <= g.due}

\* heappop under the lock; a tuple without a matching entry is dropped.
Pop ==
    /\ thread = "idle" /\ ~shutdown
    /\ \E h \in Due :
        /\ heap' = heap \ {h}
        /\ IF h.task \in DOMAIN entries /\ entries[h.task].gen = h.gen
           THEN thread' = "renewing" /\ current' = h.task
           ELSE UNCHANGED <<thread, current>>
    /\ UNCHANGED <<now, duration, leases, stage, entries, shutdown, ended, dropped, runs, faults>>

\* extend_lease succeeds.
Renew ==
    /\ thread = "renewing"
    /\ current \in DOMAIN leases
    /\ leases' = [leases EXCEPT ![current] = Second(now) + duration]
    /\ thread' = "renewed"
    /\ UNCHANGED <<now, duration, stage, entries, heap, current, shutdown, ended, dropped, runs,
                   faults>>

\* An exception that is no RedisError, the only one _renew_one catches, leaves
\* _run and ends the thread.  The renewal has been popped and is not pushed again.
Escapes ==
    /\ thread' = "dead" /\ current' = NoTask /\ ended' = TRUE
    /\ dropped' = dropped \cup {current}
    /\ UNCHANGED <<now, duration, leases, stage, entries, heap, shutdown, runs>>

\* renew.lua finds no lease: extend_lease raises KeyError.
RenewUnknown ==
    /\ thread = "renewing"
    /\ current \notin DOMAIN leases
    /\ Escapes /\ UNCHANGED faults

\* Redis has lost renew.lua again right after it was loaded: extend_lease raises
\* RuntimeError, whether or not the lease is there.
RenewRaises ==
    /\ thread = "renewing"
    /\ faults < MaxFaults /\ faults' = faults + 1
    /\ Escapes

\* The call raises RedisError.  In warn mode the task is flagged; in kill mode
\* the process sends itself SIGTERM; a new one starts and the leases are left
\* behind.
RenewFails ==
    /\ thread = "renewing"
    /\ faults < MaxFaults /\ faults' = faults + 1
    /\ \/ /\ "kill" \in OnFailure
          /\ thread' = "none" /\ current' = NoTask
          /\ entries' = << >> /\ heap' = {} /\ shutdown' = FALSE /\ dropped' = {}
          /\ stage' = [t \in Tasks |-> "out"]
       \/ /\ "warn" \in OnFailure
          /\ thread' = "failed"
          /\ UNCHANGED <<current, entries, heap, shutdown, dropped, stage>>
    /\ UNCHANGED <<now, duration, leases, ended, runs>>

\* Mutant: the next renewal is pushed with the generation it was popped with.
RescheduleSameGeneration ==
    /\ thread \in {"renewed", "failed"}
    /\ IF current \in DOMAIN entries
       THEN /\ entries' = [entries EXCEPT ![current] =
                              [gen |-> @.gen + 1, healthy |-> thread = "renewed"]]
            /\ heap' = heap \cup {[due |-> now + Interval, task |-> current,
                                   gen |-> entries[current].gen]}
       ELSE UNCHANGED <<entries, heap>>
    /\ thread' = "idle" /\ current' = NoTask
    /\ UNCHANGED <<now, duration, leases, stage, shutdown, ended, dropped, runs, faults>>

\* Mutant: a failed renewal is not noted.
RescheduleUnflagged ==
    /\ thread \in {"renewed", "failed"}
    /\ IF current \in DOMAIN entries
       THEN /\ entries' = [entries EXCEPT ![current] = [@ EXCEPT !.gen = @ + 1]]
            /\ heap' = heap \cup {[due |-> now + Interval, task |-> current,
                                   gen |-> entries[current].gen + 1]}
       ELSE UNCHANGED <<entries, heap>>
    /\ thread' = "idle" /\ current' = NoTask
    /\ UNCHANGED <<now, duration, leases, stage, shutdown, ended, dropped, runs, faults>>

\* The outcome is noted in the entry, which gets a new generation and its next
\* renewal.  The entry may be a later registration of the same task.
Reschedule ==
    /\ thread \in {"renewed", "failed"}
    /\ IF current \in DOMAIN entries
       THEN /\ entries' = [entries EXCEPT ![current] =
                              [gen |-> @.gen + 1, healthy |-> thread = "renewed"]]
            /\ heap' = heap \cup {[due |-> now + Interval, task |-> current,
                                   gen |-> entries[current].gen + 1]}
       ELSE UNCHANGED <<entries, heap>>
    /\ thread' = "idle" /\ current' = NoTask
    /\ UNCHANGED <<now, duration, leases, stage, shutdown, ended, dropped, runs, faults>>

\* shutdown() is called; the thread leaves when it next looks.
Shutdown ==
    /\ MayShutdown /\ ~shutdown
    /\ shutdown' = TRUE
    /\ UNCHANGED <<now, duration, leases, stage, entries, heap, thread, current, ended, dropped,
                   runs, faults>>

ThreadStops ==
    /\ thread = "idle" /\ shutdown
    /\ thread' = "dead" /\ ended' = TRUE
    /\ UNCHANGED <<now, duration, leases, stage, entries, heap, current, shutdown, dropped, runs,
                   faults>>

-----------------------------------------------------------------------------
(***************************************************************************)
(* The environment                                                         *)
(***************************************************************************)

\* consume.lua in any worker: ZREMRANGEBYSCORE -inf timestamp-1.
Reclaim ==
    /\ leases' = [t \in {u \in DOMAIN leases : leases[u] >= Second(now)} |-> leases[t]]
    /\ UNCHANGED <<now, duration, stage, schedVars, runs, faults>>

\* update() or refresh_config() changes lease_duration.
ChangeLease ==
    /\ duration' \in NewLeases \ {duration}
    /\ UNCHANGED <<now, leases, stage, schedVars, runs, faults>>

\* Timely: the clock waits for a running renewal, for a due one and for a thread
\* that is told to stop; and no task is kept from starting so long that its first
\* renewal (and as many further ones as are tolerated) would come after its lease.
Permitted(t) ==
    Timely =>
        /\ thread \notin {"renewing", "renewed", "failed"}
        /\ thread = "idle" => ~shutdown /\ \A h \in heap : h.due > now
        /\ \A u \in Tasks : stage[u] = "admitted" /\ u \in DOMAIN leases =>
               Second(t + (1 + Tolerated) * Interval) <= leases[u]

Tick ==
    /\ now < Horizon
    /\ Permitted(now + 1)
    /\ now' = now + 1
    /\ UNCHANGED <<duration, leases, stage, schedVars, runs, faults>>

TaskStep(t) == Admit(t) \/ Enter(t) \/ Deregister(t) \/ Release(t)

ThreadStep ==
    \/ Pop \/ Renew \/ RenewUnknown \/ RenewRaises \/ RenewFails \/ Reschedule
    \/ ThreadStops

Next ==
    \/ \E t \in Tasks : TaskStep(t)
    \/ ThreadStep
    \/ Shutdown \/ Reclaim \/ ChangeLease \/ Tick

Spec == Init /\ [][Next]_vars

-----------------------------------------------------------------------------
(***************************************************************************)
(* Properties                                                              *)
(***************************************************************************)

\* The type invariant.
TypeOK ==
    /\ now \in Nat /\ duration \in Nat /\ runs \in Nat /\ faults \in Nat
    /\ leases \in [DOMAIN leases -> Nat] /\ DOMAIN leases \subseteq Tasks
    /\ stage \in [Tasks -> {"out", "admitted", "running", "exiting"}]
    /\ entries \in [DOMAIN entries -> [gen : Nat, healthy : BOOLEAN]]
    /\ DOMAIN entries = {t \in Tasks : stage[t] = "running"}
    /\ heap \subseteq [due : Nat, task : Tasks, gen : Nat]
    /\ thread \in {"none", "idle", "renewing", "renewed", "failed", "dead"}
    /\ current \in Tasks \cup {NoTask}
    /\ current # NoTask <=> thread \in {"renewing", "renewed", "failed"}
    /\ shutdown \in BOOLEAN /\ ended \in BOOLEAN
    /\ dropped \subseteq Tasks /\ (dropped # {} => ended)

\* The heartbeat keeps the lease of every running task alive as long as its
\* thread lives, whatever tasks start and end around it, with leases that become
\* longer and with as many failed renewals as are tolerated (a renewal one
\* interval later still comes in the lease's last second).  With more failures a
\* lease may be lost, but never behind the task's back: is_healthy is false by then.
LeaseKept ==
    ~ended => \A t \in Tasks :
        stage[t] = "running" =>
            t \in DOMAIN leases \/ (faults > Tolerated /\ ~IsHealthy(t))

\* Lazy deletion loses nobody: every registered task is being renewed or has a
\* scheduled renewal of its current generation, even when it was registered anew
\* while a renewal of its former run was under way, and when the thread has ended
\* and was started again.  The only exception is the task whose own renewal raised
\* the KeyError or RuntimeError that ended the thread: nobody pushes it again.
EntriesScheduled ==
    \A t \in DOMAIN entries \ dropped :
        current = t \/ \E h \in heap : h.task = t /\ h.gen = entries[t].gen

\* A running task whose lease is gone is told so by is_healthy (warn mode).
\* error-handling.md:247: "The heartbeat loop catches all exceptions from
\* `extend_lease()`. In `"warn"` mode, it sets `is_healthy = False`".
LossIsNoticed ==
    \A t \in Tasks : stage[t] = "running" => t \in DOMAIN leases \/ ~IsHealthy(t)
=============================================================================
