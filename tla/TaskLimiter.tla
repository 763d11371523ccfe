----------------------------- MODULE TaskLimiter -----------------------------
(***************************************************************************)
(* The buffered rate limiter: the Redis keys of one limiter, the Lua       *)
(* scripts that change them (each script is one atomic step), and the      *)
(* processes that call the scripts:                                        *)
(*   - clients in schedule_task, callers in acquire();                     *)
(*   - workers, whose drain loop consumes and dispatches to pool threads;  *)
(*   - pool threads that run a task inside its TaskLifecycle.              *)
(*                                                                         *)
(* When a worker drains is left open here (any worker may, at any time);   *)
(* whether consume.lua's fairness check makes it yield is left open too.   *)
(* Times are milliseconds of the Redis clock; leases and ages are counted  *)
(* in whole seconds of Sec milliseconds, as the scripts do.                *)
(***************************************************************************)
EXTENDS SlidingWindow, FiniteSets

CONSTANTS
    Jobs,             \* task ids clients schedule (md5 of function and payload)
    Markers,          \* acquire() calls; each has a marker task of its own
    Clients,          \* processes calling schedule_task
    Workers,          \* processes with a drain loop
    Threads, Owner,   \* pool threads, and the worker each belongs to
    NoTask,           \* not a task
    Limit, Window, Margin,          \* rate limit, window (ms), counter TTL margin
    MaxConcurrency,                 \* concurrency slots
    Lease, MaxAge,                  \* lease duration and default max age (s)
    AgeOverride,                    \* max_age argument of each job; -1 is None
    Priority,                       \* score of each task in the buffer
    AcquireTimeout,                 \* acquire()'s timeout_ms
    Sec,                            \* ms per second
    NestedPayload,                  \* the backend wraps payloads (Celery, RQ, ...)
    Horizon, MaxFaults,             \* bounds: clock, number of failures
    \* Assumptions about the environment, switched per model:
    TimelyHeartbeats, \* no lease runs out while its owner is alive
    MarkersOutlive,   \* no in-flight key expires while a copy of its task exists
    DefiniteReplies,  \* a schedule.lua call that gets no reply never took effect
    PromptCalls       \* schedule_task reaches schedule.lua within a second of its claim,
                      \* acquire() reaches BLPOP before its own deadline

Tasks == Jobs \cup Markers

\* The arguments the constructor accepts.
ValidArguments ==
    /\ Limit \in Nat /\ Window \in Nat \ {0}
    /\ MaxConcurrency \in Nat \ {0}
    /\ Lease \in Nat \ {0} /\ MaxAge \in Nat \ {0}

ASSUME TaskConstants ==
    /\ ValidArguments
    /\ NoTask \notin Tasks
    /\ Jobs \cap Markers = {}
    /\ Clients \cap Markers = {}
    /\ Owner \in [Threads -> Workers]
    /\ Margin \in Nat
    /\ AgeOverride \in [Jobs -> Nat \cup {-1}]
    /\ Priority \in [Tasks -> Int]
    /\ AcquireTimeout \in Nat /\ Sec \in Nat \ {0}
    /\ NestedPayload \in BOOLEAN
    /\ Horizon \in Nat /\ MaxFaults \in Nat
    /\ {TimelyHeartbeats, MarkersOutlive, DefiniteReplies, PromptCalls} \subseteq BOOLEAN

VARIABLES
    now,        \* Redis server clock, ms
    counters,   \* "<id>:<window_start>": window index -> count and expiry
    buffer,     \* "<id>:buffer": the pending tasks with their arrival time
    leases,     \* "<id>:concurrency": task id -> lease expiry (s)
    dlq,        \* "<id>:dlq"
    inflight,   \* "<id>:inflight:<task>": task -> expiry
    signal,     \* "<id>:acquire:<task>": marker -> expiry of its signal list
    hand,       \* worker -> the task its consume() returned, not yet dispatched
    thread,     \* pool thread -> its task, and whether its lifecycle is entered
    call,       \* client or acquire() caller -> where it is in its call
    faults      \* number of failures so far

redisVars == <<counters, buffer, leases, dlq, inflight, signal>>
vars == <<now, redisVars, hand, thread, call, faults>>

Callers == Clients \cup Markers
FreeThread == [task |-> NoTask, entered |-> FALSE]
NoCall == [pc |-> "idle", task |-> NoTask, until |-> 0]

-----------------------------------------------------------------------------
(***************************************************************************)
(* Derived values                                                          *)
(***************************************************************************)

Second(t) == t \div Sec
CeilSec(ms) == (ms + Sec - 1) \div Sec
AtLeastOne(n) == IF n > 1 THEN n ELSE 1

\* The max_age argument of schedule_task; acquire() passes its own.
MaxAgeArg(t) == IF t \in Markers THEN AtLeastOne(CeilSec(AcquireTimeout)) ELSE AgeOverride[t]

\* consume.lua's effective_max_age: schedule_task sends max_age or "", so both
\* None and 0 leave the limiter's default.
EffectiveMaxAge(t) == IF MaxAgeArg(t) > 0 THEN MaxAgeArg(t) ELSE MaxAge

\* _get_inflight_ttl in seconds: only None means the default here.
InflightTTL(t) ==
    AtLeastOne(IF MaxAgeArg(t) = -1 THEN MaxAge ELSE MaxAgeArg(t))
    + AtLeastOne(Lease) + AtLeastOne(CeilSec(Window))

\* Mutant: a lease is reclaimed in the second in which it expires.
HealedLeasesEarly ==
    [t \in {u \in DOMAIN leases : leases[u] > Second(now)} |-> leases[t]]

\* ZREMRANGEBYSCORE concurrency -inf timestamp-1: a lease that expires in the
\* current second survives.
HealedLeases ==
    [t \in {u \in DOMAIN leases : leases[u] >= Second(now)} |-> leases[t]]

ActiveNow == Cardinality(DOMAIN HealedLeases)

CurrentCount  == Count(counters, WindowIndex(now, Window))
PreviousCount == Count(counters, WindowIndex(now, Window) - 1)

\* Mutant: active_now <= max_concurrency.
MayAdmitOneMore ==
    /\ UnderLimit(Limit, CurrentCount, PreviousCount, now, Window)
    /\ ActiveNow <= MaxConcurrency

\* estimated_count < rate_limit and active_now < max_concurrency
MayAdmit ==
    /\ UnderLimit(Limit, CurrentCount, PreviousCount, now, Window)
    /\ ActiveNow < MaxConcurrency

\* ZRANGE buffer 0 0: an entry of lowest score.  Ties are broken by the order
\* of the JSON texts, which begin with a hash: any of them.
Heads == {e \in buffer : \A f \in buffer : Priority[e.task] <= Priority[f.task]}

TooOld(e) == Second(now) - Second(e.arrived) > EffectiveMaxAge(e.task)

\* Mutant: the deadline in the marker is ignored.
DeadlineIgnored(e) == FALSE

\* An acquire marker whose deadline has passed.  A wrapped payload hides the
\* deadline from the script (payload._acquire_timeout_ms is nil).
DeadlinePassed(e) ==
    e.task \in Markers /\ ~NestedPayload /\ now >= e.arrived + AcquireTimeout

Without(f, t) == [x \in DOMAIN f \ {t} |-> f[x]]
With(f, t, v) == [x \in DOMAIN f \cup {t} |-> IF x = t THEN v ELSE f[x]]

\* The threads on which worker w can run another task (_has_local_capacity).
FreeThreads(w) == {th \in Threads : Owner[th] = w /\ thread[th] = FreeThread}

Fault == faults < MaxFaults /\ faults' = faults + 1

\* Processes that work on task t after its admission.
HoldersOf(t) ==
    {w \in Workers : hand[w] = t} \cup {th \in Threads : thread[th].task = t}
        \cup {m \in Markers : m = t /\ call[m].pc = "holding"}

\* Everything that is still going to run task t, or is running it.
Copies(t) ==
    {<<"claim", c>> : c \in {d \in Callers : call[d].pc = "claimed" /\ call[d].task = t}}
        \cup {<<"buffer", e.arrived>> : e \in {f \in buffer : f.task = t}}
        \cup {<<"holder", h>> : h \in HoldersOf(t)}

-----------------------------------------------------------------------------
Init ==
    /\ now = 0
    /\ counters = << >> /\ buffer = {} /\ leases = << >>
    /\ dlq = {} /\ inflight = << >> /\ signal = << >>
    /\ hand = [w \in Workers |-> NoTask]
    /\ thread = [th \in Threads |-> FreeThread]
    /\ call = [c \in Callers |-> NoCall]
    /\ faults = 0

(***************************************************************************)
(* schedule_task                                                           *)
(***************************************************************************)

\* Mutant: SET without NX.
ClaimWithoutNX(c, t) ==
    /\ call[c].pc = "idle"
    /\ IF c \in Markers THEN t = c ELSE t \in Jobs
    /\ inflight' = With(inflight, t, [expires |-> now + Sec * InflightTTL(t)])
    /\ call' = [call EXCEPT ![c] = [pc |-> "claimed", task |-> t, until |-> now + Sec]]
    /\ UNCHANGED <<now, counters, buffer, leases, dlq, signal, hand, thread, faults>>

\* SET NX EX: claim the right to schedule t.  When the key exists the call
\* returns (False, task_id) and changes nothing.  An acquire() marker has a
\* fresh uuid, and its caller schedules it once.
Claim(c, t) ==
    /\ call[c].pc = "idle"
    /\ IF c \in Markers THEN t = c ELSE t \in Jobs
    /\ t \notin DOMAIN inflight
    /\ inflight' = With(inflight, t, [expires |-> now + Sec * InflightTTL(t)])
    /\ call' = [call EXCEPT ![c] = [pc |-> "claimed", task |-> t, until |-> now + Sec]]
    /\ UNCHANGED <<now, counters, buffer, leases, dlq, signal, hand, thread, faults>>

\* schedule.lua: put the task into the buffer, stamped with the Redis clock.
\* schedule_task then returns; acquire() goes on to wait for its signal.
Push(c) ==
    /\ call[c].pc = "claimed"
    /\ buffer' = buffer \cup {[task |-> call[c].task, arrived |-> now]}
    /\ call' = [call EXCEPT ![c] =
                   IF c \in Markers
                   THEN [pc |-> "pushed", task |-> c, until |-> now + AcquireTimeout]
                   ELSE NoCall]
    /\ UNCHANGED <<now, counters, leases, dlq, inflight, signal, hand, thread, faults>>

\* _cleanup_inflight_key: the DEL of a task's in-flight key.  It is best effort:
\* PushFails also has the case in which it fails as well.
CleanedUp(t) == Without(inflight, t)

\* The schedule.lua call fails and the in-flight key is cleaned up as a best
\* effort.  effective: the script had run and only its reply was lost;
\* cleaned: the clean-up succeeded.
PushFails(c, effective, cleaned) ==
    /\ Fault
    /\ call[c].pc = "claimed"
    /\ effective => ~DefiniteReplies
    /\ buffer' = IF effective
                 THEN buffer \cup {[task |-> call[c].task, arrived |-> now]}
                 ELSE buffer
    /\ inflight' = IF cleaned THEN CleanedUp(call[c].task) ELSE inflight
    /\ call' = [call EXCEPT ![c] = IF c \in Markers THEN [@ EXCEPT !.pc = "failed"] ELSE NoCall]
    /\ UNCHANGED <<now, counters, leases, dlq, signal, hand, thread>>

(***************************************************************************)
(* acquire(): BLPOP on the signal list, then the lifecycle of the slot     *)
(***************************************************************************)

\* BLPOP is issued: it returns at once when the signal is there, and blocks
\* otherwise.
Wait(m) ==
    /\ call[m].pc = "pushed"
    /\ signal' = Without(signal, m)
    /\ call' = [call EXCEPT ![m] =
                   IF m \in DOMAIN signal
                   THEN [@ EXCEPT !.pc = "holding"]
                   ELSE [@ EXCEPT !.pc = "waiting", !.until = now + AcquireTimeout]]
    /\ UNCHANGED <<now, counters, buffer, leases, dlq, inflight, hand, thread, faults>>

\* BLPOP returns nil and acquire() raises AcquireTimeout.
TimeOut(m) ==
    /\ call[m].pc = "waiting"
    /\ now >= call[m].until
    /\ call' = [call EXCEPT ![m].pc = "timedout"]
    /\ UNCHANGED <<now, redisVars, hand, thread, faults>>

(***************************************************************************)
(* consume.lua, called by the drain loop of worker w                       *)
(***************************************************************************)

\* Every call reclaims expired leases before it decides anything.
Consuming(w) ==
    /\ hand[w] = NoTask
    /\ FreeThreads(w) # {}

\* Status -3 (the worker yields to another one) and status 0 (limits reached
\* or empty buffer) change nothing but the leases.
ConsumeNothing(w) ==
    /\ Consuming(w)
    /\ leases # HealedLeases
    /\ leases' = HealedLeases
    /\ UNCHANGED <<now, counters, buffer, dlq, inflight, signal, hand, thread, call, faults>>

\* Mutant: the entry is not pushed to the dead letter queue.
ConsumeExpiredDrops(w) ==
    /\ Consuming(w)
    /\ MayAdmit
    /\ \E e \in Heads :
        /\ TooOld(e)
        /\ buffer' = buffer \ {e}
        /\ inflight' = Without(inflight, e.task)
    /\ leases' = HealedLeases
    /\ UNCHANGED <<now, counters, dlq, signal, hand, thread, call, faults>>

\* Status -1: the head of the buffer is too old.  A job goes to the dead
\* letter queue, a marker disappears; the in-flight key is deleted.
ConsumeExpired(w) ==
    /\ Consuming(w)
    /\ MayAdmit
    /\ \E e \in Heads :
        /\ TooOld(e)
        /\ buffer' = buffer \ {e}
        /\ dlq' = IF e.task \in Markers THEN dlq ELSE dlq \cup {e}
        /\ inflight' = Without(inflight, e.task)
    /\ leases' = HealedLeases
    /\ UNCHANGED <<now, counters, signal, hand, thread, call, faults>>

\* Status -2: the head is a marker whose caller has given up.
ConsumeDropped(w) ==
    /\ Consuming(w)
    /\ MayAdmit
    /\ \E e \in Heads :
        /\ ~TooOld(e)
        /\ DeadlinePassed(e)
        /\ buffer' = buffer \ {e}
        /\ inflight' = Without(inflight, e.task)
    /\ leases' = HealedLeases
    /\ UNCHANGED <<now, counters, dlq, signal, hand, thread, call, faults>>

\* RPUSH to the marker's signal list.  A caller blocked in BLPOP is served as
\* the script ends; otherwise the list waits for it, with the acquire timeout
\* as its TTL.  With a wrapped payload PEXPIRE has no argument: the script
\* fails there, and what it has done so far stands.
SignalCaller(m) ==
    IF call[m].pc = "waiting"
    THEN /\ call' = [call EXCEPT ![m].pc = "holding"]
         /\ UNCHANGED signal
    ELSE /\ signal' = With(signal, m,
                [expires |-> IF NestedPayload THEN Horizon ELSE now + AcquireTimeout])
         /\ UNCHANGED call

\* Status 1: the head is admitted.  It takes a token and a slot; a job is
\* handed to the worker, a marker's caller is signalled.
ConsumeAdmits(w) ==
    /\ Consuming(w)
    /\ MayAdmit
    /\ \E e \in Heads :
        /\ ~TooOld(e)
        /\ ~DeadlinePassed(e)
        /\ buffer' = buffer \ {e}
        /\ leases' = With(HealedLeases, e.task, Second(now) + Lease)
        /\ IF e.task \in Markers
           THEN SignalCaller(e.task) /\ UNCHANGED hand
           ELSE hand' = [hand EXCEPT ![w] = e.task] /\ UNCHANGED <<call, signal>>
    /\ counters' = Increment(counters, WindowIndex(now, Window), now, Window, Margin)
    /\ UNCHANGED <<now, dlq, inflight, thread, faults>>

(***************************************************************************)
(* Dispatch and execution                                                  *)
(***************************************************************************)

\* _dispatch_task submits the task to the pool.
Dispatch(w) ==
    /\ hand[w] # NoTask
    /\ \E th \in FreeThreads(w) :
        thread' = [thread EXCEPT ![th] = [task |-> hand[w], entered |-> FALSE]]
    /\ hand' = [hand EXCEPT ![w] = NoTask]
    /\ UNCHANGED <<now, redisVars, call, faults>>

\* _dispatch_task raises (the function cannot be imported, the executor or the
\* broker refuses): drain() schedules a retry, but the task is out of the
\* buffer and nobody has it.
DispatchFails(w) ==
    /\ Fault
    /\ hand[w] # NoTask
    /\ hand' = [hand EXCEPT ![w] = NoTask]
    /\ UNCHANGED <<now, redisVars, thread, call>>

\* TaskLifecycle.__enter__: from here on heartbeats renew the lease.
Enter(th) ==
    /\ thread[th].task # NoTask
    /\ ~thread[th].entered
    /\ thread' = [thread EXCEPT ![th].entered = TRUE]
    /\ UNCHANGED <<now, redisVars, hand, call, faults>>

\* Tasks whose lifecycle is entered, on a pool thread or in an acquire() caller.
Entered ==
    {thread[th].task : th \in {x \in Threads : thread[x].entered}}
        \cup {m \in Markers : call[m].pc = "holding"}

\* Mutant: ZADD without the ZSCORE check.
RenewAlways(t) ==
    /\ t \in Entered
    /\ leases' = With(leases, t, Second(now) + Lease)
    /\ UNCHANGED <<now, counters, buffer, dlq, inflight, signal, hand, thread, call, faults>>

\* A heartbeat runs renew.lua, which renews a lease only if it is still there.
Renew(t) ==
    /\ t \in Entered
    /\ t \in DOMAIN leases
    /\ leases' = [leases EXCEPT ![t] = Second(now) + Lease]
    /\ UNCHANGED <<now, counters, buffer, dlq, inflight, signal, hand, thread, call, faults>>

\* release.lua for task t.
ReleaseKeys(t) ==
    /\ leases' = Without(leases, t)
    /\ inflight' = Without(inflight, t)
    /\ UNCHANGED <<counters, buffer, dlq, signal>>

\* TaskLifecycle.__exit__ when the task has run.
Release(th) ==
    /\ thread[th].entered
    /\ ReleaseKeys(thread[th].task)
    /\ thread' = [thread EXCEPT ![th] = FreeThread]
    /\ UNCHANGED <<now, hand, call, faults>>

ReleaseCaller(m) ==
    /\ call[m].pc = "holding"
    /\ ReleaseKeys(m)
    /\ call' = [call EXCEPT ![m].pc = "done"]
    /\ UNCHANGED <<now, hand, thread, faults>>

\* __exit__ when the release.lua call fails: the slot and the in-flight key
\* stay until they expire.
ReleaseFails(th) ==
    /\ Fault
    /\ thread[th].entered
    /\ thread' = [thread EXCEPT ![th] = FreeThread]
    /\ UNCHANGED <<now, redisVars, hand, call>>

(***************************************************************************)
(* Crashes and time                                                        *)
(***************************************************************************)

\* A worker process dies with everything it was running, and is restarted.
Crash(w) ==
    /\ Fault
    /\ hand' = [hand EXCEPT ![w] = NoTask]
    /\ thread' = [th \in Threads |-> IF Owner[th] = w THEN FreeThread ELSE thread[th]]
    /\ UNCHANGED <<now, redisVars, call>>

\* A client or caller process dies in the middle of its call.
CallerCrash(c) ==
    /\ Fault
    /\ call[c].pc \in {"claimed", "pushed", "waiting", "holding"}
    /\ call' = [call EXCEPT ![c] = IF c \in Markers THEN [@ EXCEPT !.pc = "failed"] ELSE NoCall]
    /\ UNCHANGED <<now, redisVars, hand, thread>>

\* The environment assumptions that are switched on, for a clock that moves to t.
Permitted(t) ==
    /\ TimelyHeartbeats =>
        \A u \in DOMAIN leases :
            (HoldersOf(u) # {} \/ (u \in DOMAIN signal /\ call[u].pc = "pushed"))
                => Second(t) <= leases[u]
    /\ MarkersOutlive =>
        \A u \in DOMAIN inflight : Copies(u) # {} => t <= inflight[u].expires
    /\ PromptCalls =>
        \A c \in Callers : call[c].pc \in {"claimed", "pushed"} => t <= call[c].until

\* The clock advances by a millisecond; keys whose TTL has passed disappear.
Tick ==
    /\ now < Horizon
    /\ Permitted(now + 1)
    /\ now' = now + 1
    /\ counters' = AliveAt(counters, now + 1)
    /\ inflight' = AliveAt(inflight, now + 1)
    /\ signal' = AliveAt(signal, now + 1)
    /\ UNCHANGED <<buffer, leases, dlq, hand, thread, call, faults>>

Scheduling ==
    \/ \E c \in Callers, t \in Tasks : Claim(c, t)
    \/ \E c \in Callers : Push(c)
    \/ \E c \in Callers, effective, cleaned \in BOOLEAN : PushFails(c, effective, cleaned)

Acquiring == \E m \in Markers : Wait(m) \/ TimeOut(m) \/ ReleaseCaller(m)

Consume(w) ==
    ConsumeNothing(w) \/ ConsumeExpired(w) \/ ConsumeDropped(w) \/ ConsumeAdmits(w)

Working ==
    \/ \E w \in Workers : Consume(w) \/ Dispatch(w) \/ DispatchFails(w) \/ Crash(w)
    \/ \E th \in Threads : Enter(th) \/ Release(th) \/ ReleaseFails(th)
    \/ \E t \in Tasks : Renew(t)

Next == Scheduling \/ Acquiring \/ Working \/ Tick \/ \E c \in Callers : CallerCrash(c)

Spec == Init /\ [][Next]_vars

-----------------------------------------------------------------------------
(***************************************************************************)
(* Properties                                                              *)
(***************************************************************************)

Pc == {"idle", "claimed", "pushed", "waiting", "holding", "timedout", "done", "failed"}

\* The type invariant.
TypeOK ==
    /\ now \in Nat
    /\ counters \in [DOMAIN counters -> [n : Nat \ {0}, expires : Nat]]
    /\ DOMAIN counters \subseteq Nat
    /\ buffer \subseteq [task : Tasks, arrived : Nat]
    /\ leases \in [DOMAIN leases -> Nat] /\ DOMAIN leases \subseteq Tasks
    /\ dlq \subseteq [task : Jobs, arrived : Nat]
    /\ inflight \in [DOMAIN inflight -> [expires : Nat]] /\ DOMAIN inflight \subseteq Tasks
    /\ signal \in [DOMAIN signal -> [expires : Nat]] /\ DOMAIN signal \subseteq Markers
    /\ hand \in [Workers -> Jobs \cup {NoTask}]
    /\ thread \in [Threads -> [task : Jobs \cup {NoTask}, entered : BOOLEAN]]
    /\ call \in [Callers -> [pc : Pc, task : Tasks \cup {NoTask}, until : Nat]]
    /\ faults \in Nat

\* No window's counter exceeds the limit, whatever the interleaving of workers
\* and the markers and jobs they admit (consume.lua checks the estimate, not
\* the counter).
RateBound == \A k \in DOMAIN counters : counters[k].n <= Limit

\* The concurrency set never holds more than max_concurrency leases, with
\* renewals, crashes, reclaimed and re-granted leases.
SlotBound == Cardinality(DOMAIN leases) <= MaxConcurrency

\* All processes that hold or run an admitted task.
Holders == UNION {HoldersOf(t) : t \in Tasks}

\* The real concurrency limit: at most max_concurrency tasks are in the hands
\* of processes at any time.  Redis only counts leases; the two agree as long as
\* leases of live owners are renewed in time and no task has two copies.
ExecutionBound == Cardinality(Holders) <= MaxConcurrency

\* Deduplication: a task is never claimed, buffered or run twice at the same
\* time, whatever clients, crashes and clean-ups do, provided its in-flight key
\* does not expire under it (MarkersOutlive) and no reply of schedule.lua is lost
\* after the script took effect (DefiniteReplies): either one brings a second copy.
AtMostOneCopy == \A t \in Tasks : Cardinality(Copies(t)) <= 1

\* What deduplication is there for: a job is never run by two threads at once.
\* A job that runs for longer than its in-flight key lives can be.
RunsOnceAtATime ==
    \A th, other \in Threads :
        thread[th].task = thread[other].task /\ thread[th].task # NoTask => th = other

\* Admissions, renewals, releases and expiring keys together implement a pool of
\* slots with a budget per window: a slot costs a token, nothing refunds one, the
\* counter of the current window never expires or is written ahead of its window,
\* and a new window starts at zero.
Pool == INSTANCE SlotPool WITH
    slots  <- DOMAIN leases,
    window <- WindowIndex(now, Window),
    spent  <- CurrentCount

ImplementsPool == Pool!Spec

\* A buffered job leaves the buffer only into the hand of a worker or into the
\* dead letter queue: jobs past their max age are not dropped silently.
JobsNotDropped ==
    [][\A e \in buffer \ buffer' : e.task \in Jobs =>
        e \in dlq' \/ \E w \in Workers : hand[w] = NoTask /\ hand'[w] = e.task]_vars

\* An acquire() that raised AcquireTimeout has no slot: no capacity is reserved
\* for a caller that has given up.
NoAbandonedSlot ==
    \A m \in Markers : call[m].pc = "timedout" => m \notin DOMAIN leases
=============================================================================
