------------------------------ MODULE DrainLoop ------------------------------
(***************************************************************************)
(* When the workers drain: the drain loop of every worker process, the     *)
(* wake-ups it gets from its own process and over Redis Pub/Sub, the       *)
(* follow-ups _drain_inner schedules for each outcome of consume.lua, and  *)
(* the watchdog.                                                           *)
(*                                                                         *)
(* Wake-up times are abstracted to "now" (no delay) and "later" (any       *)
(* positive delay; it comes in the end).  Redis is abstracted to counts:   *)
(* buffered entries, tokens the rate limit has left, leases.  consume.lua  *)
(* decides and _drain_inner acts on its answer in two steps, between which *)
(* any other process may move.                                             *)
(***************************************************************************)
EXTENDS Naturals, FiniteSets

CONSTANTS
    Workers,            \* processes with a drain loop
    AsyncWorkers,       \* those whose drain loop is an asyncio task (AsyncDrainLoop)
    Senders,            \* processes that schedule; those that are no worker do not drain
    Threads, Owner,     \* pool threads, and the worker each belongs to
    NoWorker,           \* not a worker
    Limit,              \* tokens of an empty window
    MaxConcurrency,
    Survivors,          \* workers that run, and were woken at least once, all along
    MaxTasks,           \* bound: tasks scheduled
    MaxFaults           \* bound: failures, and entries found too old or given up

ASSUME DrainConstants ==
    /\ IsFiniteSet(Workers) /\ Workers # {} /\ NoWorker \notin Workers
    /\ IsFiniteSet(Threads)
    /\ Owner \in [Threads -> Workers]
    /\ Limit \in Nat \ {0} /\ MaxConcurrency \in Nat \ {0}
    /\ Survivors \subseteq Workers /\ AsyncWorkers \subseteq Workers
    /\ MaxTasks \in Nat /\ MaxFaults \in Nat

VARIABLES
    todo,           \* tasks not scheduled yet
    buffer,         \* entries in the buffer
    tokens,         \* admissions the rate limit permits at the moment
    abandoned,      \* leases whose holder is gone, not expired yet
    lastConsumer, lastCaller,   \* the fairness keys
    trigger,        \* sender -> tasks pushed, trigger_consume not called yet
    channel,        \* workers with an undelivered drain signal
    nextWake,       \* worker -> DrainLoop._next_wake
    posted,         \* wake-ups of asyncio workers whose coroutine has not run yet
    started,        \* worker -> its drain thread exists
    pc,             \* worker -> where its drain thread is
    result,         \* worker -> what consume() returned
    stage,          \* pool thread -> how far its task is
    faults, stale   \* numbers of failures and of stale entries so far

redisVars == <<buffer, tokens, abandoned, lastConsumer, lastCaller>>
wakeVars == <<nextWake, posted, started>>
loopVars == <<wakeVars, pc, result>>
vars == <<todo, redisVars, trigger, channel, loopVars, stage, faults, stale>>

NoResult == [status |-> "none", more |-> FALSE, full |-> FALSE, dry |-> FALSE]

Init ==
    /\ todo = MaxTasks
    /\ buffer = 0 /\ tokens = Limit /\ abandoned = 0
    /\ lastConsumer = NoWorker /\ lastCaller = NoWorker
    /\ trigger = [s \in Senders |-> 0]
    /\ channel = {}
    /\ nextWake = [w \in Workers |-> "none"] /\ posted = {}
    /\ started = [w \in Workers |-> w \in Survivors]
    /\ pc = [w \in Workers |-> "waiting"]
    /\ result = [w \in Workers |-> NoResult]
    /\ stage = [th \in Threads |-> "free"]
    /\ faults = 0 /\ stale = 0

-----------------------------------------------------------------------------
Fault == faults + stale < MaxFaults /\ faults' = faults + 1
Stale == faults + stale < MaxFaults /\ stale' = stale + 1

\* Leases in the concurrency set once the expired ones are reclaimed: running
\* tasks, admitted tasks on their way to a thread, and abandoned slots.
Active ==
    Cardinality({th \in Threads : stage[th] = "running"})
    + Cardinality({w \in Workers : result[w].status = "admitted"})
    + abandoned

\* _has_local_capacity: a thread counts until _run_task has decremented the
\* counter, after the wake-up at the end of its lifecycle.
FreeThreads(w) == {th \in Threads : Owner[th] = w /\ stage[th] = "free"}

\* The body of DrainLoop.wake under the lock: start the thread if need be; keep
\* the earlier target.
WakeTarget(w, when) ==
    IF nextWake[w] = "none" \/ when = "now" THEN when ELSE nextWake[w]

SetWake(w, when) ==
    /\ nextWake' = [nextWake EXCEPT ![w] = WakeTarget(w, when)]
    /\ started' = [started EXCEPT ![w] = TRUE]

\* wake(): at once, or, in an asyncio worker, by a coroutine of its own.
Wake(w, when) ==
    IF w \in AsyncWorkers
    THEN posted' = posted \cup {<<w, when>>} /\ UNCHANGED <<nextWake, started>>
    ELSE SetWake(w, when) /\ UNCHANGED posted

NoWake == UNCHANGED wakeVars

\* PUBLISH: every subscribed process gets the signal, the sender ignores it.
Signalled(sender) == channel \cup (Workers \ {sender})

-----------------------------------------------------------------------------
(***************************************************************************)
(* Scheduling and signals                                                  *)
(***************************************************************************)

\* schedule_task up to and including schedule.lua.
Schedule(s) ==
    /\ todo > 0
    /\ todo' = todo - 1
    /\ buffer' = buffer + 1
    /\ trigger' = [trigger EXCEPT ![s] = @ + 1]
    /\ UNCHANGED <<tokens, abandoned, lastConsumer, lastCaller, channel,
                   loopVars, stage, faults, stale>>

\* trigger_consume: wake the local drain loop, then publish.  A PUBLISH that
\* fails is ignored.
Trigger(s, published) ==
    /\ trigger[s] > 0
    /\ trigger' = [trigger EXCEPT ![s] = @ - 1]
    /\ IF s \in Workers THEN Wake(s, "now") ELSE NoWake
    /\ IF published
       THEN channel' = Signalled(s) /\ UNCHANGED faults
       ELSE Fault /\ UNCHANGED channel
    /\ UNCHANGED <<todo, redisVars, pc, result, stage, stale>>

\* DrainSignalSubscriber receives a signal of another process.
Deliver(w) ==
    /\ w \in channel
    /\ channel' = channel \ {w}
    /\ Wake(w, "now")
    /\ UNCHANGED <<todo, redisVars, trigger, pc, result, stage, faults, stale>>

\* The coroutine of an asynchronous wake() runs.
WakeAsync(w, when) ==
    /\ <<w, when>> \in posted
    /\ posted' = posted \ {<<w, when>>}
    /\ SetWake(w, when)
    /\ UNCHANGED <<todo, redisVars, trigger, channel, pc, result, stage, faults, stale>>

\* A signal is lost while the subscriber has no connection.
LoseSignal(w) ==
    /\ Fault
    /\ w \in channel
    /\ channel' = channel \ {w}
    /\ UNCHANGED <<todo, redisVars, trigger, loopVars, stage, stale>>

-----------------------------------------------------------------------------
(***************************************************************************)
(* DrainLoop._run and drain                                                *)
(***************************************************************************)

\* A wake-up is due: it is cleared under the lock, then drain() runs.
StartDrain(w) ==
    /\ started[w] /\ pc[w] = "waiting" /\ nextWake[w] # "none"
    /\ nextWake' = [nextWake EXCEPT ![w] = "none"]
    /\ pc' = [pc EXCEPT ![w] = "draining"]
    /\ UNCHANGED <<todo, redisVars, trigger, channel, posted, started, result, stage,
                   faults, stale>>

\* Mutant: the wait has no timeout.
WatchdogNever(w) == FALSE

\* Nothing is scheduled and the wait times out: drain() runs all the same.
Watchdog(w) ==
    /\ started[w] /\ pc[w] = "waiting" /\ nextWake[w] = "none"
    /\ pc' = [pc EXCEPT ![w] = "draining"]
    /\ UNCHANGED <<todo, redisVars, trigger, channel, wakeVars, result, stage, faults, stale>>

\* _drain_inner stops short of consume(): no local capacity.
NoCapacity(w) ==
    /\ pc[w] = "draining"
    /\ FreeThreads(w) = {}
    /\ pc' = [pc EXCEPT ![w] = "waiting"]
    /\ Wake(w, "later")
    /\ UNCHANGED <<todo, redisVars, trigger, channel, result, stage, faults, stale>>

-----------------------------------------------------------------------------
(***************************************************************************)
(* consume.lua                                                             *)
(***************************************************************************)

\* The part all calls share: expired leases are reclaimed and the caller is
\* noted; the answer waits in result[w] for _drain_inner.
Consuming(w, answer) ==
    /\ pc[w] = "draining"
    /\ FreeThreads(w) # {}
    /\ lastCaller' = w
    /\ pc' = [pc EXCEPT ![w] = "deciding"]
    /\ result' = [result EXCEPT ![w] = answer]
    /\ UNCHANGED <<todo, abandoned, trigger, channel, wakeVars, stage, faults>>

\* Another worker has called since w consumed: w has to let it go first.
MustYield(w) == lastConsumer = w /\ lastCaller \notin {NoWorker, w}

Permitted(w) == ~MustYield(w) /\ tokens > 0 /\ Active < MaxConcurrency

\* Status -3.
ConsumeYields(w) ==
    /\ MustYield(w)
    /\ Consuming(w, [NoResult EXCEPT !.status = "yielded"])
    /\ UNCHANGED <<buffer, tokens, lastConsumer, stale>>

\* Status 0: no token, no slot, or nothing in the buffer.
ConsumeBlocked(w) ==
    /\ ~MustYield(w)
    /\ ~Permitted(w) \/ buffer = 0
    /\ Consuming(w, [status |-> "blocked", more |-> buffer > 0,
                     full |-> Active >= MaxConcurrency, dry |-> tokens = 0])
    /\ UNCHANGED <<buffer, tokens, lastConsumer, stale>>

\* Status -1 and -2: the head is too old, or a marker whose caller gave up.  The
\* reported tokens are rounded down, so they may be 0 although one is left.
ConsumeStale(w, status, dry) ==
    /\ Permitted(w)
    /\ buffer > 0
    /\ Stale
    /\ buffer' = buffer - 1
    /\ dry => tokens = 1
    /\ Consuming(w, [status |-> status, more |-> buffer > 1, full |-> FALSE, dry |-> dry])
    /\ UNCHANGED <<tokens, lastConsumer>>

\* Status 1.
ConsumeAdmits(w) ==
    /\ Permitted(w)
    /\ buffer > 0
    /\ buffer' = buffer - 1
    /\ tokens' = tokens - 1
    /\ lastConsumer' = w
    /\ Consuming(w, [status |-> "admitted", more |-> buffer > 1, full |-> FALSE, dry |-> FALSE])
    /\ UNCHANGED stale

\* The call raises: drain() schedules a retry with backoff.  When the script had
\* admitted a task before the connection broke, nobody has that task: its
\* lease is abandoned.
ConsumeFails(w, effective) ==
    /\ Fault
    /\ pc[w] = "draining"
    /\ FreeThreads(w) # {}
    /\ IF effective
       THEN /\ Permitted(w) /\ buffer > 0
            /\ buffer' = buffer - 1 /\ tokens' = tokens - 1
            /\ abandoned' = abandoned + 1
            /\ lastConsumer' = w /\ lastCaller' = w
       ELSE UNCHANGED redisVars
    /\ pc' = [pc EXCEPT ![w] = "waiting"]
    /\ Wake(w, "later")
    /\ UNCHANGED <<todo, trigger, channel, result, stage, stale>>

-----------------------------------------------------------------------------
(***************************************************************************)
(* _drain_inner after consume()                                            *)
(***************************************************************************)

Decided(w) ==
    /\ pc[w] = "deciding"
    /\ pc' = [pc EXCEPT ![w] = "waiting"]
    /\ result' = [result EXCEPT ![w] = NoResult]

\* Admitted: dispatch, and go on at once if the buffer has more.
Dispatch(w) ==
    /\ result[w].status = "admitted"
    /\ Decided(w)
    /\ \E th \in FreeThreads(w) : stage' = [stage EXCEPT ![th] = "running"]
    /\ IF result[w].more THEN Wake(w, "now") ELSE NoWake
    /\ UNCHANGED <<todo, redisVars, trigger, channel, faults, stale>>

\* _dispatch_task raises: the lease stays until it expires; drain() retries.
DispatchFails(w) ==
    /\ Fault
    /\ result[w].status = "admitted"
    /\ Decided(w)
    /\ abandoned' = abandoned + 1
    /\ Wake(w, "later")
    /\ UNCHANGED <<todo, buffer, tokens, lastConsumer, lastCaller, trigger,
                   channel, stage, stale>>

\* The follow-up for the other outcomes, in the order of the branches: yielded,
\* buffer empty, concurrency at capacity, marker skipped, no tokens; an expired
\* entry has no branch of its own.
FollowUp(r) ==
    CASE r.status = "yielded" -> "later"
      [] r.status # "yielded" /\ (~r.more \/ r.full) -> "none"
      [] r.status = "skipped" /\ r.more /\ ~r.full -> "now"
      [] r.status \in {"blocked", "expired"} /\ r.more /\ ~r.full ->
            IF r.dry THEN "later" ELSE "none"

\* Mutant: _next_wake is cleared after drain(), not only before it.
NotAdmittedForgets(w) ==
    /\ result[w].status # "admitted"
    /\ Decided(w)
    /\ nextWake' = [nextWake EXCEPT ![w] = FollowUp(result[w])]
    /\ UNCHANGED <<todo, redisVars, trigger, channel, posted, started, stage, faults, stale>>

NotAdmitted(w) ==
    /\ result[w].status # "admitted"
    /\ Decided(w)
    /\ IF FollowUp(result[w]) = "none" THEN NoWake ELSE Wake(w, FollowUp(result[w]))
    /\ UNCHANGED <<todo, redisVars, trigger, channel, stage, faults, stale>>

-----------------------------------------------------------------------------
(***************************************************************************)
(* The end of a task: TaskLifecycle.__exit__ and _run_task's finally       *)
(***************************************************************************)

\* release.lua frees the slot and publishes in one step.
Release(th) ==
    /\ stage[th] = "running"
    /\ stage' = [stage EXCEPT ![th] = "released"]
    /\ channel' = Signalled(Owner[th])
    /\ UNCHANGED <<todo, redisVars, trigger, loopVars, faults, stale>>

\* release.lua fails: the lease is abandoned, the local wake-up still follows.
ReleaseFails(th) ==
    /\ Fault
    /\ stage[th] = "running"
    /\ stage' = [stage EXCEPT ![th] = "released"]
    /\ abandoned' = abandoned + 1
    /\ UNCHANGED <<todo, buffer, tokens, lastConsumer, lastCaller, trigger,
                   channel, loopVars, stale>>

\* __exit__ wakes the drain loop of its own process.
WakeOwner(th) ==
    /\ stage[th] = "released"
    /\ stage' = [stage EXCEPT ![th] = "woken"]
    /\ Wake(Owner[th], "now")
    /\ UNCHANGED <<todo, redisVars, trigger, channel, pc, result, faults, stale>>

\* _run_task's finally: the pool has room again.
Leave(th) ==
    /\ stage[th] = "woken"
    /\ stage' = [stage EXCEPT ![th] = "free"]
    /\ UNCHANGED <<todo, redisVars, trigger, channel, loopVars, faults, stale>>

-----------------------------------------------------------------------------
(***************************************************************************)
(* The environment                                                         *)
(***************************************************************************)

\* A worker process dies and is restarted.  Its leases are abandoned; the new
\* process subscribes, and has no drain thread until somebody wakes it.
Crash(w) ==
    /\ Fault
    /\ w \notin Survivors
    /\ abandoned' = abandoned
         + Cardinality({th \in Threads : Owner[th] = w /\ stage[th] = "running"})
         + (IF result[w].status = "admitted" THEN 1 ELSE 0)
    /\ stage' = [th \in Threads |-> IF Owner[th] = w THEN "free" ELSE stage[th]]
    /\ trigger' = [s \in Senders |-> IF s = w THEN 0 ELSE trigger[s]]
    /\ channel' = channel \ {w}
    /\ nextWake' = [nextWake EXCEPT ![w] = "none"]
    /\ posted' = {p \in posted : p[1] # w}
    /\ started' = [started EXCEPT ![w] = FALSE]
    /\ pc' = [pc EXCEPT ![w] = "waiting"]
    /\ result' = [result EXCEPT ![w] = NoResult]
    /\ UNCHANGED <<todo, buffer, tokens, lastConsumer, lastCaller, stale>>

\* The lease of an abandoned slot runs out.
LeaseRunsOut ==
    /\ abandoned > 0
    /\ abandoned' = abandoned - 1
    /\ UNCHANGED <<todo, buffer, tokens, lastConsumer, lastCaller, trigger, channel,
                   loopVars, stage, faults, stale>>

\* The window slides.
Refill ==
    /\ tokens < Limit
    /\ tokens' = tokens + 1
    /\ UNCHANGED <<todo, buffer, abandoned, lastConsumer, lastCaller, trigger,
                   channel, loopVars, stage, faults, stale>>

\* The TTL of the last_consumer key passes (without it nobody yields).
FairnessExpires ==
    /\ lastConsumer # NoWorker
    /\ lastConsumer' = NoWorker
    /\ UNCHANGED <<todo, buffer, tokens, abandoned, lastCaller, trigger, channel,
                   loopVars, stage, faults, stale>>

Consume(w) ==
    \/ ConsumeYields(w) \/ ConsumeBlocked(w) \/ ConsumeAdmits(w)
    \/ \E status \in {"expired", "skipped"}, dry \in BOOLEAN : ConsumeStale(w, status, dry)

\* What the drain thread of w does next, failures aside.
LoopStep(w) ==
    StartDrain(w) \/ Watchdog(w) \/ NoCapacity(w) \/ Consume(w) \/ Dispatch(w) \/ NotAdmitted(w)

TaskEnds(th) == Release(th) \/ WakeOwner(th) \/ Leave(th)

Failure ==
    \/ \E s \in Senders : Trigger(s, FALSE)
    \/ \E w \in Workers : LoseSignal(w) \/ DispatchFails(w) \/ Crash(w)
    \/ \E w \in Workers, effective \in BOOLEAN : ConsumeFails(w, effective)
    \/ \E th \in Threads : ReleaseFails(th)

Next ==
    \/ \E s \in Senders : Schedule(s) \/ Trigger(s, TRUE)
    \/ \E w \in Workers : Deliver(w) \/ LoopStep(w)
    \/ \E w \in AsyncWorkers, when \in {"now", "later"} : WakeAsync(w, when)
    \/ \E th \in Threads : TaskEnds(th)
    \/ LeaseRunsOut \/ Refill \/ FairnessExpires
    \/ Failure

(***************************************************************************)
(* Fairness: threads of live processes run, condition waits with a timeout *)
(* return, tasks end, leases and windows follow the clock.  No failure, no *)
(* new task and no delivery of a signal is ever assumed to happen.         *)
(***************************************************************************)
Fairness ==
    /\ \A w \in Workers : WF_vars(LoopStep(w))
    /\ \A th \in Threads : WF_vars(TaskEnds(th))
    /\ WF_vars(LeaseRunsOut) /\ WF_vars(Refill)

Spec == Init /\ [][Next]_vars /\ Fairness

\* The same when, besides, clients go on to trigger_consume and subscribers
\* receive every signal that is neither lost nor left unpublished by a failure.
SpecDelivering ==
    /\ Spec
    /\ \A s \in Senders : WF_vars(\E published \in BOOLEAN : Trigger(s, published))
    /\ \A w \in Workers : WF_vars(Deliver(w))

-----------------------------------------------------------------------------
(***************************************************************************)
(* Properties                                                              *)
(***************************************************************************)

\* The type invariant.
TypeOK ==
    /\ {todo, buffer, tokens, abandoned, faults, stale} \subseteq Nat
    /\ {lastConsumer, lastCaller} \subseteq Workers \cup {NoWorker}
    /\ trigger \in [Senders -> Nat]
    /\ channel \subseteq Workers
    /\ nextWake \in [Workers -> {"none", "now", "later"}]
    /\ posted \subseteq AsyncWorkers \X {"now", "later"}
    /\ started \in [Workers -> BOOLEAN]
    /\ pc \in [Workers -> {"waiting", "draining", "deciding"}]
    /\ result \in [Workers -> [status : {"none", "yielded", "blocked", "expired", "skipped",
                                         "admitted"},
                               more : BOOLEAN, full : BOOLEAN, dry : BOOLEAN]]
    /\ stage \in [Threads -> {"free", "running", "released", "woken"}]

\* Somebody is on the way to consume() without the help of a watchdog.
Attended ==
    \/ \E w \in Workers : nextWake[w] # "none" \/ pc[w] # "waiting" \/ w \in channel
    \/ posted # {}
    \/ \E s \in Senders : trigger[s] > 0
    \/ \E th \in Threads : stage[th] = "released"

\* No lost wake-up, until the first failure or entry that is too old: while the
\* buffer is not empty and a slot is free, some process is draining, is going to,
\* or is about to be told to.  A worker that stops because consume() reported an
\* empty buffer or full concurrency may act on an answer that is out of date: the
\* push or the release that came in between has then woken it.
NoLostWakeup ==
    (faults = 0 /\ stale = 0 /\ buffer > 0 /\ Active < MaxConcurrency) => Attended

\* Every buffered task is consumed in the end, whatever signals are lost and
\* calls fail, as long as one woken worker stays alive.
BufferDrains == []<>(buffer = 0)
=============================================================================
