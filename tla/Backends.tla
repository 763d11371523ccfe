------------------------------ MODULE Backends ------------------------------
(***************************************************************************)
(* The seven task backends: how a drain loop hands an admitted task to an  *)
(* executor, an event loop or a message broker, and what becomes of its    *)
(* concurrency lease, its heartbeat and the local capacity counter.        *)
(*                                                                         *)
(* The module follows one limiter.  TaskLimiter models its Redis scripts   *)
(* in detail; here a lease is held, expired (still in the sorted set, no   *)
(* longer counted by consume.lua) or gone, rate limiting only delays a     *)
(* consume, and the behaviour of the libraries behind the backends (a      *)
(* pool, an event loop, a broker and its workers) is external, taken from  *)
(* how the backends use them.                                              *)
(***************************************************************************)
EXTENDS Naturals, FiniteSets

CONSTANTS
    Tasks,
    Custom,          \* tasks scheduled with use_executor=False
    MaxWorkers,      \* size of the pool, max_tasks, or number of broker workers
    MaxConcurrency,
    MaxFaults        \* bound on the number of failures

Local == {"thread", "process", "asyncio"}
Brokers == {"celery", "rq", "dramatiq", "huey"}

ASSUME BackendConstants ==
    /\ IsFiniteSet(Tasks)
    /\ Custom \subseteq Tasks
    /\ MaxWorkers \in Nat \ {0}
    /\ MaxConcurrency \in Nat \ {0}
    /\ MaxFaults \in Nat

VARIABLES
    kind,       \* the backend
    stage,      \* where each task is
    lease,      \* its entry of the concurrency sorted set
    beating,    \* tasks registered with a heartbeat scheduler
    renewing,   \* the limiter's own heartbeat thread runs
    counter,    \* _local_dispatched, _active_count
    executor,   \* the pool: open, closed (shut down) or broken
    drain,      \* the limiter's drain loop: on, last (one more drain), off
    shut,       \* how far the limiter's shutdown() has come
    workers,    \* the broker's worker processes: starting, up, terminated
    lost,       \* tasks whose lease ran out, or was released before a redelivery
    faults      \* number of failures so far

backendVars == <<kind, stage, lease, beating, renewing, counter, executor,
                 drain, shut, workers, lost, faults>>

Stages == {"new", "buffered", "hand", "queued", "running",
           "exited",     \* its lifecycle is over, the counter not yet lowered
           "done",
           "refused",    \* the pool refused it after it was counted
           "stranded"}   \* nobody will run it or release its lease

In(S) == {t \in Tasks : stage[t] \in S}
Move(t, s) == stage' = [stage EXCEPT ![t] = s]
Fault == faults < MaxFaults /\ faults' = faults + 1

InitBackend ==
    /\ kind \in Local \cup Brokers
    /\ stage = [t \in Tasks |-> "new"]
    /\ lease = [t \in Tasks |-> "none"]
    /\ beating = {}
    /\ renewing = FALSE
    /\ counter = 0
    /\ executor = "open"
    /\ drain = "off"
    /\ shut = "no"
    /\ workers = "starting"
    /\ lost = {}
    /\ faults = 0

-----------------------------------------------------------------------------
(***************************************************************************)
(* Scheduling and draining                                                 *)
(***************************************************************************)

\* The task enters the buffer; a duplicate of a scheduled task is rejected.
Buffer(t) ==
    /\ stage[t] = "new"
    /\ Move(t, "buffered")
    /\ UNCHANGED <<kind, lease, beating, renewing, counter, executor, drain,
                   shut, workers, lost, faults>>

\* schedule_task.  The broker backends wrap the payload first, to record which
\* way the task is to be dispatched.
ScheduleLocal(t) == kind \in Local /\ Buffer(t)
ScheduleCelery(t) == kind = "celery" /\ Buffer(t)
ScheduleRQ(t) == kind = "rq" /\ Buffer(t)
ScheduleDramatiq(t) == kind = "dramatiq" /\ Buffer(t)
ScheduleHuey(t) == kind = "huey" /\ Buffer(t)

ScheduleTask(t) ==
    \/ ScheduleLocal(t)
    \/ ScheduleCelery(t)
    \/ ScheduleRQ(t)
    \/ ScheduleDramatiq(t)
    \/ ScheduleHuey(t)

\* Whether the payload says that the generic worker runs the task.
UseExecutor(t) == t \notin Custom

\* Mutant: one task too many.
HasLocalCapacityOff == kind \in Local => counter <= MaxWorkers

\* _has_local_capacity: the pools and the event loop count what they were
\* given; a broker backend always has capacity.
HasLocalCapacity == kind \in Local => counter < MaxWorkers

\* The limiter's own loop drains, and so do the loops of the workers'
\* limiters; one loop has one task in hand.
CanDrain ==
    /\ drain \in {"on", "last"} \/ (kind \in Brokers /\ workers = "up")
    /\ kind \in Local => In({"hand"}) = {}
    /\ HasLocalCapacity

\* consume.lua reclaims what has expired before it decides anything.
Reclaimed == [t \in Tasks |-> IF lease[t] = "expired" THEN "none" ELSE lease[t]]

AfterDrain == IF drain = "last" THEN "off" ELSE drain

Consume(t) ==
    /\ CanDrain
    /\ stage[t] = "buffered"
    /\ Cardinality({u \in Tasks : lease[u] = "held"}) < MaxConcurrency
    /\ Move(t, "hand")
    /\ lease' = [Reclaimed EXCEPT ![t] = "held"]
    /\ drain' = IF kind \in Local THEN AfterDrain ELSE drain
    /\ UNCHANGED <<kind, beating, renewing, counter, executor, shut, workers,
                   lost, faults>>

\* A drain that finds nothing to admit.
EmptyDrain ==
    /\ CanDrain
    /\ drain = "last" \/ Reclaimed # lease
    /\ lease' = Reclaimed
    /\ drain' = AfterDrain
    /\ UNCHANGED <<kind, stage, beating, renewing, counter, executor, shut,
                   workers, lost, faults>>

\* The last drain finds no local capacity and schedules one that never runs.
DeferLastDrain ==
    /\ drain = "last"
    /\ ~HasLocalCapacity
    /\ drain' = "off"
    /\ UNCHANGED <<kind, stage, lease, beating, renewing, counter, executor,
                   shut, workers, lost, faults>>

-----------------------------------------------------------------------------
(***************************************************************************)
(* _dispatch_task                                                          *)
(***************************************************************************)

\* import_string raises in _dispatch_task: the local backends import the
\* function there, Dramatiq and Huey the custom actor.  drain() logs it.
ImportFails(t) ==
    /\ stage[t] = "hand"
    /\ kind \in Local \/ (kind \in {"dramatiq", "huey"} /\ ~UseExecutor(t))
    /\ Fault
    /\ Move(t, "stranded")
    /\ UNCHANGED <<kind, lease, beating, renewing, counter, executor, drain,
                   shut, workers, lost>>

Submitted == IF executor = "open" THEN "queued" ELSE "refused"

\* ThreadPoolRateLimiter: the task is counted before submit, which raises
\* once the executor is shut down.
SubmitThread(t) ==
    /\ kind = "thread"
    /\ stage[t] = "hand"
    /\ counter' = counter + 1
    /\ Move(t, Submitted)
    /\ UNCHANGED <<kind, lease, beating, renewing, executor, drain, shut,
                   workers, lost, faults>>

\* ProcessPoolRateLimiter: the lifecycle is entered on this side, before
\* submit, which raises when the pool is shut down or broken.
SubmitProcess(t) ==
    /\ kind = "process"
    /\ stage[t] = "hand"
    /\ counter' = counter + 1
    /\ beating' = beating \cup {t}
    /\ renewing' = TRUE
    /\ Move(t, Submitted)
    /\ UNCHANGED <<kind, lease, executor, drain, shut, workers, lost, faults>>

\* AsyncIOTaskLimiter: create_task does not fail.
CreateTask(t) ==
    /\ kind = "asyncio"
    /\ stage[t] = "hand"
    /\ counter' = counter + 1
    /\ Move(t, "queued")
    /\ UNCHANGED <<kind, lease, beating, renewing, executor, drain, shut,
                   workers, lost, faults>>

\* A message for the task reaches the broker, or sending it raises.
Send(t) ==
    /\ stage[t] = "hand"
    /\ \/ Move(t, "queued") /\ UNCHANGED faults
       \/ Move(t, "stranded") /\ Fault
    /\ UNCHANGED <<kind, lease, beating, renewing, counter, executor, drain,
                   shut, workers, lost>>

SendTask(t) == kind = "celery" /\ Send(t)
Enqueue(t) == kind = "rq" /\ Send(t)
SendMessage(t) == kind = "dramatiq" /\ Send(t)
CallTask(t) == kind = "huey" /\ Send(t)

Dispatch(t) ==
    \/ ImportFails(t)
    \/ SubmitThread(t)
    \/ SubmitProcess(t)
    \/ CreateTask(t)
    \/ SendTask(t)
    \/ Enqueue(t)
    \/ SendMessage(t)
    \/ CallTask(t)

-----------------------------------------------------------------------------
(***************************************************************************)
(* Running a task                                                          *)
(***************************************************************************)

\* Pool threads, pool processes and broker workers run one task at a time (a
\* thread until its finally block is over); the event loop starts every task.
FreeWorker ==
    \/ kind = "thread" /\ Cardinality(In({"running", "exited"})) < MaxWorkers
    \/ Cardinality(In({"running"})) < MaxWorkers /\ kind # "thread"

\* TaskLifecycle.__enter__: registers the task, which starts the heartbeat
\* thread, or starts it again after a shutdown.
Enter(t) ==
    /\ beating' = beating \cup {t}
    /\ renewing' = (renewing \/ kind \in Local)

\* Mutant: a failing release leaves the heartbeat entry behind.
ExitReleaseFirst(t) ==
    \/ /\ lease' = [lease EXCEPT ![t] = "none"]
       /\ beating' = beating \ {t}
       /\ UNCHANGED faults
    \/ UNCHANGED <<lease, beating>> /\ Fault

\* TaskLifecycle.__exit__: deregisters, then release.lua, which may fail.
Exit(t) ==
    /\ beating' = beating \ {t}
    /\ \/ lease' = [lease EXCEPT ![t] = "none"] /\ UNCHANGED faults
       \/ UNCHANGED lease /\ Fault

\* _run_task enters task_lifecycle on a pool thread.
RunTask(t) ==
    /\ kind = "thread"
    /\ stage[t] = "queued"
    /\ FreeWorker
    /\ Enter(t)
    /\ Move(t, "running")
    /\ UNCHANGED <<kind, lease, counter, executor, drain, shut, workers,
                   lost, faults>>

\* _run_task enters task_lifecycle in the event loop.
RunCoroutine(t) ==
    /\ kind = "asyncio"
    /\ stage[t] = "queued"
    /\ Enter(t)
    /\ Move(t, "running")
    /\ UNCHANGED <<kind, lease, counter, executor, drain, shut, workers,
                   lost, faults>>

\* A pool process takes the task; its lifecycle was entered before.
ProcessTakes(t) ==
    /\ kind = "process"
    /\ stage[t] = "queued"
    /\ executor # "broken"
    /\ FreeWorker
    /\ Move(t, "running")
    /\ UNCHANGED <<kind, lease, beating, renewing, counter, executor, drain,
                   shut, workers, lost, faults>>

\* A broker worker takes the message.  The wrapper of @rate_limited resolves
\* the limiter and enters the lifecycle; when it cannot (or the worker does
\* not know the task) no lifecycle is entered and the lease stays.  Dramatiq
\* would try the message again.
RateLimited(t) ==
    /\ kind \in Brokers
    /\ workers = "up"
    /\ stage[t] = "queued"
    /\ FreeWorker
    /\ \/ Enter(t) /\ Move(t, "running") /\ UNCHANGED faults
       \/ /\ kind # "dramatiq"
          /\ Fault
          /\ Move(t, "stranded")
          /\ UNCHANGED <<beating, renewing>>
    /\ UNCHANGED <<kind, lease, counter, executor, drain, shut, workers, lost>>

\* The function returns or raises on a pool thread.
ThreadReturns(t) ==
    /\ kind = "thread"
    /\ stage[t] = "running"
    /\ Exit(t)
    /\ Move(t, "exited")
    /\ UNCHANGED <<kind, renewing, counter, executor, drain, shut, workers, lost>>

\* The function returns, raises or is cancelled in the event loop.
CoroutineReturns(t) ==
    /\ kind = "asyncio"
    /\ stage[t] = "running"
    /\ Exit(t)
    /\ Move(t, "exited")
    /\ UNCHANGED <<kind, renewing, counter, executor, drain, shut, workers, lost>>

\* _on_done: the future has a result, an exception, or BrokenProcessPool.
OnDone(t) ==
    /\ kind = "process"
    /\ stage[t] = "running" \/ (stage[t] = "queued" /\ executor = "broken")
    /\ Exit(t)
    /\ Move(t, "exited")
    /\ UNCHANGED <<kind, renewing, counter, executor, drain, shut, workers, lost>>

\* Mutant: the counter is lowered only after a successful release.
LeaveReleased(t) ==
    /\ stage[t] = "exited"
    /\ counter' = IF lease[t] = "none" THEN counter - 1 ELSE counter
    /\ Move(t, "done")
    /\ UNCHANGED <<kind, lease, beating, renewing, executor, drain, shut,
                   workers, lost, faults>>

\* The finally blocks lower the counter.
Leave(t) ==
    /\ stage[t] = "exited"
    /\ counter' = counter - 1
    /\ Move(t, "done")
    /\ UNCHANGED <<kind, lease, beating, renewing, executor, drain, shut,
                   workers, lost, faults>>

\* generic_rate_limited_worker: the import and the call run inside the
\* lifecycle, so that a failure of either ends the task like a return.
WorkerReturns(t) ==
    /\ stage[t] = "running"
    /\ Exit(t)
    /\ Move(t, "done")
    /\ UNCHANGED <<kind, renewing, counter, executor, drain, shut, workers, lost>>

CeleryWorker(t) == kind = "celery" /\ WorkerReturns(t)
RQWorker(t) == kind = "rq" /\ WorkerReturns(t)
HueyWorker(t) == kind = "huey" /\ WorkerReturns(t)

\* An actor that raises, in the task or in the release, is delivered again:
\* the lifecycle is over by then and the lease as a rule released.
DramatiqWorker(t) ==
    /\ kind = "dramatiq"
    /\ stage[t] = "running"
    /\ beating' = beating \ {t}
    /\ \/ /\ lease' = [lease EXCEPT ![t] = "none"]
          /\ Move(t, "done")
          /\ UNCHANGED <<lost, faults>>
       \/ /\ Fault
          /\ Move(t, "queued")
          /\ \/ lease' = [lease EXCEPT ![t] = "none"] /\ lost' = lost \cup {t}
             \/ UNCHANGED <<lease, lost>>
    /\ UNCHANGED <<kind, renewing, counter, executor, drain, shut, workers>>

Run(t) ==
    \/ RunTask(t)
    \/ RunCoroutine(t)
    \/ ProcessTakes(t)
    \/ RateLimited(t)
    \/ ThreadReturns(t)
    \/ CoroutineReturns(t)
    \/ OnDone(t)
    \/ Leave(t)
    \/ CeleryWorker(t)
    \/ RQWorker(t)
    \/ HueyWorker(t)
    \/ DramatiqWorker(t)

-----------------------------------------------------------------------------
(***************************************************************************)
(* Leases and failures outside the limiter                                 *)
(***************************************************************************)

Renewed(t) == t \in beating /\ (kind \in Local => renewing)

\* A lease runs out.  While the task waits to start, or is renewed, that takes a
\* failure: a delay longer than a lease or, in a broker worker, the end of the
\* heartbeat thread.
Expire(t) ==
    /\ lease[t] = "held"
    /\ lease' = [lease EXCEPT ![t] = "expired"]
    /\ lost' = lost \cup {t}
    /\ IF Renewed(t) \/ stage[t] \in {"hand", "queued"} THEN Fault ELSE UNCHANGED faults
    /\ UNCHANGED <<kind, stage, beating, renewing, counter, executor, drain,
                   shut, workers>>

\* extend_lease raises what _renew_one does not catch: the limiter's heartbeat
\* thread ends, and nobody's lease is renewed until the next task is registered.
HeartbeatDies ==
    /\ kind \in Local
    /\ renewing
    /\ Fault
    /\ renewing' = FALSE
    /\ UNCHANGED <<kind, stage, lease, beating, counter, executor, drain, shut,
                   workers, lost>>

\* extend_lease finds the entry still in the sorted set.
ExtendLease(t) ==
    /\ lease[t] = "expired"
    /\ Renewed(t)
    /\ lease' = [lease EXCEPT ![t] = "held"]
    /\ UNCHANGED <<kind, stage, beating, renewing, counter, executor, drain,
                   shut, workers, lost, faults>>

\* A broker worker dies (while the workers are up that is a failure); only
\* Dramatiq delivers its message again.
WorkerDies(t) ==
    /\ kind \in Brokers
    /\ stage[t] = "running"
    /\ IF workers = "up" THEN Fault ELSE UNCHANGED faults
    /\ beating' = beating \ {t}
    /\ Move(t, IF kind = "dramatiq" THEN "queued" ELSE "stranded")
    /\ UNCHANGED <<kind, lease, renewing, counter, executor, drain, shut, workers,
                   lost>>

\* A pool process dies and takes the pool with it.
PoolBreaks ==
    /\ kind = "process"
    /\ executor # "broken"
    /\ Fault
    /\ executor' = "broken"
    /\ UNCHANGED <<kind, stage, lease, beating, renewing, counter, drain, shut,
                   workers, lost>>

-----------------------------------------------------------------------------
(***************************************************************************)
(* shutdown(): the drain loop, then the heartbeats, then (asyncio) the     *)
(* tasks.  An idle drain loop runs one more drain.                         *)
(***************************************************************************)

StopLoop ==
    /\ shut = "no"
    /\ shut' = "joining"
    /\ drain' \in IF drain = "on" THEN {"last", "off"} ELSE {drain}
    /\ UNCHANGED <<kind, stage, lease, beating, renewing, counter, executor,
                   workers, lost, faults>>

\* The loop is joined, or the wait for it runs into its limit: a thread then
\* goes on with its drain, an asyncio loop is cancelled and drops the task it
\* has in hand.
StopHeartbeat ==
    /\ shut = "joining"
    /\ \/ /\ drain = "off"
          /\ kind \in Local => In({"hand"}) = {}
          /\ UNCHANGED <<stage, drain, faults>>
       \/ /\ drain = "last" \/ In({"hand"}) # {}
          /\ Fault
          /\ IF kind = "asyncio"
               THEN /\ stage' = [t \in Tasks |-> IF stage[t] = "hand" THEN "stranded"
                                                                     ELSE stage[t]]
                    /\ drain' = "off"
               ELSE UNCHANGED <<stage, drain>>
    /\ renewing' = FALSE
    /\ shut' = IF kind = "asyncio" THEN "quiet" ELSE "closed"
    /\ UNCHANGED <<kind, lease, beating, counter, executor, workers, lost>>

\* AsyncIOTaskLimiter.shutdown: a task that never started is dropped
\* without its finally block; the others are cancelled and end as usual.
CancelTasks ==
    /\ shut = "quiet"
    /\ shut' = "cancelling"
    /\ stage' = [t \in Tasks |-> IF stage[t] = "queued" THEN "stranded" ELSE stage[t]]
    /\ UNCHANGED <<kind, lease, beating, renewing, counter, executor, drain,
                   workers, lost, faults>>

GatherTasks ==
    /\ shut = "cancelling"
    /\ In({"running", "exited"}) = {}
    /\ counter' = 0
    /\ shut' = "closed"
    /\ UNCHANGED <<kind, stage, lease, beating, renewing, executor, drain,
                   workers, lost, faults>>

Shutdown == StopLoop \/ StopHeartbeat \/ CancelTasks \/ GatherTasks

BackendStep ==
    \/ \E t \in Tasks : Consume(t) \/ Dispatch(t) \/ Run(t)
    \/ EmptyDrain
    \/ DeferLastDrain
    \/ \E t \in Tasks : Expire(t) \/ ExtendLease(t) \/ WorkerDies(t)
    \/ HeartbeatDies
    \/ PoolBreaks

-----------------------------------------------------------------------------
(***************************************************************************)
(* Properties                                                              *)
(***************************************************************************)

\* The type invariant.
TypeOK ==
    /\ kind \in Local \cup Brokers
    /\ stage \in [Tasks -> Stages]
    /\ lease \in [Tasks -> {"none", "held", "expired"}]
    /\ beating \subseteq Tasks
    /\ renewing \in BOOLEAN
    /\ workers \in {"starting", "up", "terminated"}
    /\ counter \in Nat
    /\ executor \in {"open", "closed", "broken"}
    /\ drain \in {"on", "last", "off"}
    /\ shut \in {"no", "joining", "quiet", "cancelling", "closed"}
    /\ lost \subseteq Tasks
    /\ faults \in 0..MaxFaults

\* The local capacity counter is exactly the number of tasks the backend has
\* taken and not yet let go, whatever fails, is refused or is late: it can
\* neither let too much in nor stay blocked.  (A refused submission is never
\* taken back; shutdown() of the asyncio backend resets the counter.)
CounterExact ==
    kind \in Local /\ ~(kind = "asyncio" /\ shut \in {"cancelling", "closed"})
        => counter = Cardinality(In({"queued", "running", "exited", "refused"}))

\* No task holds a concurrency slot only to wait in a local queue for a free
\* worker (_has_local_capacity), as long as no other limiter uses the pool.
NoLocalQueue ==
    kind \in Local => Cardinality(In({"queued", "running"})) <= MaxWorkers

\* Nobody renews the lease of a task that does not run, with the exception of
\* a process pool's refused submission, whose lifecycle is never left.
NoOrphanHeartbeat ==
    \A t \in beating :
        \/ stage[t] = "running"
        \/ kind = "process" /\ stage[t] \in {"queued", "refused"}

\* "The heartbeat keeps the lease alive during task execution": a running task has
\* a live entry in the concurrency set.  Not so when nothing fails, either: after
\* shutdown() the tasks of a pool run on, and nobody renews their leases.
RunsUnderLease == \A t \in Tasks : stage[t] = "running" => lease[t] = "held"

=============================================================================
