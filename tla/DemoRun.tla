------------------------------- MODULE DemoRun -------------------------------
(***************************************************************************)
(* The programs of the repository, composed with the backends they use.    *)
(*                                                                         *)
(* The example programs: run_demo, shared by the demonstrations of the     *)
(* pool and broker backends, and run_async_demo.  A limiter without a      *)
(* drain loop schedules every task; a second one then drains, and the      *)
(* program watches its status until the buffer and the concurrency set     *)
(* are empty, shuts the limiter down and cleans up.  The broker programs   *)
(* start their workers first, each with a draining limiter of its own.     *)
(*                                                                         *)
(* The cluster demonstration: a pod that generates traffic through a       *)
(* limiter without a drain loop, and a worker pod with a thread pool that  *)
(* drains until it is signalled.                                           *)
(***************************************************************************)
EXTENDS Backends

VARIABLES
    program,     \* "example", or "pod": the worker pod
    phase,       \* where the program is
    announced    \* it has logged "All tasks completed!"

demoVars == <<program, phase, announced>>
vars == <<backendVars, demoVars>>

\* The keys of earlier runs are flushed and the scheduler is created.
Init ==
    /\ InitBackend
    /\ program \in {"example"} \cup (IF kind = "thread" THEN {"pod"} ELSE {})
    /\ phase = IF program = "pod" THEN "connecting" ELSE "scheduling"
    /\ announced = FALSE

\* A worker process has configured and created its limiter.  The program
\* sleeps to let it, but does not wait for it.
WorkerReady ==
    /\ workers = "starting"
    /\ workers' = "up"
    /\ UNCHANGED <<kind, stage, lease, beating, renewing, counter, executor,
                   drain, shut, lost, faults, demoVars>>

CeleryWorkerReady == kind = "celery" /\ WorkerReady
RQWorkerReady == kind = "rq" /\ WorkerReady
DramatiqWorkerReady == kind = "dramatiq" /\ WorkerReady
HueyWorkerReady == kind = "huey" /\ WorkerReady

WorkersReady ==
    \/ CeleryWorkerReady
    \/ RQWorkerReady
    \/ DramatiqWorkerReady
    \/ HueyWorkerReady

\* The burst; scheduling a task again (the deduplication part) changes nothing.
Schedule(t) ==
    /\ phase = "scheduling"
    /\ ScheduleTask(t)
    /\ UNCHANGED demoVars

\* Mutant: the scheduler is used as the consumer.
CreateConsumerUndrained ==
    /\ phase = "scheduling"
    /\ In({"new"}) = {}
    /\ phase' = "watching"
    /\ UNCHANGED <<backendVars, program, announced>>

\* create_consumer and trigger_consume, which starts the drain loop.
CreateConsumer ==
    /\ phase = "scheduling"
    /\ In({"new"}) = {}
    /\ drain' = "on"
    /\ phase' = "watching"
    /\ UNCHANGED <<kind, stage, lease, beating, renewing, counter, executor,
                   shut, workers, lost, faults, program, announced>>

\* Mutant: only the buffer is looked at.
IdleBuffer == In({"buffered"}) = {}

\* get_status: health.lua counts the buffer and the entries of the
\* concurrency set, expired ones included.
PendingTasks == In({"buffered"})
ActiveTasks == {t \in Tasks : lease[t] # "none"}

Idle == PendingTasks = {} /\ ActiveTasks = {}

AllCompleted ==
    /\ phase = "watching"
    /\ Idle
    /\ announced' = TRUE
    /\ phase' = "stopping"
    /\ UNCHANGED <<backendVars, program>>

Closed == IF executor = "open" THEN "closed" ELSE executor

\* A Redis call of the program raises, which catches KeyboardInterrupt only: it
\* ends without shutdown() and cleanup(), except that run_async_demo shuts its
\* consumer down in a finally block.  The interpreter closes the pools and waits
\* for their tasks while the drain loop goes on; the worker processes stay.
Aborts ==
    /\ phase \in {"scheduling", "watching"}
    /\ Fault
    /\ phase' = IF kind = "asyncio" /\ phase = "watching" THEN "stopping" ELSE "waiting"
    /\ executor' = IF kind \in {"thread", "process"} THEN Closed ELSE executor
    /\ UNCHANGED <<kind, stage, lease, beating, renewing, counter, drain, shut,
                   workers, lost, program, announced>>

Interrupted ==
    /\ phase = "watching"
    /\ phase' = "stopping"
    /\ UNCHANGED <<backendVars, program, announced>>

(***************************************************************************)
(* The cluster demonstration.  The traffic generator runs in a pod of its  *)
(* own and stops when that pod is signalled, so that nothing obliges it to *)
(* schedule a further task.                                                *)
(***************************************************************************)

Generate(t) ==
    /\ program = "pod"
    /\ ScheduleTask(t)
    /\ UNCHANGED demoVars

\* _connect_redis pings until Redis answers, and gives up after 30 attempts.
ConnectRedis ==
    /\ phase = "connecting"
    /\ \/ phase' = "starting" /\ UNCHANGED faults
       \/ phase' = "ended" /\ Fault
    /\ UNCHANGED <<kind, stage, lease, beating, renewing, counter, executor,
                   drain, shut, workers, lost, program, announced>>

\* _create_limiter, with a drain loop that nothing has started yet.
CreateLimiter ==
    /\ phase = "starting"
    /\ phase' = "serving"
    /\ UNCHANGED <<backendVars, program, announced>>

\* _kickstart_drain: trigger_consume starts the loop.
Kickstart ==
    /\ phase = "serving"
    /\ drain = "off"
    /\ drain' = "on"
    /\ UNCHANGED <<kind, stage, lease, beating, renewing, counter, executor,
                   shut, workers, lost, faults, demoVars>>

\* SIGTERM or SIGINT, at any time once the handlers are set.
HandleSignal ==
    /\ phase = "serving"
    /\ phase' = "stopping"
    /\ UNCHANGED <<backendVars, program, announced>>

(***************************************************************************)
(* The end of a program                                                    *)
(***************************************************************************)

\* consumer.shutdown(), limiter.shutdown()
ShutdownConsumer ==
    /\ phase = "stopping"
    /\ Shutdown
    /\ UNCHANGED demoVars

\* cleanup() begins: scheduler.shutdown(), which has no loop to stop, then
\* the pool is shut down or the worker processes are told to terminate; the
\* asyncio program has neither.
CleansUp ==
    /\ phase = "stopping"
    /\ shut = "closed"
    /\ phase' = "waiting"
    /\ UNCHANGED <<kind, stage, lease, beating, renewing, counter, drain, shut,
                   lost, faults, program, announced>>

CloseThreadPool ==
    kind = "thread" /\ CleansUp /\ executor' = Closed /\ UNCHANGED workers

CloseProcessPool ==
    kind = "process" /\ CleansUp /\ executor' = Closed /\ UNCHANGED workers

CloseAsync == kind = "asyncio" /\ CleansUp /\ UNCHANGED <<executor, workers>>

TerminateWorkers == CleansUp /\ workers' = "terminated" /\ UNCHANGED executor

TerminateCelery == kind = "celery" /\ TerminateWorkers
TerminateRQ == kind = "rq" /\ TerminateWorkers
TerminateDramatiq == kind = "dramatiq" /\ TerminateWorkers
TerminateHuey == kind = "huey" /\ TerminateWorkers

Cleanup ==
    \/ CloseThreadPool
    \/ CloseProcessPool
    \/ CloseAsync
    \/ TerminateCelery
    \/ TerminateRQ
    \/ TerminateDramatiq
    \/ TerminateHuey

\* executor.shutdown(wait=True) waits for the pool's tasks (in the pod, the
\* exit of the interpreter does), the wait for the worker processes ends in
\* any case.
Ends ==
    /\ phase = "waiting"
    /\ kind \in {"thread", "process"} => In({"queued", "running", "exited"}) = {}
    /\ phase' = "ended"
    /\ UNCHANGED <<backendVars, program, announced>>

Finished == phase = "ended" /\ UNCHANGED vars

Pod == ConnectRedis \/ CreateLimiter \/ Kickstart

Program ==
    \/ \E t \in Tasks : Schedule(t)
    \/ CreateConsumer
    \/ AllCompleted
    \/ ShutdownConsumer
    \/ Cleanup
    \/ Ends

Next ==
    \/ Program
    \/ Pod
    \/ Aborts
    \/ Interrupted
    \/ HandleSignal
    \/ \E t \in Tasks : phase # "ended" /\ Generate(t)
    \/ WorkersReady
    \/ phase # "ended" /\ BackendStep /\ UNCHANGED demoVars
    \/ Finished

-----------------------------------------------------------------------------
(***************************************************************************)
(* Fairness: the programs' own threads run; drains recur (signals, the     *)
(* watchdog); dispatching is part of a drain; the pool, the event loop or  *)
(* the workers run what they were given and functions return; an entry     *)
(* nobody renews expires.                                                  *)
(***************************************************************************)
Unrenewed(t) == ~Renewed(t) /\ stage[t] \notin {"hand", "queued"}

Step(A) == phase # "ended" /\ A /\ UNCHANGED demoVars

Fairness ==
    /\ WF_vars(Program)
    /\ WF_vars(Pod)
    /\ WF_vars(WorkersReady)
    /\ WF_vars(Step(EmptyDrain \/ DeferLastDrain))
    /\ \A t \in Tasks :
        /\ WF_vars(Step(Consume(t)))
        /\ WF_vars(Step(Dispatch(t) \/ Run(t)))
        /\ WF_vars(Step(Unrenewed(t) /\ Expire(t)))

Spec == Init /\ [][Next]_vars /\ Fairness

-----------------------------------------------------------------------------
(***************************************************************************)
(* Properties                                                              *)
(***************************************************************************)

\* When "All tasks completed!" is logged no task is still to be run or running, but
\* for those that had lost their lease.  (Tasks that nobody will ever run, like one
\* whose dispatch failed, are announced as completed too.)
CompletedIsComplete ==
    announced => In({"buffered", "hand", "queued", "running"}) \subseteq lost

\* An example program comes to its end, and so does the worker pod once it is
\* signalled, whatever fails, except when the process pool refused a
\* submission: that task's slot is renewed for ever.
DemoEnds ==
    (program = "example" \/ phase = "stopping")
        ~> (phase = "ended" \/ (kind = "process" /\ In({"refused"}) # {}))

\* "Together, they guarantee that the system converges to a healthy state": without
\* the exception of DemoEnds, an example program always comes to its end.
DemoAlwaysEnds == (program = "example") ~> (phase = "ended")

=============================================================================
