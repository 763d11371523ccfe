------------------------------ MODULE Lifetime ------------------------------
(***************************************************************************)
(* The background threads of one limiter instance, from construction to    *)
(* shutdown(): the drain loop, the signal subscriber, the backend health   *)
(* monitor and the heartbeat scheduler, each a daemon thread (or, in an    *)
(* asyncio limiter, a task).  DrainLoop models many processes and what a   *)
(* drain decides; this module models one process and the condition         *)
(* variable, flags, notifications and joins its threads are built from.    *)
(*                                                                         *)
(* A wait with a timeout returns when it is notified; that it also returns *)
(* when the watchdog interval is over is possible but never relied on.     *)
(***************************************************************************)
EXTENDS Naturals, FiniteSets

CONSTANTS
    Tasks,              \* tasks given to the limiter, here or by other processes
    MaxErrors           \* bound: failed Redis calls, late joins, changes of the backend

ASSUME LifetimeConstants ==
    IsFiniteSet(Tasks) /\ MaxErrors \in Nat

VARIABLES
    conf,       \* how the instance was constructed
    owner,      \* the thread that constructs the limiter and shuts it down
    loop,       \* the drain thread: where DrainLoop._run is
    nextWake,   \* _next_wake
    notified,   \* the condition was notified while the drain thread waits
    posted,     \* asyncio: wake() calls whose coroutine has not run yet
    sub,        \* the subscriber thread
    inbox,      \* a message is waiting on the Pub/Sub connection
    mon,        \* the monitor thread
    healthy,    \* BackendHealthMonitor._healthy
    alarms,     \* warnings minus recovery messages logged so far
    backend,    \* what a health check would find
    beat,       \* the heartbeat thread
    beatGen,    \* how many heartbeat threads were started
    joining,    \* the heartbeat thread shutdown() joins
    down,       \* the components whose _shutdown flag is set
    late,       \* the components whose join timed out
    lastDrains, \* drains started after the drain loop was told to stop
    stage,      \* task -> how far it is
    errors      \* errors so far

loopVars == <<loop, nextWake, notified, posted, lastDrains>>
subVars == <<sub, inbox>>
monVars == <<mon, healthy, alarms>>
beatVars == <<beat, beatGen, joining>>
ownerVars == <<conf, owner, down, late>>
envVars == <<backend, stage, errors>>
vars == <<loopVars, subVars, monVars, beatVars, ownerVars, envVars>>

Threaded == conf.mode = "threads"

Dead == {"none", "ended"}

\* Only a class that overrides _check_backend_health, with drain_enabled, has a
\* monitor.
HasMonitor == conf.drains /\ conf.checks

\* The instance as its arguments and its class describe it.
Init ==
    /\ conf \in [mode : {"threads", "asyncio"}, drains : BOOLEAN, checks : BOOLEAN]
    /\ owner = "constructing"
    /\ loop = "none" /\ nextWake = "none" /\ notified = FALSE /\ posted = {}
    /\ sub = "none" /\ inbox = FALSE
    /\ mon = "none" /\ healthy = TRUE /\ alarms = 0 /\ backend = TRUE
    /\ beat = "none" /\ beatGen = 0 /\ joining = 0
    /\ down = {} /\ late = {} /\ lastDrains = 0
    /\ stage = [t \in Tasks |-> "new"]
    /\ errors = 0

Error == errors < MaxErrors /\ errors' = errors + 1

\* The end of __init__, or start(): the subscriber and the monitor start; the
\* drain loop and the heartbeat scheduler have no thread yet.
Start ==
    /\ owner = "constructing"
    /\ owner' = "open"
    /\ sub' = IF conf.drains THEN "top" ELSE "none"
    /\ mon' = IF HasMonitor THEN "waiting" ELSE "none"
    /\ UNCHANGED <<loopVars, inbox, healthy, alarms, beatVars, conf, down, late, envVars>>

-----------------------------------------------------------------------------
(***************************************************************************)
(* DrainLoop                                                               *)
(***************************************************************************)

\* Mutant: the new target is stored and nobody is told.
SetWakeSilently(when, at) ==
    /\ nextWake' = IF nextWake = "none" \/ when = "now" THEN when ELSE nextWake
    /\ notified' = notified
    /\ loop' = IF at \in Dead /\ (Threaded \/ "loop" \notin down) THEN "top" ELSE at

\* wake() under the lock, with the drain thread at `at`: start a thread if there
\* is none (a stopped asyncio loop is not started again, a stopped thread is, and
\* ends at once), keep the earlier target and notify.
SetWake(when, at) ==
    LET earlier == nextWake = "none" \/ (when = "now" /\ nextWake = "later")
    IN  /\ nextWake' = IF earlier THEN when ELSE nextWake
        /\ notified' = (notified \/ (earlier /\ at \in {"idle", "timed"}))
        /\ loop' = IF at \in Dead /\ (Threaded \/ "loop" \notin down) THEN "top" ELSE at

\* _schedule_drain: nothing without a drain loop; a coroutine in an asyncio loop.
ScheduleDrain(when, at) ==
    IF ~conf.drains
    THEN loop' = at /\ UNCHANGED <<nextWake, notified, posted>>
    ELSE IF Threaded
         THEN SetWake(when, at) /\ UNCHANGED posted
         ELSE loop' = at /\ posted' = posted \cup {when} /\ UNCHANGED <<nextWake, notified>>

\* AsyncDrainLoop._wake_async.
RunWake(when) ==
    /\ when \in posted
    /\ posted' = posted \ {when}
    /\ SetWake(when, loop)
    /\ UNCHANGED <<lastDrains, subVars, monVars, beatVars, ownerVars, envVars>>

\* Mutant: the flag is looked at only while no drain is due.
LoopTopBusy ==
    /\ loop = "top"
    /\ IF "loop" \in down /\ nextWake # "now"
       THEN loop' = "ended" /\ UNCHANGED <<nextWake, notified, lastDrains>>
       ELSE /\ loop' = CASE nextWake = "none" -> "idle" [] nextWake = "later" -> "timed"
                         [] nextWake = "now" -> "draining"
            /\ nextWake' = IF nextWake = "now" THEN "none" ELSE nextWake
            /\ notified' = FALSE
            /\ lastDrains' = lastDrains + (IF loop' = "draining" /\ "loop" \in down THEN 1 ELSE 0)
    /\ UNCHANGED <<posted, subVars, monVars, beatVars, ownerVars, envVars>>

\* The head of _run's loop, under the lock: stop, wait, or drain.
LoopTop ==
    /\ loop = "top"
    /\ IF "loop" \in down
       THEN loop' = "ended" /\ UNCHANGED <<nextWake, notified>>
       ELSE /\ loop' = CASE nextWake = "none" -> "idle" [] nextWake = "later" -> "timed"
                         [] nextWake = "now" -> "draining"
            /\ nextWake' = IF nextWake = "now" THEN "none" ELSE nextWake
            /\ notified' = FALSE
    /\ UNCHANGED <<posted, lastDrains, subVars, monVars, beatVars, ownerVars, envVars>>

\* The wait without a target returns, notified or timed out.  A target set
\* meanwhile sends the thread back to the head of the loop; otherwise it drains,
\* also when it was shutdown() that notified it.
IdleReturns ==
    /\ loop = "idle"
    /\ IF nextWake # "none"
       THEN loop' = "top" /\ UNCHANGED lastDrains
       ELSE /\ loop' = "draining"
            /\ lastDrains' = lastDrains + (IF "loop" \in down THEN 1 ELSE 0)
    /\ notified' = FALSE
    /\ UNCHANGED <<nextWake, posted, subVars, monVars, beatVars, ownerVars, envVars>>

\* A delayed target is due.
Due ==
    /\ nextWake = "later"
    /\ nextWake' = "now"
    /\ notified' = (notified \/ loop = "timed")
    /\ UNCHANGED <<loop, posted, lastDrains, subVars, monVars, beatVars, ownerVars, envVars>>

\* The wait for a target returns.
TimedReturns ==
    /\ loop = "timed" /\ notified
    /\ loop' = "top" /\ notified' = FALSE
    /\ UNCHANGED <<nextWake, posted, lastDrains, subVars, monVars, beatVars, ownerVars, envVars>>

\* drain() finds a task: it is dispatched, and the loop goes on if there are more.
DrainDispatches(t) ==
    /\ loop = "draining" /\ stage[t] = "buffered"
    /\ stage' = [stage EXCEPT ![t] = "dispatched"]
    /\ IF \E u \in Tasks \ {t} : stage[u] = "buffered"
       THEN ScheduleDrain("now", "top")
       ELSE loop' = "top" /\ UNCHANGED <<nextWake, notified, posted>>
    /\ UNCHANGED <<lastDrains, subVars, monVars, beatVars, ownerVars, backend, errors>>

\* drain() ends without a task: a delayed follow-up (rate, local capacity, pause),
\* or none, although tasks may be buffered (no free slot, or the entry it took had
\* expired).
DrainEnds(retry) ==
    /\ loop = "draining"
    /\ IF retry THEN ScheduleDrain("later", "top")
       ELSE loop' = "top" /\ UNCHANGED <<nextWake, notified, posted>>
    /\ UNCHANGED <<lastDrains, subVars, monVars, beatVars, ownerVars, envVars>>

\* drain() fails: it schedules its own recovery.
DrainFails ==
    /\ loop = "draining"
    /\ Error
    /\ ScheduleDrain("later", "top")
    /\ UNCHANGED <<lastDrains, subVars, monVars, beatVars, ownerVars, backend, stage>>

LoopStep ==
    \/ LoopTop \/ TimedReturns \/ (notified /\ IdleReturns)
    \/ (\E t \in Tasks : DrainDispatches(t)) \/ (\E retry \in BOOLEAN : DrainEnds(retry))

-----------------------------------------------------------------------------
(***************************************************************************)
(* DrainSignalSubscriber                                                   *)
(***************************************************************************)

\* The head of the subscriber's loop.
SubTop ==
    /\ sub = "top"
    /\ sub' = IF "subscriber" \in down THEN "ended" ELSE "polling"
    /\ UNCHANGED <<loopVars, inbox, monVars, beatVars, ownerVars, envVars>>

\* get_message returns: a message of another process (the sentinel of shutdown()
\* counts as one) wakes the drain loop.
SubPolls ==
    /\ sub = "polling"
    /\ sub' = "top"
    /\ inbox' = FALSE
    /\ IF inbox THEN ScheduleDrain("now", loop)
       ELSE UNCHANGED <<loop, nextWake, notified, posted>>
    /\ UNCHANGED <<lastDrains, monVars, beatVars, ownerVars, envVars>>

\* get_message raises: the thread ends if it was told to, and pauses otherwise.
SubFails ==
    /\ sub = "polling"
    /\ Error
    /\ sub' = IF "subscriber" \in down THEN "ended" ELSE "top"
    /\ UNCHANGED <<loopVars, inbox, monVars, beatVars, ownerVars, backend, stage>>

SubStep == SubTop \/ SubPolls

-----------------------------------------------------------------------------
(***************************************************************************)
(* BackendHealthMonitor                                                    *)
(***************************************************************************)

\* The wait on the shutdown event ends: with the event set, or for a check.
MonWaits ==
    /\ mon = "waiting"
    /\ mon' = IF "monitor" \in down THEN "ended" ELSE "checking"
    /\ UNCHANGED <<loopVars, subVars, healthy, alarms, beatVars, ownerVars, envVars>>

\* Mutant: the state is not remembered, so every failing check warns.
MonChecksRepeats(found) ==
    /\ mon = "checking"
    /\ mon' = "waiting"
    /\ healthy' = healthy
    /\ alarms' = IF ~found THEN alarms + 1 ELSE alarms
    /\ UNCHANGED <<loopVars, subVars, beatVars, ownerVars, envVars>>

\* Mutant: the state is taken over before the transition is looked for.
MonChecksAfter(found) ==
    /\ mon = "checking"
    /\ mon' = "waiting"
    /\ healthy' = found
    /\ UNCHANGED <<alarms, loopVars, subVars, beatVars, ownerVars, envVars>>

\* _run_once with the answer of _check_backend_health.
MonChecks(found) ==
    /\ mon = "checking"
    /\ mon' = "waiting"
    /\ healthy' = found
    /\ alarms' = IF healthy /\ ~found THEN alarms + 1
                 ELSE IF ~healthy /\ found THEN alarms - 1 ELSE alarms
    /\ UNCHANGED <<loopVars, subVars, beatVars, ownerVars, envVars>>

\* A check that raises counts as unhealthy.
MonCheckFails ==
    /\ Error
    /\ mon = "checking"
    /\ mon' = "waiting"
    /\ healthy' = FALSE
    /\ alarms' = IF healthy THEN alarms + 1 ELSE alarms
    /\ UNCHANGED <<loopVars, subVars, beatVars, ownerVars, backend, stage>>

MonStep == MonWaits \/ MonChecks(backend)

-----------------------------------------------------------------------------
(***************************************************************************)
(* HeartbeatScheduler, and the tasks it serves                             *)
(***************************************************************************)

\* A task starts: register() starts a thread if none is alive, and takes back the
\* shutdown flag when it does.
TaskStarts(t) ==
    /\ stage[t] = "dispatched"
    /\ stage' = [stage EXCEPT ![t] = "running"]
    /\ IF beat \in Dead
       THEN beat' = "alive" /\ beatGen' = beatGen + 1 /\ down' = down \ {"heartbeat"}
       ELSE UNCHANGED <<beat, beatGen, down>>
    /\ UNCHANGED <<loopVars, subVars, monVars, joining, conf, owner, late, backend, errors>>

\* A task ends: TaskLifecycle wakes the drain loop.
TaskEnds(t) ==
    /\ stage[t] = "running"
    /\ stage' = [stage EXCEPT ![t] = "done"]
    /\ ScheduleDrain("now", loop)
    /\ UNCHANGED <<lastDrains, subVars, monVars, beatVars, ownerVars, backend, errors>>

\* The heartbeat thread sees the flag.
BeatStops ==
    /\ beat = "alive" /\ "heartbeat" \in down
    /\ beat' = "ended"
    /\ UNCHANGED <<loopVars, subVars, monVars, beatGen, joining, ownerVars, envVars>>

-----------------------------------------------------------------------------
(***************************************************************************)
(* shutdown(): monitor, drain loop, subscriber, heartbeat, in this order,  *)
(* each told to stop and then joined                                       *)
(***************************************************************************)

\* Told to stop, asyncio tasks of the subscriber and the monitor are cancelled.
StopMonitor ==
    /\ owner = "open"
    /\ owner' = "monitor"
    /\ down' = down \cup {"monitor"}
    /\ mon' = IF ~Threaded /\ mon # "none" THEN "ended" ELSE mon
    /\ UNCHANGED <<loopVars, subVars, healthy, alarms, beatVars, conf, late, envVars>>

\* Mutant: the flag is set and the condition is not notified.
StopLoopSilently(at) ==
    /\ owner' = "loop"
    /\ down' = down \cup {"loop"}
    /\ UNCHANGED <<loop, notified>>

\* Mutant: a loop without a thread is not marked as stopped.
StopLoopUnstarted(at) ==
    /\ owner' = "loop"
    /\ down' = IF at = "none" THEN down ELSE down \cup {"loop"}
    /\ notified' = (notified \/ at \in {"idle", "timed"})
    /\ UNCHANGED loop

StopLoop(at) ==
    /\ owner' = "loop"
    /\ down' = down \cup {"loop"}
    /\ notified' = (notified \/ at \in {"idle", "timed"})
    /\ UNCHANGED loop

StopSubscriber ==
    /\ owner' = "subscriber"
    /\ down' = down \cup {"subscriber"}
    /\ inbox' = (Threaded /\ conf.drains)
    /\ sub' = IF ~Threaded /\ sub # "none" THEN "ended" ELSE sub

\* shutdown() sets the flag of the heartbeat scheduler and reads its _thread
\* afterwards, outside the lock.
StopHeartbeat ==
    /\ owner' = "reading"
    /\ down' = down \cup {"heartbeat"}

MonitorJoined ==
    /\ owner = "monitor" /\ mon \in Dead
    /\ StopLoop(loop)
    /\ UNCHANGED <<nextWake, posted, lastDrains, subVars, monVars, beatVars, conf, late, envVars>>

LoopJoined ==
    /\ owner = "loop" /\ loop \in Dead
    /\ StopSubscriber
    /\ UNCHANGED <<loopVars, monVars, beatVars, conf, late, envVars>>

SubscriberJoined ==
    /\ owner = "subscriber" /\ sub \in Dead
    /\ StopHeartbeat
    /\ UNCHANGED <<loopVars, subVars, monVars, beatVars, conf, late, envVars>>

ReadHeartbeat ==
    /\ owner = "reading"
    /\ owner' = IF beat \in Dead THEN "closed" ELSE "heartbeat"
    /\ joining' = beatGen
    /\ UNCHANGED <<loopVars, subVars, monVars, beat, beatGen, conf, down, late, envVars>>

\* The joined heartbeat thread has ended, though another may be running.
HeartbeatJoined ==
    /\ owner = "heartbeat" /\ (beat \in Dead \/ beatGen > joining)
    /\ owner' = "closed"
    /\ UNCHANGED <<loopVars, subVars, monVars, beatVars, conf, down, late, envVars>>

\* A join of 5 seconds is over and the thread is alive: shutdown() goes on.  A
\* drain loop that is an asyncio task is cancelled in the middle of its drain,
\* which may have consumed a task already.
MonitorLate ==
    /\ owner = "monitor" /\ mon \notin Dead /\ Error
    /\ late' = late \cup {"monitor"}
    /\ StopLoop(loop)
    /\ UNCHANGED <<nextWake, posted, lastDrains, subVars, monVars, beatVars, conf, backend,
                   stage>>

LoopLate ==
    /\ owner = "loop" /\ loop \notin Dead /\ Error
    /\ late' = late \cup {"loop"}
    /\ StopSubscriber
    /\ loop' = IF Threaded THEN loop ELSE "ended"
    /\ \/ UNCHANGED stage
       \/ /\ ~Threaded /\ loop = "draining"
          /\ \E t \in Tasks : stage[t] = "buffered" /\ stage' = [stage EXCEPT ![t] = "lost"]
    /\ UNCHANGED <<nextWake, notified, posted, lastDrains, monVars, beatVars, conf, backend>>

SubscriberLate ==
    /\ owner = "subscriber" /\ sub \notin Dead /\ Error
    /\ late' = late \cup {"subscriber"}
    /\ StopHeartbeat
    /\ UNCHANGED <<loopVars, subVars, monVars, beatVars, conf, backend, stage>>

HeartbeatLate ==
    /\ owner = "heartbeat" /\ beat = "alive" /\ beatGen = joining
    /\ late' = late \cup {"heartbeat"}
    /\ owner' = "closed"
    /\ beat' = IF Threaded THEN beat ELSE "ended"
    /\ UNCHANGED <<loopVars, subVars, monVars, beatGen, joining, conf, down, envVars>>

OwnerStep ==
    \/ MonitorJoined \/ LoopJoined \/ SubscriberJoined \/ ReadHeartbeat \/ HeartbeatJoined
    \/ HeartbeatLate

-----------------------------------------------------------------------------
(***************************************************************************)
(* The rest of the program and of the world                                *)
(***************************************************************************)

\* schedule_task: the task is pushed and trigger_consume wakes the drain loop.
Schedule(t) ==
    /\ owner = "open" /\ stage[t] = "new"
    /\ stage' = [stage EXCEPT ![t] = "buffered"]
    /\ ScheduleDrain("now", loop)
    /\ UNCHANGED <<lastDrains, subVars, monVars, beatVars, ownerVars, backend, errors>>

\* Another process pushes a task and publishes a drain signal.
Signal(t) ==
    /\ owner # "constructing" /\ stage[t] = "new"
    /\ stage' = [stage EXCEPT ![t] = "buffered"]
    /\ inbox' = (inbox \/ sub \notin Dead)
    /\ UNCHANGED <<loopVars, sub, monVars, beatVars, ownerVars, backend, errors>>

\* The workers of the backend become unavailable, or available again.
BackendChanges ==
    /\ mon \notin Dead
    /\ Error
    /\ backend' = ~backend
    /\ UNCHANGED <<loopVars, subVars, monVars, beatVars, ownerVars, stage>>

Next ==
    \/ Start \/ StopMonitor \/ OwnerStep \/ MonitorLate \/ LoopLate \/ SubscriberLate
    \/ LoopStep \/ IdleReturns \/ Due \/ DrainFails \/ (\E when \in {"now", "later"} : RunWake(when))
    \/ SubStep \/ SubFails \/ MonStep \/ MonCheckFails \/ BeatStops
    \/ (\E t \in Tasks : Schedule(t) \/ Signal(t) \/ TaskStarts(t) \/ TaskEnds(t))
    \/ BackendChanges

(***************************************************************************)
(* Fairness: every thread runs, Redis calls return, targets come due.  Not *)
(* assumed: the watchdog, the 5 second limits of joins (but for the        *)
(* heartbeat's, see README), that anybody calls shutdown(), and that any   *)
(* error, signal or task comes.                                            *)
(***************************************************************************)
Fairness ==
    /\ WF_vars(LoopStep) /\ WF_vars(Due) /\ \A when \in {"now", "later"} : WF_vars(RunWake(when))
    /\ WF_vars(SubStep) /\ WF_vars(MonStep) /\ WF_vars(BeatStops)
    /\ WF_vars(OwnerStep)

Spec == Init /\ [][Next]_vars /\ Fairness

-----------------------------------------------------------------------------
(***************************************************************************)
(* Properties                                                              *)
(***************************************************************************)

\* The type invariant.  No second warning is logged without a recovery between.
TypeOK ==
    /\ conf \in [mode : {"threads", "asyncio"}, drains : BOOLEAN, checks : BOOLEAN]
    /\ owner \in {"constructing", "open", "monitor", "loop", "subscriber", "reading",
                  "heartbeat", "closed"}
    /\ loop \in {"none", "top", "idle", "timed", "draining", "ended"}
    /\ nextWake \in {"none", "now", "later"}
    /\ notified \in BOOLEAN /\ inbox \in BOOLEAN
    /\ healthy \in BOOLEAN /\ backend \in BOOLEAN
    /\ posted \subseteq {"now", "later"}
    /\ sub \in {"none", "top", "polling", "ended"}
    /\ mon \in {"none", "waiting", "checking", "ended"}
    /\ alarms \in {0, 1}
    /\ beat \in {"none", "alive", "ended"}
    /\ beatGen \in Nat /\ joining \in Nat /\ lastDrains \in Nat /\ errors \in Nat
    /\ down \subseteq {"monitor", "loop", "subscriber", "heartbeat"}
    /\ late \subseteq {"monitor", "loop", "subscriber", "heartbeat"}
    /\ stage \in [Tasks -> {"new", "buffered", "dispatched", "running", "done", "lost"}]

\* Once the drain loop has been told to stop, at most one more drain() starts:
\* the one of a loop that was idle and takes the notification of shutdown() for
\* the watchdog.
OneLastDrain == lastDrains <= 1

\* When shutdown() has returned and no join timed out, the drain loop, the
\* subscriber and the monitor do not drain, wait, poll or probe any more, whatever
\* tasks end, coroutines run or signals arrive afterwards (the sentinel of
\* shutdown() itself included).  A heartbeat thread may run: only one of a task
\* that started after shutdown() had read the scheduler's thread.
QuietWhenClosed ==
    (owner = "closed" /\ late = {}) =>
        /\ loop \notin {"idle", "timed", "draining"}
        /\ sub \in Dead /\ mon \in Dead
        /\ beat \in Dead \/ beatGen > joining

\* shutdown() returns without the help of the watchdog and of the time limits of
\* its first three joins: every thread is woken, or looks at its flag, in time.
ShutdownReturns == (owner = "monitor") ~> (owner = "closed")

\* A wake-up is never slept through: a drain follows, or the loop is stopped.
WakeServed == (nextWake = "now") ~> (loop = "draining" \/ "loop" \in down)

\* A backend that stays unavailable is reported, once, while the monitor runs.
LossReported ==
    [](mon \in {"waiting", "checking"} /\ ~backend
       => <>(alarms = 1 \/ backend \/ "monitor" \in down))
=============================================================================
