# Formal model of redis-rate-limiter

TLA+ modules for the distributed rate limiter in `src/redis_rate_limiter` and the
programs that come with it, TLC runs on small instances, and TLAPS proofs, for every
instance, of nearly all safety properties the runs check: the two limits, the slot
pool the buffered limiter implements, deduplication and real concurrency, wake-ups,
leases, threads and backends, and the atomicity of script calls.
`PROJECT.json` lists components, runs, mutants, hazards and findings, and maps
each definition to the lines it models.

## 1. The system

| Component | State | Operations | Correct when |
|---|---|---|---|
| Sliding-window counter (`acquire.lua`, `consume.lua`) | one Redis counter per fixed window, with a TTL | estimate, guard, increment, remaining, reset | no window exceeds the limit, no interval of window length exceeds twice the limit, counters live as long as they are read |
| Request limiter (`backends/asgi`) | the counters of one identity | `acquire`, middleware with `fail_open` / `fail_closed` | forwarded requests were charged; the header promises no request that is refused |
| Buffered limiter (`core/limiters.py`, `core/async_limiters.py`, Lua scripts) | buffer, leases (`:concurrency`), in-flight keys, dead letter queue, signal lists | `schedule_task`, `acquire`, `consume`, `_dispatch_task`, lifecycle enter/exit, `extend_lease` | at most `max_concurrency` tasks run, no task has two copies, no job leaves the buffer but to a worker or the dead letter queue, no slot goes to a caller that gave up |
| Drain loop, subscriber, watchdog | next wake-up, drain thread, Pub/Sub channel, fairness keys | `wake`, `_run`, `drain`, `_drain_inner`, signals | no wake-up is lost; the buffer empties in spite of faults, once a worker was woken |
| Token recovery | the two counters, the clock | delay computation and retry chain | never sleeps past a token, never busy-loops |
| Heartbeat scheduler | entries, heap, thread | `register`, `deregister`, `_run`, `_renew_one`, `shutdown` | running tasks keep their lease while the thread lives |
| Managed configuration (`core/managed.py`) | hashes of configurations and versions, one instance per process | `create`, `get`, `update`, `refresh_config`, pause after a window change | whoever has a version has its configuration; what was announced reaches everybody who drains; no two windows are counted with side by side |
| Script calls (`core/base.py`, `core/scripts.py`) | caches of sources and SHAs, the scripts Redis knows | `_register_script`, `_eval_script` with its NOSCRIPT retry | a script runs again only for a reply that was lost; one restart of Redis is never noticed |
| Threads of a limiter (loop, subscriber, monitor, heartbeat) | condition, flags, notifications, joins | construction, `start`, `wake`, `_run_once`, `shutdown` | `shutdown` returns and leaves no loop, subscriber or monitor running; no wake-up waits for the watchdog; a lost backend is reported once |
| Backends (threads, processes, asyncio, Celery, RQ, Dramatiq, Huey) | local capacity counter, executor or broker, worker processes | `_has_local_capacity`, `_dispatch_task`, `_run_task`, `_on_done`, generic workers, `shutdown` | the counter is exact; nobody queues with a slot; nobody renews for a task that does not run |
| Programs (`examples/`, `demo/__main__.py`) | phase of the program, worker processes | schedule, consume, watch, signal, clean up | they end, and announce completion only when no task with a lease is still to run or running |

Every Lua script is atomic in Redis; everything between two Redis calls
interleaves with other processes and threads. What is hard here: answers that
are out of date when they are used, calls that fail after they took effect, keys
that expire under a live owner, crashes between two calls, lost Pub/Sub signals,
two-call reads and writes of the configuration, and the edges of the windows.
`PROJECT.json` lists these hazards with their lines.

## 2. The modules

`SlidingWindow` (operators) is extended by `RequestLimiter`, `TokenRecovery` and
`TaskLimiter`. `DrainLoop`, `Lifetime`, `Heartbeat`, `ManagedConfig`, `WindowChange`
and `ScriptCalls` look at one mechanism each and abstract the rest; `ScriptCalls`
implements `AtomicCall`, the view all other modules have of a script, and
`TaskLimiter` implements `SlotPool`, the promise made to its users. `DemoRun`
extends `Backends` and composes it with the programs. `*Proofs` hold theorems,
`MC*` the constants for TLC. Two proof modules extend two models: `ScriptCallsProofs`
proves about `ManagedConfig` too, `DrainLoopProofs` about `TokenRecovery`. That is why
the specifications of these two have a prefix (`ConfigSpec`, `RecoverySpec`).

- **SlidingWindow.** The estimate is `current + previous * (W - elapsed) / W`; the
  modules compare estimate times `W`, so there are no fractions. `Increment` sets
  the expiry on the first increment only. `AliveAt` drops expired keys.
- **RequestLimiter.** Time is the Redis clock in ms. `Admit`, `Block` and `Fail` are
  the middleware's three outcomes with the script inside; `Fail(id, TRUE)` is a
  call that charged the counter and then broke. `requests` is a history variable.
- **TaskLimiter.** One action per script or per step between scripts: `Claim`
  (SET NX), `Push` (schedule.lua), `PushFails`, `Wait`/`TimeOut` (BLPOP), `Consume*`
  (one per status of consume.lua), `Dispatch`, `DispatchFails`, `Enter`, `Renew`,
  `Release`, `ReleaseFails`, crashes, `Tick`. Leases and ages are in whole seconds
  of `Sec` ms because the scripts round. When a worker drains, and whether fairness
  makes it yield, is left open, which permits more than the code does.
- **SlotPool.** The abstract limiter: a set of slots, a window number and the tokens
  spent in it. A task gets a slot by paying a token while there is budget, slots are
  given back without a refund, and the next window starts from zero. `TaskLimiter`
  maps the leases to the slots and the live counter of the current window to the
  tokens; expiry, healing, crashes, renewal and rounding are hidden.
- **DrainLoop.** Redis is reduced to counts, delays to "now" and "later". The
  decision of consume.lua and the follow-up of `_drain_inner` are separate steps.
  A thread counts as busy until `_run_task`'s `finally`, after the wake-up that ends
  its lifecycle, as in the code. A worker in `AsyncWorkers` gets its wake-ups
  through coroutines (`posted`). All entries occupy a thread of the worker that
  consumed them; `acquire()` callers, which do not, are in `TaskLimiter`.
- **TokenRecovery.** One rate-limited retry chain from any two counters (also above
  the limit, as after `update(limit=...)`) at any time of a window.
- **Heartbeat.** `Sec` ticks per second. Pop, renewal and rescheduling are separate
  steps because the lock is released during the Redis call. Setting `is_healthy`
  and rescheduling are one step: no decision is taken between them. `IsHealthy` is
  what a task sees. `_renew_one` catches `RedisError` only: a `KeyError`
  (`RenewUnknown`) or `RuntimeError` (`RenewRaises`) of extend_lease ends the thread
  with the renewal it had popped (`Escapes`, history `dropped`).
- **ManagedConfig.** Each Redis call of create/get/update/refresh is a step. A
  process has an API thread and a drain thread. `Replace` is `create(override=True)`,
  `CreateLocal` is `create(persist=False)`. An instance that was replaced is not
  followed any further. A call may fail before or after it took effect, be sent again
  by the client, or never come to its end; a process may die. HSETs are numbered, so
  that configurations can be compared by age (`fresh`), and `announced` remembers
  which HSET a version was to announce.
- **WindowChange.** One change of the window size in time: update(), the refresh
  throttle of one second, the pause, and the `drain()` of every process with its two
  looks at the instance (pause, window). `PersistTime` and `DrainTime` bound how long
  an update() and a drain() take; when a process drains is left open.
- **Lifetime.** One instance, threaded or asyncio, with or without drain loop and
  monitor (`conf`). `loop`, `sub`, `mon` and `beat` are the positions of its threads,
  `owner` that of the thread that calls `shutdown()`. A condition wait is left when
  `notified`, or at any time, but fairness only counts the first. `*Joined` and `*Late`
  are the two ends of each join. `lastDrains` and `alarms` are histories.
- **ScriptCalls.** `pc` of a caller follows `_eval_script`: "register", "eval", then
  "reregister", "retry" after NOSCRIPT, and "reply". `Flush` is a restart of Redis at
  any moment. When a connection is lost, before or after the request took effect, the
  Redis client (external; `pyproject.toml` pins 7.1, which retries by default) sends
  the command again, up to `Resends` times, and then raises.
- **AtomicCall.** A call is pending, its script runs, and runs again only if the reply
  was lost; the call returns the reply of the last run, or raises. The mapping
  `CallStatus` hides the caches, the server and the retries.
- **Backends.** One limiter with one of seven backends (`kind`). A task moves from the
  buffer into the hand of a drain loop, then to a queue of the pool, event loop or
  broker, to a worker and, after its lifecycle, out of the counter. A lease is held,
  expired (in the set, but not counted) or gone. `refused` is a submission that raised
  after it was counted, `stranded` a task that nobody will run. `lost` remembers
  the tasks whose lease ran out, or was released before a redelivery. While a task is
  renewed or waits to start that counts as a fault (a delay, a dead heartbeat thread in a
  broker worker); `HeartbeatDies` is the thread of the limiter itself. The
  libraries behind the backends are external.
- **DemoRun.** `run_demo` and `run_async_demo` (schedule, create the consumer, watch
  the status, shut down, clean up), and the worker pod of the cluster demonstration
  (connect, create, kick the loop, serve until signalled) with its traffic generator.
  `Aborts` is a Redis call of a program that raises: `run_demo` then skips shutdown and
  cleanup, `run_async_demo` only the cleanup. The worker processes it leaves behind
  are not followed.

### Assumptions that are switched by constants

| Constant | TRUE means |
|---|---|
| `TaskLimiter!TimelyHeartbeats` | no lease runs out while its owner lives (`Heartbeat` examines this) |
| `TaskLimiter!MarkersOutlive` | no in-flight key expires while a copy of its task exists |
| `TaskLimiter!DefiniteReplies` | a schedule.lua call that gets no reply took no effect (so the client's resends are harmless too) |
| `TaskLimiter!PromptCalls` | a client is not delayed for a second between claim and push, nor an `acquire()` beyond its own deadline before BLPOP |
| `DrainLoop!Survivors` | workers that run, and have been woken, all along |
| `Heartbeat!Timely` | due renewals finish within a tick; a task enters its lifecycle early in its first lease |
| `Heartbeat!Tolerated` (a number) | tasks enter early enough in their lease for this many renewals to fail |
| `WindowChange!PersistTime`, `DrainTime` (numbers) | an update() announces its change, and a drain() reaches Redis, within this time |

The limits themselves (`RateBound`, `SlotBound`) need none of them. `MCTaskLostReply`,
`MCTaskKeyExpires` and `MCDrainRestart` are what happens without `DefiniteReplies`,
`MarkersOutlive` and `Survivors`.

## 3. The runs

| Run | Checks | Instance and why it suffices |
|---|---|---|
| `request` | counters read truly, window and burst bound, fail-closed, header | limit 2, window 3 ms, 13 ms: four windows, so counters are created, read as previous and expire; one failed call |
| `token_recovery` | no oversleeping, at most three retries, recovery (liveness) | limit 3, window 7, all counters up to 12 at every ms of a window: exact, tied and rounded waits, and counters above the limit |
| `task_timely` | real concurrency, deduplication, no abandoned slot | two clients competing for a job, one `acquire()`, two workers, one slot, one fault, all assumptions on |
| `task_hostile` | rate, slots, the limiter is a slot pool (refinement), jobs leave the buffer only to a worker or the dead letter queue | all assumptions off: late heartbeats, lost replies, expired keys, one crash or failure |
| `drain` | no lost wake-up, buffer drains (liveness) | a client, an asyncio worker and a threaded one that survives; one failure of any kind, or one stale entry |
| `heartbeat` | lease kept, or the task told in time; entries scheduled | two tasks, three runs, two failed renewals of which the leases tolerate one (warn or kill), longer leases, shutdown and restart |
| `config` | a version has its configuration, what was announced arrives (liveness) | two updaters, one of which starts without an instance, and a process that only drains; two updates, creations or replacements, two faults (failed, repeated or abandoned calls, deaths) |
| `window` | one window | three processes, one of which updates; pause 4, throttle 2, update() and drain() up to 1 tick each: the shortest pause for which it holds; one failed refresh |
| `lifetime` | type, one last drain, quiet when closed, shutdown returns, wake-ups served, loss reported (liveness) | all eight configurations, two tasks (a task that ends while another is buffered), one error of any kind or one late join |
| `scripts` | one restart recovered, refused calls had no reply, calls are atomic (refinement), calls end (liveness) | two callers; a script that is loaded, one that is not yet and one that does not exist; flushes without limit (counted to 2), three lost connections, one resend per command, so that a command is sent again and given up |
| `demo` | counter exact, no local queue, no orphan heartbeat, completed is complete, the programs end (liveness) | all seven backends and the pod, three tasks (one custom) for one worker and two slots, so that pool, slots and buffer are each a bottleneck; two faults, so that one can hit the recovery from another |
| `acquire_nested` | *violation* of `NoAbandonedSlot` | wrapped payload: the deadline of an acquire() marker is not found |

The other configurations are no runs of the project. Each makes TLC find a
counterexample that a finding in `PROJECT.json` quotes:

| Configuration | Violates | What happens |
|---|---|---|
| `MCRequestHeader` | `RemainingNonNegative` | an admitted request with a header of -1 |
| `MCTaskLostReply` | `AtMostOneCopy` | the reply of schedule.lua is lost, the clean-up frees the key of a buffered task |
| `MCTaskKeyExpires` | `RunsOnceAtATime` | a job outlives its in-flight key and runs twice at once |
| `MCDrainRestart` | `BufferDrains` | one failed PUBLISH before any worker was woken; all other signals are delivered (`SpecDelivering`) |
| `MCHeartbeatRaises` | `LossIsNoticed` | a KeyError ends the heartbeat thread, another task loses its lease unnoticed |
| `MCConfigGet` | `CurrentIsStored` | an update between the two reads of get() |
| `MCConfigPersist` | `CurrentIsStored` | HSET succeeds, HINCRBY does not |
| `MCConfigDraining` | `CurrentIsStored` | a process that updates and drains puts back what its refresh had read |
| `MCConfigUndo` | `UpdatesKept` | two updaters of different fields |
| `MCWindowEarly` | `PauseRespected` | the window changes between the pause check and consume() |
| `MCDemoShutdown` | `RunsUnderLease` | tasks of a pool run on after shutdown() |
| `MCDemoRefused` | `DemoAlwaysEnds` | a process pool refuses a task that is already renewed |

The clock bounds (`Horizon`) cover at least two windows or two lease periods after
the first expiry; fault bounds are 1 where the property is about surviving a single
failure at any point, and 2 or 3 where the recovery
itself can fail (`heartbeat`, `config`, `scripts`, `demo`).
Deadlock checking is off, except in `demo`: a model at its horizon, or a limiter
without work, rightly stops; a program may only stop when it has ended.

Each property of a passing run has a mutant: a changed copy of one definition, kept beside it under
a comment that begins with "Mutant", with which TLC finds the property violated.

### Fairness

`DrainLoop`: threads of live processes run, a `Condition.wait` with a timeout
returns, tasks end, leases expire and windows slide. `TokenRecovery`: the drain
loop runs its scheduled wake-up. `ManagedConfig`: only that the drain loop of a
process with an instance polls (its watchdog calls `drain()` periodically); create,
get and update may stop half-way. `Lifetime`: every thread runs when it is notified, not when
a timeout would wake it, and Redis calls return; the time limits of the joins of
monitor, loop and subscriber are not used. The one of the heartbeat is: a task that
starts after `shutdown()` set the flag takes the flag back (`_ensure_started_locked`),
and then only the limit of 5 s ends the join. `ScriptCalls`: Redis answers or the
connection breaks. `DemoRun`: drains recur (signals, watchdog), pools, event loops and
workers run what they were given, functions return, and entries nobody renews expire.
No fault, no new task, no signal to a program and no update is assumed fair.

## 4. What is proved

All proofs are for arbitrary constants satisfying the named assumptions
(`RequestConstants`, `TaskConstants`, `ScriptConstants`, `DrainConstants`,
`LifetimeConstants`, `HeartbeatConstants`, `BackendConstants`, `RecoveryConstants`,
`ConfigConstants`) and unbounded behaviours. Where a property holds only in an
environment that a constant switches on, the switch is a hypothesis of the theorem,
`Spec => [](Hypothesis => Property)`; the run of the same property checks it on an
instance in which the hypothesis is true. Each inductive invariant was first checked
by TLC on the instance of its run.

- `SlidingWindowProofs`: the estimate is at least the current count, so an
  admission means current < limit; a refusal reports 0 remaining tokens.
- `RequestLimiterProofs`: the type invariant; `CountersFaithful` from an inductive
  invariant that ties every counter and its expiry to the charged requests of its
  window (a counter is set to live for at least two windows from its first
  increment, which is later than the end of the next window); `WindowBound` from
  it, since an increment needs a count below the limit; `BurstBound` because an
  interval of window length meets at most two windows. `FailClosedForwardsCharged`
  follows from the one step that records a request, and `RemainingGranted`
  because the answer is the floor of what is left before the increment, minus one:
  one more request at the same millisecond raises the estimate by exactly one.
- `TaskLimiterProofs`: the inductive invariant adds to the type invariant that a
  claimed call names a task, that leases are a finite set, and that counters and
  leases are within their limits. From it follow `RateBound` and `SlotBound`. `JobsNotDropped` is proved as well, by
  cases over the three outcomes of consume.lua that take an entry from the buffer.
  `LimiterImplementsPool` is the refinement of `SlotPool`: only `ConsumeAdmits` adds a
  lease, and it increments the counter in the same step. It needs one invariant
  more, `CountersInTime`: no counter is for a later window than the current one, and
  none expires before the window after its own has ended. The first makes a new
  window start from zero, the second rules out that an expiring key refunds tokens
  in the middle of a window.

  The properties about processes need the environment of the switches. `AtMostOneCopy`
  (with `MarkersOutlive` and `DefiniteReplies`): the invariant `CopyInv` says that a
  task is in at most one of six places (claimed, buffered, in a hand, on a thread,
  with its caller, in a signal its caller will find), and that a job in any of
  them has its in-flight key; each step moves a copy, removes it, or creates the
  only one, and a key is deleted only together with the copy. `ExecutionBound` (with
  `TimelyHeartbeats` as well): every task in the hands of a process has a lease that
  consume.lua does not reclaim (`Leased`), which no other copy can release, so
  holders map one to one into leases and `SlotBound` applies. `NoAbandonedSlot` (with
  `PromptCalls` and an unwrapped payload, but late heartbeats and expiring keys):
  `Patience` follows a caller from push to time-out. A caller that blocks has no lease,
  because a lease given before BLPOP comes with a signal that outlives the deadline,
  and when it gives up the deadline in its marker has passed. Without
  the last hypothesis the proof fails in `ConsumeAdmits`, where `acquire_nested` has its
  counterexample.
- `DrainLoopProofs`: the type invariant, and `NoLostWakeup`, which is about the time until
  the first failure or stale entry, for any workers, clients, threads and
  slots. The inductive strengthening, `Secured`, does not count a worker whose last
  answer makes it stop: somebody else must then have a wake-up, signal or drain under
  way. After a failure only the watchdog helps (`BufferDrains`).

  `NeverOversleeps` and `FewRetries` of `TokenRecovery`. With `x` the excess of
  the estimate over the limit (times the window), a millisecond of decay takes the
  previous counter `p` off `x`, and the computed delay is `x / p` rounded to
  milliseconds (`DecayDelay`). Before its last millisecond `x` is still not negative, so nothing
  is slept through; afterwards `2x <= p`, or the window has ended and its counter,
  which was below the limit, decays as the previous one. The inductive
  invariant `RetriesLeft` says what is left after each refusal: after one the wait for
  the window's end is over or was not needed, after two only the rounding remains,
  which one millisecond removes, after three the attempt succeeds. The products are
  dealt with one at a time, with their factors hidden, which makes every step linear.
- `LifetimeProofs`: the type invariant, `OneLastDrain` and `QuietWhenClosed`. The invariant
  ties each thread to the position of `shutdown()`: a joined thread that was not late
  has ended, its flag stays set, and a last drain belongs to a loop that was idle when
  the flag was set; a heartbeat that runs is younger than the one that was joined.
- `HeartbeatProofs`: the type invariant; `EntriesScheduled` without any premise, but
  for the tasks whose own renewal raised what nobody catches (`dropped`); and
  `LeaseKept` under `LongEnough`: prompt renewals, tasks that enter early enough
  for at most one failure, and leases that are never shortened. The invariant says
  that every lease reaches at least to the next scheduled renewal plus one interval for
  each failure still tolerated. A lease is two intervals long, so one
  failure is the most that fits; with two the arithmetic fails.
- `DemoRunProofs` (backends and programs together): the type invariant, `CounterExact`,
  `NoLocalQueue`, `NoOrphanHeartbeat` and `CompletedIsComplete`. The
  invariant `DemoInv` describes each task by itself (`TaskInv`: where it is, who counts
  it, who renews it, what its lease is), the shape of program and shutdown, and that
  the counter is below the capacity while a task is in hand.
- `ScriptCallsProofs`: the inductive invariant says at which points of a call its
  script has one run more than lost replies (`RanAt`), and how often Redis must have
  lost its scripts for a caller to be where it is (`LossesAt`: as long as there was no
  loss every cached SHA is known to the server; a retry that finds nothing has seen a
  second loss). From it follow `OneRestartRecovered` and `RefusedHadNoReply`, and the
  refinement `CallsRefineAtomicCalls`: registering, missing and flushing map to
  stutters, `Evalsha` to a run of the script, a lost connection to a lost reply or a
  stutter.

  `VersionsAreKept` is `AsNewAsVersion` of `ManagedConfig`, for any number of updaters
  and readers. The invariant follows a version from the HSET that precedes it to the
  instance: what refresh_config reads after the version is at least as new as what
  that version announced, because HSETs are only added and a version is counted up
  after its HSET. The two places where the code has it the other way round are the two
  exceptions: get() reads the configuration first (`viaGet`), and a process that
  persists and drains may apply a configuration it has read before its own update.

The type invariants of all these modules are part of the proofs.

Only model-checked:

- liveness (`TokenRecovered`, `BufferDrains`, `Converges`, `ShutdownReturns`, `WakeServed`,
  `LossReported`, `CallsEnd`, `DemoEnds`), which with fairness and `ENABLED` is outside
  this prover;
- `OneWindow` of `WindowChange`;
- `LeaseKept` beyond the premises of its theorem.

Every other invariant and action property of a passing run is stated by a theorem.

## 5. Disagreements between code and documentation

With a run: `acquire_nested`. With a counterexample: the second table of section 3.
Without either, but quoted in `PROJECT.json`: executors shared by limiters; broker workers that consume while the
examples still schedule; `create(override=True)` beside a live instance; yields
counted as empty. The properties of passing runs that
meet one of these say so in their exceptions or assumptions.

Smaller ones, seen while modelling:

- After an expired entry with tokens left no follow-up drain is scheduled
  (`limiters.py:1446`), although `consume.lua:52` says the caller should retry; the
  rest of the buffer waits for the next wake-up or the watchdog.
- The heartbeat interval is fixed at construction (`limiters.py:120`); if
  `lease_duration` is reduced later to less than that interval, leases expire under
  running tasks.
- An idle drain loop takes the notification of `shutdown()` for the watchdog
  (`limiters.py:436`) and drains once more; `docs/architecture/drain-flow.md` labels
  this branch "watchdog fired". `OneLastDrain` shows that it is one.
- `docs/smart-jitter.md:273` updates `jitter_min_pct`, which
  `_apply_config_overrides` ignores.

## 6. Not modelled

- Metrics and the Prometheus integration, logging, key functions, the dashboards and
  the ASGI sample application: output, or pure functions of a request.
- The development scripts under `scripts/` (mutation testing and benchmark reports,
  more than a third of the Python in the repository): sequential text processing that
  no part of the limiter runs in.
- The insides of executors, event loops, brokers and of Redis, its failover included.
- The class-level registration of `configure()` and the race of two API threads for
  the instance cache; an instance that was replaced, and with it a pause that
  `create(override=True)` forgets.
- In `WindowChange`: a failed persist (`MCConfigPersist`), a process that hydrates after
  the change, which is not paused, and windows so short that the pause is less than
  `PersistTime` + 1 s + `DrainTime`. An instance whose refresh failed may consume with the
  old window until the next refresh a second later, since the throttle is set before
  the call (`limiters.py:1372`); `OneWindow` excepts it. That a process polls seldom does
  not matter: it consumes only in a `drain()`, which refreshes first unless it did so
  less than a second ago.
- Commands that the client sends twice, outside `ScriptCalls` and `ManagedConfig`: for
  acquire.lua that is a call that failed after it charged the counter, followed by
  another; for consume.lua a `ConsumeFails` that took effect, followed by another
  consume; for schedule.lua it is what `DefiniteReplies` excludes.
- The jitter formula (any jitter up to a bound is allowed).
- `resolve_import_path` and the search order of script packages.

## 7. Plan

1. `acquire()` callers in `DrainLoop`.
2. A proof of `OneWindow`.
