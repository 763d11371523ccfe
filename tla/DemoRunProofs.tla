--------------------------- MODULE DemoRunProofs ---------------------------
(***************************************************************************)
(* Proofs about the backends and the programs that use them, for every set *)
(* of tasks, pool size and concurrency limit, any number of failures, and  *)
(* for each of the seven backends.                                         *)
(***************************************************************************)
EXTENDS DemoRun, FiniteSetTheorems, TLAPS

USE DEF Local, Brokers

(***************************************************************************)
(* The inductive invariant                                                 *)
(***************************************************************************)

Phases == {"scheduling", "watching", "connecting", "starting", "serving", "stopping",
           "waiting", "ended"}
Closing == {"stopping", "waiting", "ended"}

\* Which program is where.  A pod does not watch and announces nothing.
ProgramShape ==
    /\ program \in {"example", "pod"}
    /\ phase \in Phases
    /\ announced \in BOOLEAN
    /\ program = "pod" => kind = "thread" /\ phase \notin {"scheduling", "watching"}
    /\ announced => program = "example" /\ phase \in Closing

\* shutdown() comes at the end, only the asyncio backend has its two last
\* stages, and no drain starts behind it.
ShutdownShape ==
    /\ shut # "no" => phase \in Closing /\ drain # "on"
    /\ shut \in {"quiet", "cancelling"} => kind = "asyncio"
    /\ kind = "asyncio" /\ shut \in {"quiet", "cancelling", "closed"} => drain = "off"

Settled(t) ==
    kind = "asyncio" =>
        /\ stage[t] # "refused"
        /\ shut \in {"quiet", "cancelling", "closed"} => stage[t] # "hand"
        /\ shut \in {"cancelling", "closed"} => stage[t] # "queued"
        /\ shut = "closed" => stage[t] \notin {"running", "exited"}

\* Broker backends do not count, so that they have nothing to lower.
CountedIsLocal(t) == stage[t] \in {"exited", "refused"} => kind \in Local

\* The heartbeat: exactly the running tasks are registered, and in a process pool
\* those on their way there.
Registered(t) ==
    /\ t \in beating =>
           \/ stage[t] = "running"
           \/ kind = "process" /\ stage[t] \in {"queued", "refused"}
    /\ stage[t] = "running" => t \in beating
    /\ stage[t] = "queued" /\ kind = "process" => t \in beating

\* From its admission to its end a task has a lease, unless it has lost it.
Leased(t) ==
    stage[t] \in {"hand", "queued", "running"} /\ t \notin lost => lease[t] = "held"

Announced(t) ==
    announced /\ stage[t] \in {"buffered", "hand", "queued", "running"} => t \in lost

TaskInv ==
    \A t \in Tasks :
        Settled(t) /\ CountedIsLocal(t) /\ Registered(t) /\ Leased(t) /\ Announced(t)

TakenStages == {"queued", "running", "exited", "refused"}

\* The counter: it counts what was taken and not let go; cancelled tasks that
\* never started stay counted until shutdown() resets it.
Counted ==
    kind \in Local =>
        /\ Cardinality(In(TakenStages)) <= counter
        /\ ~(kind = "asyncio" /\ shut \in {"cancelling", "closed"})
               => counter = Cardinality(In(TakenStages))

\* A drain looks at the counter before it takes a task in hand, and one loop has
\* one task in hand.
WithinCapacity ==
    kind \in Local =>
        /\ counter <= MaxWorkers
        /\ \A t \in Tasks : stage[t] = "hand" =>
               counter < MaxWorkers /\ \A u \in Tasks : stage[u] = "hand" => u = t

DemoInv ==
    TypeOK /\ ProgramShape /\ ShutdownShape /\ TaskInv /\ Counted /\ WithinCapacity

(***************************************************************************)
(* Counting                                                                *)
(***************************************************************************)

\* Sets of tasks are finite.
LEMMA StagesFinite == \A S : IsFiniteSet(In(S)) /\ Cardinality(In(S)) \in Nat
<1> SUFFICES ASSUME NEW S PROVE IsFiniteSet(In(S)) /\ Cardinality(In(S)) \in Nat
    OBVIOUS
<1>1. In(S) \subseteq Tasks
    BY DEF In
<1>2. IsFiniteSet(In(S))
    BY <1>1, BackendConstants, FS_Subset
<1>3. QED
    BY <1>2, FS_CardinalityType

\* A task that moves into S.
LEMMA MoveIn ==
    ASSUME TypeOK, NEW S, NEW t \in Tasks, NEW s \in S, stage[t] \notin S, Move(t, s)
    PROVE  Cardinality(In(S)') = Cardinality(In(S)) + 1
<1>1. In(S)' = In(S) \cup {t}
    BY DEF In, Move, TypeOK
<1>2. t \notin In(S)
    BY DEF In
<1>3. QED
    BY <1>1, <1>2, StagesFinite, FS_AddElement

\* A task that moves out of S.
LEMMA MoveOut ==
    ASSUME TypeOK, NEW S, NEW t \in Tasks, NEW s, s \notin S, stage[t] \in S, Move(t, s)
    PROVE  Cardinality(In(S)') = Cardinality(In(S)) - 1
<1>1. In(S)' = In(S) \ {t}
    BY DEF In, Move, TypeOK
<1>2. t \in In(S)
    BY DEF In
<1>3. QED
    BY <1>1, <1>2, StagesFinite, FS_RemoveElement

\* A task that does neither.
LEMMA MoveWithin ==
    ASSUME TypeOK, NEW S, NEW t \in Tasks, NEW s, s \in S <=> stage[t] \in S, Move(t, s)
    PROVE  In(S)' = In(S)
BY DEF In, Move, TypeOK

\* A task the backend has taken is counted.
LEMMA TakenCounts ==
    ASSUME DemoInv, NEW t \in Tasks, stage[t] \in TakenStages, kind \in Local
    PROVE  counter >= 1
<1>1. Cardinality(In(TakenStages)) # 0
  <2>1. t \in In(TakenStages)
      BY DEF In
  <2>2. QED
      BY <2>1, StagesFinite, FS_EmptySet
<1>2. QED
    BY <1>1, StagesFinite DEF DemoInv, Counted, TypeOK

(***************************************************************************)
(* Types                                                                   *)
(***************************************************************************)

\* Every action keeps the types; the counter is lowered only for a counted task.
LEMMA BackendTypeStep == DemoInv /\ [Next]_vars => TypeOK'
<1> SUFFICES ASSUME DemoInv, [Next]_vars PROVE TypeOK'
    OBVIOUS
<1>0. TypeOK
    BY DEF DemoInv
<1> USE <1>0, BackendConstants DEF TypeOK, Stages, Move, Fault, backendVars, demoVars
<1>1. ASSUME NEW t \in Tasks, ScheduleTask(t)
      PROVE  TypeOK'
    BY <1>1 DEF ScheduleTask, ScheduleLocal, ScheduleCelery, ScheduleRQ, ScheduleDramatiq,
           ScheduleHuey, Buffer
<1>2. ASSUME NEW t \in Tasks, Consume(t)
      PROVE  TypeOK'
    BY <1>2 DEF Consume, Reclaimed, AfterDrain
<1>3. CASE EmptyDrain \/ DeferLastDrain
    BY <1>3 DEF EmptyDrain, DeferLastDrain, Reclaimed, AfterDrain
<1>4. ASSUME NEW t \in Tasks, ImportFails(t) \/ SubmitThread(t) \/ CreateTask(t)
      PROVE  TypeOK'
    BY <1>4 DEF ImportFails, SubmitThread, CreateTask, Submitted
<1>5. ASSUME NEW t \in Tasks, SubmitProcess(t)
      PROVE  TypeOK'
  <2>1. renewing' \in BOOLEAN
      BY <1>5 DEF SubmitProcess
  <2>2. QED
      BY <1>5, <2>1 DEF SubmitProcess, Submitted
<1>6. ASSUME NEW t \in Tasks, Send(t)
      PROVE  TypeOK'
    BY <1>6 DEF Send
<1>7. ASSUME NEW t \in Tasks, RunTask(t) \/ RunCoroutine(t) \/ RateLimited(t)
      PROVE  TypeOK'
  <2>1. renewing' \in BOOLEAN
      BY <1>7 DEF RunTask, RunCoroutine, RateLimited, Enter
  <2>2. beating' \subseteq Tasks /\ faults' \in 0..MaxFaults
        /\ UNCHANGED <<kind, lease, counter, executor, drain, shut, workers, lost>>
      BY <1>7 DEF RunTask, RunCoroutine, RateLimited, Enter
  <2>3. stage' \in [Tasks -> Stages]
      BY <1>7 DEF RunTask, RunCoroutine, RateLimited
  <2>4. QED
      BY <2>1, <2>2, <2>3
<1>8. ASSUME NEW t \in Tasks, ProcessTakes(t)
      PROVE  TypeOK'
    BY <1>8 DEF ProcessTakes
<1>9. ASSUME NEW t \in Tasks, ThreadReturns(t) \/ CoroutineReturns(t) \/ OnDone(t) \/ WorkerReturns(t)
      PROVE  TypeOK'
    BY <1>9 DEF ThreadReturns, CoroutineReturns, OnDone, WorkerReturns, Exit
<1>10. ASSUME NEW t \in Tasks, Leave(t)
       PROVE  TypeOK'
  <2>1. kind \in Local
      BY <1>10 DEF Leave, DemoInv, TaskInv, CountedIsLocal
  <2>2. counter >= 1
      BY <1>10, <2>1, TakenCounts DEF Leave, TakenStages
  <2>3. QED
      BY <1>10, <2>2 DEF Leave
<1>11. ASSUME NEW t \in Tasks, DramatiqWorker(t)
       PROVE  TypeOK'
    BY <1>11 DEF DramatiqWorker
<1>12. ASSUME NEW t \in Tasks, Expire(t) \/ ExtendLease(t)
       PROVE  TypeOK'
    BY <1>12 DEF Expire, ExtendLease
<1>13. ASSUME NEW t \in Tasks, WorkerDies(t)
       PROVE  TypeOK'
    BY <1>13 DEF WorkerDies
<1>14. CASE PoolBreaks \/ HeartbeatDies
  <2>1. renewing' \in BOOLEAN
      BY <1>14 DEF PoolBreaks, HeartbeatDies
  <2>2. QED
      BY <1>14, <2>1 DEF PoolBreaks, HeartbeatDies
<1>15. CASE StopLoop
    BY <1>15 DEF StopLoop
<1>16. CASE StopHeartbeat
  <2>1. renewing' \in BOOLEAN
      BY <1>16 DEF StopHeartbeat
  <2>2. stage' \in [Tasks -> Stages] /\ drain' \in {"on", "last", "off"}
      BY <1>16 DEF StopHeartbeat
  <2>3. faults' \in 0..MaxFaults /\ shut' \in {"quiet", "closed"}
        /\ UNCHANGED <<kind, lease, beating, counter, executor, workers, lost>>
      BY <1>16 DEF StopHeartbeat
  <2>4. QED
      BY <2>1, <2>2, <2>3
<1>17. CASE CancelTasks \/ GatherTasks
    BY <1>17 DEF CancelTasks, GatherTasks
<1>18. CASE WorkersReady
    BY <1>18 DEF WorkersReady, CeleryWorkerReady, RQWorkerReady, DramatiqWorkerReady,
           HueyWorkerReady, WorkerReady
<1>19. CASE CreateConsumer \/ Kickstart \/ ConnectRedis \/ Aborts
    BY <1>19 DEF CreateConsumer, Kickstart, ConnectRedis, Aborts, Closed
<1>20. CASE Cleanup
  <2>1. executor' \in {"open", "closed", "broken"} /\ workers' \in {"starting", "up", "terminated"}
      BY <1>20 DEF Cleanup, CloseThreadPool, CloseProcessPool, CloseAsync, TerminateCelery,
             TerminateRQ, TerminateDramatiq, TerminateHuey, TerminateWorkers, Closed
  <2>2. CleansUp
      BY <1>20 DEF Cleanup, CloseThreadPool, CloseProcessPool, CloseAsync, TerminateCelery,
             TerminateRQ, TerminateDramatiq, TerminateHuey, TerminateWorkers
  <2>3. QED
      BY <2>1, <2>2 DEF CleansUp
<1>21. CASE UNCHANGED backendVars
    BY <1>21
<1>22. QED
    BY <1>1, <1>2, <1>3, <1>4, <1>5, <1>6, <1>7, <1>8, <1>9, <1>10, <1>11, <1>12, <1>13, <1>14,
       <1>15, <1>16, <1>17, <1>18, <1>19, <1>20, <1>21
       DEF Next, Program, Pod, Schedule, Generate, AllCompleted, ShutdownConsumer, Shutdown, Ends,
           Finished, CreateLimiter, Interrupted, HandleSignal, BackendStep, Dispatch, Run,
           SendTask, Enqueue, SendMessage, CallTask, CeleryWorker, RQWorker, HueyWorker, vars

(***************************************************************************)
(* The programs and shutdown()                                             *)
(***************************************************************************)

\* A step of the backend leaves the program and shutdown() alone, and drains
\* only end.
LEMMA BackendLeaves ==
    ASSUME BackendStep
    PROVE  UNCHANGED <<kind, shut>> /\ (drain' = drain \/ drain' = "off")
<1> USE DEF BackendStep
<1>1. ASSUME NEW t \in Tasks, Consume(t)
      PROVE  UNCHANGED <<kind, shut>> /\ (drain' = drain \/ drain' = "off")
    BY <1>1 DEF Consume, AfterDrain
<1>2. ASSUME NEW t \in Tasks, Dispatch(t) \/ Run(t)
      PROVE  UNCHANGED <<kind, shut, drain>>
    BY <1>2 DEF Dispatch, ImportFails, SubmitThread, SubmitProcess, CreateTask, SendTask,
           Enqueue, SendMessage, CallTask, Send, Run, RunTask, RunCoroutine, ProcessTakes,
           RateLimited, ThreadReturns, CoroutineReturns, OnDone, Leave, CeleryWorker, RQWorker,
           HueyWorker, WorkerReturns, DramatiqWorker
<1>3. EmptyDrain \/ DeferLastDrain =>
          UNCHANGED <<kind, shut>> /\ (drain' = drain \/ drain' = "off")
    BY DEF EmptyDrain, DeferLastDrain, AfterDrain
<1>4. ASSUME NEW t \in Tasks, Expire(t) \/ ExtendLease(t) \/ WorkerDies(t)
      PROVE  UNCHANGED <<kind, shut, drain>>
    BY <1>4 DEF Expire, ExtendLease, WorkerDies
<1>5. PoolBreaks \/ HeartbeatDies => UNCHANGED <<kind, shut, drain>>
    BY DEF PoolBreaks, HeartbeatDies
<1>6. QED
    BY <1>1, <1>2, <1>3, <1>4, <1>5

\* Every step keeps the order of the programs and of shutdown().
LEMMA ShapeStep == DemoInv /\ [Next]_vars => ProgramShape' /\ ShutdownShape'
<1> SUFFICES ASSUME DemoInv, [Next]_vars PROVE ProgramShape' /\ ShutdownShape'
    OBVIOUS
<1>0. ProgramShape /\ ShutdownShape /\ drain \in {"on", "last", "off"}
      /\ shut \in {"no", "joining", "quiet", "cancelling", "closed"}
    BY DEF DemoInv, TypeOK
<1> USE <1>0 DEF ProgramShape, ShutdownShape, Phases, Closing, backendVars, demoVars
<1>1. CASE BackendStep /\ UNCHANGED demoVars
    BY <1>1, BackendLeaves
<1>2. ASSUME NEW t \in Tasks, Schedule(t) \/ Generate(t)
      PROVE  ProgramShape' /\ ShutdownShape'
    BY <1>2 DEF Schedule, Generate, ScheduleTask, ScheduleLocal, ScheduleCelery, ScheduleRQ,
           ScheduleDramatiq, ScheduleHuey, Buffer
<1>3. CASE WorkersReady
    BY <1>3 DEF WorkersReady, CeleryWorkerReady, RQWorkerReady, DramatiqWorkerReady,
           HueyWorkerReady, WorkerReady
<1>4. CASE CreateConsumer
    BY <1>4 DEF CreateConsumer
<1>5. CASE AllCompleted
  <2>1. announced' \in BOOLEAN /\ program = "example"
      BY <1>5 DEF AllCompleted
  <2>2. phase' = "stopping" /\ UNCHANGED <<kind, shut, drain, program>>
      BY <1>5 DEF AllCompleted
  <2>3. QED
      BY <2>1, <2>2
<1>6. CASE Interrupted \/ HandleSignal \/ CreateLimiter \/ Ends
    BY <1>6 DEF Interrupted, HandleSignal, CreateLimiter, Ends
<1>7. CASE ConnectRedis \/ Kickstart \/ Aborts
    BY <1>7 DEF ConnectRedis, Kickstart, Aborts
<1>8. CASE Cleanup
    BY <1>8 DEF Cleanup, CloseThreadPool, CloseProcessPool, CloseAsync, TerminateCelery,
           TerminateRQ, TerminateDramatiq, TerminateHuey, TerminateWorkers, CleansUp
<1>9. CASE ShutdownConsumer
  <2>1. phase = "stopping" /\ UNCHANGED demoVars
      BY <1>9 DEF ShutdownConsumer
  <2>2. CASE StopLoop
      BY <2>1, <2>2 DEF StopLoop
  <2>3. CASE StopHeartbeat
      BY <2>1, <2>3 DEF StopHeartbeat
  <2>4. CASE CancelTasks \/ GatherTasks
      BY <2>1, <2>4 DEF CancelTasks, GatherTasks
  <2>5. QED
      BY <1>9, <2>2, <2>3, <2>4 DEF ShutdownConsumer, Shutdown
<1>10. CASE UNCHANGED vars
    BY <1>10 DEF vars
<1>11. QED
    BY <1>1, <1>2, <1>3, <1>4, <1>5, <1>6, <1>7, <1>8, <1>9, <1>10
       DEF Next, Program, Pod, Finished

(***************************************************************************)
(* The tasks                                                               *)
(***************************************************************************)

\* Every step keeps, for each task, its registration, its lease and what was
\* announced of it.
LEMMA TaskStep == DemoInv /\ [Next]_vars => TaskInv'
<1> SUFFICES ASSUME DemoInv, [Next]_vars, NEW u \in Tasks
             PROVE  (Settled(u) /\ CountedIsLocal(u) /\ Registered(u) /\ Leased(u) /\ Announced(u))'
    BY DEF TaskInv
<1> DEFINE Inv == Settled(u) /\ CountedIsLocal(u) /\ Registered(u) /\ Leased(u) /\ Announced(u)
<1>0. Inv /\ TypeOK
    BY DEF DemoInv, TaskInv
<1> USE <1>0 DEF TypeOK, Stages, Settled, CountedIsLocal, Registered, Leased, Announced, Move,
                 backendVars, demoVars
<1>1. CASE UNCHANGED <<kind, stage, lease, beating, renewing, shut, lost, announced>>
    BY <1>1
<1>2. ASSUME NEW t \in Tasks, Schedule(t) \/ Generate(t)
      PROVE  Inv'
  <2>1. Buffer(t) /\ UNCHANGED announced /\ ~announced
      BY <1>2 DEF Schedule, Generate, ScheduleTask, ScheduleLocal, ScheduleCelery, ScheduleRQ,
             ScheduleDramatiq, ScheduleHuey, DemoInv, ProgramShape, Closing
  <2>2. QED
      BY <2>1 DEF Buffer
<1>3. ASSUME UNCHANGED demoVars, NEW t \in Tasks, Consume(t)
      PROVE  Inv'
  <2>1. kind = "asyncio" => shut \in {"no", "joining"}
      BY <1>3 DEF Consume, CanDrain, DemoInv, ShutdownShape
  <2>2. lease'[u] = "held" \/ (stage[u] = stage'[u] /\ lease[u] # "held")
      BY <1>3 DEF Consume, Reclaimed
  <2>3. QED
      BY <1>3, <2>1, <2>2 DEF Consume
<1>4. CASE UNCHANGED demoVars /\ (EmptyDrain \/ DeferLastDrain)
  <2>1. lease[u] = "held" => lease'[u] = "held"
      BY <1>4 DEF EmptyDrain, DeferLastDrain, Reclaimed
  <2>2. QED
      BY <1>4, <2>1 DEF EmptyDrain, DeferLastDrain
<1>5. ASSUME UNCHANGED demoVars, NEW t \in Tasks,
             ImportFails(t) \/ (kind \in Brokers /\ Send(t))
      PROVE  Inv'
    BY <1>5 DEF ImportFails, Send
<1>6. ASSUME UNCHANGED demoVars, NEW t \in Tasks, SubmitThread(t) \/ CreateTask(t)
      PROVE  Inv'
    BY <1>6 DEF SubmitThread, CreateTask, Submitted
<1>7. ASSUME UNCHANGED demoVars, NEW t \in Tasks, SubmitProcess(t)
      PROVE  Inv'
    BY <1>7 DEF SubmitProcess, Submitted
<1>8. ASSUME UNCHANGED demoVars, NEW t \in Tasks, RunTask(t) \/ RunCoroutine(t)
      PROVE  Inv'
    BY <1>8 DEF RunTask, RunCoroutine, Enter
<1>9. ASSUME UNCHANGED demoVars, NEW t \in Tasks, ProcessTakes(t)
      PROVE  Inv'
    BY <1>9 DEF ProcessTakes
<1>10. ASSUME UNCHANGED demoVars, NEW t \in Tasks, RateLimited(t)
       PROVE  Inv'
    BY <1>10 DEF RateLimited, Enter
<1>11. ASSUME UNCHANGED demoVars, NEW t \in Tasks,
              ThreadReturns(t) \/ CoroutineReturns(t) \/ OnDone(t)
                  \/ (kind \in Brokers /\ WorkerReturns(t))
       PROVE  Inv'
    BY <1>11 DEF ThreadReturns, CoroutineReturns, OnDone, WorkerReturns, Exit
<1>12. ASSUME UNCHANGED demoVars, NEW t \in Tasks, Leave(t)
       PROVE  Inv'
    BY <1>12 DEF Leave
<1>13. ASSUME UNCHANGED demoVars, NEW t \in Tasks, DramatiqWorker(t) \/ WorkerDies(t)
       PROVE  Inv'
    BY <1>13 DEF DramatiqWorker, WorkerDies
<1>14. ASSUME UNCHANGED demoVars, NEW t \in Tasks, Expire(t)
       PROVE  Inv'
    BY <1>14 DEF Expire, Renewed
<1>15. ASSUME UNCHANGED demoVars, NEW t \in Tasks, ExtendLease(t)
       PROVE  Inv'
    BY <1>15 DEF ExtendLease
<1>16. CASE UNCHANGED demoVars /\ (PoolBreaks \/ HeartbeatDies)
    BY <1>16 DEF PoolBreaks, HeartbeatDies
<1>17. CASE ShutdownConsumer
  <2>1. CASE StopLoop
      BY <1>17, <2>1 DEF ShutdownConsumer, StopLoop
  <2>2. CASE StopHeartbeat
      BY <1>17, <2>2 DEF ShutdownConsumer, StopHeartbeat, In
  <2>3. CASE CancelTasks
      BY <1>17, <2>3 DEF ShutdownConsumer, CancelTasks, DemoInv, ShutdownShape
  <2>4. CASE GatherTasks
      BY <1>17, <2>4 DEF ShutdownConsumer, GatherTasks, In
  <2>5. QED
      BY <1>17, <2>1, <2>2, <2>3, <2>4 DEF ShutdownConsumer, Shutdown
<1>18. CASE AllCompleted
  <2>1. UNCHANGED <<kind, stage, lease, beating, renewing, shut, lost>>
      BY <1>18 DEF AllCompleted
  <2>2. stage[u] # "buffered" /\ lease[u] = "none"
      BY <1>18 DEF AllCompleted, Idle, PendingTasks, ActiveTasks, In
  <2>3. QED
      BY <2>1, <2>2
<1>19. CASE Cleanup
    BY <1>19 DEF Cleanup, CloseThreadPool, CloseProcessPool, CloseAsync, TerminateCelery,
           TerminateRQ, TerminateDramatiq, TerminateHuey, TerminateWorkers, CleansUp
<1>20. WorkersReady \/ CreateConsumer \/ Interrupted \/ HandleSignal \/ CreateLimiter \/ Ends
           \/ ConnectRedis \/ Kickstart \/ Aborts \/ UNCHANGED vars
       => UNCHANGED <<kind, stage, lease, beating, renewing, shut, lost, announced>>
    BY DEF WorkersReady, CeleryWorkerReady, RQWorkerReady, DramatiqWorkerReady, HueyWorkerReady,
           WorkerReady, CreateConsumer, Interrupted, HandleSignal, CreateLimiter, Ends,
           ConnectRedis, Kickstart, Aborts, vars
<1>21. CASE UNCHANGED demoVars /\ BackendStep
    BY <1>21, <1>3, <1>4, <1>5, <1>6, <1>7, <1>8, <1>9, <1>10, <1>11, <1>12, <1>13, <1>14, <1>15,
       <1>16
       DEF BackendStep, Dispatch, SendTask, Enqueue, SendMessage, CallTask, Run, CeleryWorker,
           RQWorker, HueyWorker
<1>22. QED
    BY <1>1, <1>2, <1>17, <1>18, <1>19, <1>20, <1>21 DEF Next, Program, Pod, Finished

(***************************************************************************)
(* The counter                                                             *)
(***************************************************************************)

\* A step that neither takes a task nor lets one go, nor counts.
LEMMA CountKept ==
    ASSUME DemoInv, UNCHANGED <<kind, shut, counter>>, In(TakenStages)' = In(TakenStages)
    PROVE  Counted'
BY DEF DemoInv, Counted

\* A step that takes no task in hand and does not raise the counter.
LEMMA CapacityKept ==
    ASSUME DemoInv, kind' = kind, counter' \in Nat, counter' <= counter,
           \A t \in Tasks : stage'[t] = "hand" => stage[t] = "hand"
    PROVE  WithinCapacity'
BY BackendConstants DEF DemoInv, TypeOK, WithinCapacity

\* Every step keeps the counter exact and within the capacity.
LEMMA CountStep == DemoInv /\ [Next]_vars => Counted' /\ WithinCapacity'
<1> SUFFICES ASSUME DemoInv, [Next]_vars PROVE Counted' /\ WithinCapacity'
    OBVIOUS
<1> DEFINE Goal == Counted' /\ WithinCapacity'
<1>0. /\ TypeOK /\ counter \in Nat /\ MaxWorkers \in Nat
      /\ Cardinality(In(TakenStages)) \in Nat /\ Cardinality(In(TakenStages)') \in Nat
      /\ stage \in [Tasks -> Stages]
  <2>1. TypeOK /\ counter \in Nat /\ MaxWorkers \in Nat /\ stage \in [Tasks -> Stages]
      BY BackendConstants DEF DemoInv, TypeOK
  <2>2. Cardinality(In(TakenStages)) \in Nat
      BY StagesFinite
  <2>3. Cardinality(In(TakenStages)') \in Nat
    <3>1. In(TakenStages)' \subseteq Tasks
        BY DEF In
    <3>2. QED
        BY <3>1, BackendConstants, FS_Subset, FS_CardinalityType
  <2>4. QED
      BY <2>1, <2>2, <2>3
<1> USE DEF backendVars, demoVars
<1>1. ASSUME UNCHANGED <<kind, shut, counter, stage>>
      PROVE  Goal
  <2>1. In(TakenStages)' = In(TakenStages)
      BY <1>1 DEF In
  <2>2. QED
      BY <1>0, <1>1, <2>1, CountKept, CapacityKept
\* A task that moves without being counted.
<1>2. ASSUME NEW t \in Tasks, NEW s \in Stages, s # "hand", s \in TakenStages <=> stage[t] \in TakenStages,
             Move(t, s), UNCHANGED <<kind, shut, counter>>
      PROVE  Goal
  <2>1. In(TakenStages)' = In(TakenStages)
      BY <1>0, <1>2, MoveWithin
  <2>2. \A u \in Tasks : stage'[u] = "hand" => stage[u] = "hand"
      BY <1>0, <1>2 DEF Move
  <2>3. QED
      BY <1>0, <1>2, <2>1, <2>2, CountKept, CapacityKept
\* A task that is taken.
<1>3. ASSUME NEW t \in Tasks, NEW s \in TakenStages, stage[t] = "hand", Move(t, s),
             counter' = counter + 1, UNCHANGED <<kind, shut>>, kind \in Local
      PROVE  Goal
  <2>1. Cardinality(In(TakenStages)') = Cardinality(In(TakenStages)) + 1
      BY <1>0, <1>3, MoveIn DEF TakenStages
  <2>2. Counted'
      BY <1>0, <1>3, <2>1 DEF DemoInv, Counted
  <2>3. \A u \in Tasks : stage'[u] # "hand"
      BY <1>0, <1>3 DEF DemoInv, WithinCapacity, Move, TakenStages
  <2>4. WithinCapacity'
      BY <1>0, <1>3, <2>3 DEF DemoInv, WithinCapacity
  <2>5. QED
      BY <2>2, <2>4
<1>4. ASSUME NEW t \in Tasks, Schedule(t) \/ Generate(t)
      PROVE  Goal
  <2>1. Buffer(t)
      BY <1>4 DEF Schedule, Generate, ScheduleTask, ScheduleLocal, ScheduleCelery, ScheduleRQ,
             ScheduleDramatiq, ScheduleHuey
  <2>2. QED
      BY <1>2, <2>1 DEF Buffer, TakenStages, Stages
<1>5. ASSUME NEW t \in Tasks, Consume(t)
      PROVE  Goal
  <2>1. In(TakenStages)' = In(TakenStages)
      BY <1>0, <1>5, MoveWithin DEF Consume, TakenStages
  <2>2. Counted'
      BY <1>5, <2>1, CountKept DEF Consume
  <2>3. WithinCapacity'
    <3> SUFFICES ASSUME kind \in Local
                 PROVE  /\ counter <= MaxWorkers /\ counter < MaxWorkers
                        /\ \A u \in Tasks : stage'[u] = "hand" => u = t
        BY <1>5 DEF Consume, WithinCapacity
    <3>1. In({"hand"}) = {} /\ counter < MaxWorkers
        BY <1>5 DEF Consume, CanDrain, HasLocalCapacity
    <3>2. \A u \in Tasks : stage'[u] = "hand" => u = t
        BY <1>0, <1>5, <3>1 DEF Consume, Move, In
    <3>3. QED
        BY <1>0, <3>1, <3>2
  <2>4. QED
      BY <2>2, <2>3
<1>6. ASSUME NEW t \in Tasks, SubmitThread(t) \/ SubmitProcess(t) \/ CreateTask(t)
      PROVE  Goal
    BY <1>3, <1>6 DEF SubmitThread, SubmitProcess, CreateTask, Submitted, TakenStages
<1>7. ASSUME NEW t \in Tasks, ImportFails(t)
      PROVE  Goal
    BY <1>2, <1>7 DEF ImportFails, TakenStages, Stages
<1>8. ASSUME NEW t \in Tasks, RunTask(t) \/ RunCoroutine(t) \/ ProcessTakes(t)
      PROVE  Goal
    BY <1>2, <1>8 DEF RunTask, RunCoroutine, ProcessTakes, TakenStages, Stages
<1>9. ASSUME NEW t \in Tasks, ThreadReturns(t) \/ CoroutineReturns(t) \/ OnDone(t)
      PROVE  Goal
    BY <1>2, <1>9 DEF ThreadReturns, CoroutineReturns, OnDone, TakenStages, Stages
<1>10. ASSUME NEW t \in Tasks, Leave(t)
       PROVE  Goal
  <2>1. kind \in Local
      BY <1>10 DEF Leave, DemoInv, TaskInv, CountedIsLocal
  <2>2. counter >= 1
      BY <1>10, <2>1, TakenCounts DEF Leave, TakenStages
  <2>3. Cardinality(In(TakenStages)') = Cardinality(In(TakenStages)) - 1
      BY <1>0, <1>10, MoveOut DEF Leave, TakenStages
  <2>4. counter' = counter - 1 /\ UNCHANGED <<kind, shut>>
        /\ \A u \in Tasks : stage'[u] = "hand" => stage[u] = "hand"
      BY <1>0, <1>10 DEF Leave, Move
  <2>5. Counted'
      BY <1>0, <2>1, <2>2, <2>3, <2>4 DEF DemoInv, Counted
  <2>6. WithinCapacity'
      BY <1>0, <2>2, <2>4, CapacityKept
  <2>7. QED
      BY <2>5, <2>6
\* The broker backends do not count.
<1>11. ASSUME kind \in Brokers, kind' = kind
       PROVE  Goal
    BY <1>11 DEF Counted, WithinCapacity
<1>12. CASE ShutdownConsumer
  <2>1. CASE StopLoop
    <3>1. UNCHANGED <<kind, counter, stage>> /\ shut = "no" /\ shut' = "joining"
        BY <2>1 DEF StopLoop
    <3>2. In(TakenStages)' = In(TakenStages)
        BY <3>1 DEF In
    <3>3. Counted'
        BY <1>0, <3>1, <3>2 DEF DemoInv, Counted
    <3>4. WithinCapacity'
        BY <1>0, <3>1, CapacityKept
    <3>5. QED
        BY <3>3, <3>4
  <2>2. CASE StopHeartbeat
    <3>1. UNCHANGED <<kind, counter>>
          /\ \A u \in Tasks : \/ stage'[u] = stage[u]
                              \/ stage[u] = "hand" /\ stage'[u] = "stranded"
        BY <1>0, <2>2 DEF StopHeartbeat
    <3>2. In(TakenStages)' = In(TakenStages)
        BY <3>1 DEF In, TakenStages
    <3>3. shut = "joining" /\ (kind = "asyncio" => shut' = "quiet")
        BY <2>2 DEF StopHeartbeat
    <3>4. Counted'
        BY <1>0, <3>1, <3>2, <3>3 DEF DemoInv, Counted
    <3>5. WithinCapacity'
        BY <1>0, <3>1, CapacityKept
    <3>6. QED
        BY <3>4, <3>5
  <2>3. CASE CancelTasks
    <3>1. UNCHANGED <<kind, counter>> /\ kind = "asyncio" /\ shut' = "cancelling"
          /\ \A u \in Tasks : \/ stage'[u] = stage[u]
                              \/ stage[u] = "queued" /\ stage'[u] = "stranded"
        BY <1>0, <2>3 DEF CancelTasks, DemoInv, ShutdownShape
    <3>2. In(TakenStages)' \subseteq In(TakenStages)
        BY <3>1 DEF In, TakenStages
    <3>3. Cardinality(In(TakenStages)') <= Cardinality(In(TakenStages))
        BY <3>2, StagesFinite, FS_Subset
    <3>4. Counted'
        BY <1>0, <3>1, <3>3 DEF DemoInv, Counted
    <3>5. WithinCapacity'
        BY <1>0, <3>1, CapacityKept
    <3>6. QED
        BY <3>4, <3>5
  <2>4. CASE GatherTasks
    <3>1. kind' = kind /\ kind = "asyncio" /\ shut' = "closed" /\ counter' = 0 /\ stage' = stage
        BY <2>4 DEF GatherTasks, DemoInv, ShutdownShape
    <3>2. In(TakenStages)' = {}
        BY <2>4, <3>1 DEF GatherTasks, In, TakenStages, DemoInv, TaskInv, Settled
    <3>3. Cardinality(In(TakenStages)') = 0
        BY <3>2, FS_EmptySet
    <3>4. Counted'
        BY <3>1, <3>3 DEF Counted
    <3>5. WithinCapacity'
        BY <1>0, <3>1, CapacityKept
    <3>6. QED
        BY <3>4, <3>5
  <2>5. QED
      BY <1>12, <2>1, <2>2, <2>3, <2>4 DEF ShutdownConsumer, Shutdown
<1>13. EmptyDrain \/ DeferLastDrain \/ PoolBreaks \/ HeartbeatDies \/ Aborts
           \/ (\E t \in Tasks : Expire(t) \/ ExtendLease(t))
           \/ WorkersReady \/ CreateConsumer \/ AllCompleted \/ Interrupted \/ HandleSignal
           \/ CreateLimiter \/ Ends \/ ConnectRedis \/ Kickstart \/ Cleanup \/ UNCHANGED vars
       => UNCHANGED <<kind, shut, counter, stage>>
    BY DEF EmptyDrain, DeferLastDrain, PoolBreaks, HeartbeatDies, Aborts, Expire, ExtendLease, WorkersReady,
           CeleryWorkerReady, RQWorkerReady, DramatiqWorkerReady, HueyWorkerReady, WorkerReady,
           CreateConsumer, AllCompleted, Interrupted, HandleSignal, CreateLimiter, Ends,
           ConnectRedis, Kickstart, Cleanup, CloseThreadPool, CloseProcessPool, CloseAsync,
           TerminateCelery, TerminateRQ, TerminateDramatiq, TerminateHuey, TerminateWorkers,
           CleansUp, vars
<1>14. \A t \in Tasks :
           SendTask(t) \/ Enqueue(t) \/ SendMessage(t) \/ CallTask(t) \/ RateLimited(t)
               \/ CeleryWorker(t) \/ RQWorker(t) \/ HueyWorker(t) \/ DramatiqWorker(t)
               \/ WorkerDies(t)
           => kind \in Brokers /\ kind' = kind
    BY DEF SendTask, Enqueue, SendMessage, CallTask, Send, RateLimited, CeleryWorker, RQWorker,
           HueyWorker, WorkerReturns, DramatiqWorker, WorkerDies
<1>15. CASE BackendStep
    BY <1>15, <1>1, <1>5, <1>6, <1>7, <1>8, <1>9, <1>10, <1>11, <1>13, <1>14
       DEF BackendStep, Dispatch, Run
<1>16. QED
    BY <1>1, <1>4, <1>12, <1>13, <1>15 DEF Next, Program, Pod, Finished

(***************************************************************************)
(* The theorems                                                            *)
(***************************************************************************)

\* The invariant holds when a program starts.
LEMMA DemoInit == Init => DemoInv
<1> SUFFICES ASSUME Init PROVE DemoInv
    OBVIOUS
<1> USE BackendConstants DEF Init, InitBackend
<1>1. TypeOK
  <2>1. renewing \in BOOLEAN
      OBVIOUS
  <2>2. faults \in 0..MaxFaults /\ counter \in Nat
      OBVIOUS
  <2>3. stage \in [Tasks -> Stages] /\ lease \in [Tasks -> {"none", "held", "expired"}]
      BY DEF Stages
  <2>4. /\ kind \in Local \cup Brokers /\ beating \subseteq Tasks /\ lost \subseteq Tasks
        /\ workers = "starting" /\ executor = "open" /\ drain = "off" /\ shut = "no"
      OBVIOUS
  <2> HIDE DEF Init, InitBackend
  <2>5. QED
      BY <2>1, <2>2, <2>3, <2>4 DEF TypeOK
<1>2. ProgramShape /\ ShutdownShape
    BY DEF ProgramShape, ShutdownShape, Phases, Closing
<1>3. TaskInv
    BY DEF TaskInv, Settled, CountedIsLocal, Registered, Leased, Announced
<1>4. In(TakenStages) = {}
    BY DEF In, TakenStages
<1>5. Counted
    BY <1>4, FS_EmptySet DEF Counted
<1>6. WithinCapacity
    BY DEF WithinCapacity
<1>7. QED
    BY <1>1, <1>2, <1>3, <1>5, <1>6 DEF DemoInv

\* The invariant holds in every program with every backend.
THEOREM DemoInvariant == Spec => []DemoInv
<1>1. Init => DemoInv
    BY DemoInit
<1>2. DemoInv /\ [Next]_vars => DemoInv'
    BY BackendTypeStep, ShapeStep, TaskStep, CountStep DEF DemoInv
<1>3. QED
    BY <1>1, <1>2, PTL DEF Spec

\* Type correctness; the local capacity counter never becomes negative.
THEOREM BackendTypeCorrect == Spec => []TypeOK
BY DemoInvariant, PTL DEF DemoInv

\* _local_dispatched and _active_count are exact in every reachable state,
\* whatever fails, is refused, is late or is cancelled.
THEOREM CounterIsExact == Spec => []CounterExact
<1>1. DemoInv => CounterExact
    BY DEF DemoInv, Counted, CounterExact, TakenStages
<1>2. QED
    BY <1>1, DemoInvariant, PTL

\* _has_local_capacity keeps more tasks than the pool can run out of its queue,
\* although the check and the submission are separate steps.
THEOREM PoolsHaveNoQueue == Spec => []NoLocalQueue
<1>1. DemoInv => NoLocalQueue
  <2> SUFFICES ASSUME DemoInv, kind \in Local
               PROVE  Cardinality(In({"queued", "running"})) <= MaxWorkers
      BY DEF NoLocalQueue
  <2>1. In({"queued", "running"}) \subseteq In(TakenStages)
      BY DEF In, TakenStages
  <2>2. Cardinality(In({"queued", "running"})) <= Cardinality(In(TakenStages))
      BY <2>1, StagesFinite, FS_Subset
  <2>3. QED
      BY <2>2, StagesFinite, BackendConstants DEF DemoInv, TypeOK, Counted, WithinCapacity
<1>2. QED
    BY <1>1, DemoInvariant, PTL

\* No backend renews the lease of a task that does not run, but for a process
\* pool that refused it.
THEOREM NoOrphans == Spec => []NoOrphanHeartbeat
<1>1. DemoInv => NoOrphanHeartbeat
    BY DEF DemoInv, TypeOK, TaskInv, Registered, NoOrphanHeartbeat
<1>2. QED
    BY <1>1, DemoInvariant, PTL

\* "All tasks completed!" is logged only when no task that still has its lease is
\* left to run or running, and stays true: consume.lua moves a task from the buffer
\* to the concurrency set in one step, and nothing is scheduled later.
THEOREM AnnouncementIsTrue == Spec => []CompletedIsComplete
<1>1. DemoInv => CompletedIsComplete
    BY DEF DemoInv, TaskInv, Announced, CompletedIsComplete, In
<1>2. QED
    BY <1>1, DemoInvariant, PTL
=============================================================================
