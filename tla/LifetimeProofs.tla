--------------------------- MODULE LifetimeProofs ---------------------------
(***************************************************************************)
(* Proofs about the background threads of a limiter: for every set of      *)
(* tasks and every number of errors, late joins and changes of the backend.*)
(***************************************************************************)
EXTENDS Lifetime, TLAPS

USE DEF loopVars, subVars, monVars, beatVars, ownerVars, envVars

(***************************************************************************)
(* The type invariant, thread by thread                                    *)
(***************************************************************************)

LoopStates == {"none", "top", "idle", "timed", "draining", "ended"}
Components == {"monitor", "loop", "subscriber", "heartbeat"}

WakeTypes ==
    /\ nextWake \in {"none", "now", "later"}
    /\ notified \in BOOLEAN
    /\ posted \subseteq {"now", "later"}
LoopTypes == loop \in LoopStates /\ WakeTypes /\ lastDrains \in Nat
SubTypes == sub \in {"none", "top", "polling", "ended"} /\ inbox \in BOOLEAN
MonTypes ==
    /\ mon \in {"none", "waiting", "checking", "ended"}
    /\ healthy \in BOOLEAN
    /\ alarms \in {0, 1}
BeatTypes == beat \in {"none", "alive", "ended"} /\ beatGen \in Nat /\ joining \in Nat
OwnerTypes ==
    /\ conf \in [mode : {"threads", "asyncio"}, drains : BOOLEAN, checks : BOOLEAN]
    /\ owner \in {"constructing", "open", "monitor", "loop", "subscriber", "reading",
                  "heartbeat", "closed"}
    /\ down \subseteq Components
    /\ late \subseteq Components
EnvTypes ==
    /\ backend \in BOOLEAN
    /\ stage \in [Tasks -> {"new", "buffered", "dispatched", "running", "done", "lost"}]
    /\ errors \in Nat

AllTypes == LoopTypes /\ SubTypes /\ MonTypes /\ BeatTypes /\ OwnerTypes /\ EnvTypes

\* TypeOK says the same, variable by variable.
LEMMA TypesByThread == TypeOK <=> AllTypes
BY Zenon DEF TypeOK, AllTypes, LoopTypes, WakeTypes, SubTypes, MonTypes, BeatTypes, OwnerTypes,
       EnvTypes, LoopStates, Components

\* A thread that does not move keeps its types.
LEMMA TypesKept ==
    /\ LoopTypes /\ UNCHANGED loopVars => LoopTypes'
    /\ SubTypes /\ UNCHANGED subVars => SubTypes'
    /\ MonTypes /\ UNCHANGED monVars => MonTypes'
    /\ BeatTypes /\ UNCHANGED beatVars => BeatTypes'
    /\ OwnerTypes /\ UNCHANGED ownerVars => OwnerTypes'
    /\ EnvTypes /\ UNCHANGED envVars => EnvTypes'
BY DEF LoopTypes, WakeTypes, SubTypes, MonTypes, BeatTypes, OwnerTypes, EnvTypes

(***************************************************************************)
(* The inductive invariant                                                 *)
(***************************************************************************)

\* The monitor's memory and its log agree: a warning is open exactly while
\* _healthy is false.
LogFollowsState == (healthy /\ alarms = 0) \/ (~healthy /\ alarms = 1)

\* How far shutdown() has come.
PastSubscriber == {"reading", "heartbeat", "closed"}
PastLoop == PastSubscriber \cup {"subscriber"}
PastMonitor == PastLoop \cup {"loop"}

\* The flag of the drain loop is set once its join begins and is never taken
\* back (that of the heartbeat scheduler may be).
FlagStays == owner \in PastMonitor <=> "loop" \in down

\* What a join that did not time out has established stays true: the threads of
\* the monitor and of the subscriber are not started again, and a drain thread
\* that a late wake-up starts finds the flag before it does anything.
MonitorQuiet == owner \in PastMonitor /\ "monitor" \notin late => mon \in Dead
LoopQuiet == owner \in PastLoop /\ "loop" \notin late => loop \in Dead \cup {"top"}
SubscriberQuiet == owner \in PastSubscriber /\ "subscriber" \notin late => sub \in Dead

\* The same of the heartbeat: the thread that shutdown() joined is never the one
\* that runs afterwards, since register() counts a new one.
HeartbeatQuiet ==
    /\ joining <= beatGen
    /\ owner = "closed" /\ "heartbeat" \notin late => beat \in Dead \/ beatGen > joining

\* The drain that shutdown() may cause is that of a loop which was idle when it
\* was told to stop, and a stopped loop is not idle again.
LastDrainOfIdle == lastDrains = 0 \/ (lastDrains = 1 /\ "loop" \in down /\ loop # "idle")

LifetimeInv ==
    /\ AllTypes
    /\ LogFollowsState
    /\ FlagStays
    /\ MonitorQuiet /\ LoopQuiet /\ SubscriberQuiet /\ HeartbeatQuiet
    /\ LastDrainOfIdle

\* The invariant holds when a limiter is constructed.
LEMMA LifetimeInit == Init => LifetimeInv
<1> SUFFICES ASSUME Init PROVE LifetimeInv
    OBVIOUS
<1>1. AllTypes
    BY DEF Init, AllTypes, LoopTypes, WakeTypes, SubTypes, MonTypes, BeatTypes, OwnerTypes,
       EnvTypes, LoopStates, Components
<1>2. LogFollowsState /\ FlagStays /\ LastDrainOfIdle
    BY DEF Init, LogFollowsState, FlagStays, LastDrainOfIdle, PastMonitor, PastLoop,
           PastSubscriber
<1>3. MonitorQuiet /\ LoopQuiet /\ SubscriberQuiet
    BY DEF Init, MonitorQuiet, LoopQuiet, SubscriberQuiet, PastMonitor, PastLoop,
           PastSubscriber
<1>4. HeartbeatQuiet
    BY DEF Init, HeartbeatQuiet
<1>5. QED
    BY <1>1, <1>2, <1>3, <1>4 DEF LifetimeInv

(***************************************************************************)
(* Waking the drain loop                                                   *)
(***************************************************************************)

\* A wake-up never puts the drain thread anywhere but to the head of its loop,
\* and there only if there was no thread.
Woken(at) == loop' = at \/ (at \in Dead /\ loop' = "top")

\* wake() under the lock.
LEMMA SetWakeEffect ==
    ASSUME WakeTypes, NEW when \in {"now", "later"}, NEW at \in LoopStates,
           SetWake(when, at), UNCHANGED posted \/ posted' \subseteq posted
    PROVE  WakeTypes' /\ Woken(at)
<1>1. notified' \in BOOLEAN
    BY DEF SetWake
<1>2. nextWake' \in {"none", "now", "later"}
    BY DEF SetWake, WakeTypes
<1>3. Woken(at)
    BY Zenon DEF SetWake, Woken
<1>4. QED
    BY <1>1, <1>2, <1>3 DEF WakeTypes

\* _schedule_drain, with and without a drain loop, threaded and asyncio.
LEMMA ScheduleDrainEffect ==
    ASSUME WakeTypes, NEW when \in {"now", "later"}, NEW at \in LoopStates,
           ScheduleDrain(when, at)
    PROVE  WakeTypes' /\ Woken(at)
<1>1. CASE conf.drains /\ Threaded
    BY <1>1, SetWakeEffect DEF ScheduleDrain
<1>2. CASE ~(conf.drains /\ Threaded)
  <2>1. loop' = at /\ nextWake' = nextWake /\ notified' = notified
      BY <1>2 DEF ScheduleDrain
  <2>2. posted' = posted \/ posted' = posted \cup {when}
      BY <1>2 DEF ScheduleDrain
  <2>3. WakeTypes'
      BY <2>1, <2>2 DEF WakeTypes
  <2>4. QED
      BY <2>1, <2>3 DEF Woken
<1>3. QED
    BY <1>1, <1>2

\* Every step keeps the types.
LEMMA TypeStep == LifetimeInv /\ [Next]_vars => AllTypes'
<1> SUFFICES ASSUME LifetimeInv, [Next]_vars PROVE AllTypes'
    OBVIOUS
<1>0. AllTypes /\ LogFollowsState
    BY DEF LifetimeInv
<1> USE <1>0 DEF AllTypes
<1>w. WakeTypes /\ loop \in LoopStates /\ "top" \in LoopStates
    BY DEF LoopTypes, LoopStates
<1>1. CASE Start
  <2>1. SubTypes' /\ MonTypes'
      BY <1>1 DEF Start, SubTypes, MonTypes
  <2>2. OwnerTypes'
      BY <1>1 DEF Start, OwnerTypes
  <2>3. QED
      BY <1>1, <2>1, <2>2, TypesKept DEF Start
<1>2. CASE LoopTop \/ TimedReturns \/ Due \/ IdleReturns
  <2>1. loop' \in LoopStates /\ nextWake' \in {"none", "now", "later"}
      BY <1>2 DEF LoopTop, TimedReturns, Due, IdleReturns, LoopTypes, WakeTypes, LoopStates
  <2>2. notified' \in BOOLEAN
      BY <1>2 DEF LoopTop, TimedReturns, Due, IdleReturns, LoopTypes, WakeTypes
  <2>3. lastDrains' \in Nat
      BY <1>2 DEF LoopTop, TimedReturns, Due, IdleReturns, LoopTypes
  <2>4. UNCHANGED <<posted, subVars, monVars, beatVars, ownerVars, envVars>>
      BY <1>2 DEF LoopTop, TimedReturns, Due, IdleReturns
  <2>5. LoopTypes'
      BY <2>1, <2>2, <2>3, <2>4 DEF LoopTypes, WakeTypes
  <2>6. QED
      BY <2>4, <2>5, TypesKept
<1>3. ASSUME NEW t \in Tasks, DrainDispatches(t)
      PROVE  AllTypes'
  <2>1. ScheduleDrain("now", "top")
          \/ (loop' = "top" /\ UNCHANGED <<nextWake, notified, posted>>)
      BY <1>3 DEF DrainDispatches
  <2>2. WakeTypes' /\ Woken("top") /\ lastDrains' = lastDrains
      BY <1>w, <1>3, <2>1, ScheduleDrainEffect DEF WakeTypes, Woken, DrainDispatches
  <2>3. LoopTypes'
      BY <1>w, <2>2 DEF LoopTypes, Woken
  <2>4. EnvTypes'
      BY <1>3 DEF DrainDispatches, EnvTypes
  <2>5. QED
      BY <1>3, <2>3, <2>4, TypesKept DEF DrainDispatches
<1>4. ASSUME NEW retry \in BOOLEAN, DrainEnds(retry)
      PROVE  AllTypes'
  <2>1. ScheduleDrain("later", "top")
          \/ (loop' = "top" /\ UNCHANGED <<nextWake, notified, posted>>)
      BY <1>4 DEF DrainEnds
  <2>2. WakeTypes' /\ Woken("top") /\ lastDrains' = lastDrains
      BY <1>w, <1>4, <2>1, ScheduleDrainEffect DEF WakeTypes, Woken, DrainEnds
  <2>3. LoopTypes'
      BY <1>w, <2>2 DEF LoopTypes, Woken
  <2>4. QED
      BY <1>4, <2>3, TypesKept DEF DrainEnds
<1>5. CASE DrainFails
  <2>1. WakeTypes' /\ Woken("top") /\ lastDrains' = lastDrains
      BY <1>w, <1>5, ScheduleDrainEffect DEF DrainFails
  <2>2. LoopTypes'
      BY <1>w, <2>1 DEF LoopTypes, Woken
  <2>3. EnvTypes'
      BY <1>5 DEF DrainFails, Error, EnvTypes
  <2>4. QED
      BY <1>5, <2>2, <2>3, TypesKept DEF DrainFails
<1>6. ASSUME NEW when \in {"now", "later"}, RunWake(when)
      PROVE  AllTypes'
  <2>1. WakeTypes' /\ Woken(loop) /\ lastDrains' = lastDrains
      BY <1>w, <1>6, SetWakeEffect DEF RunWake
  <2>2. LoopTypes'
      BY <1>w, <2>1 DEF LoopTypes, Woken
  <2>3. QED
      BY <1>6, <2>2, TypesKept DEF RunWake
<1>7. CASE SubTop \/ SubFails
  <2>1. SubTypes'
      BY <1>7 DEF SubTop, SubFails, SubTypes
  <2>2. EnvTypes'
      BY <1>7 DEF SubTop, SubFails, Error, EnvTypes
  <2>3. QED
      BY <1>7, <2>1, <2>2, TypesKept DEF SubTop, SubFails
<1>8. CASE SubPolls
  <2>1. ScheduleDrain("now", loop) \/ UNCHANGED <<loop, nextWake, notified, posted>>
      BY <1>8 DEF SubPolls
  <2>2. WakeTypes' /\ Woken(loop) /\ lastDrains' = lastDrains
      BY <1>w, <1>8, <2>1, ScheduleDrainEffect DEF WakeTypes, Woken, SubPolls
  <2>3. LoopTypes'
      BY <1>w, <2>2 DEF LoopTypes, Woken
  <2>4. SubTypes'
      BY <1>8 DEF SubPolls, SubTypes
  <2>5. QED
      BY <1>8, <2>3, <2>4, TypesKept DEF SubPolls
<1>9. CASE MonWaits \/ MonChecks(backend) \/ MonCheckFails
  <2>1. mon' \in {"none", "waiting", "checking", "ended"} /\ alarms' \in {0, 1}
      BY <1>9 DEF MonWaits, MonChecks, MonCheckFails, MonTypes, LogFollowsState
  <2>2. healthy' \in BOOLEAN
      BY <1>9 DEF MonWaits, MonChecks, MonCheckFails, MonTypes, EnvTypes
  <2>3. EnvTypes'
      BY <1>9 DEF MonWaits, MonChecks, MonCheckFails, Error, EnvTypes
  <2>4. QED
      BY <1>9, <2>1, <2>2, <2>3, TypesKept DEF MonWaits, MonChecks, MonCheckFails, MonTypes
<1>10. ASSUME NEW t \in Tasks, TaskStarts(t)
       PROVE  AllTypes'
  <2>1. BeatTypes'
      BY <1>10 DEF TaskStarts, BeatTypes
  <2>2. OwnerTypes'
      BY <1>10 DEF TaskStarts, OwnerTypes
  <2>3. EnvTypes'
      BY <1>10 DEF TaskStarts, EnvTypes
  <2>4. QED
      BY <1>10, <2>1, <2>2, <2>3, TypesKept DEF TaskStarts
<1>11. ASSUME NEW t \in Tasks, Signal(t)
       PROVE  AllTypes'
  <2>1. SubTypes'
      BY <1>11 DEF Signal, SubTypes
  <2>2. EnvTypes'
      BY <1>11 DEF Signal, EnvTypes
  <2>3. QED
      BY <1>11, <2>1, <2>2, TypesKept DEF Signal
<1>12. ASSUME NEW t \in Tasks, TaskEnds(t) \/ Schedule(t)
       PROVE  AllTypes'
  <2>1. WakeTypes' /\ Woken(loop) /\ lastDrains' = lastDrains
      BY <1>w, <1>12, ScheduleDrainEffect DEF TaskEnds, Schedule
  <2>2. LoopTypes'
      BY <1>w, <2>1 DEF LoopTypes, Woken
  <2>3. EnvTypes'
      BY <1>12 DEF TaskEnds, Schedule, EnvTypes
  <2>4. QED
      BY <1>12, <2>2, <2>3, TypesKept DEF TaskEnds, Schedule
<1>13. CASE BackendChanges \/ BeatStops
  <2>1. backend' \in BOOLEAN
      BY <1>13 DEF BackendChanges, BeatStops, EnvTypes
  <2>2. stage' = stage /\ errors' \in Nat
      BY <1>13 DEF BackendChanges, BeatStops, Error, EnvTypes
  <2>3. BeatTypes'
      BY <1>13 DEF BackendChanges, BeatStops, BeatTypes
  <2>4. QED
      BY <1>13, <2>1, <2>2, <2>3, TypesKept DEF BackendChanges, BeatStops, EnvTypes
<1>14. CASE StopMonitor \/ ReadHeartbeat \/ HeartbeatJoined \/ HeartbeatLate
            \/ SubscriberJoined \/ SubscriberLate
  <2> USE DEF StopMonitor, ReadHeartbeat, HeartbeatJoined, HeartbeatLate, SubscriberJoined,
              SubscriberLate, StopHeartbeat
  <2>1. OwnerTypes'
      BY <1>14 DEF OwnerTypes, Components
  <2>2. MonTypes'
      BY <1>14 DEF MonTypes
  <2>3. BeatTypes'
      BY <1>14 DEF BeatTypes
  <2>4. EnvTypes'
      BY <1>14 DEF EnvTypes, Error
  <2>5. QED
      BY <1>14, <2>1, <2>2, <2>3, <2>4, TypesKept
<1>15. CASE MonitorJoined \/ MonitorLate
  <2> USE DEF MonitorJoined, MonitorLate, StopLoop
  <2>1. LoopTypes'
      BY <1>15 DEF LoopTypes, WakeTypes
  <2>2. OwnerTypes'
      BY <1>15 DEF OwnerTypes, Components
  <2>3. EnvTypes'
      BY <1>15 DEF EnvTypes, Error
  <2>4. QED
      BY <1>15, <2>1, <2>2, <2>3, TypesKept
<1>16. CASE LoopJoined \/ LoopLate
  <2> USE DEF LoopJoined, LoopLate, StopSubscriber
  <2>1. LoopTypes'
      BY <1>16 DEF LoopTypes, WakeTypes, LoopStates
  <2>2. SubTypes'
      BY <1>16 DEF SubTypes
  <2>3. OwnerTypes'
      BY <1>16 DEF OwnerTypes, Components
  <2>4. EnvTypes'
      BY <1>16 DEF EnvTypes, Error
  <2>5. QED
      BY <1>16, <2>1, <2>2, <2>3, <2>4, TypesKept
<1>17. CASE UNCHANGED vars
    BY <1>17, TypesKept DEF vars
<1>18. QED
    BY <1>1, <1>2, <1>3, <1>4, <1>5, <1>6, <1>7, <1>8, <1>9, <1>10, <1>11, <1>12, <1>13,
       <1>14, <1>15, <1>16, <1>17
       DEF Next, LoopStep, SubStep, MonStep, OwnerStep

(***************************************************************************)
(* The other parts of the invariant                                        *)
(***************************************************************************)

\* What a step may do to the drain thread: it becomes idle only when it finds
\* its flag unset, and starts a drain after it was told to stop only when idle.
LEMMA LoopMoves ==
    ASSUME LifetimeInv, [Next]_vars
    PROVE  /\ loop' = loop \/ loop' \in Dead \cup {"top"} \/ "loop" \notin down
                \/ loop = "idle"
           /\ loop' = "idle" => loop = "idle" \/ "loop" \notin down'
           /\ lastDrains' = lastDrains
                \/ (lastDrains' = lastDrains + 1 /\ loop = "idle" /\ loop' # "idle"
                      /\ "loop" \in down')
<1>0. WakeTypes /\ loop \in LoopStates /\ "top" \in LoopStates /\ lastDrains \in Nat
    BY DEF LifetimeInv, AllTypes, LoopTypes, LoopStates
<1>1. CASE UNCHANGED <<loop, lastDrains>>
  <2>1. loop = "idle" => loop' = "idle"
      BY <1>1
  <2>2. QED
      BY <1>1
<1>2. CASE lastDrains' = lastDrains /\ (Woken("top") \/ Woken(loop))
    BY <1>2 DEF Woken, Dead
<1>3. CASE LoopTop
    BY <1>3 DEF LoopTop, Dead
<1>4. CASE TimedReturns
    BY <1>4 DEF TimedReturns
<1>5. CASE IdleReturns
    BY <1>0, <1>5 DEF IdleReturns
<1>6. CASE LoopLate
    BY <1>6 DEF LoopLate, StopSubscriber, Dead
<1>7. (\E t \in Tasks : DrainDispatches(t)) \/ (\E retry \in BOOLEAN : DrainEnds(retry))
        \/ DrainFails
      => lastDrains' = lastDrains /\ Woken("top")
    BY <1>0, ScheduleDrainEffect DEF DrainDispatches, DrainEnds, DrainFails, Woken
<1>8. (\E when \in {"now", "later"} : RunWake(when)) \/ SubPolls
        \/ (\E t \in Tasks : TaskEnds(t) \/ Schedule(t))
      => lastDrains' = lastDrains /\ Woken(loop)
    BY <1>0, ScheduleDrainEffect, SetWakeEffect DEF RunWake, SubPolls, TaskEnds, Schedule, Woken
<1>9. Start \/ StopMonitor \/ MonitorJoined \/ LoopJoined \/ SubscriberJoined \/ ReadHeartbeat
        \/ HeartbeatJoined \/ HeartbeatLate \/ MonitorLate \/ SubscriberLate \/ Due \/ SubTop
        \/ SubFails \/ MonStep \/ MonCheckFails \/ BeatStops
        \/ (\E t \in Tasks : Signal(t) \/ TaskStarts(t)) \/ BackendChanges
        \/ UNCHANGED vars
      => UNCHANGED <<loop, lastDrains>>
    BY DEF Start, StopMonitor, MonitorJoined, LoopJoined, SubscriberJoined, ReadHeartbeat,
           HeartbeatJoined, HeartbeatLate, MonitorLate, SubscriberLate, Due, SubTop, SubFails,
           MonStep, MonWaits, MonChecks, MonCheckFails, BeatStops, Signal, TaskStarts,
           BackendChanges, vars, StopLoop
<1>10. QED
    BY <1>1, <1>2, <1>3, <1>4, <1>5, <1>6, <1>7, <1>8, <1>9
       DEF Next, LoopStep, SubStep, OwnerStep

\* shutdown() goes forward: what a step may do to the owner, its flags and the
\* two threads that are started only once.
LEMMA OwnerMoves ==
    ASSUME LifetimeInv, [Next]_vars
    PROVE  /\ owner' \in PastMonitor => owner = "monitor" \/ owner \in PastMonitor
           /\ owner' \in PastLoop => owner \in PastMonitor
           /\ owner \in PastMonitor => owner' \in PastMonitor
           /\ owner' \in PastMonitor /\ owner = "monitor" /\ "monitor" \notin late'
                => mon \in Dead
           /\ owner' \in PastLoop /\ owner \notin PastLoop /\ "loop" \notin late'
                => loop \in Dead
           /\ owner' \in PastSubscriber /\ owner \notin PastSubscriber
                /\ "subscriber" \notin late' => sub \in Dead
           /\ owner' \in PastMonitor \/ "loop" \notin down'
           /\ owner' \in PastMonitor => "loop" \in down'
           /\ late \subseteq late'
           /\ mon \in Dead /\ owner # "constructing" => mon' \in Dead
           /\ sub \in Dead /\ owner # "constructing" => sub' \in Dead
<1> USE DEF PastMonitor, PastLoop, PastSubscriber
<1>0. FlagStays
    BY DEF LifetimeInv
<1>1. CASE UNCHANGED <<owner, down, late>> /\ (sub \in Dead => sub' = sub)
             /\ (mon \in Dead => mon' = mon)
    BY <1>0, <1>1 DEF FlagStays
<1>2. CASE Start
    BY <1>0, <1>2 DEF FlagStays, Start
<1>3. CASE StopMonitor
    BY <1>0, <1>3 DEF FlagStays, StopMonitor, Dead
<1>4. CASE MonitorJoined \/ MonitorLate
    BY <1>4 DEF MonitorJoined, MonitorLate, StopLoop
<1>5. CASE LoopJoined \/ LoopLate
    BY <1>0, <1>5 DEF FlagStays, LoopJoined, LoopLate, StopSubscriber, Dead
<1>6. CASE SubscriberJoined \/ SubscriberLate
    BY <1>0, <1>6 DEF FlagStays, SubscriberJoined, SubscriberLate, StopHeartbeat
<1>7. CASE ReadHeartbeat \/ HeartbeatJoined \/ HeartbeatLate
    BY <1>0, <1>7 DEF FlagStays, ReadHeartbeat, HeartbeatJoined, HeartbeatLate
<1>8. ASSUME NEW t \in Tasks, TaskStarts(t)
      PROVE  /\ UNCHANGED <<owner, late, sub, mon>>
             /\ "loop" \in down' <=> "loop" \in down
    BY <1>8 DEF TaskStarts
<1>9. LoopStep \/ IdleReturns \/ Due \/ DrainFails
        \/ (\E when \in {"now", "later"} : RunWake(when)) \/ BeatStops \/ BackendChanges
        \/ (\E t \in Tasks : Schedule(t) \/ Signal(t) \/ TaskEnds(t)) \/ UNCHANGED vars
      => UNCHANGED <<owner, down, late, sub, mon>>
    BY DEF LoopStep, LoopTop, TimedReturns, IdleReturns, DrainDispatches, DrainEnds, Due,
           DrainFails, RunWake, BeatStops, BackendChanges, Schedule, Signal, TaskEnds, vars
<1>10. SubStep \/ SubFails \/ MonStep \/ MonCheckFails
      => UNCHANGED <<owner, down, late>> /\ (sub \in Dead => sub' = sub)
             /\ (mon \in Dead => mon' = mon)
    BY DEF SubStep, SubTop, SubPolls, SubFails, MonStep, MonWaits, MonChecks, MonCheckFails, Dead
<1>11. ASSUME NEW t \in Tasks, TaskStarts(t)
       PROVE  /\ UNCHANGED <<owner, late, sub, mon>>
              /\ owner' \in PastMonitor <=> "loop" \in down'
    BY <1>0, <1>8, <1>11 DEF FlagStays
<1>12. QED
    BY <1>1, <1>2, <1>3, <1>4, <1>5, <1>6, <1>7, <1>9, <1>10, <1>11 DEF Next, OwnerStep

\* Every step keeps the invariant.
LEMMA LifetimeStep == LifetimeInv /\ [Next]_vars => LifetimeInv'
<1> SUFFICES ASSUME LifetimeInv, [Next]_vars PROVE LifetimeInv'
    OBVIOUS
<1>1. AllTypes'
    BY TypeStep
<1>2. LogFollowsState'
  <2>1. CASE UNCHANGED <<healthy, alarms>>
      BY <2>1 DEF LifetimeInv, LogFollowsState
  <2>2. CASE MonChecks(backend)
      BY <2>2 DEF LifetimeInv, LogFollowsState, AllTypes, EnvTypes, MonTypes, MonChecks
  <2>3. CASE MonCheckFails
      BY <2>3 DEF LifetimeInv, LogFollowsState, MonCheckFails
  <2>4. MonChecks(backend) \/ MonCheckFails \/ UNCHANGED <<healthy, alarms>>
      BY DEF Next, Start, StopMonitor, OwnerStep, MonitorJoined, LoopJoined, SubscriberJoined,
             ReadHeartbeat, HeartbeatJoined, HeartbeatLate, MonitorLate, LoopLate,
             SubscriberLate, LoopStep, LoopTop, TimedReturns, IdleReturns, DrainDispatches,
             DrainEnds, Due, DrainFails, RunWake, SubStep, SubTop, SubPolls, SubFails, MonStep,
             MonWaits, BeatStops, Schedule, Signal, TaskStarts, TaskEnds, BackendChanges, vars
  <2>5. QED
      BY <2>1, <2>2, <2>3, <2>4
<1>3. FlagStays'
    BY OwnerMoves DEF FlagStays
<1>4. MonitorQuiet'
    BY OwnerMoves DEF LifetimeInv, MonitorQuiet, PastMonitor, PastLoop, PastSubscriber
<1>5. SubscriberQuiet'
    BY OwnerMoves DEF LifetimeInv, SubscriberQuiet, PastMonitor, PastLoop, PastSubscriber
<1>6. LoopQuiet'
  <2> SUFFICES ASSUME owner' \in PastLoop, "loop" \notin late'
               PROVE  loop' \in Dead \cup {"top"}
      BY DEF LoopQuiet
  <2>1. loop \in Dead \cup {"top"} /\ (owner \in PastLoop \/ owner = "loop")
      BY OwnerMoves DEF LifetimeInv, LoopQuiet, PastMonitor, PastLoop
  <2>2. "loop" \in down
      BY <2>1 DEF LifetimeInv, FlagStays, PastMonitor
  <2>3. QED
      BY <2>1, <2>2, LoopMoves DEF Dead
<1>7. LastDrainOfIdle'
  <2>1. "loop" \in down => "loop" \in down'
      BY OwnerMoves DEF LifetimeInv, FlagStays
  <2>2. lastDrains = 0 \/ (lastDrains = 1 /\ "loop" \in down /\ loop # "idle")
      BY DEF LifetimeInv, LastDrainOfIdle
  <2>3. CASE lastDrains' = lastDrains
      BY <2>1, <2>2, <2>3, LoopMoves DEF LastDrainOfIdle
  <2>4. CASE lastDrains' # lastDrains
      BY <2>2, <2>4, LoopMoves DEF LastDrainOfIdle
  <2>5. QED
      BY <2>3, <2>4
<1>8. HeartbeatQuiet'
  <2>0. HeartbeatQuiet /\ beatGen \in Nat /\ joining \in Nat
      BY DEF LifetimeInv, AllTypes, BeatTypes
  <2>1. CASE UNCHANGED <<owner, late, beatVars>>
      BY <2>0, <2>1 DEF HeartbeatQuiet
  <2>2. CASE ReadHeartbeat
      BY <2>0, <2>2 DEF HeartbeatQuiet, ReadHeartbeat
  <2>3. CASE HeartbeatJoined \/ HeartbeatLate
      BY <2>0, <2>3 DEF HeartbeatQuiet, HeartbeatJoined, HeartbeatLate
  <2>4. CASE BeatStops
      BY <2>0, <2>4 DEF HeartbeatQuiet, BeatStops, Dead
  <2>5. ASSUME NEW t \in Tasks, TaskStarts(t)
        PROVE  HeartbeatQuiet'
    <3>1. CASE beat \in Dead
        BY <2>0, <2>5, <3>1 DEF HeartbeatQuiet, TaskStarts
    <3>2. CASE beat \notin Dead
        BY <2>0, <2>5, <3>2 DEF HeartbeatQuiet, TaskStarts
    <3>3. QED
        BY <3>1, <3>2
  <2>6. CASE Start \/ StopMonitor \/ MonitorJoined \/ LoopJoined \/ SubscriberJoined
             \/ MonitorLate \/ LoopLate \/ SubscriberLate
    <3>1. owner' # "closed" /\ UNCHANGED beatVars
        BY <2>6 DEF Start, StopMonitor, MonitorJoined, LoopJoined, SubscriberJoined,
                    MonitorLate, LoopLate, SubscriberLate, StopLoop, StopSubscriber,
                    StopHeartbeat
    <3>2. QED
        BY <2>0, <3>1 DEF HeartbeatQuiet
  <2>7. LoopStep \/ IdleReturns \/ Due \/ DrainFails
          \/ (\E when \in {"now", "later"} : RunWake(when)) \/ SubStep \/ SubFails \/ MonStep
          \/ MonCheckFails \/ BackendChanges
          \/ (\E t \in Tasks : Schedule(t) \/ Signal(t) \/ TaskEnds(t)) \/ UNCHANGED vars
        => UNCHANGED <<owner, late, beatVars>>
      BY DEF LoopStep, LoopTop, TimedReturns, IdleReturns, DrainDispatches, DrainEnds, Due,
             DrainFails, RunWake, SubStep, SubTop, SubPolls, SubFails, MonStep, MonWaits,
             MonChecks, MonCheckFails, BackendChanges, Schedule, Signal, TaskEnds, vars
  <2>8. QED
      BY <2>1, <2>2, <2>3, <2>4, <2>5, <2>6, <2>7 DEF Next, OwnerStep
<1>9. QED
    BY <1>1, <1>2, <1>3, <1>4, <1>5, <1>6, <1>7, <1>8 DEF LifetimeInv

(***************************************************************************)
(* The theorems                                                            *)
(***************************************************************************)

\* The invariant holds from construction to after shutdown().
THEOREM LifetimeInvariant == Spec => []LifetimeInv
<1>1. Init => LifetimeInv
    BY LifetimeInit
<1>2. LifetimeInv /\ [Next]_vars => LifetimeInv'
    BY LifetimeStep
<1>3. QED
    BY <1>1, <1>2, PTL DEF Spec

\* Every variable has its type; in particular the health monitor never logs a
\* second warning, or a second recovery, in a row.
THEOREM LifetimeTypeCorrect == Spec => []TypeOK
<1>1. LifetimeInv => TypeOK
    BY TypesByThread DEF LifetimeInv
<1>2. QED
    BY <1>1, LifetimeInvariant, PTL

\* Once DrainLoop.shutdown() has set its flag at most one more drain() starts,
\* whatever wakes the loop, and however often, afterwards.
THEOREM AtMostOneLastDrain == Spec => []OneLastDrain
<1>1. LifetimeInv => OneLastDrain
    BY DEF LifetimeInv, LastDrainOfIdle, OneLastDrain
<1>2. QED
    BY <1>1, LifetimeInvariant, PTL

\* After a shutdown() whose joins did not time out the drain loop, the subscriber
\* and the monitor do nothing more, although wake-ups may still start drain
\* threads, and a heartbeat thread that runs belongs to a task that started after
\* shutdown() had read the scheduler's thread.
THEOREM ClosedIsQuiet == Spec => []QuietWhenClosed
<1>1. LifetimeInv => QuietWhenClosed
    BY DEF LifetimeInv, QuietWhenClosed, MonitorQuiet, LoopQuiet, SubscriberQuiet,
           HeartbeatQuiet, PastMonitor, PastLoop, PastSubscriber, Dead
<1>2. QED
    BY <1>1, LifetimeInvariant, PTL
=============================================================================
