----------------------------- MODULE WindowChange -----------------------------
(***************************************************************************)
(* A change of the window size.  Counter keys depend on the window, so     *)
(* workers with different windows count separately; an instance whose      *)
(* window changes therefore pauses its draining for the longer of the two. *)
(* This module follows one change through update() and the drain() of      *)
(* every process, which polls the version at most once per Throttle        *)
(* (ManagedConfig has the calls of refresh_config one by one).             *)
(*                                                                         *)
(* Time is counted in ticks, by timers.  Two windows are told apart; that  *)
(* persisting and draining take a bounded time is assumed.                 *)
(***************************************************************************)
EXTENDS Naturals

CONSTANTS
    Procs,          \* processes that drain
    Updater,        \* the one that calls update(window=New)
    Old, New,       \* the windows (ticks)
    Throttle,       \* least time between two refresh_config calls (one second)
    PersistTime,    \* update() has announced the change within this time
    DrainTime,      \* a drain() reaches Redis within this time
    MaxFaults       \* bound: failed refresh_config calls

ASSUME WindowConstants ==
    /\ Updater \in Procs
    /\ {Old, New, Throttle} \subseteq Nat \ {0} /\ Old # New
    /\ {PersistTime, DrainTime, MaxFaults} \subseteq Nat

VARIABLES
    update,     \* where update() is: "none", "applied", "announced"
    lasted,     \* for how long
    window,     \* process -> window of its instance
    pause,      \* process -> time until _drain_paused_until
    age,        \* process -> time since _last_refresh_at, up to Throttle
    drain,      \* process -> where its drain() is
    taken,      \* process -> for how long
    using,      \* process -> the window consume() was called with
    failed,     \* processes whose last refresh_config raised
    changed,    \* history: an instance has consumed with New after its pause
    mixed,      \* history: another one has consumed with Old after that
    early,      \* history: an instance has consumed with New during its pause
    faults

procVars == <<window, pause, age, drain, taken, using, failed>>
history == <<changed, mixed, early>>
vars == <<update, lasted, procVars, history, faults>>

Init ==
    /\ update = "none" /\ lasted = 0
    /\ window = [p \in Procs |-> Old]
    /\ pause = [p \in Procs |-> 0]
    /\ age \in [Procs -> 0 .. Throttle]
    /\ drain = [p \in Procs |-> "idle"] /\ taken = [p \in Procs |-> 0]
    /\ using = [p \in Procs |-> Old]
    /\ failed = {}
    /\ changed = FALSE /\ mixed = FALSE /\ early = FALSE
    /\ faults = 0

-----------------------------------------------------------------------------
\* Mutant: the pause lasts for the shorter window.
ApplyShort(p) ==
    /\ pause' = [pause EXCEPT ![p] = IF window[p] = New THEN @ ELSE IF Old < New THEN Old ELSE New]
    /\ window' = [window EXCEPT ![p] = New]

\* _apply_config_overrides: the first time, a pause of the longer window.
Apply(p) ==
    /\ pause' = [pause EXCEPT ![p] = IF window[p] = New THEN @ ELSE IF Old < New THEN New ELSE Old]
    /\ window' = [window EXCEPT ![p] = New]

\* update(): the local instance first,
UpdateApplies ==
    /\ update = "none"
    /\ update' = "applied" /\ lasted' = 0
    /\ Apply(Updater)
    /\ UNCHANGED <<age, drain, taken, using, failed, history, faults>>

\* and then, after the HSET, the HINCRBY.
UpdateAnnounces ==
    /\ update = "applied"
    /\ update' = "announced"
    /\ UNCHANGED <<lasted, procVars, history, faults>>

-----------------------------------------------------------------------------
(***************************************************************************)
(* drain()                                                                 *)
(***************************************************************************)

Goes(p, to) == drain' = [drain EXCEPT ![p] = to]

\* A wake-up, at any time.  The refresh is noted before it is made.
DrainBegins(p) ==
    /\ drain[p] = "idle"
    /\ taken' = [taken EXCEPT ![p] = 0]
    /\ IF age[p] = Throttle
       THEN Goes(p, "refresh") /\ age' = [age EXCEPT ![p] = 0]
       ELSE Goes(p, "check") /\ UNCHANGED age
    /\ UNCHANGED <<update, lasted, window, pause, using, failed, history, faults>>

\* refresh_config: a version that was announced brings the new window.
Refresh(p) ==
    /\ drain[p] = "refresh"
    /\ Goes(p, "check")
    /\ IF update = "announced" THEN Apply(p) ELSE UNCHANGED <<window, pause>>
    /\ failed' = failed \ {p}
    /\ UNCHANGED <<update, lasted, age, taken, using, history, faults>>

\* It raises: the drain is over, and the recovery drain, 100 ms later, will not refresh.
RefreshFails(p) ==
    /\ drain[p] = "refresh"
    /\ faults < MaxFaults /\ faults' = faults + 1
    /\ Goes(p, "idle")
    /\ failed' = failed \cup {p}
    /\ UNCHANGED <<update, lasted, window, pause, age, taken, using, history>>

\* The pause: a paused instance drains later.
CheckPause(p) ==
    /\ drain[p] = "check"
    /\ Goes(p, IF pause[p] > 0 THEN "idle" ELSE "consume")
    /\ UNCHANGED <<update, lasted, window, pause, age, taken, using, failed, history, faults>>

\* consume() takes the window from the instance, or there is no local capacity.
CallConsume(p) ==
    /\ drain[p] = "consume"
    /\ \/ Goes(p, "sent") /\ using' = [using EXCEPT ![p] = window[p]]
       \/ Goes(p, "idle") /\ UNCHANGED using
    /\ UNCHANGED <<update, lasted, window, pause, age, taken, failed, history, faults>>

\* consume.lua counts with that window.
Consume(p) ==
    /\ drain[p] = "sent"
    /\ Goes(p, "idle")
    /\ changed' = (changed \/ (using[p] = New /\ pause[p] = 0))
    /\ mixed' = (mixed \/ (using[p] = Old /\ changed /\ p \notin failed))
    /\ early' = (early \/ (using[p] = New /\ pause[p] > 0))
    /\ UNCHANGED <<update, lasted, window, pause, age, taken, using, failed, faults>>

Tick ==
    /\ update = "applied" => lasted < PersistTime
    /\ \A p \in Procs : drain[p] # "idle" => taken[p] < DrainTime
    /\ lasted' = IF update = "applied" THEN lasted + 1 ELSE 0
    /\ taken' = [p \in Procs |-> IF drain[p] = "idle" THEN 0 ELSE taken[p] + 1]
    /\ pause' = [p \in Procs |-> IF pause[p] > 0 THEN pause[p] - 1 ELSE 0]
    /\ age' = [p \in Procs |-> IF age[p] < Throttle THEN age[p] + 1 ELSE age[p]]
    /\ UNCHANGED <<update, window, drain, using, failed, history, faults>>

Next ==
    \/ UpdateApplies \/ UpdateAnnounces
    \/ \E p \in Procs :
        \/ DrainBegins(p) \/ Refresh(p) \/ RefreshFails(p) \/ CheckPause(p)
        \/ CallConsume(p) \/ Consume(p)
    \/ Tick

Spec == Init /\ [][Next]_vars

-----------------------------------------------------------------------------
(***************************************************************************)
(* Properties                                                              *)
(***************************************************************************)

\* No two windows are counted with side by side: once an instance has come out of
\* its pause and consumed with the new window, nobody consumes with the old one
\* any more, however seldom it drains, unless its last refresh_config failed.
\* This needs a pause of at least PersistTime + Throttle + DrainTime.
OneWindow == ~mixed

\* No instance consumes with the new window before its pause is over.
\* limiters.py:1375: "Respect the window-change pause: skip draining until the pause
\* expires".
PauseRespected == ~early
=============================================================================
