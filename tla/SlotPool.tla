------------------------------- MODULE SlotPool -------------------------------
(***************************************************************************)
(* What Redis promises the processes that share a buffered limiter, told   *)
(* without keys, expiry times, clocks of seconds and milliseconds, crashes *)
(* and scripts: a pool of slots and a budget of tokens per window.         *)
(***************************************************************************)
EXTENDS Naturals, FiniteSets

CONSTANTS Tasks, Limit, MaxConcurrency

VARIABLES
    slots,      \* the tasks that have a slot
    window,     \* the number of the current window
    spent       \* tokens spent in it

vars == <<slots, window, spent>>

Init == slots = {} /\ window = 0 /\ spent = 0

\* A task gets a slot and pays one token for it; others may lose theirs.
Admit(t) ==
    /\ spent < Limit /\ spent' = spent + 1
    /\ t \in slots' /\ slots' \subseteq slots \cup {t}
    /\ Cardinality(slots') <= MaxConcurrency
    /\ UNCHANGED window

\* Slots are given back or reclaimed, at no price and without a refund.
GiveBack == slots' \subseteq slots /\ UNCHANGED <<window, spent>>

\* The next window begins with its whole budget.
NextWindow == window' = window + 1 /\ spent' = 0 /\ UNCHANGED slots

Next == (\E t \in Tasks : Admit(t)) \/ GiveBack \/ NextWindow

Spec == Init /\ [][Next]_vars
=============================================================================
