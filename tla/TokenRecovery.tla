---------------------------- MODULE TokenRecovery ----------------------------
(***************************************************************************)
(* The retry chain of a rate-limited drain: consume() reports no remaining *)
(* tokens, _drain_inner computes how long to sleep from the two counters   *)
(* and the time to the window's end, and the drain loop tries again.  The  *)
(* chain is considered in isolation: tasks wait in the buffer, a           *)
(* concurrency slot is free and no other worker takes tokens meanwhile.    *)
(*                                                                         *)
(* The counters start with any values: after update() has lowered the      *)
(* limit they may exceed it.                                               *)
(***************************************************************************)
EXTENDS SlidingWindow

CONSTANTS
    RateLimit,  \* current rate limit
    Window,     \* window size, ms
    MaxCount,   \* bound: largest counter value at the start
    MaxJitter   \* bound: largest jitter _calculate_smart_jitter returns, ms

ASSUME RecoveryConstants ==
    /\ RateLimit \in Nat \ {0}
    /\ Window \in Nat \ {0}
    /\ MaxCount \in Nat
    /\ MaxJitter \in Nat

VARIABLES
    now,        \* the clock, ms; the chain starts in window 1
    old,        \* the counter of window 0
    recent,     \* the counter of window 1
    slept,      \* [from, until]: the last sleep, jitter excluded
    tries,      \* number of consume() calls that were rate limited
    admitted    \* a consume() call has succeeded

recoveryVars == <<now, old, recent, slept, tries, admitted>>

\* The counters as consume.lua reads them at time t.
CountAt(k) == CASE k = 0 -> old [] k = 1 -> recent [] OTHER -> 0
Current(t)  == CountAt(WindowIndex(t, Window))
Previous(t) == CountAt(WindowIndex(t, Window) - 1)

AdmissibleAt(t) == UnderLimit(RateLimit, Current(t), Previous(t), t, Window)

\* Mutant: always wait for the end of the window.
FallbackAlways(cur, prev) == TRUE

\* val_previous <= 0 or val_current >= limit: decay cannot free a token
\* within the current window.
Fallback(cur, prev) == prev <= 0 \/ cur >= RateLimit

\* The wait until the estimate reaches the limit, as a fraction
\* WaitNum / prev of milliseconds (t_needed_ms - time_passed_ms).
WaitNum(cur, prev, t) ==
    Window * (prev + cur - RateLimit) - Elapsed(t, Window) * prev

\* Mutant: no lower bound on the delay.
RoundedDelaysNoMinimum(num, den) ==
    {d \in 0 .. (2 * Window) : 2 * (d * den - num) \in (-den) .. den}

\* round(max(0.001, delay), 3) in milliseconds: at least 1, else the nearest
\* integer; a tie goes either way because the value is a binary float.
RoundedDelays(num, den) ==
    {d \in 1 .. (2 * Window) :
        \/ d = 1 /\ num <= den
        \/ num > den /\ 2 * (d * den - num) \in (-den) .. den}

BaseDelays(cur, prev, t) ==
    IF Fallback(cur, prev) THEN {ResetIn(t, Window)}
    ELSE RoundedDelays(WaitNum(cur, prev, t), prev)

\* Jitter is added on the fallback path only.
Jitters(cur, prev) == IF Fallback(cur, prev) THEN 0 .. MaxJitter ELSE {0}

RecoveryInit ==
    /\ now \in Window .. (2 * Window - 1)
    /\ old \in 0 .. MaxCount
    /\ recent \in 0 .. MaxCount
    /\ slept = [from |-> now, until |-> now]
    /\ tries = 0
    /\ admitted = FALSE

\* Mutant: the attempt returns without scheduling a retry.
RateLimitedNoRetry ==
    /\ ~admitted
    /\ ~AdmissibleAt(now)
    /\ UNCHANGED recoveryVars

\* A drain attempt that is rate limited: sleep, then try again.
RateLimited ==
    /\ ~admitted
    /\ ~AdmissibleAt(now)
    /\ RemainingTokens(RateLimit, Current(now), Previous(now), now, Window) <= 0
    /\ \E d \in BaseDelays(Current(now), Previous(now), now),
          j \in Jitters(Current(now), Previous(now)) :
           /\ now' = now + d + j
           /\ slept' = [from |-> now, until |-> now + d]
    /\ tries' = tries + 1
    /\ UNCHANGED <<old, recent, admitted>>

\* A drain attempt that is admitted.
Admitted ==
    /\ ~admitted
    /\ AdmissibleAt(now)
    /\ admitted' = TRUE
    /\ UNCHANGED <<now, old, recent, slept, tries>>

RecoveryNext == RateLimited \/ Admitted

\* The drain loop thread always runs its next wake-up.
RecoverySpec == RecoveryInit /\ [][RecoveryNext]_recoveryVars /\ WF_recoveryVars(RecoveryNext)

-----------------------------------------------------------------------------
\* The type invariant.
RecoveryTypeOK ==
    /\ now \in Nat /\ old \in Nat /\ recent \in Nat /\ tries \in Nat
    /\ slept \in [from : Nat, until : Nat]
    /\ admitted \in BOOLEAN

\* A sleeping drain never sleeps past a token: at every millisecond between a
\* rate-limited attempt and the end of the computed delay (jitter excluded) an
\* attempt would have been rate limited too.
NeverOversleeps ==
    \A t \in slept.from .. (slept.until - 1) : ~AdmissibleAt(t)

\* The computed delay is not a busy loop: three rate-limited attempts at most
\* before one succeeds (the window's end, the decay of the previous window, and
\* one millisecond for a delay that lands where the estimate equals the limit).
FewRetries == tries <= 3

\* A rate-limited drain gets a token in the end: in no state does the chain stop
\* without a scheduled retry.
TokenRecovered == <>admitted
=============================================================================
