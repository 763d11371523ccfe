---------------------------- MODULE RequestLimiter ----------------------------
(***************************************************************************)
(* Request-oriented rate limiting: acquire.lua, ASGIRateLimiter.acquire    *)
(* and the decision RateLimitMiddleware.__call__ makes of its answer.      *)
(* acquire.lua is atomic in Redis, so one request is one step; a request   *)
(* whose Redis call fails is a step of its own, and the failure may come   *)
(* before or after the script took effect.                                 *)
(***************************************************************************)
EXTENDS SlidingWindow, Sequences, FiniteSets

CONSTANTS
    Ids,        \* identities the key function extracts from requests
    Limit,      \* requests permitted per window
    Window,     \* window size, ms
    Margin,     \* ms a counter lives beyond two windows (10000 in the script)
    FailOpen,   \* on_error: TRUE for "fail_open", FALSE for "fail_closed"
    Horizon,    \* bound: the clock stops here
    MaxErrors   \* bound: number of failed Redis calls

\* The arguments the constructor accepts.
ValidArguments == Limit \in Nat /\ Window \in Nat \ {0}

ASSUME RequestConstants ==
    /\ ValidArguments
    /\ Margin \in Nat
    /\ FailOpen \in BOOLEAN
    /\ Horizon \in Nat
    /\ MaxErrors \in Nat

VARIABLES
    now,        \* the Redis server clock, ms
    counters,   \* counter keys: <<identity, window index>> -> count and expiry
    requests,   \* history: every request that was charged or forwarded
    reply,      \* the last answer a client got
    errors      \* number of failed Redis calls so far

vars == <<now, counters, requests, reply, errors>>

Request == [id : Ids, at : Nat, charged : BOOLEAN, forwarded : BOOLEAN]

Outcome == {"none", "forwarded", "blocked", "unavailable"}

NoReply == [outcome |-> "none", checked |-> FALSE, at |-> 0, remaining |-> 0]

-----------------------------------------------------------------------------
CurrentKey(id)  == <<id, WindowIndex(now, Window)>>
PreviousKey(id) == <<id, WindowIndex(now, Window) - 1>>

Admissible(id) ==
    UnderLimit(Limit, Count(counters, CurrentKey(id)),
               Count(counters, PreviousKey(id)), now, Window)

\* remaining as the script computes it, before it takes the token.
Remaining(id) ==
    RemainingTokens(Limit, Count(counters, CurrentKey(id)),
                    Count(counters, PreviousKey(id)), now, Window)

Charge(id) ==
    counters' = Increment(counters, CurrentKey(id), now, Window, Margin)

Record(id, charged, forwarded) ==
    requests' = Append(requests, [id |-> id, at |-> now,
                                  charged |-> charged, forwarded |-> forwarded])

-----------------------------------------------------------------------------
Init ==
    /\ now = 0
    /\ counters = << >>
    /\ requests = << >>
    /\ reply = NoReply
    /\ errors = 0

\* Mutant: the header is computed as if the request had taken no token.
AdmitStaleHeader(id) ==
    /\ Admissible(id)
    /\ Charge(id)
    /\ Record(id, TRUE, TRUE)
    /\ reply' = [outcome |-> "forwarded", checked |-> TRUE, at |-> now,
                 remaining |-> Remaining(id)]
    /\ UNCHANGED <<now, errors>>

\* The script admits the request; the application runs and the response
\* carries the remaining tokens in a header.
Admit(id) ==
    /\ Admissible(id)
    /\ Charge(id)
    /\ Record(id, TRUE, TRUE)
    /\ reply' = [outcome |-> "forwarded", checked |-> TRUE, at |-> now,
                 remaining |-> Remaining(id) - 1]
    /\ UNCHANGED <<now, errors>>

\* The script rejects the request; the client gets a 429 whose remaining
\* header is the constant 0.
Block(id) ==
    /\ ~Admissible(id)
    /\ reply' = [outcome |-> "blocked", checked |-> TRUE, at |-> now, remaining |-> 0]
    /\ UNCHANGED <<now, counters, requests, errors>>

\* Mutant: every error is let through.
FailAlwaysOpen(id, effective) ==
    /\ errors < MaxErrors
    /\ errors' = errors + 1
    /\ effective => Admissible(id)
    /\ IF effective THEN Charge(id) ELSE UNCHANGED counters
    /\ Record(id, effective, TRUE)
    /\ reply' = [outcome |-> "forwarded", checked |-> FALSE, at |-> now, remaining |-> 0]
    /\ UNCHANGED now

\* The Redis call fails.  effective says whether the script had run when the
\* connection broke: an admitting run then has charged the counter.
Fail(id, effective) ==
    /\ errors < MaxErrors
    /\ errors' = errors + 1
    /\ effective => Admissible(id)
    /\ IF effective THEN Charge(id) ELSE UNCHANGED counters
    /\ IF effective \/ FailOpen
       THEN Record(id, effective, FailOpen)
       ELSE UNCHANGED requests
    /\ reply' = [outcome |-> IF FailOpen THEN "forwarded" ELSE "unavailable",
                 checked |-> FALSE, at |-> now, remaining |-> 0]
    /\ UNCHANGED now

\* The clock advances by a millisecond; expired counters disappear.
Tick ==
    /\ now < Horizon
    /\ now' = now + 1
    /\ counters' = AliveAt(counters, now + 1)
    /\ UNCHANGED <<requests, reply, errors>>

Next ==
    \/ \E id \in Ids : Admit(id)
    \/ \E id \in Ids : Block(id)
    \/ \E id \in Ids, effective \in BOOLEAN : Fail(id, effective)
    \/ Tick

Spec == Init /\ [][Next]_vars

-----------------------------------------------------------------------------
(***************************************************************************)
(* Properties                                                              *)
(***************************************************************************)

\* The type invariant.
TypeOK ==
    /\ now \in Nat
    /\ counters \in [DOMAIN counters -> [n : Nat \ {0}, expires : Nat]]
    /\ DOMAIN counters \subseteq Ids \X Nat
    /\ requests \in Seq(Request)
    /\ reply \in [outcome : Outcome, checked : BOOLEAN, at : Nat, remaining : Int]
    /\ errors \in Nat

\* Positions in the history of the requests charged to id in window k.
ChargedIn(id, k) ==
    {i \in DOMAIN requests : /\ requests[i].id = id
                             /\ requests[i].charged
                             /\ WindowIndex(requests[i].at, Window) = k}

\* Positions of the charged requests of id in the window-long interval that
\* ends with time t.
ChargedUpTo(id, t) ==
    {i \in DOMAIN requests : /\ requests[i].id = id
                             /\ requests[i].charged
                             /\ t - Window < requests[i].at
                             /\ requests[i].at <= t}

\* What the script reads is the truth: the two counters that enter the
\* estimate (current and previous window) are exactly the numbers of requests
\* charged in those windows.  A counter key that expired while the next window
\* still needs it would read as zero (acquire.lua sets the expiry only on the
\* first increment of a window).
CountersFaithful ==
    \A id \in Ids : \A k \in {WindowIndex(now, Window) - 1, WindowIndex(now, Window)} :
        Count(counters, <<id, k>>) = Cardinality(ChargedIn(id, k))

\* No fixed window of an identity is charged more than limit requests, the
\* strict comparison and the fractional estimate at a window's edge included.
WindowBound ==
    \A id \in Ids : \A k \in 0 .. WindowIndex(now, Window) :
        Cardinality(ChargedIn(id, k)) <= Limit

\* The documented burst bound: no interval as long as the window, wherever it
\* starts, contains more than 2 * limit charged requests of an identity.
BurstBound ==
    \A id \in Ids : \A t \in 0 .. now :
        Cardinality(ChargedUpTo(id, t)) <= 2 * Limit

\* A fail-closed middleware forwards nothing it did not charge, also when the
\* Redis call fails after the script took effect: what reaches the
\* application obeys the same burst bound.
FailClosedForwardsCharged ==
    ~FailOpen => \A i \in DOMAIN requests : requests[i].forwarded => requests[i].charged

\* Whether one more request is admitted in this millisecond after n others.
AdmittedAfter(id, n) ==
    UnderLimit(Limit, Count(counters, CurrentKey(id)) + n,
               Count(counters, PreviousKey(id)), now, Window)

\* What the remaining-tokens header r of an admitted request is worth at the
\* moment it is computed (acquire.lua takes the floor of the estimate before the
\* increment and subtracts one): r further requests are admitted, it never
\* promises more than there is, and after r + 1 none is.  Where r is -1, none is.
RemainingGranted ==
    \A id \in Ids :
        (/\ reply.outcome = "forwarded" /\ reply.checked /\ reply.at = now
         /\ Len(requests) > 0 /\ requests[Len(requests)].id = id)
        => /\ reply.remaining > 0 => AdmittedAfter(id, reply.remaining - 1)
           /\ ~AdmittedAfter(id, reply.remaining + 1)

\* test_asgi_limiter.py:29 "remaining should be non-negative".
RemainingNonNegative == reply.remaining >= 0
=============================================================================
