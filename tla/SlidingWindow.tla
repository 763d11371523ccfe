---------------------------- MODULE SlidingWindow ----------------------------
(***************************************************************************)
(* The sliding-window arithmetic that consume.lua, acquire.lua and         *)
(* health.lua share, and the counters it reads.  Times and window sizes    *)
(* are milliseconds of the Redis server clock.                             *)
(*                                                                         *)
(* The scripts compute the estimate as a fraction                          *)
(*     current + previous * (window - elapsed) / window .                  *)
(* Every quantity here is that one multiplied by the window, so that it    *)
(* stays an integer; comparisons with the limit are unaffected.  Rounding  *)
(* of Lua's doubles is abstracted away.                                    *)
(***************************************************************************)
EXTENDS Integers

\* The window a time falls into.  The scripts name the counter key by the
\* window's first millisecond, window * WindowIndex(now, window).
WindowIndex(now, window) == now \div window

Elapsed(now, window) == now % window

\* window * estimated_count
ScaledEstimate(cur, prev, now, window) ==
    cur * window + prev * (window - Elapsed(now, window))

\* Mutant: <= instead of <.
UnderLimitNonStrict(limit, cur, prev, now, window) ==
    ScaledEstimate(cur, prev, now, window) <= limit * window

\* estimated_count < rate_limit
UnderLimit(limit, cur, prev, now, window) ==
    ScaledEstimate(cur, prev, now, window) < limit * window

\* math.max(0, math.floor(rate_limit - estimated_count))
RemainingTokens(limit, cur, prev, now, window) ==
    LET free == (limit * window - ScaledEstimate(cur, prev, now, window)) \div window
    IN  IF free > 0 THEN free ELSE 0

\* reset_in_ms: the time until the current window ends.
ResetIn(now, window) == window - Elapsed(now, window)

-----------------------------------------------------------------------------
(***************************************************************************)
(* Redis keys with a time to live.  A store is a function whose domain is  *)
(* the set of keys that exist; a key exists until the clock has passed its *)
(* expiry time.                                                            *)
(***************************************************************************)

\* The part of a store that still exists at time t.
AliveAt(store, t) ==
    [k \in {j \in DOMAIN store : t <= store[j].expires} |-> store[k]]

\* tonumber(redis.call('GET', key) or 0) of a counter key.
Count(counters, k) == IF k \in DOMAIN counters THEN counters[k].n ELSE 0

\* Mutants: PEXPIRE with one window, the TTL a fixed window would need; SET to 1
\* instead of INCR.
IncrementShortTTL(counters, k, now, window, margin) ==
    [j \in DOMAIN counters \cup {k} |->
        IF j # k THEN counters[j]
        ELSE [n       |-> Count(counters, k) + 1,
              expires |-> IF Count(counters, k) = 0 THEN now + window
                          ELSE counters[k].expires]]

IncrementAsSet(counters, k, now, window, margin) ==
    [j \in DOMAIN counters \cup {k} |->
        IF j # k THEN counters[j]
        ELSE [n |-> 1, expires |-> now + 2 * window + margin]]

\* INCR, followed by PEXPIRE 2 * window + margin when the count was zero: the
\* expiry is set by the first increment and never moved by a later one.
Increment(counters, k, now, window, margin) ==
    [j \in DOMAIN counters \cup {k} |->
        IF j # k THEN counters[j]
        ELSE [n       |-> Count(counters, k) + 1,
              expires |-> IF Count(counters, k) = 0
                          THEN now + 2 * window + margin
                          ELSE counters[k].expires]]
=============================================================================
