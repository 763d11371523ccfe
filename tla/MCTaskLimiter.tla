----------------------------- MODULE MCTaskLimiter -----------------------------
(* Model-checking instances of TaskLimiter.                                   *)
EXTENDS TaskLimiter, TLC

CONSTANTS w1, w2, t1, c1, c2

\* One pool thread per worker.
MCOwner == [th \in Threads |-> IF th = t1 THEN w1 ELSE w2]

\* Jobs use the default max_age.  Jobs and markers share the buffer at the same
\* priority, so that either may be its head.
MCAgeOverride == [j \in Jobs |-> -1]
MCPriority == [t \in Tasks |-> 0]

\* Clients are interchangeable.
ClientSymmetry == Permutations({c1, c2})
=============================================================================
