---------------------------- MODULE MCHeartbeat ----------------------------
EXTENDS Heartbeat, TLC

CONSTANTS t1, t2

Longer == {4}

\* Tasks are interchangeable.
TaskSymmetry == Permutations({t1, t2})
============================================================================
