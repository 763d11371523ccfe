------------------------------ MODULE MCDrainLoop ------------------------------
(* Model-checking instances of DrainLoop.                                     *)
EXTENDS DrainLoop

CONSTANTS w1, w2, t1

MCOwner == [th \in Threads |-> IF th = t1 THEN w1 ELSE w2]
=============================================================================
