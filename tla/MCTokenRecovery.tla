---------------------------- MODULE MCTokenRecovery ----------------------------
(* Model-checking instance of TokenRecovery.                                  *)
EXTENDS TokenRecovery
=============================================================================
