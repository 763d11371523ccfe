----------------------------- MODULE MCLifetime -----------------------------
(* Model-checking instance of Lifetime.                                       *)
EXTENDS Lifetime
=============================================================================
