--------------------------- MODULE MCRequestLimiter ---------------------------
(* Model-checking instance of RequestLimiter.                                *)
EXTENDS RequestLimiter
=============================================================================
