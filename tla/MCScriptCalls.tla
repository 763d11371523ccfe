--------------------------- MODULE MCScriptCalls ---------------------------
(* Model-checking instance of ScriptCalls: two threads, one script loaded by   *)
(* the constructor, one loaded lazily and one that is not installed.           *)
EXTENDS ScriptCalls
=============================================================================
