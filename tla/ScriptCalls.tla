----------------------------- MODULE ScriptCalls -----------------------------
(***************************************************************************)
(* _eval_script and _register_script: a limiter calls its Lua scripts by   *)
(* their SHA, which Redis forgets when it restarts or is told to           *)
(* (SCRIPT FLUSH).  The callers are the threads (or coroutines) of one     *)
(* limiter and share its two caches.  Every round trip to Redis is a step  *)
(* of its own; a script that runs and the reply that comes back are two.   *)
(*                                                                         *)
(* Below them is the Redis client (external): after a lost connection it   *)
(* sends the same command again, Resends times at most, and then raises    *)
(* ConnectionError.                                                        *)
(*                                                                         *)
(* The module implements AtomicCall, which is how the other modules see a  *)
(* script call.                                                            *)
(***************************************************************************)
EXTENDS Naturals

CONSTANTS
    Callers,        \* threads and coroutines that call scripts
    Scripts,        \* script names
    Installed,      \* those some resource package holds
    Registered,     \* those loaded when the limiter was constructed
    NoScript,       \* not a script
    MaxFlushes,     \* restarts and script flushes of Redis are counted up to here
    Resends,        \* how often the client sends a command again
    MaxErrors       \* bound: connection errors

ASSUME ScriptConstants ==
    /\ Registered \subseteq Installed /\ Installed \subseteq Scripts
    /\ NoScript \notin Scripts
    /\ MaxFlushes \in Nat \ {0, 1} /\ {Resends, MaxErrors} \subseteq Nat

VARIABLES
    sources,    \* scripts whose source is cached (_script_sources)
    shas,       \* scripts whose SHA is cached (_script_shas)
    server,     \* scripts Redis knows
    pc,         \* caller -> where it is
    script,     \* caller -> the script it calls
    outcome,    \* caller -> how its last call ended
    resent,     \* caller -> how often its present command was sent again
    ran,        \* caller -> how often the script of this call has run
    lost,       \* caller -> how many replies of such runs were lost
    flushes, errors     \* how many there were

callVars == <<outcome, ran, lost>>
vars == <<sources, shas, server, pc, script, resent, callVars, flushes, errors>>

Init ==
    /\ sources = Registered /\ shas = Registered /\ server = Registered
    /\ pc = [c \in Callers |-> "idle"]
    /\ script = [c \in Callers |-> NoScript]
    /\ outcome = [c \in Callers |-> "none"]
    /\ resent = [c \in Callers |-> 0]
    /\ ran = [c \in Callers |-> 0] /\ lost = [c \in Callers |-> 0]
    /\ flushes = 0 /\ errors = 0

-----------------------------------------------------------------------------
\* The caller goes on to its next command.
Goto(c, l) ==
    /\ pc' = [pc EXCEPT ![c] = l]
    /\ resent' = [resent EXCEPT ![c] = 0]

\* The call ends: it returns, or raises what `how` says.
End(c, how) ==
    /\ Goto(c, "idle")
    /\ outcome' = [outcome EXCEPT ![c] = how]

\* _eval_script begins; a script without a SHA is registered first.
Call(c, s) ==
    /\ pc[c] = "idle"
    /\ script' = [script EXCEPT ![c] = s]
    /\ ran' = [ran EXCEPT ![c] = 0] /\ lost' = [lost EXCEPT ![c] = 0]
    /\ outcome' = [outcome EXCEPT ![c] = "none"]
    /\ Goto(c, IF s \in shas THEN "eval" ELSE "register")
    /\ UNCHANGED <<sources, shas, server, flushes, errors>>

\* load_lua_script: the first package that has the file, once.
LoadSource(c) ==
    /\ pc[c] \in {"register", "reregister"}
    /\ script[c] \notin sources
    /\ IF script[c] \in Installed
       THEN sources' = sources \cup {script[c]} /\ UNCHANGED <<pc, resent, outcome>>
       ELSE End(c, "import_error") /\ UNCHANGED sources
    /\ UNCHANGED <<shas, server, script, ran, lost, flushes, errors>>

\* Mutant: after a reload the remembered SHA is what decides, not the server.
ReregisterSkipped(c) ==
    /\ pc[c] \in {"register", "reregister"}
    /\ script[c] \in sources
    /\ server' = IF script[c] \in shas THEN server ELSE server \cup {script[c]}
    /\ shas' = shas \cup {script[c]}
    /\ Goto(c, IF pc[c] = "register" THEN "eval" ELSE "retry")
    /\ UNCHANGED <<sources, script, callVars, flushes, errors>>

\* SCRIPT LOAD.
Register(c) ==
    /\ pc[c] \in {"register", "reregister"}
    /\ script[c] \in sources
    /\ server' = server \cup {script[c]}
    /\ shas' = shas \cup {script[c]}
    /\ Goto(c, IF pc[c] = "register" THEN "eval" ELSE "retry")
    /\ UNCHANGED <<sources, script, callVars, flushes, errors>>

\* EVALSHA, first or second try: the script runs.
Evalsha(c) ==
    /\ pc[c] \in {"eval", "retry"}
    /\ script[c] \in server
    /\ ran' = [ran EXCEPT ![c] = @ + 1]
    /\ pc' = [pc EXCEPT ![c] = IF @ = "eval" THEN "eval_reply" ELSE "retry_reply"]
    /\ UNCHANGED <<sources, shas, server, script, resent, outcome, lost, flushes, errors>>

\* Mutant: the retry is not limited to one.
NoScriptErrorForever(c) ==
    /\ pc[c] \in {"eval", "retry"}
    /\ script[c] \notin server
    /\ Goto(c, "reregister") /\ UNCHANGED outcome
    /\ UNCHANGED <<sources, shas, server, script, ran, lost, flushes, errors>>

\* NOSCRIPT: the first time the script is registered again, the second time the
\* call gives up with RuntimeError.
NoScriptError(c) ==
    /\ pc[c] \in {"eval", "retry"}
    /\ script[c] \notin server
    /\ IF pc[c] = "eval"
       THEN Goto(c, "reregister") /\ UNCHANGED outcome
       ELSE End(c, "runtime_error")
    /\ UNCHANGED <<sources, shas, server, script, ran, lost, flushes, errors>>

\* The reply of the script arrives and is returned.
Reply(c) ==
    /\ pc[c] \in {"eval_reply", "retry_reply"}
    /\ End(c, "returned")
    /\ UNCHANGED <<sources, shas, server, script, ran, lost, flushes, errors>>

\* Mutant: every error of the server counts as NOSCRIPT.
ErrorReplyReloaded(c) ==
    /\ pc[c] \in {"eval_reply", "retry_reply"}
    /\ IF pc[c] = "eval_reply"
       THEN Goto(c, "reregister") /\ UNCHANGED outcome
       ELSE End(c, "runtime_error")
    /\ UNCHANGED <<sources, shas, server, script, ran, lost, flushes, errors>>

\* The script stopped with an error in the middle (as consume.lua does when
\* PEXPIRE gets no number): a ResponseError that is not NOSCRIPT and is not caught.
ErrorReply(c) ==
    /\ pc[c] \in {"eval_reply", "retry_reply"}
    /\ End(c, "response_error")
    /\ UNCHANGED <<sources, shas, server, script, ran, lost, flushes, errors>>

\* A caller in a command, as opposed to one that is about to read a file.
InCommand(c) ==
    pc[c] \in {"eval", "retry", "eval_reply", "retry_reply"}
        \/ (pc[c] \in {"register", "reregister"} /\ script[c] \in sources)

\* The connection breaks, before the command took effect or after it: a SCRIPT
\* LOAD that was effective, a script that ran and whose reply is lost.
Breaks(c, effective) ==
    /\ errors < MaxErrors /\ errors' = errors + 1
    /\ InCommand(c)
    /\ effective => pc[c] \in {"register", "reregister"}
    /\ server' = IF effective THEN server \cup {script[c]} ELSE server
    /\ lost' = [lost EXCEPT ![c] = IF pc[c] \in {"eval_reply", "retry_reply"} THEN @ + 1 ELSE @]

\* The client connects again and sends the same command once more.
Resend(c, effective) ==
    /\ resent[c] < Resends
    /\ Breaks(c, effective)
    /\ resent' = [resent EXCEPT ![c] = @ + 1]
    /\ pc' = [pc EXCEPT ![c] = IF @ = "eval_reply" THEN "eval"
                               ELSE IF @ = "retry_reply" THEN "retry" ELSE @]
    /\ UNCHANGED <<sources, shas, script, outcome, ran, flushes>>

\* The client has sent the command often enough.
ConnectionError(c, effective) ==
    /\ resent[c] = Resends
    /\ Breaks(c, effective)
    /\ End(c, "connection_error")
    /\ UNCHANGED <<sources, shas, script, ran, flushes>>

\* Redis restarts, or SCRIPT FLUSH, as often as it likes.
Flush ==
    /\ flushes' = IF flushes < MaxFlushes THEN flushes + 1 ELSE flushes
    /\ server' = {}
    /\ UNCHANGED <<sources, shas, pc, script, resent, callVars, errors>>

Step(c) ==
    \/ LoadSource(c) \/ Register(c)
    \/ Evalsha(c) \/ NoScriptError(c) \/ Reply(c) \/ ErrorReply(c)

Next ==
    \/ \E c \in Callers : Step(c)
    \/ \E c \in Callers, s \in Scripts : Call(c, s)
    \/ \E c \in Callers, effective \in BOOLEAN :
        Resend(c, effective) \/ ConnectionError(c, effective)
    \/ Flush

\* Redis answers every request, or its connection breaks.
Fairness == \A c \in Callers : WF_vars(Step(c))

Spec == Init /\ [][Next]_vars /\ Fairness

-----------------------------------------------------------------------------
(***************************************************************************)
(* Properties                                                              *)
(***************************************************************************)

\* The type invariant.
TypeOK ==
    /\ sources \subseteq Scripts /\ shas \subseteq Scripts /\ server \subseteq Scripts
    /\ pc \in [Callers -> {"idle", "register", "eval", "eval_reply", "reregister", "retry",
                           "retry_reply"}]
    /\ script \in [Callers -> Scripts \cup {NoScript}]
    /\ \A c \in Callers : pc[c] # "idle" => script[c] \in Scripts
    /\ outcome \in [Callers -> {"none", "returned", "import_error", "response_error",
                                "connection_error", "runtime_error"}]
    /\ resent \in [Callers -> 0 .. Resends]
    /\ ran \in [Callers -> Nat] /\ lost \in [Callers -> Nat]
    /\ flushes \in Nat /\ errors \in Nat

\* How AtomicCall sees a call.
CallStatus(c) ==
    CASE pc[c] # "idle" -> "pending"
      [] pc[c] = "idle" /\ outcome[c] = "none" -> "idle"
      [] pc[c] = "idle" /\ outcome[c] = "returned" -> "returned"
      [] pc[c] = "idle" /\ outcome[c] \notin {"none", "returned"} -> "raised"

Atomic == INSTANCE AtomicCall WITH call <- [c \in Callers |-> CallStatus(c)]

\* A call runs its script once, and once more only for a reply that was lost and
\* whose command the client sent again, over lost scripts, reloads and retries:
\* _eval_script itself never repeats a script that has run, and returns the reply
\* of the last run.
CallsAreAtomic == Atomic!Spec

\* "Redis failed to retain the Lua script" is raised only after Redis has lost
\* its scripts twice since the limiter was constructed: one restart, at whatever
\* moment of however many calls, is always recovered from.
OneRestartRecovered ==
    (\E c \in Callers : outcome[c] = "runtime_error") => flushes >= 2

\* A call that ends in RuntimeError or ImportError has had no reply from its
\* script: if the script ran, each run's reply was lost on its way.
RefusedHadNoReply ==
    \A c \in Callers : outcome[c] \in {"runtime_error", "import_error"} => ran[c] = lost[c]

\* Every call ends, even if Redis keeps losing scripts.
CallsEnd == \A c \in Callers : (pc[c] # "idle") ~> (pc[c] = "idle")
=============================================================================
