-------------------------- MODULE ScriptCallsProofs --------------------------
(***************************************************************************)
(* The registry's calls and its data: proofs about ScriptCalls, for any    *)
(* callers, scripts, restarts and connection errors, and about             *)
(* ManagedConfig, for any processes and configurations.                    *)
(***************************************************************************)
EXTENDS ScriptCalls, ManagedConfig, TLAPS

\* Where a call stands, the reply of its script is outstanding or not: every
\* other run has lost its reply.
RanAt ==
    \A c \in Callers :
        /\ pc[c] \in {"eval_reply", "retry_reply"} => ran[c] = lost[c] + 1
        /\ pc[c] \notin {"idle", "eval_reply", "retry_reply"} => ran[c] = lost[c]
        /\ outcome[c] \in {"returned", "response_error"} => ran[c] = lost[c] + 1
        /\ outcome[c] \in {"runtime_error", "import_error", "connection_error"}
            => ran[c] = lost[c]
        /\ pc[c] # "idle" => outcome[c] = "none"

\* What the caches know of the server, and how often it must have lost its
\* scripts for a caller to be where it is.
LossesAt ==
    /\ flushes = 0 => shas \subseteq server
    /\ \A c \in Callers :
        /\ pc[c] \in {"eval", "eval_reply"} => script[c] \in shas
        /\ pc[c] \in {"reregister", "retry", "retry_reply"} => flushes >= 1
        /\ pc[c] \in {"retry", "retry_reply"} => script[c] \in server \/ flushes >= 2
        /\ outcome[c] = "runtime_error" => flushes >= 2

Inv == TypeOK /\ RanAt /\ LossesAt

LEMMA InitInv == Init => Inv
BY ScriptConstants DEF Init, Inv, TypeOK, RanAt, LossesAt

\* Every step preserves the invariant.
LEMMA StepInv == Inv /\ [Next]_vars => Inv'
<1> SUFFICES ASSUME Inv, [Next]_vars PROVE Inv'
  OBVIOUS
<1> Resends \in Nat /\ MaxFlushes \in Nat \ {0, 1}
  BY ScriptConstants
<1> USE DEF Inv, TypeOK, RanAt, LossesAt, Goto, End, callVars
<1>1. ASSUME NEW c \in Callers, NEW s \in Scripts, Call(c, s) PROVE Inv'
  BY <1>1 DEF Call
<1>2. ASSUME NEW c \in Callers, LoadSource(c) PROVE Inv'
  BY <1>2, ScriptConstants DEF LoadSource
<1>3. ASSUME NEW c \in Callers, Register(c) PROVE Inv'
  BY <1>3 DEF Register
<1>4. ASSUME NEW c \in Callers, Evalsha(c) PROVE Inv'
  BY <1>4 DEF Evalsha
<1>5. ASSUME NEW c \in Callers, NoScriptError(c) PROVE Inv'
  <2>1. CASE pc[c] = "eval"
    BY <1>5, <2>1 DEF NoScriptError
  <2>2. CASE pc[c] = "retry"
    BY <1>5, <2>2 DEF NoScriptError
  <2> QED BY <1>5, <2>1, <2>2 DEF NoScriptError
<1>6. ASSUME NEW c \in Callers, Reply(c) PROVE Inv'
  BY <1>6 DEF Reply
<1>10. ASSUME NEW c \in Callers, ErrorReply(c) PROVE Inv'
  BY <1>10 DEF ErrorReply
<1>7. ASSUME NEW c \in Callers, NEW effective \in BOOLEAN, ConnectionError(c, effective)
      PROVE Inv'
  BY <1>7 DEF ConnectionError, Breaks, InCommand
<1>11. ASSUME NEW c \in Callers, NEW effective \in BOOLEAN, Resend(c, effective)
      PROVE Inv'
  <2>1. TypeOK'
    BY <1>11, ScriptConstants DEF Resend, Breaks, InCommand
  <2>2. RanAt'
    BY <1>11 DEF Resend, Breaks, InCommand
  <2>3. LossesAt'
    BY <1>11 DEF Resend, Breaks, InCommand
  <2> QED BY <2>1, <2>2, <2>3
<1>8. CASE Flush
  BY <1>8, ScriptConstants DEF Flush
<1>9. CASE UNCHANGED vars
  BY <1>9 DEF vars
<1> QED
  BY <1>1, <1>2, <1>3, <1>4, <1>5, <1>6, <1>7, <1>8, <1>9, <1>10, <1>11 DEF Next, Step

LEMMA InvHolds == Spec => []Inv
BY InitInv, StepInv, PTL DEF Spec

\* The script machinery keeps its types: a call that is under way names a script,
\* and the client sends a command at most 1 + Resends times.
THEOREM ScriptTypeCorrect == Spec => []TypeOK
BY InvHolds, PTL DEF Inv

\* One restart of Redis never makes a call give up.
THEOREM RestartRecovered == Spec => []OneRestartRecovered
<1>1. Inv => OneRestartRecovered
  BY DEF Inv, LossesAt, OneRestartRecovered
<1> QED BY <1>1, InvHolds, PTL

\* A call that ends in RuntimeError or ImportError had no reply from its script:
\* every run of it, if any, is one whose reply was lost.
THEOREM RefusalsHadNoReply == Spec => []RefusedHadNoReply
<1>1. Inv => RefusedHadNoReply
  BY DEF Inv, RanAt, RefusedHadNoReply
<1> QED BY <1>1, InvHolds, PTL

-----------------------------------------------------------------------------
(***************************************************************************)
(* The refinement                                                          *)
(***************************************************************************)

LEMMA InitRefines == Init => Atomic!Init
BY DEF Init, Atomic!Init, CallStatus

\* A step that changes the status of one caller changes the status function there.
LEMMA StatusMoves ==
    ASSUME NEW c \in Callers, NEW v, CallStatus(c)' = v,
           \A d \in Callers \ {c} : CallStatus(d)' = CallStatus(d)
    PROVE  [d \in Callers |-> CallStatus(d)]' = [[d \in Callers |-> CallStatus(d)] EXCEPT ![c] = v]
<1>1. [d \in Callers |-> CallStatus(d)]' = [d \in Callers |-> CallStatus(d)']
  OBVIOUS
<1>2. [[d \in Callers |-> CallStatus(d)] EXCEPT ![c] = v]
      = [d \in Callers |-> IF d = c THEN v ELSE CallStatus(d)]
  OBVIOUS
<1> QED BY <1>1, <1>2

LEMMA StatusStays ==
    ASSUME \A d \in Callers : CallStatus(d)' = CallStatus(d)
    PROVE  [d \in Callers |-> CallStatus(d)]' = [d \in Callers |-> CallStatus(d)]
OBVIOUS

\* A caller whose pc and outcome stay keeps its status.
LEMMA StatusKept ==
    ASSUME NEW c \in Callers, pc'[c] = pc[c], outcome'[c] = outcome[c]
    PROVE  CallStatus(c)' = CallStatus(c)
BY DEF CallStatus

\* Every step is a step of the atomic call, or none.
LEMMA StepRefines == Inv /\ [Next]_vars => [Atomic!Next]_(Atomic!vars)
<1> SUFFICES ASSUME Inv, [Next]_vars PROVE [Atomic!Next]_(Atomic!vars)
  OBVIOUS
<1> USE DEF Inv, TypeOK, RanAt, Goto, End, callVars
<1>1. ASSUME NEW c \in Callers, NEW s \in Scripts, Call(c, s) PROVE Atomic!Begin(c)
  <2>1. CallStatus(c) # "pending" /\ CallStatus(c)' = "pending"
    BY <1>1 DEF Call, CallStatus
  <2>2. ASSUME NEW d \in Callers \ {c} PROVE CallStatus(d)' = CallStatus(d)
    BY <1>1, StatusKept DEF Call
  <2>3. [d \in Callers |-> CallStatus(d)]' = [[d \in Callers |-> CallStatus(d)] EXCEPT ![c] = "pending"]
    BY <2>1, <2>2, StatusMoves
  <2> QED BY <1>1, <2>1, <2>3 DEF Call, Atomic!Begin
<1>2. ASSUME NEW c \in Callers, LoadSource(c), script[c] \in Installed PROVE UNCHANGED Atomic!vars
  <2>1. ASSUME NEW d \in Callers PROVE CallStatus(d)' = CallStatus(d)
    BY <1>2 DEF LoadSource, CallStatus
  <2> QED BY <1>2, <2>1, StatusStays DEF LoadSource, Atomic!vars
<1>3. ASSUME NEW c \in Callers, LoadSource(c), script[c] \notin Installed PROVE Atomic!Raise(c)
  <2>1. CallStatus(c) = "pending" /\ CallStatus(c)' = "raised"
    BY <1>3 DEF LoadSource, CallStatus
  <2>2. ASSUME NEW d \in Callers \ {c} PROVE CallStatus(d)' = CallStatus(d)
    BY <1>3, StatusKept DEF LoadSource
  <2>3. [d \in Callers |-> CallStatus(d)]' = [[d \in Callers |-> CallStatus(d)] EXCEPT ![c] = "raised"]
    BY <2>1, <2>2, StatusMoves
  <2> QED BY <1>3, <2>1, <2>3 DEF LoadSource, Atomic!Raise
<1>4. ASSUME NEW c \in Callers, Register(c) PROVE UNCHANGED Atomic!vars
  <2>1. ASSUME NEW d \in Callers PROVE CallStatus(d)' = CallStatus(d)
    BY <1>4 DEF Register, CallStatus
  <2> QED BY <1>4, <2>1, StatusStays DEF Register, Atomic!vars
<1>5. ASSUME NEW c \in Callers, Evalsha(c) PROVE Atomic!Run(c)
  <2>1. ASSUME NEW d \in Callers PROVE CallStatus(d)' = CallStatus(d)
    BY <1>5 DEF Evalsha, CallStatus
  <2>2. CallStatus(c) = "pending"
    BY <1>5 DEF Evalsha, CallStatus
  <2>3. ran[c] = lost[c] /\ ran' = [ran EXCEPT ![c] = @ + 1] /\ lost' = lost
    BY <1>5 DEF Evalsha
  <2>4. [d \in Callers |-> CallStatus(d)]' = [d \in Callers |-> CallStatus(d)]
    BY <2>1, StatusStays
  <2> QED BY <2>2, <2>3, <2>4 DEF Atomic!Run
<1>6. ASSUME NEW c \in Callers, NoScriptError(c), pc[c] = "eval" PROVE UNCHANGED Atomic!vars
  <2>1. ASSUME NEW d \in Callers PROVE CallStatus(d)' = CallStatus(d)
    BY <1>6 DEF NoScriptError, CallStatus
  <2> QED BY <1>6, <2>1, StatusStays DEF NoScriptError, Atomic!vars
<1>7. ASSUME NEW c \in Callers, NoScriptError(c), pc[c] = "retry" PROVE Atomic!Raise(c)
  <2>1. CallStatus(c) = "pending" /\ CallStatus(c)' = "raised"
    BY <1>7 DEF NoScriptError, CallStatus
  <2>2. ASSUME NEW d \in Callers \ {c} PROVE CallStatus(d)' = CallStatus(d)
    BY <1>7, StatusKept DEF NoScriptError
  <2>3. [d \in Callers |-> CallStatus(d)]' = [[d \in Callers |-> CallStatus(d)] EXCEPT ![c] = "raised"]
    BY <2>1, <2>2, StatusMoves
  <2> QED BY <1>7, <2>1, <2>3 DEF NoScriptError, Atomic!Raise
<1>8. ASSUME NEW c \in Callers, Reply(c) PROVE Atomic!Return(c)
  <2>1. CallStatus(c) = "pending" /\ CallStatus(c)' = "returned"
    BY <1>8 DEF Reply, CallStatus
  <2>2. ASSUME NEW d \in Callers \ {c} PROVE CallStatus(d)' = CallStatus(d)
    BY <1>8, StatusKept DEF Reply
  <2>3. [d \in Callers |-> CallStatus(d)]' = [[d \in Callers |-> CallStatus(d)] EXCEPT ![c] = "returned"]
    BY <2>1, <2>2, StatusMoves
  <2> QED BY <1>8, <2>1, <2>3 DEF Reply, Atomic!Return
<1>13. ASSUME NEW c \in Callers, ErrorReply(c) PROVE Atomic!Raise(c)
  <2>1. CallStatus(c) = "pending" /\ CallStatus(c)' = "raised"
    BY <1>13 DEF ErrorReply, CallStatus
  <2>2. ASSUME NEW d \in Callers \ {c} PROVE CallStatus(d)' = CallStatus(d)
    BY <1>13, StatusKept DEF ErrorReply
  <2>3. [d \in Callers |-> CallStatus(d)]' = [[d \in Callers |-> CallStatus(d)] EXCEPT ![c] = "raised"]
    BY <2>1, <2>2, StatusMoves
  <2> QED BY <1>13, <2>1, <2>3 DEF ErrorReply, Atomic!Raise
<1>9. ASSUME NEW c \in Callers, NEW effective \in BOOLEAN, ConnectionError(c, effective)
      PROVE  Atomic!Raise(c)
  <2>1. CallStatus(c) = "pending" /\ CallStatus(c)' = "raised"
    BY <1>9 DEF ConnectionError, Breaks, InCommand, CallStatus
  <2>2. ASSUME NEW d \in Callers \ {c} PROVE CallStatus(d)' = CallStatus(d)
    BY <1>9, StatusKept DEF ConnectionError
  <2>3. [d \in Callers |-> CallStatus(d)]' = [[d \in Callers |-> CallStatus(d)] EXCEPT ![c] = "raised"]
    BY <2>1, <2>2, StatusMoves
  <2>4. lost' \in {lost, [lost EXCEPT ![c] = ran[c]]}
    BY <1>9 DEF ConnectionError, Breaks
  <2> QED BY <1>9, <2>1, <2>3, <2>4 DEF ConnectionError, Atomic!Raise
<1>14. ASSUME NEW c \in Callers, NEW effective \in BOOLEAN, Resend(c, effective)
       PROVE  Atomic!LoseReply(c) \/ UNCHANGED Atomic!vars
  <2>1. ASSUME NEW d \in Callers PROVE CallStatus(d)' = CallStatus(d)
    BY <1>14 DEF Resend, Breaks, InCommand, CallStatus
  <2>2. [d \in Callers |-> CallStatus(d)]' = [d \in Callers |-> CallStatus(d)]
    BY <2>1, StatusStays
  <2>3. CallStatus(c) = "pending"
    BY <1>14 DEF Resend, Breaks, InCommand, CallStatus
  <2>4. CASE pc[c] \in {"eval_reply", "retry_reply"}
    <3>1. ran[c] = lost[c] + 1 /\ lost' = [lost EXCEPT ![c] = @ + 1] /\ ran' = ran
      BY <1>14, <2>4 DEF Resend, Breaks
    <3> QED BY <2>2, <2>3, <3>1 DEF Atomic!LoseReply
  <2>5. CASE pc[c] \notin {"eval_reply", "retry_reply"}
    <3>1. lost' = lost /\ ran' = ran
      BY <1>14, <2>5 DEF Resend, Breaks
    <3> QED BY <2>2, <3>1 DEF Atomic!vars
  <2> QED BY <2>4, <2>5
<1>10. CASE Flush
  <2>1. ASSUME NEW d \in Callers PROVE CallStatus(d)' = CallStatus(d)
    BY <1>10 DEF Flush, CallStatus
  <2> QED BY <1>10, <2>1, StatusStays DEF Flush, Atomic!vars
<1>11. CASE UNCHANGED vars
  <2>1. ASSUME NEW d \in Callers PROVE CallStatus(d)' = CallStatus(d)
    BY <1>11 DEF vars, CallStatus
  <2> QED BY <1>11, <2>1, StatusStays DEF vars, Atomic!vars
<1>12. ASSUME NEW c \in Callers, Step(c) PROVE [Atomic!Next]_(Atomic!vars)
  <2>1. CASE LoadSource(c)
    BY <2>1, <1>2, <1>3 DEF Atomic!Next
  <2>2. CASE NoScriptError(c)
    BY <2>2, <1>6, <1>7 DEF Atomic!Next, NoScriptError
  <2> QED BY <1>12, <1>4, <1>5, <1>8, <1>13, <2>1, <2>2 DEF Step, Atomic!Next
<1> QED BY <1>1, <1>9, <1>10, <1>11, <1>12, <1>14 DEF Next, Atomic!Next

\* Loading, losing, reloading and retrying scripts implements the atomic call, the
\* step the other modules take a script call to be: what repeats a script is
\* only the client, after a reply was lost.
THEOREM CallsRefineAtomicCalls == Spec => CallsAreAtomic
BY InitRefines, StepRefines, InvHolds, PTL DEF Spec, CallsAreAtomic, Atomic!Spec

-----------------------------------------------------------------------------
(***************************************************************************)
(* The managed configuration                                               *)
(***************************************************************************)

\* What a process persists is what it has, and the version it is given announces it.
ApiSound ==
    \A p \in Procs :
        /\ api[p].at \in {"building", "storing", "bumping", "bumped"} => p \in Updaters
        /\ api[p].at \in {"bumping", "bumped"} /\ p \notin Pollers => fresh[p] = api[p].stamp
        /\ api[p].at = "bumped" =>
            api[p].version \in 1 .. version /\ announced[api[p].version] = api[p].stamp

\* What refresh_config has read after a version is no older than what it announces.
PollSound ==
    \A p \in Procs :
        /\ poll[p].at # "idle" => p \in Pollers /\ poll[p].version \in 1 .. version
        /\ poll[p].at = "read" => poll[p].stamp >= announced[poll[p].version]

ConfigInv == ConfigTypeOK /\ ApiSound /\ PollSound /\ AsNewAsVersion

LEMMA ConfigInitInv == ConfigInit => ConfigInv
<1> SUFFICES ASSUME ConfigInit PROVE ConfigInv
  OBVIOUS
<1>1. announced \in Seq(Nat) /\ version = 1 /\ announced[1] = 1
  BY DEF ConfigInit, version
<1>2. ConfigTypeOK
  BY <1>1, ConfigConstants
     DEF ConfigInit, ConfigTypeOK, Configs, NoCall, NoPoll, Calling, Polling
<1>3. ApiSound /\ PollSound
  BY DEF ConfigInit, ApiSound, PollSound, NoCall, NoPoll, Calling, Polling
<1>4. AsNewAsVersion
  BY <1>1, ConfigConstants DEF ConfigInit, AsNewAsVersion, Reliable, Announced
<1> QED BY <1>2, <1>3, <1>4 DEF ConfigInv

ApiCalls == [at : {"idle", "hydrating", "building", "storing", "bumping", "bumped"},
             fields : SUBSET Fields, config : Configs, stamp : Nat, version : Nat]

\* Every step preserves the invariant.
LEMMA ConfigStepInv == ConfigInv /\ [ConfigNext]_configVars => ConfigInv'
<1> SUFFICES ASSUME ConfigInv, [ConfigNext]_configVars PROVE ConfigInv'
  OBVIOUS
<1> Default \in Configs /\ Updaters \subseteq Procs /\ Pollers \subseteq Procs
  BY ConfigConstants DEF Configs
<1> version \in Nat
  BY DEF ConfigInv, ConfigTypeOK, version
<1> USE DEF ConfigInv, ConfigTypeOK, ApiSound, PollSound, AsNewAsVersion, Reliable, Announced,
        redisVars, instVars, Calling, NoCall, Polling, NoPoll
<1>1. ASSUME NEW p \in Updaters, Create(p) PROVE ConfigInv'
  BY <1>1 DEF Create, Begins, NewInstance, version
<1>2. ASSUME NEW p \in Updaters, NEW c \in Configs, Replace(p, c) PROVE ConfigInv'
  BY <1>2 DEF Replace, Begins, NewInstance, version
<1>3. ASSUME NEW p \in Updaters, NEW f \in Fields, NEW v \in Values, Update(p, f, v)
      PROVE  ConfigInv'
  <2>1. [config[p] EXCEPT ![f] = v] \in Configs
    BY DEF Configs
  <2> QED BY <1>3, <2>1 DEF Update, Begins, version
<1>4. ASSUME NEW p \in Procs, CreateLocal(p) PROVE ConfigInv'
  BY <1>4 DEF CreateLocal, NewInstance, version
<1>5. ASSUME NEW p \in Procs, HydrateConfig(p) PROVE ConfigInv'
  BY <1>5 DEF HydrateConfig, version
<1>6. ASSUME NEW p \in Procs, HydrateVersion(p) PROVE ConfigInv'
  BY <1>6 DEF HydrateVersion, version
<1>7. ASSUME NEW p \in Procs, BuildConfig(p) PROVE ConfigInv'
  BY <1>7 DEF BuildConfig, version
<1>8. ASSUME NEW p \in Procs, NEW to \in {"bumping", "storing", "idle"}, StoreConfig(p, to)
      PROVE  ConfigInv'
  <2>1. /\ stores' = stores + 1 /\ stored' \in Configs /\ faults' \in Nat
        /\ fresh' = [fresh EXCEPT ![p] = stores + 1]
        /\ UNCHANGED <<announced, loaded, config, seen, viaGet, poll, updates>>
        /\ api[p].at = "storing" /\ p \in Updaters
    BY <1>8 DEF StoreConfig, After
  <2>2. api' = [api EXCEPT ![p] = IF to = "idle" THEN NoCall
                                  ELSE Calling(to, @.fields, @.config, stores + 1, 0)]
    BY <1>8 DEF StoreConfig
  <2>3. /\ api[p] \in ApiCalls /\ NoCall \in ApiCalls
        /\ NoCall.at = "idle" /\ NoCall.stamp = 0
    BY DEF ApiCalls
  <2> DEFINE r == IF to = "idle" THEN NoCall
                  ELSE Calling(to, api[p].fields, api[p].config, stores + 1, 0)
  <2>4. /\ r \in ApiCalls /\ r.at = to /\ r.stamp <= stores + 1
        /\ to # "idle" => r.stamp = stores + 1
    BY <2>3 DEF ApiCalls
  <2>5. api' = [api EXCEPT ![p] = r]
    BY <2>2
  <2> HIDE DEF r
  <2>6. ConfigTypeOK'
    BY <2>1, <2>4, <2>5 DEF version, ApiCalls
  <2>7. ApiSound' /\ PollSound'
    BY <2>1, <2>4, <2>5 DEF version
  <2>8. AsNewAsVersion'
    BY <2>1 DEF version
  <2> QED BY <2>6, <2>7, <2>8
<1>9. ASSUME NEW p \in Procs, NEW to \in {"bumped", "bumping", "idle"}, BumpVersion(p, to)
      PROVE  ConfigInv'
  <2>1. /\ announced' = Append(announced, api[p].stamp) /\ faults' \in Nat
        /\ UNCHANGED <<stored, stores, loaded, config, fresh, seen, viaGet, poll, updates>>
        /\ api[p].at = "bumping" /\ p \in Updaters
    BY <1>9 DEF BumpVersion, After
  <2>2. api' = [api EXCEPT ![p] = IF to = "idle" THEN NoCall
                                  ELSE Calling(to, @.fields, @.config, @.stamp, version + 1)]
    BY <1>9 DEF BumpVersion
  <2>3. /\ api[p] \in ApiCalls /\ NoCall \in ApiCalls
        /\ NoCall.at = "idle" /\ NoCall.stamp = 0
    BY DEF ApiCalls
  <2> DEFINE n == Len(announced)
             r == IF to = "idle" THEN NoCall
                  ELSE Calling(to, api[p].fields, api[p].config, api[p].stamp, n + 1)
  <2>4. n \in Nat
    OBVIOUS
  <2>5. /\ r \in ApiCalls /\ r.at = to /\ r.stamp <= stores
        /\ to # "idle" => r.stamp = api[p].stamp /\ r.version = n + 1
    BY <2>3, <2>4 DEF ApiCalls
  <2>6. api' = [api EXCEPT ![p] = r]
    BY <2>2 DEF version
  <2>7. /\ Len(announced') = n + 1 /\ announced' \in Seq(Nat)
        /\ \A v \in 1 .. n : announced'[v] = announced[v]
        /\ announced'[n + 1] = api[p].stamp
    BY <2>1
  <2> HIDE DEF r
  <2>8. ConfigTypeOK'
    BY <2>1, <2>4, <2>5, <2>6, <2>7 DEF version, ApiCalls
  <2>9. ApiSound'
    <3> SUFFICES ASSUME NEW q \in Procs
                 PROVE  /\ api'[q].at \in {"building", "storing", "bumping", "bumped"} => q \in Updaters
                        /\ api'[q].at \in {"bumping", "bumped"} /\ q \notin Pollers
                            => fresh'[q] = api'[q].stamp
                        /\ api'[q].at = "bumped" =>
                            /\ api'[q].version \in 1 .. Len(announced')
                            /\ announced'[api'[q].version] = api'[q].stamp
      BY DEF version
    <3>1. CASE q = p
      <4>1. api'[q] = r
        BY <2>6, <3>1
      <4> QED BY <2>1, <2>4, <2>5, <2>7, <3>1, <4>1
    <3>2. CASE q # p
      <4>1. api'[q] = api[q]
        BY <2>6, <3>2
      <4> QED BY <2>1, <2>4, <2>7, <4>1 DEF version
    <3> QED BY <3>1, <3>2
  <2>10. PollSound'
    BY <2>1, <2>4, <2>7 DEF version
  <2>11. AsNewAsVersion'
    BY <2>1, <2>4, <2>7 DEF version
  <2> QED BY <2>8, <2>9, <2>10, <2>11
<1>10. ASSUME NEW p \in Procs, TakeVersion(p) PROVE ConfigInv'
  BY <1>10 DEF TakeVersion, version
<1>11. ASSUME NEW p \in Procs, CallFails(p) PROVE ConfigInv'
  BY <1>11 DEF CallFails, version
<1>12. ASSUME NEW p \in Procs, Dies(p) PROVE ConfigInv'
  BY <1>12 DEF Dies, version
<1>13. ASSUME NEW p \in Procs, PollVersion(p) PROVE ConfigInv'
  BY <1>13 DEF PollVersion, version
<1>14. ASSUME NEW p \in Procs, PollConfig(p) PROVE ConfigInv'
  BY <1>14 DEF PollConfig, version
<1>15. ASSUME NEW p \in Procs, PollApply(p) PROVE ConfigInv'
  BY <1>15 DEF PollApply, version
<1>16. ASSUME NEW p \in Procs, PollFails(p) PROVE ConfigInv'
  BY <1>16 DEF PollFails, version
<1>17. CASE UNCHANGED configVars
  BY <1>17 DEF configVars, version
<1> QED
  BY <1>1, <1>2, <1>3, <1>4, <1>5, <1>6, <1>7, <1>8, <1>9, <1>10, <1>11, <1>12, <1>13, <1>14,
     <1>15, <1>16, <1>17
     DEF ConfigNext, ApiStep, PollStep

\* A version is a promise, for any number of updaters, readers, failures, repeated
\* calls and deaths: an instance that has it, and was neither hydrated by get() nor
\* persisted by a draining process, holds what it announced or something later.
THEOREM VersionsAreKept == ConfigSpec => []AsNewAsVersion
<1>1. ConfigInv => AsNewAsVersion
  BY DEF ConfigInv
<1> QED BY <1>1, ConfigInitInv, ConfigStepInv, PTL DEF ConfigSpec
=============================================================================
