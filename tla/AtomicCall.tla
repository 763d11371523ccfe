------------------------------ MODULE AtomicCall ------------------------------
(***************************************************************************)
(* What the other modules take a call of a Lua script to be: the script    *)
(* runs, in one step, and then the call returns; or the call raises, and   *)
(* then the script may have run or not.  Only a reply that is lost makes   *)
(* the client send the command again, so that the script runs once more.   *)
(***************************************************************************)
EXTENDS Naturals

CONSTANT Callers    \* threads and coroutines that call scripts

VARIABLES
    call,       \* caller -> what has become of its last call
    ran,        \* caller -> how often the script of that call has run
    lost        \* caller -> how many replies of these runs were lost

vars == <<call, ran, lost>>

Init ==
    /\ call = [c \in Callers |-> "idle"]
    /\ ran = [c \in Callers |-> 0]
    /\ lost = [c \in Callers |-> 0]

Begin(c) ==
    /\ call[c] # "pending"
    /\ call' = [call EXCEPT ![c] = "pending"]
    /\ ran' = [ran EXCEPT ![c] = 0]
    /\ lost' = [lost EXCEPT ![c] = 0]

Run(c) ==
    /\ call[c] = "pending" /\ ran[c] = lost[c]
    /\ ran' = [ran EXCEPT ![c] = @ + 1]
    /\ UNCHANGED <<call, lost>>

LoseReply(c) ==
    /\ call[c] = "pending" /\ ran[c] = lost[c] + 1
    /\ lost' = [lost EXCEPT ![c] = @ + 1]
    /\ UNCHANGED <<call, ran>>

Return(c) ==
    /\ call[c] = "pending" /\ ran[c] = lost[c] + 1
    /\ call' = [call EXCEPT ![c] = "returned"]
    /\ UNCHANGED <<ran, lost>>

\* With a last reply that is lost, or that is an error of the script.
Raise(c) ==
    /\ call[c] = "pending"
    /\ call' = [call EXCEPT ![c] = "raised"]
    /\ lost' \in {lost, [lost EXCEPT ![c] = ran[c]]}
    /\ UNCHANGED ran

Next == \E c \in Callers : Begin(c) \/ Run(c) \/ LoseReply(c) \/ Return(c) \/ Raise(c)

Spec == Init /\ [][Next]_vars
=============================================================================
