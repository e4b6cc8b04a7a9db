---------------------------- MODULE EvalService ----------------------------
(***************************************************************************)
(* What the search is promised by the evaluation queue, without queues,    *)
(* batches, locks or condition variables: a request is answered with its   *)
(* own evaluation, or refused while evaluations are halted, and a halt is  *)
(* over only when nobody is asking.  SearchHalt is shown to implement it.  *)
(***************************************************************************)
CONSTANTS Callers

VARIABLES
    request,   \* what each caller's request has come to
    reply,     \* what the caller was last told
    halting    \* evaluations are refused

vars == <<request, reply, halting>>

Init ==
    /\ request = [c \in Callers |-> "none"]
    /\ reply = [c \in Callers |-> "none"]
    /\ halting = FALSE

Ask(c) ==
    /\ request[c] = "none"
    /\ request' = [request EXCEPT ![c] = "asked"]
    /\ reply' = [reply EXCEPT ![c] = "none"]
    /\ UNCHANGED halting

Evaluate(c) ==
    /\ request[c] = "asked"
    /\ request' = [request EXCEPT ![c] = "evaluated"]
    /\ UNCHANGED <<reply, halting>>

Grant(c) ==
    /\ request[c] = "evaluated"
    /\ ~halting
    /\ request' = [request EXCEPT ![c] = "none"]
    /\ reply' = [reply EXCEPT ![c] = "result"]
    /\ UNCHANGED halting

Refuse(c) ==
    /\ request[c] # "none"
    /\ halting
    /\ request' = [request EXCEPT ![c] = "none"]
    /\ reply' = [reply EXCEPT ![c] = "halted"]
    /\ UNCHANGED halting

\* The caller has dealt with the refusal.
Acknowledge(c) ==
    /\ reply[c] = "halted"
    /\ reply' = [reply EXCEPT ![c] = "none"]
    /\ UNCHANGED <<request, halting>>

BeginHalt ==
    /\ halting' = TRUE
    /\ UNCHANGED <<request, reply>>

EndHalt ==
    /\ \A c \in Callers : request[c] = "none" /\ reply[c] # "halted"
    /\ halting' = FALSE
    /\ UNCHANGED <<request, reply>>

Answer(c) == Evaluate(c) \/ Grant(c) \/ Refuse(c)

Next == \/ \E c \in Callers : Ask(c) \/ Answer(c) \/ Acknowledge(c)
        \/ BeginHalt
        \/ EndHalt

Spec == Init /\ [][Next]_vars
=============================================================================
