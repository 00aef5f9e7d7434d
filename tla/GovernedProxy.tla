--------------------------- MODULE GovernedProxy ---------------------------
(***************************************************************************)
(* What POST /v1/messages promises, whatever fails and whenever the        *)
(* gateway restarts: the provider only sees requests that were approved,   *)
(* each request gets at most one answer, a response is released only with  *)
(* a line in the audit log that says so, and a refusal always has one.     *)
(***************************************************************************)
EXTENDS Sequences

CONSTANT Requests

VARIABLES
    approved,  \* requests that passed scoring, injection check and HITL
    sent,      \* requests the provider received
    answer,    \* the answer of each request, or "none"
    entries    \* the audit lines about each request

proxyVars == <<approved, sent, answer, entries>>

Init ==
    /\ approved = {}
    /\ sent = {}
    /\ answer = [r \in Requests |-> "none"]
    /\ entries = [r \in Requests |-> <<>>]

Approve(r) ==
    /\ answer[r] = "none"
    /\ approved' = approved \union {r}
    /\ UNCHANGED <<sent, answer, entries>>

Send(r) ==
    /\ r \in approved /\ answer[r] = "none"
    /\ sent' = sent \union {r}
    /\ UNCHANGED <<approved, answer, entries>>

Answer(r, a) ==
    /\ answer[r] = "none"
    /\ answer' = [answer EXCEPT ![r] = a]
    /\ UNCHANGED <<approved, sent>>

Release(r) ==
    /\ r \in sent
    /\ Answer(r, "released")
    /\ entries' = [entries EXCEPT ![r] = <<"passed">>]

Refuse(r) ==
    /\ Answer(r, "refused")
    /\ entries' = [entries EXCEPT ![r] = <<"blocked">>]

\* An answer the log need not mention: not evaluated at all.
TurnAway(r) ==
    /\ r \notin approved
    /\ \E a \in {"turned away", "rejected"} : Answer(r, a)
    /\ UNCHANGED entries

\* A 500: at most a "blocked" line, after at most one premature "passed".
Fail(r) ==
    /\ Answer(r, "failed")
    /\ \/ UNCHANGED entries
       \/ entries' = [entries EXCEPT ![r] = <<"blocked">>]
       \/ entries' = [entries EXCEPT ![r] = <<"blocked", "blocked">>]
       \/ /\ r \in sent
          /\ \/ entries' = [entries EXCEPT ![r] = <<"passed">>]
             \/ entries' = [entries EXCEPT ![r] = <<"passed", "blocked">>]

\* The process died: some requests will never be answered.
Lose ==
    /\ \E lost \in SUBSET {r \in Requests : answer[r] = "none"} :
           answer' = [r \in Requests |-> IF r \in lost THEN "lost" ELSE answer[r]]
    /\ UNCHANGED <<approved, sent, entries>>

Next ==
    \/ \E r \in Requests :
           Approve(r) \/ Send(r) \/ Release(r) \/ Refuse(r) \/ TurnAway(r) \/ Fail(r)
    \/ Lose

Spec == Init /\ [][Next]_proxyVars
=============================================================================
