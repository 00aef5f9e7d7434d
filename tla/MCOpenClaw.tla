----------------------------- MODULE MCOpenClaw -----------------------------
(* The parts of the OpenClaw gateway share no state, so that one run can    *)
(* check them side by side: it chooses a part and runs it, the others rest. *)
EXTENDS ThreadedAuditLog, ThreadedLimiter, ThreadedHitl, OpenClaw

CONSTANTS w1, w2, v1, none, c1, c2, i1, t1, t2, u1, u2, f, r1, r2

apply == [fp |-> f, action |-> 10, target |-> 10, a2a |-> FALSE, injection |-> FALSE]
chat == [fp |-> f, action |-> 0, target |-> 0, a2a |-> FALSE, injection |-> FALSE]
wipe == [fp |-> f, action |-> 5, target |-> 10, a2a |-> TRUE, injection |-> FALSE]
SomeBodies == {apply, chat, wipe}

VARIABLE part

mcVars == <<part, logVars, limiterVars, threadedVars, clawVars>>

TypesOK == LogTypeOK /\ LimiterTypeOK /\ ThreadedTypeOK /\ ClawTypeOK

MCInit ==
    /\ part \in {"log", "limiter", "hitl", "process"}
    /\ LogInit /\ LimiterInit /\ ThreadedInit /\ ClawInit

MCNext ==
    \/ /\ part = "log" /\ LogNext
       /\ UNCHANGED <<part, limiterVars, threadedVars, clawVars>>
    \/ /\ part = "limiter" /\ LimiterNext
       /\ UNCHANGED <<part, logVars, threadedVars, clawVars>>
    \/ /\ part = "hitl" /\ ThreadedNext
       /\ UNCHANGED <<part, logVars, limiterVars, clawVars>>
    \/ /\ part = "process" /\ ClawNext
       /\ UNCHANGED <<part, logVars, limiterVars, threadedVars>>

MCSpec == MCInit /\ [][MCNext]_mcVars
=============================================================================
