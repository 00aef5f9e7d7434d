---------------------------- MODULE MCAdmission ----------------------------
(* What decides on a request of the core gateway: the rate limiter and the   *)
(* HITL gate.  They share no state; a run chooses one and the other rests.   *)
(* Of the gate: two users who share a fingerprint, and four bodies: one that *)
(* falls from CRITICAL to HIGH to MEDIUM as it is resubmitted, one that A2A  *)
(* keeps CRITICAL, one that is always AUTO, and an injection.                *)
EXTENDS HitlGate, SlidingWindow, TLC

CONSTANTS u1, u2, f, i1, i2

deploy == [fp |-> f, action |-> 10, target |-> 5, a2a |-> FALSE, injection |-> FALSE]
wipe == [fp |-> f, action |-> 5, target |-> 10, a2a |-> TRUE, injection |-> FALSE]
chat == [fp |-> f, action |-> 0, target |-> 0, a2a |-> FALSE, injection |-> FALSE]
jailbreak == [fp |-> f, action |-> 0, target |-> 0, a2a |-> FALSE, injection |-> TRUE]

SomeBodies == {deploy, wipe, chat, jailbreak}

SwapUsers == Permutations({u1, u2})

VARIABLE part

mcVars == <<part, hitlVars, windowVars>>

MCInit == part \in {"gate", "limiter"} /\ HitlInit /\ WindowInit

MCNext ==
    \/ part = "gate" /\ HitlNext /\ UNCHANGED <<part, windowVars>>
    \/ part = "limiter" /\ WindowNext /\ UNCHANGED <<part, hitlVars>>

MCSpec == MCInit /\ [][MCNext]_mcVars
=============================================================================
