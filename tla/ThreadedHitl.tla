---------------------------- MODULE ThreadedHitl ----------------------------
(***************************************************************************)
(* The decision of the OpenClaw gateway: the code of HitlGate, with two    *)
(* differences.  Requests run in threads, and a submission is two critical *)
(* sections: it is scored under the tracker's lock, and enforced, with the *)
(* tier that gave, under the locks of the stores, when others have been    *)
(* scored and enforced in between.  And the history is saved by renaming a *)
(* complete file, which cannot be torn.                                    *)
(***************************************************************************)
EXTENDS HitlGate

CONSTANT Threads

VARIABLE handling   \* of each thread: the submission it scored, or Idle

threadedVars == <<hitlVars, handling>>

Idle == [busy |-> FALSE]
Handling == [busy : {TRUE}, user : Users, body : Bodies, tier : {AUTO, MEDIUM, HIGH, CRITICAL}]

ThreadedTypeOK ==
    /\ HitlTypeOK
    /\ handling \in [Threads -> Handling \union {Idle}]

-----------------------------------------------------------------------------

\* calculate_composite_risk and tier_for_score; an injection ends it here.
Scores(t, u, b) ==
    /\ up /\ ~handling[t].busy
    /\ Scored(u, b)
    /\ handling' = IF b.injection THEN handling
                   ELSE [handling EXCEPT ![t] =
                            [busy |-> TRUE, user |-> u, body |-> b, tier |-> Tier(u, b)]]
    /\ UNCHANGED <<now, up, stores, signed, faults, issued, approvals>>

\* _save raises before the rename: a 500, counted in memory.
ScoreRaises(t, u, b) ==
    /\ up /\ ~handling[t].busy
    /\ Fault
    /\ counts' = Bumped(u, b.fp)
    /\ UNCHANGED <<now, up, saved, stores, signed, issued, approvals, handling>>

Enforces(t, tiers) ==
    /\ up /\ handling[t].busy /\ handling[t].tier \in tiers
    /\ handling' = [handling EXCEPT ![t] = Idle]
    /\ UNCHANGED <<now, up, history, signed, faults>>

EnforceAuto(t) == Enforces(t, {AUTO}) /\ UNCHANGED <<stores, issued, approvals>>

EnforceIssuesToken(t) ==
    /\ Enforces(t, {MEDIUM, HIGH})
    /\ IssueToken(handling[t].user, handling[t].body)
    /\ UNCHANGED approvals

\* _consume_token that finds the token in one critical section and deletes it
\* in a second, when another thread has found it too.
EnforceTokenTwice(t, k) ==
    LET h == handling[t] IN
    /\ Enforces(t, {MEDIUM, HIGH})
    /\ IF TokenValid(k, h.user)
       THEN ApprovedBy(h.user, h.body, h.tier, k) /\ UNCHANGED stores
       ELSE TokenConsumed(k) /\ UNCHANGED approvals
    /\ UNCHANGED issued

\* _consume_token finds and deletes under one lock.
EnforceToken(t, k) ==
    LET h == handling[t] IN
    /\ Enforces(t, {MEDIUM, HIGH})
    /\ IF TokenValid(k, h.user)
       THEN ApprovedBy(h.user, h.body, h.tier, k)
       ELSE UNCHANGED approvals
    /\ TokenConsumed(k)
    /\ UNCHANGED issued

EnforceIssuesChallenge(t) ==
    LET h == handling[t] IN
    /\ Enforces(t, {CRITICAL})
    /\ Issued(h.user, h.body, "challenge")
    /\ challenges' = With(challenges, NewId,
           [body |-> h.body, user |-> h.user, at |-> now, used |-> FALSE])
    /\ UNCHANGED <<tokens, approvals>>

EnforceChallenge(t, c) ==
    LET h == handling[t] IN
    /\ Enforces(t, {CRITICAL})
    /\ ChallengeVerifies(c)
    /\ ChallengeUsed(c)
    /\ IF challenges[c].body = h.body
       THEN ApprovedBy(h.user, h.body, CRITICAL, c)
       ELSE UNCHANGED approvals
    /\ UNCHANGED <<tokens, issued>>

EnforceRefuses(t) ==
    /\ Enforces(t, {CRITICAL})
    /\ \/ UNCHANGED challenges
       \/ \E c \in DOMAIN challenges :
              ~challenges[c].used /\ Expired(c) /\ challenges' = Without(challenges, c)
    /\ UNCHANGED <<tokens, issued, approvals>>

Enforce(t) ==
    \/ EnforceAuto(t)
    \/ EnforceIssuesToken(t)
    \/ \E k \in Ids : EnforceToken(t, k)
    \/ EnforceIssuesChallenge(t)
    \/ \E c \in Ids : EnforceChallenge(t, c)
    \/ EnforceRefuses(t)

DecisionsLost ==
    /\ Crash
    /\ handling' = [t \in Threads |-> Idle]

ThreadedInit == HitlInit /\ handling = [t \in Threads |-> Idle]

ThreadedNext ==
    \/ \E t \in Threads :
           \/ \E u \in Users, b \in Bodies : Scores(t, u, b) \/ ScoreRaises(t, u, b)
           \/ Enforce(t)
    \/ DecisionsLost
    \/ (Start \/ Tick \/ \E c \in Ids : Sign(c)) /\ UNCHANGED handling

ThreadedSpec == ThreadedInit /\ [][ThreadedNext]_threadedVars

-----------------------------------------------------------------------------
(* Properties *)

\* A credential approves once, and only what it was fit for, also when two
\* threads present it at the same time.
ApprovedOnceAndBacked == OneApprovalEach /\ ApprovalsBacked

\* The tier a request is enforced with was computed before others were
\* scored; it is never laxer than what scoring it now would give.
StaleTierIsStricter ==
    \A t \in Threads :
        up /\ handling[t].busy => handling[t].tier >= Tier(handling[t].user, handling[t].body)
=============================================================================
