------------------------------ MODULE HitlGate ------------------------------
(***************************************************************************)
(* The decision the gateway takes about a request: RiskScorer with its     *)
(* HistoricalContextTracker, HITLCircuitBreaker and ChallengeStore of      *)
(* gateway/main.py.  A client submits, is refused with a token or with a   *)
(* challenge, and submits again with it; each submission is scored anew    *)
(* and itself changes the history the next one is scored with.             *)
(*                                                                         *)
(* Between the arrival of the body and the decision no coroutine is        *)
(* suspended: a submission is one action.                                  *)
(***************************************************************************)
EXTENDS Naturals, Sequences

CONSTANTS
    Users,          \* X-User-ID headers
    Bodies,         \* request bodies
    Fingerprints,   \* tool names and head of the system prompt
    PriorCounts,    \* counts a history file may start with
    TTL,            \* 300 s, of tokens and of challenges
    MaxTime, MaxIds, MaxFaults   \* bounds

Ratings == {0, 5, 10}

\* A body as the scorer sees it; fp is its fingerprint.
Body == [fp : Fingerprints, action : Ratings, target : Ratings,
         a2a : BOOLEAN, injection : BOOLEAN]

\* Counts from Frequent on score alike, so they saturate there.
Frequent == 5

ASSUME HitlAssumption ==
    /\ Bodies \subseteq Body
    /\ PriorCounts \subseteq 0 .. Frequent
    /\ TTL \in Nat /\ MaxTime \in Nat /\ MaxIds \in Nat /\ MaxFaults \in Nat

VARIABLES
    now,          \* time.monotonic()
    up,           \* the gateway process runs
    counts,       \* HistoricalContextTracker._counts
    saved,        \* data/action_history.json
    tokens,       \* HITLCircuitBreaker._tokens
    challenges,   \* ChallengeStore._store
    signed,       \* challenges the key holder computed the MAC of
    faults,
    issued,       \* history: what was issued, by id, to whom and when
    approvals     \* history: the approvals a credential bought, in order

history == <<counts, saved>>
stores == <<tokens, challenges>>
hitlVars == <<now, up, counts, saved, tokens, challenges, signed, faults, issued, approvals>>

Count == [Users -> [Fingerprints -> 0 .. Frequent]]
NoCounts == [u \in Users |-> [f \in Fingerprints |-> 0]]

AUTO == 0
MEDIUM == 1
HIGH == 2
CRITICAL == 3

Ids == 1 .. MaxIds
Credential == [user : Users, body : Bodies, kind : {"token", "challenge"}, at : Nat]
Approval == [user : Users, body : Bodies, tier : {MEDIUM, HIGH, CRITICAL}, by : Ids, at : Nat]


HitlTypeOK ==
    /\ now \in Nat
    /\ up \in BOOLEAN
    /\ counts \in Count
    /\ saved \in [readable : BOOLEAN, counts : Count]
    /\ DOMAIN tokens \subseteq Ids
    /\ \A t \in DOMAIN tokens : tokens[t] \in [user : Users, expiry : Nat]
    /\ DOMAIN challenges \subseteq Ids
    /\ \A c \in DOMAIN challenges :
           challenges[c] \in [body : Bodies, user : Users, at : Nat, used : BOOLEAN]
    /\ signed \subseteq Ids
    /\ faults \in Nat
    /\ issued \in Seq(Credential) /\ Len(issued) <= MaxIds
    /\ approvals \in Seq(Approval)

-----------------------------------------------------------------------------
(* Scoring; scores are in hundredths. *)

\* A threshold on the wrong side.
HistoryScoreInverted(n) == IF n = 0 THEN 10 ELSE IF n < Frequent THEN 0 ELSE 5

HistoryScore(n) == IF n = 0 THEN 10 ELSE IF n < Frequent THEN 5 ELSE 0

Capped(s) == IF s > 1000 THEN 1000 ELSE s

Score(b, n) ==
    LET base == 40 * b.action + 35 * b.target + 25 * HistoryScore(n)
        injected == IF b.injection THEN Capped(base + 500) ELSE base
    IN  IF b.a2a THEN Capped(injected + 300) ELSE injected

TierForScore(s) ==
    IF s <= 300 THEN AUTO ELSE IF s <= 600 THEN MEDIUM ELSE IF s <= 800 THEN HIGH ELSE CRITICAL

\* The tier the next submission of b by u is handled in.
Tier(u, b) == TierForScore(Score(b, counts[u][b.fp]))

Bumped(u, f) ==
    [counts EXCEPT ![u][f] = IF @ < Frequent THEN @ + 1 ELSE @]

\* score() counts every submission, whatever becomes of it, and saves.
Scored(u, b) ==
    /\ counts' = Bumped(u, b.fp)
    /\ saved' = [readable |-> TRUE, counts |-> counts']

-----------------------------------------------------------------------------
(* The stores *)

Without(store, id) == [i \in DOMAIN store \ {id} |-> store[i]]
With(store, id, v) == [i \in DOMAIN store \union {id} |-> IF i = id THEN v ELSE store[i]]

\* secrets.token_urlsafe: never one that was issued before.
NewId == Len(issued) + 1

Issued(u, b, kind) ==
    /\ NewId \in Ids
    /\ issued' = Append(issued, [user |-> u, body |-> b, kind |-> kind, at |-> now])

IssueToken(u, b) ==
    /\ Issued(u, b, "token")
    /\ tokens' = With(tokens, NewId, [user |-> u, expiry |-> now + TTL])
    /\ UNCHANGED challenges

\* The token a request carries is one that was issued, by anybody's hand, or
\* one that never was; validate_medium_token takes it out of the store
\* whether it is accepted or not.
TokenValid(t, u) ==
    t \in DOMAIN tokens /\ tokens[t].user = u /\ now <= tokens[t].expiry

\* validate_medium_token that keeps an accepted token until it expires.
TokenKept(t) == UNCHANGED stores

TokenConsumed(t) == tokens' = Without(tokens, t) /\ UNCHANGED challenges

ApprovedBy(u, b, tier, id) ==
    approvals' = Append(approvals,
        [user |-> u, body |-> b, tier |-> tier, by |-> id, at |-> now])

-----------------------------------------------------------------------------
(* A submission: injection check, then enforce() by tier *)

Submits(u, b, tier) ==
    /\ up
    /\ ~b.injection
    /\ Tier(u, b) = tier
    /\ Scored(u, b)
    /\ UNCHANGED <<now, up, signed, faults>>

InjectionBlocked(u, b) ==
    /\ up /\ b.injection
    /\ Scored(u, b)
    /\ UNCHANGED <<now, up, stores, signed, faults, issued, approvals>>

AutoApproved(u, b) ==
    /\ Submits(u, b, AUTO)
    /\ UNCHANGED <<stores, issued, approvals>>

\* No X-HITL-Token (or, in HIGH, no reason, whatever the token): a token is
\* issued with the refusal, and one presented without a reason stays live.
TokenRequired(u, b) ==
    /\ \E tier \in {MEDIUM, HIGH} : Submits(u, b, tier)
    /\ IssueToken(u, b)
    /\ UNCHANGED approvals

TokenAccepted(u, b, t) ==
    /\ \E tier \in {MEDIUM, HIGH} :
           Submits(u, b, tier) /\ ApprovedBy(u, b, tier, t)
    /\ TokenValid(t, u)
    /\ TokenConsumed(t)
    /\ UNCHANGED issued

TokenRefused(u, b, t) ==
    /\ \E tier \in {MEDIUM, HIGH} : Submits(u, b, tier)
    /\ ~TokenValid(t, u)
    /\ TokenConsumed(t)
    /\ UNCHANGED <<issued, approvals>>

\* No X-HITL-Challenge: one is issued.
ChallengeIssued(u, b) ==
    /\ Submits(u, b, CRITICAL)
    /\ Issued(u, b, "challenge")
    /\ challenges' = With(challenges, NewId,
           [body |-> b, user |-> u, at |-> now, used |-> FALSE])
    /\ UNCHANGED <<tokens, approvals>>

Expired(c) == now - challenges[c].at > TTL

\* verify() says yes: the challenge is used up.
ChallengeVerifies(c) ==
    c \in DOMAIN challenges /\ ~challenges[c].used /\ ~Expired(c) /\ c \in signed

\* verify() that replaces the stored record.
ChallengeOverwritten(c) == challenges' = [challenges EXCEPT ![c] = [used |-> TRUE]]

ChallengeUsed(c) == challenges' = [challenges EXCEPT ![c].used = TRUE]

\* enforce() without the comparison of the two request hashes.
ChallengeAcceptedForAny(u, b, c) ==
    /\ Submits(u, b, CRITICAL)
    /\ ChallengeVerifies(c)
    /\ ChallengeUsed(c)
    /\ ApprovedBy(u, b, CRITICAL, c)
    /\ UNCHANGED <<tokens, issued>>

\* The user a challenge was issued to is stored and never compared.
ChallengeAccepted(u, b, c) ==
    /\ Submits(u, b, CRITICAL)
    /\ ChallengeVerifies(c)
    /\ challenges[c].body = b
    /\ ChallengeUsed(c)
    /\ ApprovedBy(u, b, CRITICAL, c)
    /\ UNCHANGED <<tokens, issued>>

\* The hash is compared after verify() marked the challenge as used.
ChallengeForOtherBody(u, b, c) ==
    /\ Submits(u, b, CRITICAL)
    /\ ChallengeVerifies(c)
    /\ challenges[c].body # b
    /\ ChallengeUsed(c)
    /\ UNCHANGED <<tokens, issued, approvals>>

\* Malformed, unknown, used, expired, or a wrong MAC.  An expired challenge
\* is dropped; one with a wrong MAC may be answered again.
ChallengeRefused(u, b) ==
    /\ Submits(u, b, CRITICAL)
    /\ \/ UNCHANGED challenges
       \/ \E c \in DOMAIN challenges :
              ~challenges[c].used /\ Expired(c) /\ challenges' = Without(challenges, c)
    /\ UNCHANGED <<tokens, issued, approvals>>

Submit(u, b) ==
    \/ InjectionBlocked(u, b)
    \/ AutoApproved(u, b)
    \/ TokenRequired(u, b)
    \/ \E t \in Ids : TokenAccepted(u, b, t) \/ TokenRefused(u, b, t)
    \/ ChallengeIssued(u, b)
    \/ \E c \in Ids : ChallengeAccepted(u, b, c) \/ ChallengeForOtherBody(u, b, c)
    \/ ChallengeRefused(u, b)

-----------------------------------------------------------------------------
(* Around it *)

Fault == faults < MaxFaults /\ faults' = faults + 1

\* write_text truncates, then writes.
Unreadable == [readable |-> FALSE, counts |-> NoCounts]

\* _save raises: the submission ends in a 500, counted in memory.
SaveRaises(u, b) ==
    /\ up
    /\ Fault
    /\ counts' = Bumped(u, b.fp)
    /\ saved' \in {saved, Unreadable}
    /\ UNCHANGED <<now, up, stores, signed, issued, approvals>>

\* Tokens and challenges live in memory.
Stops ==
    /\ up
    /\ up' = FALSE
    /\ counts' = NoCounts
    /\ tokens' = <<>> /\ challenges' = <<>>
    /\ UNCHANGED <<now, signed, issued, approvals>>

\* The process ends between two submissions.
Crash == Stops /\ UNCHANGED <<saved, faults>>

\* ... or inside _save, which tears the file.
CrashInSave == Stops /\ Fault /\ saved' = Unreadable

\* A restart that forgets to load.
StartEmpty ==
    /\ ~up
    /\ up' = TRUE
    /\ counts' = NoCounts
    /\ UNCHANGED <<now, saved, stores, signed, faults, issued, approvals>>

\* _load keeps quiet about a file it cannot parse.
Start ==
    /\ ~up
    /\ up' = TRUE
    /\ counts' = IF saved.readable THEN saved.counts ELSE NoCounts
    /\ UNCHANGED <<now, saved, stores, signed, faults, issued, approvals>>

\* Whoever holds the chain key computes the response of a challenge.
Sign(c) ==
    /\ c \in 1 .. Len(issued) /\ issued[c].kind = "challenge"
    /\ c \notin signed
    /\ signed' = signed \union {c}
    /\ UNCHANGED <<now, up, history, stores, faults, issued, approvals>>

Tick ==
    /\ now < MaxTime
    /\ now' = now + 1
    /\ UNCHANGED <<up, history, stores, signed, faults, issued, approvals>>

HitlInit ==
    /\ now = 0
    /\ up = TRUE
    /\ \E n \in PriorCounts : counts = [u \in Users |-> [f \in Fingerprints |-> n]]
    /\ saved = [readable |-> TRUE, counts |-> counts]
    /\ tokens = <<>> /\ challenges = <<>>
    /\ signed = {}
    /\ faults = 0
    /\ issued = <<>> /\ approvals = <<>>

HitlNext ==
    \/ \E u \in Users, b \in Bodies : Submit(u, b) \/ SaveRaises(u, b)
    \/ \E c \in Ids : Sign(c)
    \/ Crash
    \/ CrashInSave
    \/ Start
    \/ Tick

HitlSpec == HitlInit /\ [][HitlNext]_hitlVars

-----------------------------------------------------------------------------
(* Properties *)

\* A token or a challenge approves one submission at most, across
\* resubmissions, tiers, users and restarts.
OneApprovalEach ==
    \A i, j \in 1 .. Len(approvals) : approvals[i].by = approvals[j].by => i = j

\* What approved a request was fit to: a token issued to the same user for
\* MEDIUM and HIGH; for CRITICAL a challenge issued for this very body and
\* answered by the key holder; neither older than its lifetime.
ApprovalsBacked ==
    \A i \in 1 .. Len(approvals) :
        LET a == approvals[i]
            c == issued[a.by]
        IN  /\ a.by \in 1 .. Len(issued)
            /\ a.at - c.at <= TTL
            /\ IF a.tier = CRITICAL
               THEN c.kind = "challenge" /\ c.body = a.body /\ a.by \in signed
               ELSE c.kind = "token" /\ c.user = a.user

\* Asking again never makes it harder: as long as the process lives, no
\* submission (by whoever shares the fingerprint, approved or refused) raises
\* the tier of a request.
RetryNeverEscalates ==
    [][\A u \in Users, b \in Bodies :
           up /\ up' => Tier(u, b)' <= Tier(u, b)]_hitlVars

\* "Persisted to JSON so context survives restarts": as long as no save
\* failed or was cut short, every process scores with the counts the one
\* before it had.
HistorySurvives ==
    up /\ faults = 0 => saved.readable /\ saved.counts = counts
=============================================================================
