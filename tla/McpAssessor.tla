----------------------------- MODULE McpAssessor -----------------------------
(***************************************************************************)
(* mcp-score: the remote assessment of an MCP server.  One request follows *)
(* another, and what one asks of the server bears on the next: the probe   *)
(* for a rate limiter spends the budget out of which the list of tools is  *)
(* answered.  The server, its limiter and its other clients are as the     *)
(* assessor may meet them.                                                 *)
(***************************************************************************)
EXTENDS Integers, FiniteSets, FiniteSetsExt

CONSTANTS
    Servers,            \* the servers assessed, see AssessorInit
    Burst,              \* what a limiter lets through at once
    ProbeLength,        \* requests per pass of the rate probe: 5 in the code
    MaxFailures         \* bound: requests that raise

ASSUME AssessorAssumption ==
    /\ Burst \in Nat
    /\ \A s \in Servers :
           /\ s.https \in BOOLEAN /\ s.auth \in {"open", "basic", "bearer", "oauth"}
           /\ s.limited \in BOOLEAN /\ s.hardening \in 0..5 /\ s.attests \in 0..25
           /\ s.tools.critical \in Nat /\ s.tools.high \in Nat /\ s.tools.urls \in Nat

CheckIds == {"TLS", "AUTH", "HEADERS", "RATE", "INJECTION", "FSP", "SSRF", "SESSION"}

VARIABLES
    assessed,   \* the server
    hasToken,   \* --token was given, and the server takes it
    budget,     \* what the server's limiter still lets through
    step,       \* the request that is next
    probing,    \* the pass of the rate probe and its requests so far
    points,     \* the checks made, and what they scored
    scanned,    \* tools/list was answered
    exposed,    \* AUTH is reported as critical
    bonus,
    failures

assessorVars ==
    <<assessed, hasToken, budget, step, probing, points, scanned, exposed, bonus, failures>>

\* A server is [https, auth : {"open", "basic", "bearer", "oauth"}, authFirst, limited,
\* retryAfter, hardening : 0..5, tools, attests : 0..25], where tools is
\* [critical, high, fsp, urls, session]: findings, tools with URL parameters, markers.
AssessorInit ==
    /\ assessed \in Servers /\ hasToken \in BOOLEAN
    /\ budget \in IF assessed.limited THEN {0, Burst} ELSE {Burst}
    /\ step = "TLS" /\ probing = <<"token", 0>>
    /\ points = [c \in {} |-> 0]
    /\ scanned = FALSE /\ exposed = FALSE /\ bonus = 0 /\ failures = 0

-----------------------------------------------------------------------------
\* Authentication stands before the limiter or behind it.
TurnedAway(authorised) == assessed.auth # "open" /\ ~authorised

Status(authorised) ==
    CASE assessed.authFirst /\ TurnedAway(authorised) -> 401
      [] assessed.limited /\ budget = 0 -> 429
      [] TurnedAway(authorised) -> 401
      [] OTHER -> 200

Costs(authorised) ==
    assessed.limited /\ budget > 0 /\ ~(assessed.authFirst /\ TurnedAway(authorised))

Posts(authorised) == budget' = IF Costs(authorised) THEN budget - 1 ELSE budget

RequestRaises == failures < MaxFailures /\ failures' = failures + 1 /\ UNCHANGED budget

Reports(found) ==
    points' = [c \in DOMAIN points \cup DOMAIN found |->
                  IF c \in DOMAIN found THEN found[c] ELSE points[c]]

\* The limiter refills, another client is served.
BudgetMoves ==
    /\ assessed.limited /\ step # "done"
    /\ budget' \in {budget - 1, budget + 1} \cap 0..Burst
    /\ UNCHANGED <<assessed, hasToken, step, probing, points, scanned, exposed, bonus, failures>>

-----------------------------------------------------------------------------
\* _check_tls: only a refused connection counts against https; what else goes wrong
\* with both probes does not.
ChecksTls ==
    /\ step = "TLS" /\ step' = "AUTH"
    /\ \/ ~assessed.https /\ Reports([TLS |-> 0]) /\ UNCHANGED <<budget, failures>>
       \/ assessed.https /\ Reports([TLS |-> 12]) /\ UNCHANGED <<budget, failures>>
       \/ assessed.https /\ RequestRaises /\ \E x \in {0, 12} : Reports([TLS |-> x])
    /\ UNCHANGED <<assessed, hasToken, probing, scanned, exposed, bonus>>

\* Without an answer there are no headers, and so no Server header.
HeaderScore(answered) == IF answered THEN 2 * assessed.hardening ELSE 2

ChecksAuth ==
    /\ step = "AUTH"
    /\ \/ /\ Status(FALSE) = 401 /\ Posts(FALSE)
          /\ step' = "OAUTH" /\ exposed' = FALSE
          /\ Reports([AUTH |-> IF assessed.auth = "basic" THEN 5 ELSE 15,
                      HEADERS |-> HeaderScore(TRUE)])
          /\ UNCHANGED failures
       \/ /\ Status(FALSE) # 401 /\ Posts(FALSE)
          /\ step' = "RATE" /\ exposed' = (Status(FALSE) = 200)
          /\ Reports([AUTH |-> 0, HEADERS |-> HeaderScore(TRUE)])
          /\ UNCHANGED failures
       \/ /\ RequestRaises
          /\ step' = "RATE" /\ exposed' = FALSE
          /\ Reports([AUTH |-> 0, HEADERS |-> HeaderScore(FALSE)])
    /\ UNCHANGED <<assessed, hasToken, probing, scanned, bonus>>

\* The discovery document, of a server that answered 401.
FindsMetadata ==
    /\ step = "OAUTH" /\ step' = "RATE"
    /\ \/ /\ IF assessed.auth = "oauth" THEN Reports([AUTH |-> 25]) ELSE UNCHANGED points
          /\ UNCHANGED <<budget, failures>>
       \/ RequestRaises /\ UNCHANGED points
    /\ UNCHANGED <<assessed, hasToken, probing, scanned, exposed, bonus>>

\* _check_rate_limiting: requests with the token until one is refused, then without.
NextPass == IF probing[1] = "token" THEN <<"none", 0>> ELSE <<"over", 0>>
Authorised == probing[1] = "token" /\ hasToken

ProbesRate ==
    /\ step = "RATE" /\ probing[1] # "over"
    /\ \/ /\ Status(Authorised) = 429 /\ Posts(Authorised)
          /\ Reports([RATE |-> IF assessed.retryAfter THEN 10 ELSE 5]) /\ step' = "TOOLS"
          /\ UNCHANGED <<probing, failures>>
       \/ /\ Status(Authorised) # 429 /\ Posts(Authorised)
          /\ probing' = IF probing[2] + 1 = ProbeLength THEN NextPass
                                                        ELSE <<probing[1], probing[2] + 1>>
          /\ UNCHANGED <<points, step, failures>>
       \/ RequestRaises /\ probing' = NextPass /\ UNCHANGED <<points, step>>
    /\ UNCHANGED <<assessed, hasToken, scanned, exposed, bonus>>

FindsNoLimit ==
    /\ step = "RATE" /\ probing[1] = "over"
    /\ Reports([RATE |-> 0]) /\ step' = "TOOLS"
    /\ UNCHANGED <<assessed, hasToken, budget, probing, scanned, exposed, bonus, failures>>

-----------------------------------------------------------------------------
\* _analyze_tools, a check per operator.
InjectionScore(tools) ==
    LET deducted == 20 * tools.critical + 5 * tools.high
    IN IF deducted > 20 THEN 0 ELSE 20 - deducted
FspScore(tools) == IF tools.fsp THEN 0 ELSE 10
SsrfScore(tools) == CASE tools.urls = 0 -> 5 [] tools.urls \in 1..2 -> 2 [] OTHER -> 0
SessionScore(tools) == IF tools.session THEN 0 ELSE 5

ToolScores(tools) ==
    [INJECTION |-> InjectionScore(tools), FSP |-> FspScore(tools),
     SSRF |-> SsrfScore(tools), SESSION |-> SessionScore(tools)]

FetchesTools ==
    /\ step = "TOOLS" /\ step' = "ATTESTATION"
    /\ \/ /\ Status(hasToken) = 200 /\ Posts(hasToken) /\ UNCHANGED failures
          /\ scanned' = TRUE /\ Reports(ToolScores(assessed.tools))
       \/ /\ \/ Status(hasToken) # 200 /\ Posts(hasToken) /\ UNCHANGED failures
             \/ RequestRaises
          /\ scanned' = FALSE
          /\ Reports([INJECTION |-> 0, FSP |-> 0, SSRF |-> 0, SESSION |-> 0])
    /\ UNCHANGED <<assessed, hasToken, probing, exposed, bonus>>

\* _fetch_attestation, a file of the web server's, and _compute_attestation_bonus.
FetchesAttestation ==
    /\ step = "ATTESTATION" /\ step' = "done"
    /\ \/ bonus' = assessed.attests /\ UNCHANGED <<budget, failures>>
       \/ RequestRaises /\ bonus' = 0
    /\ UNCHANGED <<assessed, hasToken, probing, points, scanned, exposed>>

AssessorNext ==
    \/ BudgetMoves \/ ChecksTls \/ ChecksAuth \/ FindsMetadata \/ ProbesRate
    \/ FindsNoLimit \/ FetchesTools \/ FetchesAttestation

AssessorSpec == AssessorInit /\ [][AssessorNext]_assessorVars

-----------------------------------------------------------------------------
Capped(score) == IF score > 100 THEN 100 ELSE score
BaseScore == Capped(MapThenSumSet(LAMBDA c : points[c], DOMAIN points))
TotalScore == Capped(BaseScore + bonus)
BadgeEligible == TotalScore >= 70

AssessorTypeOK ==
    /\ DOMAIN points \subseteq CheckIds /\ budget \in 0..Burst
    /\ step = "done" => DOMAIN points = CheckIds

\* However the limiter and other clients shift the answers, what the report holds
\* against the server or to its credit is so: it is called open only if it is, is
\* credited with authentication only if it asks for it, and with a limiter only if it
\* has one.  (_check_auth, _check_rate_limiting)
VerdictsTrue ==
    /\ exposed => assessed.auth = "open"
    /\ "AUTH" \in DOMAIN points /\ points["AUTH"] > 0 => assessed.auth # "open"
    /\ "RATE" \in DOMAIN points /\ points["RATE"] > 0 => assessed.limited
    /\ scanned => assessed.auth = "open" \/ hasToken

\* A list of tools that could be had is missed for a reason: a request failed, or the
\* server's limiter, which the probe before it may have spent.  (lines 213-245)
MissedForCause ==
    step = "done" /\ ~scanned
      => failures > 0 \/ assessed.limited \/ (assessed.auth # "open" /\ ~hasToken)

\* The badge cannot be had unseen: a server whose tools were not scanned has it only
\* with authentication, and only by what it attests of itself; over plain HTTP it must
\* attest everything.  (lines 247-261, the rubric of scorer.py)
BadgeHasGrounds ==
    step = "done" /\ BadgeEligible /\ ~scanned
      => points["AUTH"] > 0 /\ bonus >= 13 /\ (points["TLS"] = 0 => bonus = 25)

AssessmentSound == AssessorTypeOK /\ VerdictsTrue /\ MissedForCause /\ BadgeHasGrounds
=============================================================================
