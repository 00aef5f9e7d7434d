---------------------------- MODULE NexusGuardian ----------------------------
(***************************************************************************)
(* The NEXUS SDK and its gateway container: the Guardian (policy, remote   *)
(* client, failover), the memory vaccine, and the receipts.  A call to the *)
(* Guardian blocks the event loop, so each request is one step.  A drift   *)
(* score is a number of hundred-thousandths, since the Guardian is told    *)
(* only four decimals of it; 0 is the drift of session memory.             *)
(***************************************************************************)
EXTENDS Integers, Sequences

CONSTANTS
    DriftThreshold,   \* drift_threshold of the vaccine: 30000
    Drifts,           \* the scores the contents have
    MaxSteps          \* bound: steps evaluated

GuardianThreshold == 25000

ASSUME NexusAssumption ==
    /\ DriftThreshold \in Nat /\ Drifts \subseteq Nat /\ MaxSteps \in Nat

VARIABLES
    remote, failMode,   \* the client has a guardian_url; its fail_mode
    available,    \* _available
    verdict,      \* history: what evaluate() last returned, and the Guardian said
    answers,      \* history: the decisions the gateway answered
    receipts,     \* the exporter's receipts
    incidents,    \* _checkpoint_log: the number of writes the vaccine blocked
    write,        \* history: the last memory write, and if it was done
    steps         \* bound

nexusVars == <<remote, failMode, available, verdict, answers, receipts, incidents, write, steps>>

None == "none"
NoDrift == -1   \* drift_score is None
Zones == {"session", "cross_session", "permanent", "swarm_shared"}

\* Rules 1 to 3: the agent's DID is revoked, its capabilities exceed those of
\* its parent, or it is delegated too deep.
Standing == {"good", "revoked", "scope_overflow", "too_deep"}

ToolSteps ==
    [method : {"tool"}, agent : Standing,
     arguments : {"empty", "clean", "blocked"}, tool : {"plain", "credential", "mandate_required"},
     highTier : BOOLEAN, reasoning : BOOLEAN]

\* What POST /v1/tool-call fills in of a step.
GatewaySteps == {s \in ToolSteps : s.agent = "good"}

\* A step of build_memory_store_step(), with provenance or none.
MemorySteps ==
    [method : {"memory"}, agent : Standing \ {"scope_overflow"},
     zone : Zones \union {None}, drift : Drifts \union {NoDrift}, mandate : BOOLEAN,
     staleCheckpoint : BOOLEAN]

Decisions == {"allow", "deny", "modify"}

\* The Guardian's rules, in order; the first that applies answers.
ToolRules(s) ==
    \/ s.arguments # "empty" /\ (s.arguments = "blocked" \/ s.tool = "credential")
    \/ s.highTier /\ ~s.reasoning

\* Stale checkpoint, permanent memory without a mandate, drift; nothing when
\* the step has no provenance.
MemoryRules(s) ==
    /\ s.zone # None
    /\ \/ s.staleCheckpoint
       \/ s.zone = "permanent" /\ ~s.mandate
       \/ s.drift > GuardianThreshold

PolicyVerdict(s) ==
    IF s.agent # "good" THEN "deny"
    ELSE IF s.method = "memory" THEN IF MemoryRules(s) THEN "deny" ELSE "allow"
    ELSE IF ToolRules(s) THEN "deny" ELSE "allow"

\* A remote Guardian's reply: a decision, one nobody knows, none, or no reply; and
\* where httpx cannot be imported it is not asked.
Replies == {"allow", "deny", "modify", "unknown", "no_decision", "no_reply", "not_asked"}

\* _handle_guardian_unavailable()
Unavailable(s) ==
    CASE failMode = "fail_open" -> "allow"
      [] failMode = "fail_mandate_only" ->
             IF s.method = "tool" /\ s.tool = "mandate_required" THEN "deny" ELSE "allow"
      [] OTHER -> "deny"

\* NEXUSGuardianClient.evaluate()
ClientVerdict(s, reply) ==
    CASE ~remote \/ reply = "not_asked" -> PolicyVerdict(s)
      [] remote /\ reply = "no_reply" -> Unavailable(s)
      [] remote /\ reply \in {"allow", "deny", "modify"} -> reply
      [] OTHER -> "deny"

\* Only a failed call is noticed; one that succeeds does not clear the flag.
Notices(reply) == available' = (available /\ ~(remote /\ reply = "no_reply"))

\* nor_to_otel_attributes(): every denial is a policy violation.
EventClass(outcome) == IF outcome = "deny" THEN "policy_violation" ELSE "api_activity"

\* evaluate() of a step, and what stood behind its answer.
Evaluates(s, reply) ==
    /\ steps < MaxSteps /\ steps' = steps + 1
    /\ verdict' = [decision |-> ClientVerdict(s, reply),
                   says |-> IF remote /\ reply # "not_asked" THEN reply ELSE PolicyVerdict(s)]
    /\ Notices(reply)

\* POST /v1/tool-call: evaluate, receipt, answer.
ToolCall(s, reply) ==
    LET outcome == ClientVerdict(s, reply)
    IN  /\ Evaluates(s, reply)
        /\ receipts' = Append(receipts, [outcome |-> outcome, class |-> EventClass(outcome)])
        /\ answers' = Append(answers, outcome)
        /\ UNCHANGED <<remote, failMode, incidents, write>>

\* Any other step of the SDK: no receipt.
SdkStep(s, reply) ==
    /\ Evaluates(s, reply)
    /\ UNCHANGED <<remote, failMode, answers, receipts, incidents, write>>

\* validate_write(): a zone, a mandate or none, the drift of the content.
Vaccine(zone, mandate, drift) ==
    IF zone = "permanent" /\ ~mandate THEN [result |-> "blocked_no_mandate", drift |-> NoDrift]
    ELSE IF zone = "session" THEN [result |-> "allowed", drift |-> 0]
    ELSE IF drift > DriftThreshold THEN [result |-> "blocked_drift", drift |-> drift]
    ELSE [result |-> "allowed", drift |-> drift]

\* round(drift_score, 4); no float is halfway.
Rounded(drift) == 10 * ((drift + 5) \div 10)

\* to_acs_guardian_context(): the mandate is part of the provenance, which only
\* an allowed write has; no checkpoint is ever logged, so none is old.
GuardianContext(zone, mandate, decision) ==
    [method |-> "memory", agent |-> "good", zone |-> zone,
     drift |-> IF decision.drift = NoDrift THEN NoDrift ELSE Rounded(decision.drift),
     mandate |-> mandate /\ decision.result = "allowed", staleCheckpoint |-> FALSE]

\* validate_write_with_guardian() and the Guardian's verdict on its context;
\* what both allow is written.
MemoryWrite(zone, mandate, drift, reply) ==
    LET decision == Vaccine(zone, mandate, drift)
        s == GuardianContext(zone, mandate, decision)
        passes == decision.result = "allowed" /\ ClientVerdict(s, reply) = "allow"
    IN  /\ Evaluates(s, reply)
        /\ incidents' = IF decision.result = "blocked_drift" THEN incidents + 1 ELSE incidents
        /\ write' = [zone |-> zone, mandate |-> mandate, drift |-> drift,
                     vaccine |-> decision.result, guardian |-> ClientVerdict(s, reply), done |-> passes]
        /\ UNCHANGED <<remote, failMode, answers, receipts>>

\* ping(): the liveness probe sets the flag either way.
Ping ==
    /\ IF remote THEN available' \in BOOLEAN ELSE available' = TRUE
    /\ UNCHANGED <<remote, failMode, verdict, answers, receipts, incidents, write, steps>>

NexusInit ==
    /\ remote \in BOOLEAN /\ failMode \in {"fail_closed", "fail_open", "fail_mandate_only"}
    /\ available = TRUE
    /\ verdict = [decision |-> None] /\ answers = <<>> /\ receipts = <<>>
    /\ incidents = 0 /\ write = [vaccine |-> None, done |-> FALSE] /\ steps = 0

NexusNext ==
    \/ \E s \in GatewaySteps, reply \in Replies : ToolCall(s, reply)
    \/ \E s \in ToolSteps \union MemorySteps, reply \in Replies : SdkStep(s, reply)
    \/ \E zone \in Zones, mandate \in BOOLEAN, drift \in Drifts, reply \in Replies :
           MemoryWrite(zone, mandate, drift, reply)
    \/ Ping

NexusSpec == NexusInit /\ [][NexusNext]_nexusVars

-----------------------------------------------------------------------------
(* Properties *)

\* Type correctness: the client answers with one of the three decisions.
NexusTypeOK ==
    /\ remote \in BOOLEAN /\ available \in BOOLEAN
    /\ failMode \in {"fail_closed", "fail_open", "fail_mandate_only"}
    /\ verdict.decision \in Decisions \union {None}
    /\ answers \in Seq(Decisions)
    /\ receipts \in Seq([outcome : Decisions, class : {"policy_violation", "api_activity"}])
    /\ incidents \in 0 .. steps /\ steps \in 0 .. MaxSteps

\* Nothing is allowed that no Guardian allowed: a reply that is unknown, empty
\* or missing is consent only where the fail mode says so.
AllowsWarranted ==
    verdict.decision = "allow" =>
        verdict.says = "allow" \/ (verdict.says = "no_reply" /\ failMode # "fail_closed")

\* The audit summary counts what was answered: a receipt for each answer, and
\* a policy violation for each denial.
ReceiptsTell ==
    /\ Len(receipts) = Len(answers)
    /\ \A n \in 1 .. Len(answers) :
           receipts[n].class = "policy_violation" <=> answers[n] = "deny"

\* The two guards of memory agree: what the vaccine blocks, the policy denies, unless
\* the least drift the vaccine blocks is, once rounded, none the policy denies.
GuardianBacksVaccine ==
    /\ ~remote
    /\ \/ write.vaccine = "blocked_no_mandate"
       \/ write.vaccine = "blocked_drift" /\ GuardianThreshold < Rounded(DriftThreshold + 1)
    => write.guardian = "deny"

\* Lasting memory holds nothing that drifted past the vaccine, nor, where the
\* policy is asked, past the Guardian by more than rounding hides, and permanent
\* memory has its mandates, even when the Guardian fails open.
MemoryVetted ==
    write.done =>
        /\ write.zone # "session" => write.drift <= DriftThreshold
        /\ write.zone # "session" /\ ~remote => Rounded(write.drift) <= GuardianThreshold
        /\ write.zone = "permanent" => write.mandate

\* What the SDK decides, stores and records agrees with what its guards said.
DecisionsStand == AllowsWarranted /\ ReceiptsTell /\ GuardianBacksVaccine /\ MemoryVetted
=============================================================================
