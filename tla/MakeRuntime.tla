----------------------------- MODULE MakeRuntime -----------------------------
(***************************************************************************)
(* MakeSovereignRuntime (sovereign_make.py): scans of what enters and      *)
(* leaves a Make scenario.  A webhook payload puts the run in an external  *)
(* context, in which destructive requests are refused until it is cleared. *)
(***************************************************************************)
EXTENDS LightEngine

CONSTANTS MaxScenarioOps, MaxAgentTurns

ASSUME MakeAssumption == MaxScenarioOps \in Nat /\ MaxAgentTurns \in Nat

ScenarioOps == <<"ops", "make">>
AgentTurns == <<"turns", "make">>
External == <<"external", "make">>

ASSUME MakeCounters == {ScenarioOps, AgentTurns, External} \subseteq Counters

ScanWebhookPayload(hits, inject, restricted) ==
    ScanText(hits) \o When(inject, Record) \o When(restricted, Record)
        \o Adjust(ScenarioOps, 1, FALSE) \o Compare(ScenarioOps, MaxScenarioOps, Record, <<>>)
        \o Assign(External, 1)
        \o Verdict \o Admit(ScenarioOps) \o Admit(External)

ScanModuleOutput(hits, danger) ==
    ScanText(hits) \o When(danger, Record)
        \o Adjust(AgentTurns, 1, FALSE) \o Compare(AgentTurns, MaxAgentTurns, Record, <<>>)
        \o Verdict \o Admit(AgentTurns)

ScanHttpModule(outside, private, destructive, hits) ==
    When(outside, Record) \o When(private, Record)
        \o When(destructive, Compare(External, 0, Record, <<>>))
        \o ScanText(hits) \o Verdict

MakeInstructions(hits, pattern) == ScanText(hits) \o When(pattern, Record) \o Verdict

ScanKnowledgeFile(hits, pattern, hidden) ==
    ScanText(hits) \o When(pattern, Record) \o When(hidden, Record) \o Verdict

\* Account scopes; risky scopes or scenarios, against the allowlist.
ScanMcpScope(critical, unlisted) == When(critical, Record) \o When(unlisted, Record) \o Verdict

ScanDataStoreWrite(sensitive, hits, pattern) ==
    When(sensitive, Record) \o ScanText(hits) \o When(pattern, Record) \o Verdict

ClearExternalContext == Assign(External, 0)

MakeCall(t) ==
    \/ \E inject, restricted \in BOOLEAN :
           Begin(t, "webhook", TRUE, ScanWebhookPayload(0, inject, restricted))
    \/ \E danger \in BOOLEAN : Begin(t, "module", TRUE, ScanModuleOutput(0, danger))
    \/ \E outside, private, destructive \in BOOLEAN :
           Begin(t, IF destructive THEN "destroy" ELSE "http", TRUE,
                 ScanHttpModule(outside, private, destructive, 0))
    \/ \E hits \in TextHits, pattern \in BOOLEAN :
           Begin(t, "instructions", TRUE, MakeInstructions(hits, pattern))
    \/ \E pattern, hidden \in BOOLEAN :
           \/ Begin(t, "knowledge", TRUE, ScanKnowledgeFile(0, pattern, hidden))
           \/ Begin(t, "store", TRUE, ScanDataStoreWrite(hidden, 0, pattern))
    \/ \E critical, unlisted \in BOOLEAN : Begin(t, "scope", TRUE, ScanMcpScope(critical, unlisted))
    \/ Begin(t, "clear", FALSE, ClearExternalContext)

-----------------------------------------------------------------------------
\* No more payloads and outputs pass than the ceilings allow (the counters
\* are never reset: the ceilings "per run" are those of the instance), and no
\* destructive request passes once a payload has, until the mark is cleared.
MakeLimitsHold ==
    /\ ran[ScenarioOps] <= MaxScenarioOps + lost[ScenarioOps]
    /\ ran[AgentTurns] <= MaxAgentTurns + lost[AgentTurns]
    /\ \A t \in Threads : call[t].name = "destroy" /\ Returned(t) => ran[External] = 0
=============================================================================
