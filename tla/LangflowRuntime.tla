--------------------------- MODULE LangflowRuntime ---------------------------
(***************************************************************************)
(* LangflowSovereignRuntime (sovereign_langflow.py): scans of the requests *)
(* to a Langflow server and of the outputs of its components.              *)
(***************************************************************************)
EXTENDS LightEngine

CONSTANTS ProjectsListed    \* whether there is an allowlist of MCP projects

ASSUME LangflowAssumption == ProjectsListed \in BOOLEAN

Hops == <<"hops", "langflow">>

ASSUME LangflowCounters == Hops \in Counters

FlowWebhook(unauthenticated, hits, pattern) ==
    When(unauthenticated, Record) \o ScanText(hits) \o When(pattern, Record) \o Verdict

\* A dangerous field is scanned for code, then for secrets; others are not.
ScanRunRequest(sharedSession, hits, tweak) ==
    When(sharedSession, Record) \o ScanText(hits)
        \o When(tweak > 0, Record \o ScanText(tweak - 1)) \o Verdict

\* Of each header: a dangerous name, else one not listed, else its value.
ScanGlobalVarHeaders(dangerous, unlisted, hits) ==
    (IF dangerous \/ unlisted THEN Record ELSE ScanText(hits)) \o Verdict

ScanKnowledgeDocument(hits, pattern, hidden) ==
    ScanText(hits) \o When(pattern, Record) \o When(hidden, Record) \o Verdict

\* Projects outside the allowlist alone are reported and not refused.
ScanMcpConfig(exposed, autoLogin, outside) ==
    When(exposed /\ ~ProjectsListed, Record) \o When(autoLogin /\ exposed, Record)
        \o When(outside /\ ProjectsListed, Record)
        \o When(exposed /\ (~ProjectsListed \/ autoLogin), Raise("violation"))

\* A file that does not parse; a dangerous node with or without a dangerous
\* pattern in its code; secrets in any field.
ScanFlowJson(parses, custom, danger, hits) ==
    IF parses
    THEN When(custom, Record) \o When(danger /\ ~custom, Record) \o ScanText(hits) \o Verdict
    ELSE Record \o Raise("violation")

FlowInstructions(hits, pattern) == ScanText(hits) \o When(pattern, Record) \o Verdict

ScanComponentOutput(hits, pattern) ==
    Adjust(Hops, 1, FALSE) \o ScanText(hits) \o When(pattern, Record) \o Verdict

ResetDagState == Assign(Hops, 0)

LangflowCall(t) ==
    \/ \E unauthenticated, pattern \in BOOLEAN :
           Begin(t, "webhook", TRUE, FlowWebhook(unauthenticated, 0, pattern))
    \/ \E sharedSession \in BOOLEAN, tweak \in 0 .. 2 :
           Begin(t, "run", TRUE, ScanRunRequest(sharedSession, 0, tweak))
    \/ \E dangerous, unlisted \in BOOLEAN, hits \in 0 .. 1 :
           Begin(t, "headers", TRUE, ScanGlobalVarHeaders(dangerous, unlisted, hits))
    \/ \E pattern, hidden \in BOOLEAN :
           Begin(t, "knowledge", TRUE, ScanKnowledgeDocument(0, pattern, hidden))
    \/ \E exposed, autoLogin, outside \in BOOLEAN :
           Begin(t, "mcp", FALSE, ScanMcpConfig(exposed, autoLogin, outside))
    \/ \E parses, custom, danger \in BOOLEAN :
           Begin(t, "flow", TRUE, ScanFlowJson(parses, custom, danger, 0))
    \/ \E hits \in TextHits, pattern \in BOOLEAN :
           \/ Begin(t, "instructions", TRUE, FlowInstructions(hits, pattern))
           \/ Begin(t, "output", TRUE, ScanComponentOutput(hits, pattern))
    \/ Begin(t, "reset", FALSE, ResetDagState)
=============================================================================
