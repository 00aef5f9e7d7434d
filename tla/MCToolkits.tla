------------------------------ MODULE MCToolkits ------------------------------
(* The parts share nothing: each is run alone, from its own initial states. *)
EXTENDS NexusGuardian, AgBOM, JouleWork, NexusEnvelope, McpServer, McpAssessor,
        SafeWrapProxy, SafeWrapStdio, ProviderAdapters,
        HermesGateway, HermesMemory, LoveEquation

CONSTANTS h1, h2, stranger, visitor, paying, q1, q2, q3, p1, p2, p3, a1, a2

VARIABLE part

nexusPartVars == <<nexusVars, bomVars, jouleVars, envelopeVars>>
mcpPartVars == <<mcpVars, assessorVars, proxyVars, stdioVars>>
otherPartVars == <<adapterVars, hermesVars, memoryVars, loveVars>>
allVars == <<nexusPartVars, mcpPartVars, otherPartVars>>

MCParts == {"guardian", "bom", "joule", "envelope", "calls", "mcp", "tools", "assessor", "proxy",
            "stdio", "adapters", "hermes", "memory", "love"}

TierOf ==
    [t \in Tokens |-> CASE t = paying -> "pro" [] t = visitor -> "free" [] OTHER -> "none"]

\* "EU" and "HIPAA" are frameworks a free caller does not see.
SomeControls ==
    <<[id |-> "S1.5", topics |-> {"memory"}, frameworks |-> {"GDPR", "EU"}, pillar |-> "P1",
       selected |-> TRUE, mandatory |-> {2, 3}, text |-> {"other"}],
      [id |-> "F3.2", topics |-> {"recursion"}, frameworks |-> {"GDPR"}, pillar |-> "P3",
       selected |-> FALSE, mandatory |-> {3}, text |-> {"role_confusion", "other"}],
      [id |-> "CP.9", topics |-> {"memory", "recursion"}, frameworks |-> {"EU"},
       pillar |-> "CP", selected |-> TRUE, mandatory |-> {4}, text |-> {"special_token"}]>>

SomeResources == [quick_start_checklist |-> "free", governance_policy_template |-> "pro"]

Topics == {"", "memory", "recursion", "privacy"}

SomeAgents ==
    [spawns : BOOLEAN, memory : BOOLEAN, tools : BOOLEAN, unattended : BOOLEAN,
     reviewed : BOOLEAN, signals : {{}, {2}, {3}}]

AnyToolCalls ==
    [tool : {"lookup_control"}, id : {"", "CP.9", "X"}, topic : Topics,
     framework : {"", "GDPR", "EU"}]
    \cup [tool : {"compliance_map"}, topic : Topics, cites : {{}, {"GDPR"}, {"EU"}},
          frameworks : SUBSET {"GDPR", "EU", "HIPAA"}]
    \cup [tool : {"code_review"}, pillar : {"", "P1", "P3"}]
    \cup [tool : {"agent_classify"}, agent : SomeAgents]
    \cup [tool : {"get_governance_resource"}, name : {"", "X"} \cup DOMAIN SomeResources]
    \cup [tool : {"risk_score"}, cvss : {0, 10, 11}, pillarScore : {0, 100},
          factor : {-5, 5, 15}]

OneToolCall == [tool |-> "code_review", pillar |-> ""]

ASSUME ToolkitsAssumption == paying \in Tokens /\ OneToolCall \in ToolCalls

OverHttp == [transport |-> "streamable-http"]
AnyLaunches ==
    [transport : {"stdio", "sse"}, inspectable : BOOLEAN, executable : BOOLEAN,
     moduleOrEntry : BOOLEAN, installed : {"unset", "inside", "outside"},
     sourceHash : {"unset", "same", "other"}]
    \cup {OverHttp}

\* Two memory files of the same name, in two directories.
SameName == [n \in Notes |-> "x"]

CleanTools == [critical |-> 0, high |-> 0, fsp |-> FALSE, urls |-> 0, session |-> FALSE]
FoundTools == [critical |-> 0, high |-> 3, fsp |-> TRUE, urls |-> 2, session |-> TRUE]

AnyServers ==
    {s \in [https : BOOLEAN, auth : {"open", "basic", "bearer", "oauth"},
            authFirst : BOOLEAN, limited : BOOLEAN, retryAfter : BOOLEAN,
            hardening : {5}, tools : {CleanTools, FoundTools}, attests : {0, 13, 25}] :
        (s.auth = "open" => ~s.authFirst) /\ (~s.limited => ~s.retryAfter)}

\* Weights are in thousandths.
LoveEvents ==
    {[direction |-> "cooperation", weight |-> 900, stakes |-> "critical",
      reversibility |-> "irreversible", flags |-> {"sensitive_data"},
      verifiability |-> 900, confidence |-> 900],
     [direction |-> "defection", weight |-> 700, stakes |-> "high",
      reversibility |-> "reversible", flags |-> {},
      verifiability |-> 300, confidence |-> 900],
     [direction |-> "defection", weight |-> 950, stakes |-> "critical",
      reversibility |-> "difficult", flags |-> {"self_harm_risk", "third_party_impact"},
      verifiability |-> 900, confidence |-> 900],
     [direction |-> "novelty", weight |-> 700, stakes |-> "low",
      reversibility |-> "reversible", flags |-> {},
      verifiability |-> 500, confidence |-> 500]}

\* What a part does not use starts in one state, chosen from those of its Init.
Unused(p, value, S) == part = p \/ value = CHOOSE x \in S : TRUE

MCInit ==
    /\ part \in MCParts
    /\ part = "guardian" \/ (remote = TRUE /\ failMode = "fail_open")
    /\ part = "bom" \/ content = [p \in Parts |-> 1]
    /\ part = "joule" \/ opening = [a \in Accounts |-> 0]
    /\ part = "envelope" \/ envelope = [goal |-> 1, delegation |-> NoDelegation,
                                       sender |-> "none", compartment |-> "TASK_CONTEXT"]
    /\ Unused("assessor", assessed, Servers)
    /\ part = "assessor" \/ (hasToken = TRUE /\ budget = Burst)
    /\ Unused("adapters", provider, Providers) /\ Unused("adapters", asked, ModelRequests)
    /\ part = "tools" \/ launch = OverHttp
    /\ part = "memory" \/ (/\ note = [n \in Notes |-> "clean"]
                           /\ row = [s \in Stores |-> <<"clean">>])
    /\ Unused("love", score, FirstScores)
    /\ NexusInit /\ BomInit /\ JouleInit /\ EnvelopeInit
    /\ McpInit /\ AssessorInit /\ ProxyInit /\ StdioInit
    /\ AdapterInit /\ HermesInit /\ MemoryInit /\ LoveInit

\* Of the MCP server, the buckets are checked over time with the requests of one token
\* and one tool, the tools with every token and call in a moment.
LimiterSteps ==
    \/ Starts \/ SecondPasses
    \/ \E h \in Handlers :
           (\E a \in Addresses : Authenticates(h, paying, a)) \/ Checks(h) \/ RunsTool(h, OneToolCall)
AnsweringSteps == McpNext /\ second' < 1

NexusPart ==
    /\ \/ part = "guardian" /\ NexusNext /\ UNCHANGED <<bomVars, jouleVars, envelopeVars>>
       \/ part = "bom" /\ BomNext /\ UNCHANGED <<nexusVars, jouleVars, envelopeVars>>
       \/ part = "joule" /\ JouleNext /\ UNCHANGED <<nexusVars, bomVars, envelopeVars>>
       \/ part = "envelope" /\ EnvelopeSteps /\ UNCHANGED <<nexusVars, bomVars, jouleVars>>
       \/ part = "calls" /\ CallSteps /\ UNCHANGED <<nexusVars, bomVars, jouleVars>>
    /\ UNCHANGED <<mcpPartVars, otherPartVars>>

McpPart ==
    /\ \/ part = "mcp" /\ LimiterSteps /\ UNCHANGED <<assessorVars, proxyVars, stdioVars>>
       \/ part = "tools" /\ AnsweringSteps /\ UNCHANGED <<assessorVars, proxyVars, stdioVars>>
       \/ part = "assessor" /\ AssessorNext /\ UNCHANGED <<mcpVars, proxyVars, stdioVars>>
       \/ part = "proxy" /\ ProxyNext /\ UNCHANGED <<mcpVars, assessorVars, stdioVars>>
       \/ part = "stdio" /\ StdioNext /\ UNCHANGED <<mcpVars, assessorVars, proxyVars>>
    /\ UNCHANGED <<nexusPartVars, otherPartVars>>

OtherPart ==
    /\ \/ part = "adapters" /\ AdapterNext /\ UNCHANGED <<hermesVars, memoryVars, loveVars>>
       \/ part = "hermes" /\ HermesNext /\ UNCHANGED <<adapterVars, memoryVars, loveVars>>
       \/ part = "memory" /\ MemoryNext /\ UNCHANGED <<adapterVars, hermesVars, loveVars>>
       \/ part = "love" /\ LoveNext /\ UNCHANGED <<adapterVars, hermesVars, memoryVars>>
    /\ UNCHANGED <<nexusPartVars, mcpPartVars>>

MCNext == UNCHANGED part /\ (NexusPart \/ McpPart \/ OtherPart)

MCSpec == MCInit /\ [][MCNext]_<<part, allVars>>

-----------------------------------------------------------------------------
\* The token buckets neither give more than they refill nor keep back a token.
RatesKept == ServedBounded /\ DeniedOnlyWhenSpent /\ AdmittedBounded

\* The parts' states have their types.
TypesOK ==
    NexusTypeOK /\ BomTypeOK /\ JouleTypeOK /\ McpTypeOK /\ ProxyTypeOK /\ StdioTypeOK

\* What is recorded is what happened: verdicts and receipts, versions of the inventory,
\* accounts; the log of the Hermes gateway and the moves of its memory auditor; scores
\* of servers and of agents.
RecordsAgree ==
    /\ TypesOK /\ DecisionsStand /\ VersionsAsSigned /\ OverdraftAnnounced /\ WorkConserved
    /\ HermesTold /\ MemoryKept /\ AssessmentSound /\ AlignmentHolds

\* What is relayed is what was there to relay: lists of tools and lines, envelopes and
\* calls over the bridges, requests and replies through the adapters, answers of tools.
RelaysFaithful ==
    ListChangeShows /\ RelayInOrder /\ EnvelopesHold /\ AdaptersAgree /\ ToolsKeepTiers
=============================================================================
