------------------------------ MODULE MCRuntimes ------------------------------
(* Each runtime is run alone on an engine by one thread; then two threads   *)
(* share an engine, and call what counts, emits and executes.               *)
EXTENDS LangGraphRuntime, LangChainRuntime, CrewRuntime, AutoGenRuntime,
        GrokRuntime, LangflowRuntime, MakeRuntime

CONSTANTS
    t1, t2, node1, input1, input2, task1, agent1,
    SharedCalls     \* bound: calls of the two threads

ASSUME RuntimesAssumption == t1 \in Threads /\ node1 \in Nodes

Depths == [d \in 1 .. 4 |-> 1]

AllCounters ==
    {Total, Depth, NodeCalls(node1), SameNode(node1), NodeErrors(node1), SameInput(input1), SameInput(input2), ChainErrors,
     Tool, Memory, TaskCalls(task1), SameTask(task1), CrewTool, SameAgent(agent1),
     Scans, Turns, Ops, ScenarioOps, AgentTurns, External, Hops}

VARIABLE part

mcVars == <<part, engineVars>>

OneThread == {"engine", "langgraph", "langchain", "crew", "autogen"}
Light == {"grok", "make", "langflow"}

MCInit ==
    \/ part \in OneThread \union {"threads"} /\ EngineInit
    \/ part \in Light /\ LightInit

SharedCall(t) ==
    \/ Begin(t, "node", TRUE, WrapNode(node1, CleanUpdate))
    \/ Begin(t, "path", TRUE, CheckPathSafety(TRUE, FALSE))
    \/ CallSubgraph(t)

PartCall(t) ==
    \/ part = "engine" /\ EngineCall(t)
    \/ part = "langgraph" /\ LangGraphCall(t)
    \/ part = "langchain" /\ LangChainCall(t)
    \/ part = "crew" /\ CrewCall(t)
    \/ part = "autogen" /\ AutoGenCall(t)
    \/ part = "grok" /\ GrokCall(t)
    \/ part = "make" /\ MakeCall(t)
    \/ part = "langflow" /\ LangflowCall(t)

MCNext ==
    /\ UNCHANGED part
    /\ \/ part # "threads" /\ PartCall(t1)
       \/ part = "threads" /\ calls < SharedCalls /\ \E t \in Threads : SharedCall(t)
       \/ \E t \in Threads : Statement(t)

MCSpec == MCInit /\ [][MCNext]_mcVars

BudgetsHold == CeilingHolds /\ GrokBudgetsHold /\ MakeLimitsHold
=============================================================================
