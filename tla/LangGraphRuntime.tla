--------------------------- MODULE LangGraphRuntime ---------------------------
(***************************************************************************)
(* SovereignStateGraph (sovereign_langgraph.py): wraps the nodes of a      *)
(* LangGraph graph, and counts how deep subgraphs delegate.                *)
(***************************************************************************)
EXTENDS SovereignEngine

CONSTANTS
    Nodes,
    MaxNodeCalls, MaxDepth      \* by tier: max_delegation_depth

ASSUME LangGraphAssumption == MaxNodeCalls \in Nat /\ MaxDepth \in [1 .. 4 -> Nat]

NodeCalls(n) == <<"node", n>>
SameNode(n) == <<"same node", n>>
NodeErrors(n) == <<"node errors", n>>

ASSUME LangGraphCounters ==
    /\ Depth \in Counters
    /\ \A n \in Nodes : {NodeCalls(n), SameNode(n), NodeErrors(n)} \subseteq Counters

\* A node's update: what a scan of its strings, the routing key, its URLs and
\* its Class-H patterns turn up.  A routing key can be poisoned and then
\* undeclared as well.
CleanUpdate == [hits |-> 0, poisoned |-> FALSE, undeclared |-> FALSE, private |-> 0,
                unlisted |-> FALSE, classH |-> FALSE]
Updates ==
    {CleanUpdate,
     [CleanUpdate EXCEPT !.hits = 1], [CleanUpdate EXCEPT !.hits = 2],
     [CleanUpdate EXCEPT !.undeclared = TRUE],
     [CleanUpdate EXCEPT !.poisoned = TRUE, !.undeclared = TRUE],
     [CleanUpdate EXCEPT !.private = 1], [CleanUpdate EXCEPT !.unlisted = TRUE],
     [CleanUpdate EXCEPT !.classH = TRUE]}

\* StateGuard.scan_state_update and the check of its result.
GuardState(u) == Scan(u.hits) \o When(u.hits > 0, FailIf(3, "violation"))

\* RoutingGuard.validate
GuardRouting(u) ==
    When(u.poisoned, Scan(1) \o Block("violation")) \o When(u.undeclared, Block("violation"))

\* Below tier 3 a violation of the URL check is swallowed.
GuardUrls(u) ==
    IF tier >= 3 THEN CheckDomain(u.private, u.unlisted)
    ELSE Try(CheckDomain(u.private, u.unlisted), {"violation"}, <<>>)

NodeCompleted == Emit("note")

\* A wrapper that runs the node before it records the call.
WrapNodeRecordingLater(n, u) ==
    SnapshotState \o Execute(SameNode(n)) \o RecordToolCall(SameNode(n))

WrapNode(n, u) ==
    Adjust(NodeCalls(n), 1, FALSE)
        \o Compare(NodeCalls(n), MaxNodeCalls, Emit("note") \o FailIf(2, "tripped"), <<>>)
        \o RecordToolCall(SameNode(n))
        \o SnapshotState
        \o Try(Execute(SameNode(n)), {"other"}, RecordChainError(NodeErrors(n)) \o Raise("other"))
        \o GuardState(u) \o GuardRouting(u) \o GuardUrls(u) \o CheckHearGate(u.classH)
        \o NodeCompleted

\* A node that returns nothing is not looked at.
WrapNodeEmpty(n) ==
    LET whole == WrapNode(n, CleanUpdate) IN SubSeq(whole, 1, Len(whole) - Len(NodeCompleted))

\* A refusal that keeps its depth step.
EnterKeepsStep ==
    Adjust(Depth, 1, FALSE)
        \o Compare(Depth, MaxDepth[tier], Emit("note") \o Raise("tripped"), Emit("note"))
EnterSubgraph ==
    Adjust(Depth, 1, FALSE)
        \o Compare(Depth, MaxDepth[tier],
                   Emit("note") \o Adjust(Depth, -1, FALSE) \o Raise("tripped"),
                   Emit("note"))

ExitSubgraph == Adjust(Depth, -1, TRUE)

\* Each string of the update, one here.
ProtectStateWrite(hits) == ProtectMemoryWrite(hits)

CallNode(t) ==
    \E n \in Nodes : \/ \E u \in Updates : Begin(t, "node", TRUE, WrapNode(n, u))
                     \/ Begin(t, "node", TRUE, WrapNodeEmpty(n))

\* The caller enters before its try, and leaves in the finally clause: only
\* what it has entered.
CallSubgraph(t) ==
    \/ Begin(t, "enter", FALSE, EnterSubgraph)
    \/ opened[t] > 0 /\ Begin(t, "exit", FALSE, ExitSubgraph)

CallStateWrite(t) == \E hits \in ScanHits : Begin(t, "state", TRUE, ProtectStateWrite(hits))

LangGraphCall(t) == CallNode(t) \/ CallSubgraph(t) \/ CallStateWrite(t)
=============================================================================
