---------------------------- MODULE AutoGenRuntime ----------------------------
(***************************************************************************)
(* SovereignRuntime of sovereign_autogen.py: proxies of assistants and of  *)
(* code executors.  A proxy's on_messages is async, but awaits only the    *)
(* agent it wraps, when the engine is done with.                           *)
(***************************************************************************)
EXTENDS SovereignEngine

CONSTANTS
    Agents,
    AllowlistSet        \* whether allowed_domains is not empty

ASSUME AutoGenAssumption == AllowlistSet \in BOOLEAN

SameAgent(a) == <<"same agent", a>>

ASSUME AutoGenCounters == \A a \in Agents : SameAgent(a) \in Counters

\* What the pattern lists say of a code block; a catastrophic one matches the
\* dangerous patterns too, except where its language hides it.
Harmless == [catastrophic |-> FALSE, dangerous |-> FALSE, network |-> FALSE, classH |-> FALSE]
CodeBlocks ==
    {Harmless,
     [Harmless EXCEPT !.catastrophic = TRUE],
     [Harmless EXCEPT !.catastrophic = TRUE, !.dangerous = TRUE],
     [Harmless EXCEPT !.dangerous = TRUE],
     [Harmless EXCEPT !.network = TRUE],
     [Harmless EXCEPT !.classH = TRUE]}

\* scan_python, scan_shell: the first pattern that matches is reported.
ScanCode(block) == When(block.dangerous, Emit("finding") \o FailIf(3, "violation"))

\* scan_network: without an allowlist the access is logged and let through.
ScanNetwork(block) ==
    When(block.network, IF AllowlistSet THEN Block("violation") ELSE Emit("note"))

ProtectCodeBlock(block) ==
    When(block.catastrophic, EmitCp8 \o FailIf(2, "violation"))
        \o ScanCode(block) \o ScanNetwork(block) \o CheckHearGate(block.classH)

ScanMessage(hits) == Scan(hits) \o When(hits > 0, FailIf(3, "violation"))

\* Of the assistant proxy.
OnMessages(a, hits) ==
    ScanMessage(hits) \o RecordToolCall(SameAgent(a)) \o Emit("note") \o Execute(SameAgent(a))

\* Of the code executor proxy.
OnCodeMessages(a, hits, block) ==
    ScanMessage(hits) \o ProtectCodeBlock(block)
        \o RecordToolCall(SameAgent(a)) \o Execute(SameAgent(a))

WrapAssistant(hits) == Scan(hits) \o When(hits > 0, FailIf(3, "violation")) \o RegisterNhi

\* The proxy announces itself.
WrapCodeExecutor == RegisterNhi \o Emit("note")

AutoGenCall(t) ==
    \/ \E a \in Agents, hits \in ScanHits : Begin(t, "on_messages", TRUE, OnMessages(a, hits))
    \/ \E a \in Agents, block \in CodeBlocks :
           Begin(t, "on_messages", TRUE, OnCodeMessages(a, 0, block))
    \/ \E a \in Agents : Begin(t, "on_messages", TRUE, OnCodeMessages(a, 1, Harmless))
    \/ \E hits \in 0 .. 1 : Begin(t, "assistant", TRUE, WrapAssistant(hits))
    \/ Begin(t, "executor", FALSE, WrapCodeExecutor)
    \/ \E hits \in ScanHits : Begin(t, "content", FALSE, Scan(hits))
    \/ \E block \in CodeBlocks : Begin(t, "block", TRUE, ProtectCodeBlock(block))
=============================================================================
