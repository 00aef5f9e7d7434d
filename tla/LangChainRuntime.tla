--------------------------- MODULE LangChainRuntime ---------------------------
(***************************************************************************)
(* SovereignCallbackHandler and SovereignLangChain (sovereign_langchain.py) *)
(* with the default raise_on_violation: callbacks of a chain's events, and *)
(* the tool and memory wrappers.  Each handler is given one text.          *)
(***************************************************************************)
EXTENDS SovereignEngine

CONSTANTS Inputs       \* of tools

SameInput(i) == <<"same input", i>>
ChainErrors == <<"chain errors", "chain">>
Tool == <<"unrecorded", "tool">>       \* its wrapper does not record the call
Memory == <<"unrecorded", "memory">>

ASSUME LangChainCounters ==
    /\ {ChainErrors, Tool, Memory} \subseteq Counters
    /\ \A i \in Inputs : SameInput(i) \in Counters

\* One of the two pattern lists.
OneHit == 0 .. 1

\* on_llm_start, and on_chat_model_start and check_input alike.
OnLlmStart(hits) == Scan(hits) \o When(hits > 0, FailIf(3, "violation"))
OnChatModelStart(hits) == Scan(hits) \o When(hits > 0, FailIf(3, "violation"))
CheckInput(hits) == Scan(hits) \o When(hits > 0, FailIf(3, "violation"))

\* Whatever goes wrong in this scan is passed over.
OnLlmEnd(hits) == Try(Scan(hits), {"os"}, <<>>)

OnToolStart(i, classH) == RecordToolCall(SameInput(i)) \o CheckHearGate(classH)

OnToolEnd(hits) == Scan(hits) \o When(hits > 0, FailIf(3, "violation"))

OnChainEnd(hits) == Scan(hits)

OnChainError == RecordChainError(ChainErrors)

OnAgentAction == Emit("note")

\* safe_func of wrap_tool; safe_run is without the check of URLs.
SafeRun(hits) == Execute(Tool) \o Scan(hits) \o When(hits > 0, FailIf(3, "violation"))
SafeFunc(private, unlisted, hits) == CheckDomain(private, unlisted) \o SafeRun(hits)

SafeSaveContext(hits) == ProtectMemoryWrite(hits) \o Execute(Memory)

CallHandler(t) ==
    \/ \E hits \in OneHit : \/ Begin(t, "on_llm_start", TRUE, OnLlmStart(hits))
                            \/ Begin(t, "on_chat_model_start", TRUE, OnChatModelStart(hits))
                            \/ Begin(t, "check_input", TRUE, CheckInput(hits))
                            \/ Begin(t, "on_llm_end", FALSE, OnLlmEnd(hits))
                            \/ Begin(t, "on_chain_end", FALSE, OnChainEnd(hits))
    \/ \E i \in Inputs, classH \in BOOLEAN : Begin(t, "on_tool_start", TRUE, OnToolStart(i, classH))
    \/ \E hits \in ScanHits : Begin(t, "on_tool_end", TRUE, OnToolEnd(hits))
    \/ Begin(t, "on_chain_error", FALSE, OnChainError)
    \/ Begin(t, "on_agent_action", FALSE, OnAgentAction)

CallWrapped(t) ==
    \/ \E hits \in ScanHits : \/ Begin(t, "tool", TRUE, SafeRun(hits))
                              \/ Begin(t, "memory", TRUE, SafeSaveContext(hits))
    \/ \E private \in 0 .. 2, unlisted \in BOOLEAN :
           Begin(t, "tool", TRUE, SafeFunc(private, unlisted, 0))

LangChainCall(t) == CallHandler(t) \/ CallWrapped(t)
=============================================================================
