----------------------------- MODULE GrokRuntime -----------------------------
(***************************************************************************)
(* GrokSovereignRuntime (sovereign_xai_grok.py): scans before a skill, a   *)
(* hook, a configuration or a request goes out, and budgets of a session.  *)
(***************************************************************************)
EXTENDS LightEngine

CONSTANTS MaxTurns, MaxOps

ASSUME GrokAssumption == MaxTurns \in Nat /\ MaxOps \in Nat

Turns == <<"turns", "grok">>
Ops == <<"ops", "grok">>

ASSUME GrokCounters == {Turns, Ops} \subseteq Counters

StartSession == Assign(Turns, 0) \o Assign(Ops, 0)

\* end_session clears a flag that nothing reads, and reports.
EndSession == <<>>

ScanSkillFile(hits) == ScanText(hits) \o Verdict

\* Every dangerous pattern is recorded, two here at most; then the text.
ScanHookScript(dangers, hits) ==
    When(dangers > 0, Record) \o When(dangers > 1, Record) \o ScanText(hits) \o Verdict

ScanConfig(bypasses) == When(bypasses > 0, Record) \o When(bypasses > 1, Record) \o Verdict

\* An unknown profile, or one below the floor.
ScanSandboxProfile(accepted) == When(~accepted, Record \o Raise("violation"))

ScanMultiAgentRequest(hits, tool, crowd) ==
    ScanText(hits) \o When(tool, Record) \o When(crowd, Record)
        \o Adjust(Turns, 1, FALSE) \o Compare(Turns, MaxTurns, Record, <<>>)
        \o Adjust(Ops, 1, FALSE) \o Compare(Ops, MaxOps, Record, <<>>)
        \o Verdict \o Admit(Turns) \o Admit(Ops)

\* Flags and values that bypass approval; headless without a sandbox.
ScanHeadlessArgs(bypass, unboxed) == When(bypass, Record) \o When(unboxed, Record) \o Verdict

\* These report and let pass: a turn is counted and not compared.
ScanPrompt(hits) == Adjust(Turns, 1, FALSE) \o ScanText(hits)
ScanResponse(hits) == ScanText(hits)

GrokCall(t) ==
    \/ Begin(t, "session", FALSE, StartSession) \/ Begin(t, "end", FALSE, EndSession)
    \/ \E hits \in TextHits : \/ Begin(t, "skill", TRUE, ScanSkillFile(hits))
                              \/ Begin(t, "prompt", FALSE, ScanPrompt(hits))
                              \/ Begin(t, "response", FALSE, ScanResponse(hits))
    \/ \E dangers \in 0 .. 2 : \/ Begin(t, "hook", TRUE, ScanHookScript(dangers, 0))
                               \/ Begin(t, "config", TRUE, ScanConfig(dangers))
    \/ Begin(t, "hook", TRUE, ScanHookScript(1, 1))
    \/ \E accepted \in BOOLEAN : Begin(t, "sandbox", TRUE, ScanSandboxProfile(accepted))
    \/ \E tool, crowd \in BOOLEAN : Begin(t, "agents", TRUE, ScanMultiAgentRequest(0, tool, crowd))
    \/ Begin(t, "agents", TRUE, ScanMultiAgentRequest(1, FALSE, FALSE))
    \/ \E bypass, unboxed \in BOOLEAN : Begin(t, "args", TRUE, ScanHeadlessArgs(bypass, unboxed))

-----------------------------------------------------------------------------
\* In a session no more requests pass than its budgets of turns and of
\* operations allow.
GrokBudgetsHold ==
    ran[Turns] <= MaxTurns + lost[Turns] /\ ran[Ops] <= MaxOps + lost[Ops]
=============================================================================
