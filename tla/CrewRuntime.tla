----------------------------- MODULE CrewRuntime -----------------------------
(***************************************************************************)
(* SovereignCrew (sovereign_crewai.py): agents are scanned when they are   *)
(* wrapped, task outputs before the next task sees them, tool outputs      *)
(* before the agent does.                                                  *)
(***************************************************************************)
EXTENDS SovereignEngine

CONSTANTS
    Tasks,
    MaxTaskCalls

ASSUME CrewAssumption == MaxTaskCalls \in Nat

TaskCalls(k) == <<"task", k>>
SameTask(k) == <<"same task", k>>
CrewTool == <<"unrecorded", "crew tool">>

ASSUME CrewCounters ==
    /\ CrewTool \in Counters
    /\ \A k \in Tasks : {TaskCalls(k), SameTask(k)} \subseteq Counters

\* One field is poisoned, or none.
ValidateIdentity(hits) == Scan(hits) \o When(hits > 0, Block("violation"))

WrapAgent(hits) == ValidateIdentity(hits) \o RegisterNhi

\* A gate that lets through what it reported.
ProtectTaskOutputOpenly(k, hits, classH) ==
    RecordToolCall(SameTask(k)) \o Scan(hits) \o CheckHearGate(classH) \o Emit("note")

ProtectTaskOutput(k, hits, classH) ==
    RecordToolCall(SameTask(k))
        \o Adjust(TaskCalls(k), 1, FALSE)
        \o Compare(TaskCalls(k), MaxTaskCalls, Emit("note") \o FailIf(2, "tripped"), <<>>)
        \o Scan(hits) \o When(hits > 0, FailIf(3, "violation"))
        \o CheckHearGate(classH)
        \o Emit("note")

\* sovereign_task_callback: the gate, then the crew's own callback.
TaskCallback(k, hits, classH) == ProtectTaskOutput(k, hits, classH) \o Execute(SameTask(k))

\* Two agents, the second poisoned or not.
WrapCrew(hits) == WrapAgent(0) \o WrapAgent(hits) \o Emit("note")

\* safe_run, and safe_func alike.
CrewSafeRun(hits) == Execute(CrewTool) \o Scan(hits) \o When(hits > 0, FailIf(3, "violation"))

CrewCall(t) ==
    \/ \E hits \in ScanHits : \/ Begin(t, "agent", TRUE, WrapAgent(hits))
                              \/ Begin(t, "crew", TRUE, WrapCrew(hits))
                              \/ Begin(t, "tool", TRUE, CrewSafeRun(hits))
    \/ \E k \in Tasks, hits \in ScanHits, classH \in BOOLEAN :
           Begin(t, "task", TRUE, ProtectTaskOutput(k, hits, classH))
    \/ \E k \in Tasks : Begin(t, "callback", TRUE, TaskCallback(k, 0, FALSE))
=============================================================================
