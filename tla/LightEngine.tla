----------------------------- MODULE LightEngine -----------------------------
(***************************************************************************)
(* The small AISAFE2Engine of the Grok, Langflow and Make runtimes: no     *)
(* tiers, a finding always stops the call.  It makes the steps of the      *)
(* other engine: the list, the score, the last hash, the line of the log.  *)
(* The hash chain is kept in memory; a line holds its own hash.            *)
(***************************************************************************)
EXTENDS SovereignEngine

Scans == <<"scans", "text">>

ASSUME LightCounters == Scans \in Counters

\* An engine that leaves a finding out of its list.
RecordUnlisted == Penalty(2) \o Emit("content")

\* _record: the violation, 2 points, the chain, the line.
Record == << [op |-> "find"] >> \o Penalty(2) \o Emit("content")

\* At most one injection, one secret and one hidden character are recorded.
TextHits == 0 .. 3
ScanText(hits) ==
    Adjust(Scans, 1, FALSE)
        \o When(hits > 0, Record) \o When(hits > 1, Record) \o When(hits > 2, Record)

\* Every finding stops the call, as at the highest tier.
LightInit == tier = 4 /\ InitialState(<<>>)
=============================================================================
