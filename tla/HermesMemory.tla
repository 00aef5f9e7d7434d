----------------------------- MODULE HermesMemory -----------------------------
(***************************************************************************)
(* The memory auditor of the Hermes runtime: a pass lists the databases    *)
(* and the markdown files of the agent's memory, scans each, moves the     *)
(* critical files away and files a summary.  The agent goes on writing.    *)
(***************************************************************************)
EXTENDS Integers, Sequences, FiniteSets

CONSTANTS
    Notes, NameOf,    \* memory files; two in different directories may share a name
    Stores, RowLimit, \* databases; SELECT ... LIMIT
    AutoQuarantine,   \* --quarantine
    Watch, Interval,  \* --watch, --interval
    LastTick,         \* bound: the clock, in seconds
    MaxWrites         \* bound: texts the agent writes

\* time.sleep takes no negative interval.
ASSUME MemoryAssumption ==
    /\ "nothing" \notin Notes /\ IsFiniteSet(Stores)
    /\ RowLimit \in Nat /\ Interval \in Nat
    /\ AutoQuarantine \in BOOLEAN /\ Watch \in BOOLEAN

VARIABLES
    note,       \* what the files hold: a severity, or that they are not there
    row,        \* what the databases' rows hold
    vault,      \* QUARANTINE_DIR: what each destination holds
    phase,      \* where the auditor is; "dead": an exception nobody caught
    todo,       \* what the pass has listed and not scanned
    inHand,     \* the file that was read and found critical, or nothing
    allFindings,   \* all_findings: how many, and how many of them critical
    summaries,  \* the audit log
    auditorSecond, wakeAt,
    taken,      \* history: every move, in order
    writes

memoryVars == <<note, row, vault, phase, todo, inHand, allFindings, summaries,
                auditorSecond, wakeAt, taken, writes>>

Severities == {"CRITICAL", "HIGH", "LOW"}
NoNote == [of |-> "nothing"]
Tally(all, critical) == [findings |-> all, critical |-> critical]

MemoryInit ==
    /\ note \in [Notes -> {"clean", "CRITICAL"}]
    /\ row \in [Stores -> {<<"clean">>, <<"HIGH">>, <<"clean", "CRITICAL">>}]
    /\ vault = <<>> /\ phase = "idle" /\ todo = {} /\ inHand = NoNote
    /\ allFindings = Tally(0, 0) /\ summaries = <<>> /\ taken = <<>>
    /\ auditorSecond = 0 /\ wakeAt = 0 /\ writes = 0

\* run_audit lists everything first.
BeginsPass ==
    /\ phase = "idle" /\ auditorSecond >= wakeAt
    /\ phase' = "scanning"
    /\ todo' = Stores \cup {n \in Notes : note[n] # "gone"}
    /\ allFindings' = Tally(0, 0)
    /\ UNCHANGED <<note, row, vault, inHand, summaries, auditorSecond, wakeAt, taken, writes>>

\* A finding per row that matches, of the first rows only; a table that cannot
\* be read gives none, a database that cannot be opened one of severity LOW.
RowFindings(s) ==
    LET Rows(levels) == {k \in 1 .. RowLimit : k \in DOMAIN row[s] /\ row[s][k] \in levels}
    IN Tally(Cardinality(Rows(Severities)), Cardinality(Rows({"CRITICAL"})))

Adds(more) ==
    allFindings' = Tally(allFindings.findings + more.findings, allFindings.critical + more.critical)

ScansStore(s) ==
    /\ phase = "scanning" /\ inHand = NoNote /\ s \in todo
    /\ todo' = todo \ {s}
    /\ \E got \in {RowFindings(s), Tally(0, 0), Tally(1, 0)} : Adds(got)
    /\ UNCHANGED <<note, row, vault, phase, inHand, summaries, auditorSecond, wakeAt, taken,
                   writes>>

\* Databases come first; a file that cannot be read has no findings.
ScansNote(n) ==
    /\ phase = "scanning" /\ inHand = NoNote /\ n \in todo /\ todo \cap Stores = {}
    /\ todo' = todo \ {n}
    /\ \E readable \in BOOLEAN :
        LET seen == readable /\ note[n] \in Severities IN
        /\ Adds(IF seen THEN Tally(1, IF note[n] = "CRITICAL" THEN 1 ELSE 0) ELSE Tally(0, 0))
        /\ inHand' = IF seen /\ note[n] = "CRITICAL" /\ AutoQuarantine
                     THEN [of |-> n, text |-> note[n], stale |-> FALSE] ELSE NoNote
    /\ UNCHANGED <<note, row, vault, phase, summaries, auditorSecond, wakeAt, taken, writes>>

Destination(n) == <<NameOf[n], auditorSecond>>

Put(where, what) ==
    [d \in DOMAIN vault \cup {where} |-> IF d = where THEN what ELSE vault[d]]

\* quarantine_file: the move replaces what is at its destination.
Quarantines ==
    /\ inHand # NoNote
    /\ LET n == inHand.of IN
        IF note[n] = "gone" THEN UNCHANGED <<note, vault, taken>>
        ELSE /\ vault' = Put(Destination(n), [of |-> n, text |-> note[n]])
             /\ taken' = Append(taken, [of |-> n, text |-> note[n], to |-> Destination(n),
                                        pass |-> Len(summaries) + 1, stale |-> inHand.stale])
             /\ note' = [note EXCEPT ![n] = "gone"]
    /\ inHand' = NoNote
    /\ UNCHANGED <<row, phase, todo, allFindings, summaries, auditorSecond, wakeAt, writes>>

\* shutil.move raises, and the pass goes on; or mkdir does, which nobody catches.
QuarantineFails ==
    /\ inHand # NoNote /\ inHand' = NoNote
    /\ phase' \in {phase, "dead"}
    /\ UNCHANGED <<note, row, vault, todo, allFindings, summaries, auditorSecond, wakeAt,
                   taken, writes>>

Summary == allFindings

\* The exit code of a single pass; watching goes on until it is interrupted.
AfterPass ==
    IF Watch THEN "idle"
    ELSE IF Summary.critical > 0 THEN "exit 2"
    ELSE IF Summary.findings > 0 THEN "exit 1" ELSE "exit 0"

EndsPass ==
    /\ phase = "scanning" /\ todo = {} /\ inHand = NoNote
    /\ summaries' = Append(summaries, Summary)
    /\ phase' = AfterPass
    /\ wakeAt' = auditorSecond + Interval
    /\ UNCHANGED <<note, row, vault, todo, inHand, allFindings, auditorSecond, taken, writes>>

\* write_audit raises, and main() catches KeyboardInterrupt only.
SummaryFails ==
    /\ phase = "scanning" /\ todo = {} /\ inHand = NoNote
    /\ phase' = "dead"
    /\ UNCHANGED <<note, row, vault, todo, inHand, allFindings, summaries, auditorSecond, wakeAt,
                   taken, writes>>

\* Outside: the agent rewrites a file, also one that was taken away.
AgentWrites(n) ==
    /\ writes < MaxWrites /\ writes' = writes + 1
    /\ \E text \in {"clean", "CRITICAL"} : note' = [note EXCEPT ![n] = text]
    /\ inHand' = IF inHand.of = n THEN [inHand EXCEPT !.stale = TRUE] ELSE inHand
    /\ UNCHANGED <<row, vault, phase, todo, allFindings, summaries, auditorSecond, wakeAt, taken>>

AuditorWaits ==
    /\ auditorSecond < LastTick /\ auditorSecond' = auditorSecond + 1
    /\ UNCHANGED <<note, row, vault, phase, todo, inHand, allFindings, summaries, wakeAt,
                   taken, writes>>

MemoryNext ==
    \/ BeginsPass \/ Quarantines \/ QuarantineFails \/ EndsPass \/ SummaryFails
    \/ \E s \in Stores : ScansStore(s)
    \/ \E n \in Notes : ScansNote(n) \/ AgentWrites(n)
    \/ AuditorWaits

MemorySpec == MemoryInit /\ [][MemoryNext]_memoryVars

-----------------------------------------------------------------------------
MemoryTypeOK ==
    /\ note \in [Notes -> Severities \cup {"clean", "gone"}]
    /\ todo \subseteq Notes \cup Stores
    /\ \A d \in DOMAIN vault : vault[d].of \in Notes

\* A file that was taken away is in quarantine, unless another file of its name was
\* taken away in the same second, or the passes follow each other without a pause.
\* (quarantine_file, lines 206-216)
EvidenceKept ==
    \A i \in DOMAIN taken :
        \/ vault[taken[i].to] = [of |-> taken[i].of, text |-> taken[i].text]
        \/ \E j \in i + 1..Len(taken) : /\ taken[j].to = taken[i].to
                                        /\ taken[j].of # taken[i].of \/ Interval = 0

\* What is taken away was critical, unless it was rewritten between scan and move.
\* (run_audit, lines 238-249)
TakenForCause ==
    \A i \in DOMAIN taken : taken[i].text = "CRITICAL" \/ taken[i].stale

\* The summary of a pass has a critical finding for every file the pass took away.
\* (run_audit, lines 228-262)
TakenOnRecord ==
    \A p \in DOMAIN summaries :
        Cardinality({i \in DOMAIN taken : taken[i].pass = p}) <= summaries[p].critical

MemoryKept == MemoryTypeOK /\ EvidenceKept /\ TakenForCause /\ TakenOnRecord
=============================================================================
