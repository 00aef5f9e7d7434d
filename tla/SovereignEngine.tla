--------------------------- MODULE SovereignEngine ---------------------------
(***************************************************************************)
(* AISAFE2Engine of the sovereign runtimes (ai_safe2_engine.py): one       *)
(* instance is shared by the wrappers of a process, and so by its threads  *)
(* (wrap_node_async runs nodes in a pool).  It has no lock.  A call is the *)
(* sequence of statements it has still to execute; threads alternate       *)
(* between statements.  A read-modify-write is two statements, an audit    *)
(* event three: hash it, remember the hash, write the line.                *)
(***************************************************************************)
EXTENDS Integers, Sequences, FiniteSets, FiniteSetsExt

CONSTANTS
    Threads,
    Counters,       \* the counters of the engine and its wrappers, <<kind, name>>
    MaxToolCalls, MaxIdentical, CascadeAt, MaxScore,
    FrequencyLimit, \* calls in a minute before an anomaly is noted
    MaxCalls, MaxFaults     \* bounds: calls made, writes and nodes that fail

ASSUME EngineAssumption ==
    /\ IsFiniteSet(Threads) /\ IsFiniteSet(Counters)
    /\ <<"total", "calls">> \in Counters
    /\ {MaxToolCalls, MaxIdentical, CascadeAt, MaxScore, FrequencyLimit, MaxCalls, MaxFaults}
           \subseteq Nat

VARIABLES
    tier,           \* act_tier, of the instance
    lines,          \* of the audit log file, those that can be read
    tail,           \* how the file ends
    lastHash,
    score,
    violations,     \* length of _violations
    count,          \* the counters; defaultdict: 0 until stored
    snapshots,      \* in the ring buffer
    todo,           \* of each thread: statements of its call left to execute
    draft,          \* of each thread: the event it is emitting
    held,           \* of each thread: the value it has read
    call, raised,   \* of each thread: its last call, and what the call raised
    faults, calls,
    made,           \* history: events hashed
    overlapped,     \* history: an event was begun while another was under way
    missing,        \* history: hashes whose line cannot be read in the file
    unwritten,      \* history: findings on content among them
    charged,        \* history: points taken off
    forgiven,       \* history: a store of the score undid another
    lost,           \* history: of each counter, how far stale stores have moved it
    found,          \* of each thread: whether its call has found something
    ran,            \* history: of each counter of identical calls, wrapped executions
    opened, leaked  \* history: subgraphs each thread is in; depth steps never taken back

ledger == <<lines, tail, lastHash, made, overlapped, missing, unwritten>>
marks == <<score, violations, charged, forgiven>>
counting == <<count, lost, snapshots, ran, opened>>
threads == <<todo, draft, held, call, raised, found>>
engineVars == <<tier, ledger, marks, counting, threads, faults, calls, leaked>>

Genesis == 0
Total == <<"total", "calls">>
Depth == <<"depth", "subgraph">>

\* The file ends with a newline, with a line that is whole but for its newline,
\* or with a shorter fragment.
Ends == {"sealed", "bare", "torn"}
Event == [hash : Nat \ {0}, prev : Nat, kind : {"note", "finding", "content"}]

EngineTypeOK ==
    /\ tier \in 1 .. 4 /\ lines \in Seq(Event) /\ tail \in Ends /\ lastHash \in Nat
    /\ score \in 0 .. MaxScore /\ violations \in Nat
    /\ count \in [Counters -> Int] /\ snapshots \in 0 .. 10
    /\ DOMAIN todo = Threads /\ DOMAIN draft = Threads
    /\ raised \in [Threads -> {"nothing", "violation", "tripped", "classH", "os", "other"}]
    /\ faults \in 0 .. MaxFaults /\ calls \in 0 .. MaxCalls
    /\ lost \in [Counters -> Nat] /\ charged \in Nat /\ missing \subseteq Nat
    /\ ran \in [Counters -> Nat] /\ opened \in [Threads -> Nat] /\ leaked \in Nat

-----------------------------------------------------------------------------
(* Statements *)

\* _emit_event reads the last hash and hashes the event, then sets
\* _last_hash, then appends the line; below, a chain that is not advanced.
EmitUnlinked(kind) == << [op |-> "hash", kind |-> kind], [op |-> "write"] >>
Emit(kind) == << [op |-> "hash", kind |-> kind], [op |-> "link"], [op |-> "write"] >>

Raise(kind) == << [op |-> "raise", kind |-> kind] >>

\* The tier decides whether a control only records or also raises.
FailIf(n, kind) == IF tier >= n THEN Raise(kind) ELSE <<>>

\* max(0.0, self._compliance_score - n)
Penalty(n) == << [op |-> "readScore"], [op |-> "storeScore", points |-> n] >>

\* counter += by, no lower than the floor where there is one.
Adjust(c, by, floor) ==
    << [op |-> "read", of |-> c], [op |-> "store", of |-> c, by |-> by, floor |-> floor] >>

\* The counter is read again and compared.
Compare(c, limit, over, within) ==
    << [op |-> "compare", of |-> c, limit |-> limit, over |-> over, within |-> within] >>

\* try: body; except kinds: handler
Try(body, kinds, handler) == body \o << [op |-> "except", kinds |-> kinds, body |-> handler] >>

\* What a wrapper wraps is executed; it may raise an exception of its own.
Execute(c) == << [op |-> "run", of |-> c] >>

\* counter = value
Assign(c, value) == << [op |-> "assign", of |-> c, value |-> value] >>

\* An exception if anything was found, and what passes is counted.
Verdict == << [op |-> "verdict"] >>
Admit(c) == << [op |-> "admit", of |-> c] >>

When(condition, body) == IF condition THEN body ELSE <<>>

-----------------------------------------------------------------------------
(* The engine's operations.  What a pattern list or a parser would say of   *)
(* a text is an input.                                                      *)

\* An injection, a credential, both or neither.
ScanHits == 0 .. 2

ContentViolation == << [op |-> "find"] >> \o Penalty(2) \o Emit("content")
Scan(hits) ==
    When(hits > 0, ContentViolation) \o When(hits > 1, ContentViolation)

\* An event for the finding, and an exception from tier 3.
Block(kind) == Emit("finding") \o FailIf(3, kind)

IsolateContext(untrusted, hits) ==
    When(untrusted, Scan(hits) \o When(hits > 0, Block("violation")))

ProtectMemoryWrite(hits) ==
    Scan(hits) \o IF hits > 0 THEN Block("violation") ELSE Emit("note")

RecordToolCall(same) ==
    Adjust(Total, 1, FALSE)
        \o Compare(Total, MaxToolCalls, Emit("note") \o Raise("tripped"), <<>>)
        \o << [op |-> "frequency"] >>
        \o Adjust(same, 1, FALSE)
        \o Compare(same, MaxIdentical - 1, Emit("note") \o FailIf(2, "tripped"), <<>>)

\* The count of a chain's errors is never reset.
RecordChainError(chain) ==
    Adjust(chain, 1, FALSE)
        \o Compare(chain, CascadeAt - 1,
                   Emit("note") \o Emit("note") \o Penalty(5) \o FailIf(3, "tripped"),
                   Emit("note"))

\* Each private pattern that matches; the allowlist, when there is one.
CheckDomain(private, unlisted) ==
    LET Ssrf == Emit("finding") \o Penalty(5) \o FailIf(2, "violation") IN
    When(private > 0, Ssrf) \o When(private > 1, Ssrf) \o When(unlisted, Block("violation"))

CheckPathSafety(dangerous, outside) ==
    When(dangerous, Emit("finding") \o Penalty(5) \o FailIf(2, "violation"))
        \o When(outside, Emit("finding") \o Raise("violation"))

RegisterNhi == Emit("note")

EmitCp8 == Emit("finding") \o Penalty(20)

HearMode == tier >= 3
CheckHearGate(classH) == When(HearMode /\ classH, Emit("finding") \o Raise("classH"))

SnapshotState == << [op |-> "snapshot"] >>
RollbackState == When(snapshots > 0, Emit("note"))

-----------------------------------------------------------------------------
(* Threads *)

Busy(t) == todo[t] # <<>>
Returned(t) == call[t].name # "none" /\ ~Busy(t) /\ raised[t] = "nothing"
Current(t) == Head(todo[t])

\* The caller of enter_subgraph goes into the subgraph before it calls again.
Ready(t) == ~Busy(t) /\ ~(Returned(t) /\ call[t].name = "enter")

\* What is left once the try blocks that end here are done.
PastHandlers(s) ==
    LET n == CHOOSE n \in 0 .. Len(s) :
                 /\ \A i \in 1 .. n : s[i].op = "except"
                 /\ n = Len(s) \/ s[n + 1].op # "except"
    IN SubSeq(s, n + 1, Len(s))

Goes(t, rest) == todo' = [todo EXCEPT ![t] = PastHandlers(rest)] /\ UNCHANGED raised
Advances(t) == Goes(t, Tail(todo[t]))

\* The innermost handler of that kind takes the exception; without one it
\* leaves the call.
Throws(t, kind) ==
    LET rest == Tail(todo[t])
        takers == {i \in 1 .. Len(rest) : rest[i].op = "except" /\ kind \in rest[i].kinds}
    IN IF takers = {}
       THEN /\ todo' = [todo EXCEPT ![t] = <<>>]
            /\ raised' = [raised EXCEPT ![t] = kind]
       ELSE LET i == CHOOSE i \in takers : \A j \in takers : i <= j
            IN Goes(t, rest[i].body \o SubSeq(rest, i + 1, Len(rest)))

\* A call begins.  A gate is a call that a caller relies on not to return
\* when it has found something, from tier 3 on.
Begin(t, name, gate, body) ==
    /\ Ready(t) /\ calls < MaxCalls
    /\ calls' = calls + 1
    /\ call' = [call EXCEPT ![t] = [name |-> name, gate |-> gate]]
    /\ todo' = [todo EXCEPT ![t] = PastHandlers(body)]
    /\ raised' = [raised EXCEPT ![t] = "nothing"]
    /\ found' = [found EXCEPT ![t] = FALSE]
    /\ UNCHANGED <<tier, ledger, marks, counting, draft, held, faults, leaked>>

At(t, op) == Busy(t) /\ Current(t).op = op

HashEvent(t) ==
    /\ At(t, "hash")
    /\ made' = made + 1
    /\ draft' = [draft EXCEPT ![t] = [hash |-> made', prev |-> lastHash, kind |-> Current(t).kind]]
    /\ found' = [found EXCEPT ![t] = @ \/ Current(t).kind # "note"]
    /\ overlapped' = (overlapped \/ \E u \in Threads \ {t} : At(u, "link") \/ At(u, "write"))
    /\ Advances(t)
    /\ UNCHANGED <<tier, lines, tail, lastHash, missing, unwritten, marks, counting, held, call,
                   faults, calls, leaked>>

LinkEvent(t) ==
    /\ At(t, "link")
    /\ lastHash' = draft[t].hash
    /\ Advances(t)
    /\ UNCHANGED <<tier, lines, tail, made, overlapped, missing, unwritten, marks, counting, draft,
                   held, call, found, faults, calls, leaked>>

OnContent(e) == IF e.kind = "content" THEN 1 ELSE 0
LastLine == lines[Len(lines)]

\* The line of e can be read.
Files(e) == lines' = Append(lines, e) /\ UNCHANGED <<missing, unwritten>>

\* It cannot.
StaysOut(e) ==
    /\ missing' = missing \union {e.hash}
    /\ unwritten' = unwritten + OnContent(e)
    /\ UNCHANGED lines

\* Nor can a last line without its newline, once the text of e follows it.
SpoilsLast(e) ==
    /\ missing' = missing \union {e.hash, LastLine.hash}
    /\ unwritten' = unwritten + OnContent(e) + OnContent(LastLine)
    /\ lines' = SubSeq(lines, 1, Len(lines) - 1)

\* Text of e reaches the file, which then ends so.  Mode "a" writes on where
\* the file ends, whether a newline is there or not.
Lands(e, end) ==
    /\ tail' = end
    /\ \/ tail = "sealed" /\ end # "torn" /\ Files(e)
       \/ tail = "sealed" /\ end = "torn" /\ StaysOut(e)
       \/ tail = "torn" /\ end # "bare" /\ StaysOut(e)
       \/ tail = "bare" /\ end # "bare" /\ SpoilsLast(e)

WriteLine(t) ==
    /\ At(t, "write")
    /\ Lands(draft[t], "sealed")
    /\ Advances(t)
    /\ UNCHANGED <<tier, lastHash, made, overlapped, marks, counting, draft, held, call, found,
                   faults, calls, leaked>>

\* OSError of open, of the write (a part of the text is in the file) or of
\* close.  A subgraph that is entered has taken its depth step already.
WriteFails(t) ==
    /\ At(t, "write") /\ faults < MaxFaults
    /\ faults' = faults + 1
    /\ \/ StaysOut(draft[t]) /\ UNCHANGED tail
       \/ \E end \in Ends : Lands(draft[t], end)
    /\ leaked' = leaked + (IF call[t].name = "enter" THEN 1 ELSE 0)
    /\ Throws(t, "os")
    /\ UNCHANGED <<tier, lastHash, made, overlapped, marks, counting, draft, held, call, found,
                   calls>>

FindViolation(t) ==
    /\ At(t, "find")
    /\ violations' = violations + 1
    /\ Advances(t)
    /\ UNCHANGED <<tier, ledger, score, charged, forgiven, counting, draft, held, call, found,
                   faults, calls, leaked>>

ReadScore(t) ==
    /\ At(t, "readScore")
    /\ held' = [held EXCEPT ![t] = score]
    /\ Advances(t)
    /\ UNCHANGED <<tier, ledger, marks, counting, draft, call, found, faults, calls, leaked>>

Unfloored(floor, n) == n
AtLeast(floor, n) == IF n < floor THEN floor ELSE n

StoreScore(t) ==
    /\ At(t, "storeScore")
    /\ score' = AtLeast(0, held[t] - Current(t).points)
    /\ charged' = charged + Current(t).points
    /\ forgiven' = (forgiven \/ score # held[t])
    /\ Advances(t)
    /\ UNCHANGED <<tier, ledger, violations, counting, draft, held, call, found, faults, calls, leaked>>

ReadCount(t) ==
    /\ At(t, "read")
    /\ held' = [held EXCEPT ![t] = count[Current(t).of]]
    /\ Advances(t)
    /\ UNCHANGED <<tier, ledger, marks, counting, draft, call, found, faults, calls, leaked>>

Distance(m, n) == IF m < n THEN n - m ELSE m - n

\* lost: what others have stored since the value was read, this store undoes.
StoreCount(t) ==
    /\ At(t, "store")
    /\ LET s == Current(t)
           sum == held[t] + s.by
       IN /\ count' = [count EXCEPT ![s.of] = IF s.floor THEN AtLeast(0, sum) ELSE sum]
          /\ lost' = [lost EXCEPT ![s.of] = @ + Distance(count[s.of], held[t])]
          /\ opened' = [opened EXCEPT ![t] = @ + IF call[t].name = "exit" THEN -1 ELSE 0]
    /\ Advances(t)
    /\ UNCHANGED <<tier, ledger, marks, snapshots, ran, draft, held, call, found, faults, calls, leaked>>

CompareCount(t) ==
    /\ At(t, "compare")
    /\ LET s == Current(t) IN
       Goes(t, (IF count[s.of] > s.limit THEN s.over ELSE s.within) \o Tail(todo[t]))
    /\ UNCHANGED <<tier, ledger, marks, counting, draft, held, call, found, faults, calls, leaked>>

\* The times of a tool's calls in the last minute: any of those recorded.
NoteFrequency(t) ==
    /\ At(t, "frequency")
    /\ \/ Advances(t)
       \/ count[Total] > FrequencyLimit /\ Goes(t, Emit("note") \o Tail(todo[t]))
    /\ UNCHANGED <<tier, ledger, marks, counting, draft, held, call, found, faults, calls, leaked>>

TakeSnapshot(t) ==
    /\ At(t, "snapshot")
    /\ snapshots' = IF snapshots = 10 THEN 10 ELSE snapshots + 1
    /\ Advances(t)
    /\ UNCHANGED <<tier, ledger, marks, count, lost, ran, opened, draft, held, call, found,
                   faults, calls, leaked>>

RaiseException(t) ==
    /\ At(t, "raise")
    /\ Throws(t, Current(t).kind)
    /\ UNCHANGED <<tier, ledger, marks, counting, draft, held, call, found, faults, calls, leaked>>

RunWrapped(t) ==
    /\ At(t, "run")
    /\ ran' = [ran EXCEPT ![Current(t).of] = @ + 1]
    /\ \/ Advances(t) /\ UNCHANGED faults
       \/ Throws(t, "other") /\ faults < MaxFaults /\ faults' = faults + 1
    /\ UNCHANGED <<tier, ledger, marks, count, lost, snapshots, opened, draft, held, call, found,
                   calls, leaked>>

\* A counter that starts anew starts a new count of what it admits.
AssignCount(t) ==
    /\ At(t, "assign")
    /\ LET s == Current(t) IN
       /\ count' = [count EXCEPT ![s.of] = s.value]
       /\ ran' = [ran EXCEPT ![s.of] = IF s.value = 0 THEN 0 ELSE @]
       /\ lost' = [lost EXCEPT ![s.of] = 0]
    /\ Advances(t)
    /\ UNCHANGED <<tier, ledger, marks, snapshots, opened, draft, held, call, found, faults, calls, leaked>>

GiveVerdict(t) ==
    /\ At(t, "verdict")
    /\ IF found[t] THEN Throws(t, "violation") ELSE Advances(t)
    /\ UNCHANGED <<tier, ledger, marks, counting, draft, held, call, found, faults, calls, leaked>>

AdmitOne(t) ==
    /\ At(t, "admit")
    /\ ran' = [ran EXCEPT ![Current(t).of] = @ + 1]
    /\ Advances(t)
    /\ UNCHANGED <<tier, ledger, marks, count, lost, snapshots, opened, draft, held, call, found,
                   faults, calls, leaked>>

\* The caller goes into the subgraph once enter_subgraph has returned.
GoInto(t) ==
    /\ Returned(t) /\ call[t].name = "enter"
    /\ opened' = [opened EXCEPT ![t] = @ + 1]
    /\ call' = [call EXCEPT ![t].name = "entered"]
    /\ UNCHANGED <<tier, ledger, marks, count, lost, snapshots, ran, todo, draft, held, raised, found,
                   faults, calls, leaked>>

Statement(t) ==
    \/ HashEvent(t) \/ LinkEvent(t) \/ WriteLine(t) \/ WriteFails(t)
    \/ FindViolation(t) \/ ReadScore(t) \/ StoreScore(t)
    \/ ReadCount(t) \/ StoreCount(t) \/ CompareCount(t) \/ NoteFrequency(t)
    \/ TakeSnapshot(t) \/ RaiseException(t) \/ RunWrapped(t) \/ GoInto(t)
    \/ AssignCount(t) \/ GiveVerdict(t) \/ AdmitOne(t)

Announcement == [hash |-> 1, prev |-> Genesis, kind |-> "note"]

InitialState(firstLines) ==
    /\ lines = firstLines /\ tail = "sealed" /\ made = Len(firstLines)
    /\ lastHash = IF firstLines = <<>> THEN Genesis ELSE firstLines[1].hash
    /\ score = MaxScore /\ violations = 0
    /\ count = [c \in Counters |-> 0] /\ snapshots = 0
    /\ todo = [t \in Threads |-> <<>>] /\ draft = [t \in Threads |-> Announcement]
    /\ held = [t \in Threads |-> 0]
    /\ call = [t \in Threads |-> [name |-> "none", gate |-> FALSE]]
    /\ raised = [t \in Threads |-> "nothing"] /\ found = [t \in Threads |-> FALSE]
    /\ faults = 0 /\ calls = 0
    /\ overlapped = FALSE /\ missing = {} /\ unwritten = 0
    /\ charged = 0 /\ forgiven = FALSE
    /\ lost = [c \in Counters |-> 0] /\ ran = [c \in Counters |-> 0]
    /\ opened = [t \in Threads |-> 0] /\ leaked = 0

\* __init__ announces the engine.
EngineInit == tier \in 1 .. 4 /\ InitialState(<<Announcement>>)

\* The engine called without a wrapper.
EngineCall(t) ==
    \/ \E hits \in ScanHits : Begin(t, "scan", FALSE, Scan(hits))
    \/ \E untrusted \in BOOLEAN, hits \in ScanHits :
           Begin(t, "isolate", TRUE, IsolateContext(untrusted, hits))
    \/ \E hits \in ScanHits : Begin(t, "memory", TRUE, ProtectMemoryWrite(hits))
    \/ \E private \in 0 .. 2, unlisted \in BOOLEAN :
           Begin(t, "domain", TRUE, CheckDomain(private, unlisted))
    \/ \E dangerous, outside \in BOOLEAN :
           Begin(t, "path", TRUE, CheckPathSafety(dangerous, outside))
    \/ Begin(t, "register", FALSE, RegisterNhi)
    \/ Begin(t, "cp8", FALSE, EmitCp8)
    \/ \E classH \in BOOLEAN : Begin(t, "hear", TRUE, CheckHearGate(classH))
    \/ Begin(t, "rollback", FALSE, RollbackState)

-----------------------------------------------------------------------------
(* Properties *)

\* The tamper-evident chain is a chain as long as no two threads emit at
\* once: each line names the line before it, or an event whose own line is
\* not in the file because its write failed, or because it was written onto
\* a line that an earlier failed write had left unfinished, or lost with
\* its missing newline.  Without a failed write every event has its line.
ChainedUnlessOverlapped ==
    /\ faults = 0 => missing = {}
    /\ ~overlapped =>
           \A i \in 1 .. Len(lines) :
               lines[i].prev \in missing \union {IF i = 1 THEN Genesis ELSE lines[i - 1].hash}

Filed(kind) == Cardinality({i \in 1 .. Len(lines) : lines[i].kind = kind})

\* What the report says agrees with the log: between calls every violation
\* counted is a line of the log, or one that a failed write has cost, at most
\* two for each; and the score has lost what the penalties say, or less when
\* two threads charged at once.
LedgerAgrees ==
    (\A t \in Threads : ~Busy(t)) =>
        /\ violations = Filed("content") + unwritten
        /\ unwritten <= 2 * faults
        /\ score >= MaxScore - charged
        /\ ~forgiven => score = AtLeast(0, MaxScore - charged)

SumOf(f) == MapThenSumSet(LAMBDA x : f[x], DOMAIN f)
Recorded == {c \in Counters : c[1] \in {"same node", "same input", "same task", "same agent"}}

\* The hard ceiling: what is recorded before it runs runs no more often than
\* the ceiling allows, plus what stale stores have moved the counter by; and
\* from tier 2 the same call runs fewer times than the loop threshold.
CeilingHolds ==
    /\ SumOf([c \in Recorded |-> ran[c]]) <= MaxToolCalls + lost[Total]
    /\ tier >= 2 => \A c \in Recorded : ran[c] <= AtLeast(0, MaxIdentical - 1) + lost[c]

\* From tier 3 a gate that has found something does not return.
FailsClosed ==
    \A t \in Threads : tier >= 3 /\ call[t].gate /\ Returned(t) => ~found[t]

\* Between calls the delegation depth is the number of subgraphs being run,
\* plus the steps that calls ended by a failed write never took back.
DepthTracks ==
    (\A t \in Threads : Ready(t)) /\ lost[Depth] = 0
        => count[Depth] = SumOf(opened) + leaked
=============================================================================
