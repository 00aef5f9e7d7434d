-------------------------- MODULE ThreadedAuditLog --------------------------
(***************************************************************************)
(* ImmutableAuditLog of examples/openclaw/gateway/gateway.py, where Flask  *)
(* runs every request in a thread of its own.  append() holds a lock from  *)
(* its first to its last statement; verify_chain() takes none, and reads   *)
(* the file line by line while others write it.                            *)
(***************************************************************************)
EXTENDS Naturals, Sequences

CONSTANTS
    Writers, Readers,   \* threads in append(), threads in verify_chain()
    NoThread,
    MaxEntries, MaxFailures   \* bounds

ASSUME LogAssumption ==
    NoThread \notin Writers /\ MaxEntries \in Nat /\ MaxFailures \in Nat

VARIABLES
    file,       \* complete lines
    half,       \* what follows the last newline: "none", "started" or "junk"
    seq, lastHash,      \* of the process
    holder,     \* of _lock
    step,       \* of each writer
    draft,      \* of each writer: the entry it appends
    verdict,    \* of each reader: "idle", "reading", or what it returned
    place,      \* of each reader: lines read
    serving,
    failures,
    made,       \* history: entries hashed so far
    acked,      \* history: entries append() returned the hash of
    due,        \* history: of each reader, entries acked when it began
    met,        \* history: of each reader, whether a write was under way meanwhile
    spoilt      \* history: a line was left half written, or written and not acknowledged

writing == <<seq, lastHash, holder, step, draft>>
reading == <<verdict, place, due, met>>
logVars == <<file, half, writing, reading, serving, failures, made, acked, spoilt>>

Genesis == 0
Hashes == 1 .. MaxEntries       \* one per entry made: HMACs do not collide

\* A line that does not parse is junk whatever is in it.
LogEntry == [hash : Hashes, prev : Hashes \union {Genesis}, seq : Nat]
Junk == [hash |-> Genesis, prev |-> Genesis, seq |-> 0]

LogTypeOK ==
    /\ file \in Seq(LogEntry \union {Junk}) /\ half \in {"none", "started", "junk"}
    /\ seq \in Nat /\ lastHash \in Hashes \union {Genesis}
    /\ holder \in Writers \union {NoThread}
    /\ step \in [Writers -> {"out", "hashed", "started", "written"}]
    /\ draft \in [Writers -> LogEntry \union {Junk}]
    /\ \A w \in Writers : step[w] # "out" => holder = w /\ draft[w] \in LogEntry
    /\ verdict \in [Readers -> {"idle", "reading", "ok", "break", "error"}]
    /\ place \in [Readers -> 0 .. MaxEntries]
    /\ serving \in BOOLEAN /\ failures \in 0 .. MaxFailures
    /\ made \in 0 .. MaxEntries
    /\ acked \subseteq Hashes /\ due \in [Readers -> SUBSET Hashes]
    /\ met \in [Readers -> BOOLEAN] /\ spoilt \in BOOLEAN

-----------------------------------------------------------------------------
(* append() *)

\* A writer that does not wait for the lock.
LockIgnored(w) == holder' = w
TakesLock(w) == holder = NoThread /\ holder' = w

BeginAppend(w) ==
    /\ serving /\ step[w] = "out" /\ made < MaxEntries
    /\ TakesLock(w)
    /\ seq' = seq + 1
    /\ made' = made + 1
    /\ draft' = [draft EXCEPT ![w] = [hash |-> made', prev |-> lastHash, seq |-> seq']]
    /\ step' = [step EXCEPT ![w] = "hashed"]
    /\ met' = [r \in Readers |-> TRUE]
    /\ UNCHANGED <<file, half, lastHash, verdict, place, due, serving, failures, acked, spoilt>>

\* The first bytes of the line are in the file, behind whatever a failed
\* write left there.
StartLine(w) ==
    /\ step[w] = "hashed"
    /\ half' = IF half = "none" THEN "started" ELSE "junk"
    /\ step' = [step EXCEPT ![w] = "started"]
    /\ UNCHANGED <<file, seq, lastHash, holder, draft, reading, serving, failures, made, acked, spoilt>>

FinishLine(w) ==
    /\ step[w] = "started"
    /\ file' = Append(file, IF half = "junk" THEN Junk ELSE draft[w])
    /\ half' = "none"
    /\ step' = [step EXCEPT ![w] = "written"]
    /\ UNCHANGED <<seq, lastHash, holder, draft, reading, serving, failures, made, acked, spoilt>>

\* fsync succeeded.
EndAppend(w) ==
    /\ step[w] = "written"
    /\ lastHash' = draft[w].hash
    /\ acked' = acked \union {draft[w].hash}
    /\ holder' = NoThread
    /\ step' = [step EXCEPT ![w] = "out"]
    /\ UNCHANGED <<file, half, seq, draft, reading, serving, failures, made, spoilt>>

\* mkdir, open, write or fsync raises; the with statement releases the lock.
LogAppendRaises(w) ==
    /\ step[w] # "out" /\ failures < MaxFailures
    /\ failures' = failures + 1
    /\ half' = IF half = "started" THEN "junk" ELSE half
    /\ spoilt' = (spoilt \/ step[w] # "hashed")
    /\ holder' = NoThread
    /\ step' = [step EXCEPT ![w] = "out"]
    /\ UNCHANGED <<file, seq, lastHash, draft, reading, serving, made, acked>>

-----------------------------------------------------------------------------
(* verify_chain() *)

BeginVerify(r) ==
    /\ serving /\ verdict[r] # "reading"
    /\ verdict' = [verdict EXCEPT ![r] = "reading"]
    /\ place' = [place EXCEPT ![r] = 0]
    /\ due' = [due EXCEPT ![r] = acked]
    /\ met' = [met EXCEPT ![r] = \E w \in Writers : step[w] # "out"]
    /\ UNCHANGED <<file, half, writing, serving, failures, made, acked, spoilt>>

HashAt(n) == IF n = 0 THEN Genesis ELSE file[n].hash

\* The next line is read: the loop goes on only if it parses and chains.
ReadLine(r) ==
    /\ verdict[r] = "reading" /\ place[r] < Len(file)
    /\ LET line == file[place[r] + 1] IN
       IF line = Junk THEN verdict' = [verdict EXCEPT ![r] = "error"] /\ UNCHANGED place
       ELSE IF line.prev # HashAt(place[r])
            THEN verdict' = [verdict EXCEPT ![r] = "break"] /\ UNCHANGED place
       ELSE place' = [place EXCEPT ![r] = @ + 1] /\ UNCHANGED verdict
    /\ UNCHANGED <<file, half, writing, due, met, serving, failures, made, acked, spoilt>>

\* What follows the last newline does not parse, or is all of a line but its
\* newline: that of the writer at work, or one that some writer left.
HalfLines ==
    CASE half = "none" -> {}
      [] half = "started" -> {draft[w] : w \in {v \in Writers : step[v] = "started"}}
      [] half = "junk" -> {draft[w] : w \in Writers} \ {Junk}

\* At the end of the file; a line without its newline is one like the others.
ReadEnd(r) ==
    /\ verdict[r] = "reading" /\ place[r] = Len(file)
    /\ \E found \in (IF half = "none" THEN {"ok"} ELSE {"error"})
                     \cup {IF line.prev = HashAt(Len(file)) THEN "ok" ELSE "break" : line \in HalfLines} :
           verdict' = [verdict EXCEPT ![r] = found]
    /\ UNCHANGED <<file, half, writing, place, due, met, serving, failures, made, acked, spoilt>>

-----------------------------------------------------------------------------
(* The process *)

LogCrash ==
    /\ serving /\ failures < MaxFailures
    /\ failures' = failures + 1
    /\ serving' = FALSE
    /\ half' = IF half = "started" THEN "junk" ELSE half
    /\ spoilt' = (spoilt \/ half = "started")
    /\ step' = [w \in Writers |-> "out"]
    /\ holder' = NoThread
    /\ verdict' = [r \in Readers |-> "idle"]
    /\ UNCHANGED <<file, seq, lastHash, draft, place, due, met, made, acked>>

\* A process that does not look at the file it finds.
LoadedNone == 0

\* _load_chain_state: the last line before the first that does not parse.
Loaded ==
    CHOOSE n \in 0 .. Len(file) :
        /\ \A i \in 1 .. n : file[i] # Junk
        /\ n = Len(file) \/ file[n + 1] = Junk

\* The line the log goes on from; behind the whole lines, one without its newline
\* may be it.
LastLoaded ==
    {IF Loaded = 0 THEN Junk ELSE file[Loaded]}
        \cup {line \in HalfLines : Loaded = Len(file)}

LogStart ==
    /\ ~serving
    /\ serving' = TRUE
    /\ \E last \in LastLoaded : lastHash' = last.hash /\ seq' = last.seq
    /\ UNCHANGED <<file, half, holder, step, draft, reading, failures, made, acked, spoilt>>

LogInit ==
    /\ file = <<>> /\ half = "none"
    /\ seq = 0 /\ lastHash = Genesis /\ holder = NoThread
    /\ step = [w \in Writers |-> "out"] /\ draft = [w \in Writers |-> Junk]
    /\ verdict = [r \in Readers |-> "idle"] /\ place = [r \in Readers |-> 0]
    /\ serving = TRUE /\ failures = 0
    /\ made = 0 /\ acked = {}
    /\ due = [r \in Readers |-> {}] /\ met = [r \in Readers |-> FALSE] /\ spoilt = FALSE

LogNext ==
    \/ \E w \in Writers :
           BeginAppend(w) \/ StartLine(w) \/ FinishLine(w) \/ EndAppend(w) \/ LogAppendRaises(w)
    \/ \E r \in Readers : BeginVerify(r) \/ ReadLine(r) \/ ReadEnd(r)
    \/ LogCrash
    \/ LogStart

LogSpec == LogInit /\ [][LogNext]_logVars

-----------------------------------------------------------------------------
(* Properties *)

\* What a verdict of verify_chain is worth while threads append: "ok" covers
\* all that was acknowledged when it began; a chain break is reported only
\* after a write that failed or was cut short; a file that cannot be parsed,
\* only after one, or when a line was being written meanwhile.
VerdictSound ==
    \A r \in Readers :
        /\ verdict[r] = "ok" =>
               \A h \in due[r] : \E i \in 1 .. place[r] : file[i].hash = h
        /\ verdict[r] = "break" => spoilt
        /\ verdict[r] = "error" => spoilt \/ met[r]

\* The lines a reader of the quiescent file accepts.
AcceptedLen ==
    CHOOSE n \in 0 .. Len(file) :
        /\ \A i \in 1 .. n : file[i] # Junk /\ file[i].prev = HashAt(i - 1)
        /\ n = Len(file) \/ file[n + 1] = Junk \/ file[n + 1].prev # HashAt(n)

\* Until a write fails half-way the chain is whole: every line chains, the lines'
\* numbers grow, and what was acknowledged is in the file.  The numbers count from
\* 1, but for those of appends that raised with their number taken (line 330): no
\* more are left out than failures there were.
WholeUntilSpoilt ==
    ~spoilt =>
        /\ AcceptedLen = Len(file)
        /\ \A i \in 1 .. Len(file) : i > 1 => file[i].seq > file[i - 1].seq
        /\ \A i \in 1 .. Len(file) : file[i].seq \in i .. i + failures
        /\ \A h \in acked : \E i \in 1 .. Len(file) : file[i].hash = h
=============================================================================
