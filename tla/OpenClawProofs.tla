--------------------------- MODULE OpenClawProofs ---------------------------
(***************************************************************************)
(* Proofs about OpenClaw, for any requests, threads, intervals and bounds. *)
(* First what its threads share.  ThreadedAuditLog: what a verification    *)
(* under way may tell.  ThreadedLimiter: how far apart the requests are    *)
(* that the limiter grants, and when it refuses.  HitlGate, as the core    *)
(* gateway has it, and ThreadedHitl, as OpenClaw has: a credential         *)
(* approves once, whom and what it was issued for; asking again never      *)
(* raises the tier, and the tier of a request never falls behind what it   *)
(* would be now; the history survives restarts.                            *)
(* Then OpenClaw itself: the lines of its log and the promise of           *)
(* GovernedProxy, when a lost heartbeat is noticed, and that the process   *)
(* does not revive one; and that the parts of the gateway, taken together, *)
(* keep what each promises.                                                *)
(***************************************************************************)
EXTENDS MCOpenClaw, SequenceTheorems, WellFoundedInduction, TLAPS

-----------------------------------------------------------------------------
(* The audit log under threads *)

SeqAt(n) == IF n = 0 THEN 0 ELSE file[n].seq

Drafting(w) == step[w] \in {"hashed", "started"}

\* An entry is in the file, or some line swallowed others.
Filed(h) == \E i \in 1 .. Len(file) : file[i].hash = h
Swallowed == \E i \in 1 .. Len(file) : file[i] = Junk

\* A writer works in a process that serves; what follows the last newline is
\* the line a writer has started, or is left from a write that failed.
HalfInv ==
    /\ \A w \in Writers : step[w] # "out" => serving
    /\ half = "junk" => spoilt
    /\ half = "started" => \E w \in Writers : step[w] = "started"
    /\ \A w \in Writers : step[w] = "started" => half # "none"

\* There is a line for every entry made, at most.
MadeInv ==
    /\ Len(file) <= made
    /\ \A w \in Writers : Drafting(w) => Len(file) < made

\* Until then, the file chains, its numbers grow,
WholeInv ==
    ~spoilt => \A i \in 1 .. Len(file) :
        /\ file[i] # Junk /\ file[i].prev = HashAt(i - 1)
        /\ SeqAt(i - 1) < file[i].seq

\* the writer and the fields in memory are where the file ends,
TailInv ==
    ~spoilt =>
        /\ \A w \in Writers : Drafting(w) =>
               /\ draft[w].prev = HashAt(Len(file))
               /\ SeqAt(Len(file)) < draft[w].seq
        /\ \A w \in Writers : step[w] = "written" => Len(file) > 0 /\ file[Len(file)] = draft[w]
        /\ \A w \in Writers : step[w] # "out" => draft[w].seq <= seq
        /\ serving => SeqAt(Len(file)) <= seq
        /\ serving /\ (\A w \in Writers : step[w] # "written") => lastHash = HashAt(Len(file))

\* and no more numbers are left out than appends have raised.
NumberInv ==
    ~spoilt =>
        /\ \A i \in 1 .. Len(file) : i <= file[i].seq /\ file[i].seq <= i + failures
        /\ \A w \in Writers : Drafting(w) => draft[w].seq <= (Len(file) + 1) + failures
        /\ serving => seq <= (Len(file) + 1) + failures
        /\ serving /\ (\A w \in Writers : ~Drafting(w)) => seq <= Len(file) + failures

\* What is acknowledged is filed, unless a line was swallowed.
KeptInv ==
    /\ \A w \in Writers : step[w] = "written" => Filed(draft[w].hash) \/ Swallowed
    /\ \A h \in acked : Filed(h) \/ Swallowed
    /\ \A r \in Readers : \A h \in due[r] : Filed(h) \/ Swallowed

\* What a reader has read so far parses, and it has met whoever writes.
ReadInv ==
    \A r \in Readers :
        /\ verdict[r] \in {"reading", "ok"} =>
               place[r] <= Len(file) /\ \A i \in 1 .. place[r] : file[i] # Junk
        /\ verdict[r] = "reading" /\ (\E w \in Writers : step[w] # "out") => met[r]

LogInv ==
    /\ LogTypeOK /\ HalfInv /\ MadeInv
    /\ WholeInv /\ TailInv /\ NumberInv
    /\ KeptInv /\ ReadInv /\ VerdictSound

-----------------------------------------------------------------------------
(* The operators *)

\* The longest prefix of 1 .. n that misses T.
LEMMA LongestPrefix ==
    ASSUME NEW n \in Nat, NEW T \in SUBSET (1 .. n)
    PROVE  \E k \in 0 .. n : (\A i \in 1 .. k : i \notin T) /\ (k = n \/ k + 1 \in T)
<1>1. CASE T = {}
  <2>1. n \in 0 .. n /\ \A i \in 1 .. n : i \notin T
    BY <1>1
  <2> QED
    BY <2>1
<1>2. CASE T # {}
  <2>1. T \subseteq Nat
    OBVIOUS
  <2>2. PICK m \in T : \A y \in T : ~(<<y, m>> \in OpToRel(<, Nat))
    BY <1>2, <2>1, WFMin, NatLessThanWellFounded
  <2>3. \A y \in T : ~(y < m)
    BY <2>1, <2>2, Zenon DEF OpToRel
  <2>4. \A i \in 1 .. m - 1 : i \notin T
    BY <2>1, <2>3
  <2>5. m - 1 \in 0 .. n /\ (m - 1) + 1 = m
    BY <2>1
  <2> QED
    BY <2>4, <2>5
<1> QED
  BY <1>1, <1>2

Line == LogEntry \union {Junk}

LEMMA LineType ==
    ASSUME NEW l \in Line
    PROVE  /\ l.hash \in Hashes \union {Genesis} /\ l.prev \in Hashes \union {Genesis} /\ l.seq \in Nat
           /\ l # Junk => l \in LogEntry
BY DEF Line, LogEntry, Junk, Genesis

LEMMA FileFacts ==
    ASSUME file \in Seq(Line)
    PROVE  /\ Len(file) \in Nat
           /\ \A i \in 1 .. Len(file) : file[i] \in Line
           /\ \A n \in 0 .. Len(file) : HashAt(n) \in Hashes \union {Genesis} /\ SeqAt(n) \in Nat
<1>1. Len(file) \in Nat /\ \A i \in 1 .. Len(file) : file[i] \in Line
  BY LenProperties, ElementOfSeq
<1>2. ASSUME NEW n \in 0 .. Len(file)
      PROVE  HashAt(n) \in Hashes \union {Genesis} /\ SeqAt(n) \in Nat
  <2>1. CASE n = 0
    BY <2>1 DEF HashAt, SeqAt
  <2>2. CASE n # 0
    <3>1. file[n] \in Line
      BY <1>1, <1>2, <2>2
    <3> QED
      BY <2>2, <3>1, LineType DEF HashAt, SeqAt
  <2> QED
    BY <2>1, <2>2
<1> QED
  BY <1>1, <1>2

LEMMA LoadedIs ==
    ASSUME file \in Seq(Line)
    PROVE  /\ Loaded \in 0 .. Len(file)
           /\ \A i \in 1 .. Loaded : file[i] # Junk
           /\ Loaded = Len(file) \/ file[Loaded + 1] = Junk
<1> DEFINE T == {i \in 1 .. Len(file) : file[i] = Junk}
<1>1. Len(file) \in Nat
  BY FileFacts
<1>2. \E n \in 0 .. Len(file) : (\A i \in 1 .. n : i \notin T) /\ (n = Len(file) \/ n + 1 \in T)
  <2>1. T \in SUBSET (1 .. Len(file))
    OBVIOUS
  <2> HIDE DEF T
  <2> QED
    BY <1>1, <2>1, LongestPrefix
<1>3. \E n \in 0 .. Len(file) :
          /\ \A i \in 1 .. n : file[i] # Junk
          /\ n = Len(file) \/ file[n + 1] = Junk
  BY <1>1, <1>2
<1> HIDE DEF T
<1> QED
  BY <1>3 DEF Loaded

\* A file that chains is accepted to its end.
LEMMA AcceptedWhole ==
    ASSUME file \in Seq(Line),
           \A i \in 1 .. Len(file) : file[i] # Junk /\ file[i].prev = HashAt(i - 1)
    PROVE  AcceptedLen = Len(file)
<1>1. Len(file) \in Nat
  BY FileFacts
<1> DEFINE P(n) == /\ \A i \in 1 .. n : file[i] # Junk /\ file[i].prev = HashAt(i - 1)
                   /\ n = Len(file) \/ file[n + 1] = Junk \/ file[n + 1].prev # HashAt(n)
<1>2. Len(file) \in 0 .. Len(file) /\ P(Len(file))
  BY <1>1
<1>3. ASSUME NEW n \in 0 .. Len(file), P(n) PROVE n = Len(file)
  <2> SUFFICES ASSUME n # Len(file) PROVE FALSE
    OBVIOUS
  <2>1. n + 1 \in 1 .. Len(file) /\ (n + 1) - 1 = n
    BY <1>1
  <2> QED
    BY <1>3, <2>1
<1> HIDE DEF P
<1>4. AcceptedLen = CHOOSE n \in 0 .. Len(file) : P(n)
  BY DEF AcceptedLen, P
<1> QED
  BY <1>2, <1>3, <1>4

\* A file that grows by one line.
LEMMA Grown ==
    ASSUME file \in Seq(Line), NEW l \in Line, file' = Append(file, l)
    PROVE  /\ file' \in Seq(Line) /\ Len(file') = Len(file) + 1 /\ Len(file) \in Nat
           /\ file'[Len(file) + 1] = l
           /\ \A i \in 1 .. Len(file) : file'[i] = file[i]
           /\ \A n \in 0 .. Len(file) : HashAt(n)' = HashAt(n) /\ SeqAt(n)' = SeqAt(n)
<1>1. /\ file' \in Seq(Line) /\ Len(file') = Len(file) + 1 /\ Len(file) \in Nat
      /\ file'[Len(file) + 1] = l
      /\ \A i \in 1 .. Len(file) : file'[i] = file[i]
  BY AppendProperties, LenProperties
<1>2. ASSUME NEW n \in 0 .. Len(file)
      PROVE  HashAt(n)' = HashAt(n) /\ SeqAt(n)' = SeqAt(n)
  <2>1. n = 0 \/ n \in 1 .. Len(file)
    BY <1>1
  <2> QED
    BY <1>1, <2>1 DEF HashAt, SeqAt
<1> QED
  BY <1>1, <1>2

-----------------------------------------------------------------------------
(* One conjunct at a time *)

WriterStep(w) == BeginAppend(w) \/ StartLine(w) \/ FinishLine(w) \/ EndAppend(w) \/ LogAppendRaises(w)
ReaderStep(r) == BeginVerify(r) \/ ReadLine(r) \/ ReadEnd(r)

\* Readers leave everything else alone.
LEMMA ReaderFrame ==
    ASSUME NEW r \in Readers, ReaderStep(r)
    PROVE  UNCHANGED <<file, half, writing, serving, failures, made, acked, spoilt>>
BY DEF ReaderStep, BeginVerify, ReadLine, ReadEnd, writing

\* The three ways a line is read.
LEMMA LineRead ==
    ASSUME NEW r \in Readers, ReadLine(r)
    PROVE  /\ verdict[r] = "reading" /\ place[r] < Len(file) /\ UNCHANGED <<due, met>>
           /\ \/ /\ file[place[r] + 1] = Junk
                 /\ verdict' = [verdict EXCEPT ![r] = "error"] /\ place' = place
              \/ /\ file[place[r] + 1] # Junk /\ file[place[r] + 1].prev # HashAt(place[r])
                 /\ verdict' = [verdict EXCEPT ![r] = "break"] /\ place' = place
              \/ /\ file[place[r] + 1] # Junk
                 /\ place' = [place EXCEPT ![r] = place[r] + 1] /\ verdict' = verdict
BY Zenon DEF ReadLine

LEMMA HalfLinesAre ==
    ASSUME half \in {"none", "started", "junk"}, NEW line \in HalfLines
    PROVE  \E w \in Writers : line = draft[w] /\ (half = "junk" \/ step[w] = "started")
<1>1. CASE half = "none"
  <2>1. HalfLines = {}
    BY <1>1 DEF HalfLines
  <2> QED
    BY <2>1
<1>2. CASE half = "started"
  <2>1. HalfLines = {draft[w] : w \in {v \in Writers : step[v] = "started"}}
    BY <1>2, Zenon DEF HalfLines
  <2> QED
    BY <2>1
<1>3. CASE half = "junk"
  <2>1. HalfLines = {draft[w] : w \in Writers} \ {Junk}
    BY <1>3, Zenon DEF HalfLines
  <2> QED
    BY <1>3, <2>1
<1> QED
  BY <1>1, <1>2, <1>3

\* The line a process goes on from is one of those in the file or one that some
\* writer drafted; until a write fails half-way it is the last one in the file.
LEMMA LastLoadedType ==
    ASSUME LogTypeOK, NEW last \in LastLoaded
    PROVE  last.hash \in Hashes \union {Genesis} /\ last.seq \in Nat
<1>0. file \in Seq(Line)
  BY DEF LogTypeOK, Line
<1>1. HalfLines \subseteq Line
  <2>1. \A w \in Writers : draft[w] \in Line
    <3>1. draft \in [Writers -> Line]
      BY Zenon DEF LogTypeOK, Line
    <3> QED
      BY <3>1
  <2>2. half \in {"none", "started", "junk"}
    BY DEF LogTypeOK
  <2> QED
    BY <2>1, <2>2, HalfLinesAre
<1>2. Junk \in Line
  BY DEF Line
<1>3. Loaded # 0 => file[Loaded] \in Line
  <2>1. Loaded \in 0 .. Len(file) /\ Len(file) \in Nat /\ \A i \in 1 .. Len(file) : file[i] \in Line
    BY <1>0, LoadedIs, FileFacts
  <2> QED
    BY <2>1
<1>4. last \in Line
  BY <1>1, <1>2, <1>3 DEF LastLoaded
<1> QED
  BY <1>4, LineType

LEMMA StartsAtLast ==
    ASSUME LogTypeOK, HalfInv, WholeInv, LogStart, ~spoilt
    PROVE  lastHash' = HashAt(Len(file)) /\ seq' = SeqAt(Len(file))
<1>0. file \in Seq(Line) /\ Len(file) \in Nat
  BY FileFacts DEF LogTypeOK, Line
<1>1. Loaded = Len(file)
  <2>1. Loaded \in 0 .. Len(file) /\ (Loaded = Len(file) \/ file[Loaded + 1] = Junk)
    BY <1>0, LoadedIs
  <2>2. \A i \in 1 .. Len(file) : file[i] # Junk
    BY DEF WholeInv
  <2> QED
    BY <1>0, <2>1, <2>2
<1>2. half = "none"
  BY DEF LogStart, HalfInv, LogTypeOK
<1>3. HalfLines = {}
  BY <1>2 DEF HalfLines
<1>4. LastLoaded = {IF Len(file) = 0 THEN Junk ELSE file[Len(file)]}
  BY <1>1, <1>3 DEF LastLoaded
<1>5. Junk.hash = Genesis /\ Junk.seq = 0
  BY DEF Junk
<1>6. PICK last \in LastLoaded : lastHash' = last.hash /\ seq' = last.seq
  BY DEF LogStart
<1> QED
  BY <1>4, <1>5, <1>6 DEF HashAt, SeqAt

LEMMA LogTypesStep ==
    ASSUME LogTypeOK, MadeInv, LogNext
    PROVE  LogTypeOK'
<1> USE LogAssumption
<1>0. file \in Seq(Line) /\ made \in 0 .. MaxEntries
  BY DEF LogTypeOK, Line
<1>f. Len(file) \in Nat /\ Len(file) <= MaxEntries
  BY <1>0, FileFacts DEF MadeInv
<1>1. ASSUME NEW w \in Writers, BeginAppend(w) PROVE LogTypeOK'
  <2>1. made' \in Hashes /\ seq' \in Nat /\ seq' = seq + 1
    BY <1>1 DEF BeginAppend, LogTypeOK, Hashes
  <2>2. [hash |-> made', prev |-> lastHash, seq |-> seq'] \in LogEntry
    BY <2>1 DEF LogTypeOK, LogEntry
  <2>3. \A v \in Writers : step'[v] # "out" => holder' = v /\ draft'[v] \in LogEntry
    <3> SUFFICES ASSUME NEW v \in Writers, step'[v] # "out"
                 PROVE  holder' = v /\ draft'[v] \in LogEntry
      OBVIOUS
    <3>1. CASE v = w
      BY <1>1, <2>2, <3>1 DEF BeginAppend, TakesLock, LogTypeOK
    <3>2. CASE v # w
      BY <1>1, <3>2 DEF BeginAppend, TakesLock, LogTypeOK
    <3> QED
      BY <3>1, <3>2
  <2> QED
    BY <1>1, <2>1, <2>3 DEF BeginAppend, TakesLock, LogTypeOK, Hashes
<1>2. ASSUME NEW w \in Writers, StartLine(w) PROVE LogTypeOK'
  BY <1>2 DEF StartLine, reading, LogTypeOK
<1>3. ASSUME NEW w \in Writers, FinishLine(w) PROVE LogTypeOK'
  <2>1. file' \in Seq(LogEntry \union {Junk})
    <3>1. (IF half = "junk" THEN Junk ELSE draft[w]) \in Line
      BY <1>3 DEF FinishLine, LogTypeOK, Line
    <3> QED
      BY <1>0, <1>3, <3>1, Grown DEF FinishLine, Line
  <2> QED
    BY <1>3, <2>1 DEF FinishLine, reading, LogTypeOK
<1>4. ASSUME NEW w \in Writers, EndAppend(w) PROVE LogTypeOK'
  <2>1. draft[w].hash \in Hashes
    BY <1>4 DEF EndAppend, LogTypeOK, LogEntry
  <2> QED
    BY <1>4, <2>1 DEF EndAppend, reading, LogTypeOK
<1>5. ASSUME NEW w \in Writers, LogAppendRaises(w) PROVE LogTypeOK'
  BY <1>5 DEF LogAppendRaises, reading, LogTypeOK
<1>6. ASSUME NEW r \in Readers, ReaderStep(r) PROVE LogTypeOK'
  <2>1. UNCHANGED <<file, half, writing, serving, failures, made, acked, spoilt>>
    BY <1>6, ReaderFrame
  <2>2. /\ verdict' \in [Readers -> {"idle", "reading", "ok", "break", "error"}]
        /\ place' \in [Readers -> 0 .. MaxEntries]
        /\ due' \in [Readers -> SUBSET Hashes] /\ met' \in [Readers -> BOOLEAN]
    <3>1. CASE BeginVerify(r)
      BY <3>1 DEF BeginVerify, LogTypeOK
    <3>2. CASE ReadLine(r)
      <4>1. place[r] + 1 \in 0 .. MaxEntries
        BY <1>f, <3>2, LineRead DEF LogTypeOK
      <4> QED
        BY <3>2, <4>1, LineRead DEF LogTypeOK
    <3>3. CASE ReadEnd(r)
      BY <3>3 DEF ReadEnd, LogTypeOK
    <3> QED
      BY <1>6, <3>1, <3>2, <3>3 DEF ReaderStep
  <2> QED
    BY <2>1, <2>2 DEF LogTypeOK, writing
<1>7. CASE LogCrash
  <2>1. spoilt' \in BOOLEAN /\ serving' \in BOOLEAN
    BY <1>7 DEF LogCrash, LogTypeOK
  <2>2. half' \in {"none", "started", "junk"} /\ failures' \in 0 .. MaxFailures
    BY <1>7 DEF LogCrash, LogTypeOK
  <2>3. /\ step' \in [Writers -> {"out", "hashed", "started", "written"}]
        /\ \A w \in Writers : step'[w] = "out"
        /\ verdict' \in [Readers -> {"idle", "reading", "ok", "break", "error"}]
    BY <1>7 DEF LogCrash
  <2> QED
    BY <1>7, <2>1, <2>2, <2>3 DEF LogCrash, LogTypeOK
<1>8. CASE LogStart
  <2>1. lastHash' \in Hashes \union {Genesis} /\ seq' \in Nat
    <3>1. PICK last \in LastLoaded : lastHash' = last.hash /\ seq' = last.seq
      BY <1>8 DEF LogStart
    <3> QED
      BY <3>1, LastLoadedType
  <2> QED
    BY <1>8, <2>1 DEF LogStart, reading, LogTypeOK
<1> QED
  BY <1>1, <1>2, <1>3, <1>4, <1>5, <1>6, <1>7, <1>8 DEF LogNext, ReaderStep

LEMMA HalfStep ==
    ASSUME LogTypeOK, HalfInv, LogNext
    PROVE  HalfInv'
<1> USE LogAssumption DEF LogTypeOK, HalfInv
<1>1. ASSUME NEW w \in Writers, BeginAppend(w) PROVE HalfInv'
  BY <1>1 DEF BeginAppend, TakesLock
<1>2. ASSUME NEW w \in Writers, StartLine(w) PROVE HalfInv'
  BY <1>2 DEF StartLine
<1>3. ASSUME NEW w \in Writers, FinishLine(w) PROVE HalfInv'
  BY <1>3 DEF FinishLine
<1>4. ASSUME NEW w \in Writers, EndAppend(w) PROVE HalfInv'
  BY <1>4 DEF EndAppend
<1>5. ASSUME NEW w \in Writers, LogAppendRaises(w) PROVE HalfInv'
  BY <1>5 DEF LogAppendRaises
<1>6. ASSUME NEW r \in Readers, ReaderStep(r) PROVE HalfInv'
  BY <1>6, ReaderFrame DEF writing
<1>7. CASE LogCrash
  BY <1>7 DEF LogCrash
<1>8. CASE LogStart
  BY <1>8 DEF LogStart
<1> QED
  BY <1>1, <1>2, <1>3, <1>4, <1>5, <1>6, <1>7, <1>8 DEF LogNext, ReaderStep

LEMMA MadeStep ==
    ASSUME LogTypeOK, MadeInv, LogNext
    PROVE  MadeInv'
<1> USE LogAssumption DEF MadeInv, Drafting
<1>0. file \in Seq(Line) /\ Len(file) \in Nat /\ made \in Nat
  BY FileFacts DEF LogTypeOK, Line
<1>1. ASSUME NEW w \in Writers, BeginAppend(w) PROVE MadeInv'
  BY <1>0, <1>1 DEF BeginAppend, LogTypeOK
<1>2. ASSUME NEW w \in Writers, StartLine(w) PROVE MadeInv'
  BY <1>2 DEF StartLine, LogTypeOK
<1>3. ASSUME NEW w \in Writers, FinishLine(w) PROVE MadeInv'
  <2>1. Len(file') = Len(file) + 1
    <3>1. (IF half = "junk" THEN Junk ELSE draft[w]) \in Line
      BY <1>3 DEF FinishLine, LogTypeOK, Line
    <3> QED
      BY <1>0, <1>3, <3>1, Grown DEF FinishLine
  <2>2. \A v \in Writers : step'[v] \notin {"hashed", "started"}
    BY <1>3 DEF FinishLine, LogTypeOK
  <2>3. Len(file) < made /\ made' = made
    BY <1>3 DEF FinishLine
  <2> QED
    BY <1>0, <2>1, <2>2, <2>3
<1>4. ASSUME NEW w \in Writers, EndAppend(w) PROVE MadeInv'
  BY <1>4 DEF EndAppend, LogTypeOK
<1>5. ASSUME NEW w \in Writers, LogAppendRaises(w) PROVE MadeInv'
  BY <1>5 DEF LogAppendRaises, LogTypeOK
<1>6. ASSUME NEW r \in Readers, ReaderStep(r) PROVE MadeInv'
  BY <1>6, ReaderFrame DEF writing
<1>7. CASE LogCrash
  BY <1>7 DEF LogCrash, LogTypeOK
<1>8. CASE LogStart
  BY <1>8 DEF LogStart
<1> QED
  BY <1>1, <1>2, <1>3, <1>4, <1>5, <1>6, <1>7, <1>8 DEF LogNext, ReaderStep

LEMMA WholeStep ==
    ASSUME LogTypeOK, HalfInv, WholeInv, TailInv, LogNext
    PROVE  WholeInv'
<1>0. file \in Seq(Line) /\ Len(file) \in Nat
  BY FileFacts DEF LogTypeOK, Line
<1>1. CASE UNCHANGED file /\ (spoilt => spoilt')
  BY <1>1 DEF WholeInv, HashAt, SeqAt
<1>2. ASSUME NEW w \in Writers, FinishLine(w) PROVE WholeInv'
  <2> SUFFICES ASSUME ~spoilt PROVE WholeInv'
    BY <1>2 DEF FinishLine, WholeInv
  <2>1. /\ step[w] = "started" /\ half # "junk"
        /\ draft[w] \in LogEntry /\ file' = Append(file, draft[w])
    BY <1>2 DEF FinishLine, HalfInv, LogTypeOK
  <2>2. draft[w] \in Line
    BY <2>1 DEF Line
  <2>3. draft[w] # Junk
    BY <2>1 DEF LogEntry, Junk, Hashes, Genesis
  <2>4. draft[w].prev = HashAt(Len(file)) /\ SeqAt(Len(file)) < draft[w].seq
    BY <2>1 DEF TailInv, Drafting
  <2> SUFFICES ASSUME NEW i \in 1 .. Len(file')
               PROVE  /\ file'[i] # Junk /\ file'[i].prev = HashAt(i - 1)'
                      /\ SeqAt(i - 1)' < file'[i].seq
    BY DEF WholeInv
  <2>5. CASE i = Len(file) + 1
    <3>1. i - 1 = Len(file) /\ Len(file) \in 0 .. Len(file)
      BY <1>0, <2>5
    <3>2. file'[i] = draft[w] /\ HashAt(i - 1)' = HashAt(i - 1) /\ SeqAt(i - 1)' = SeqAt(i - 1)
      BY <1>0, <2>1, <2>2, <2>5, <3>1, Grown
    <3> QED
      BY <2>3, <2>4, <3>1, <3>2
  <2>6. CASE i # Len(file) + 1
    <3>1. i \in 1 .. Len(file) /\ i - 1 \in 0 .. Len(file)
      BY <1>0, <2>1, <2>2, <2>6, Grown
    <3>2. file'[i] = file[i] /\ HashAt(i - 1)' = HashAt(i - 1) /\ SeqAt(i - 1)' = SeqAt(i - 1)
      BY <1>0, <2>1, <2>2, <3>1, Grown
    <3>3. file[i] # Junk /\ file[i].prev = HashAt(i - 1) /\ SeqAt(i - 1) < file[i].seq
      BY <3>1 DEF WholeInv
    <3> QED
      BY <3>2, <3>3
  <2> QED
    BY <2>5, <2>6
<1>3. CASE LogStart
  BY <1>1, <1>3 DEF LogStart
<1>4. CASE LogCrash
  BY <1>1, <1>4 DEF LogCrash
<1>5. ASSUME NEW r \in Readers, ReaderStep(r) PROVE WholeInv'
  BY <1>1, <1>5, ReaderFrame
<1>6. ASSUME NEW w \in Writers, BeginAppend(w) \/ StartLine(w) \/ EndAppend(w) \/ LogAppendRaises(w)
      PROVE  WholeInv'
  BY <1>1, <1>6 DEF BeginAppend, StartLine, EndAppend, LogAppendRaises
<1> QED
  BY <1>2, <1>3, <1>4, <1>5, <1>6 DEF LogNext, ReaderStep

LEMMA TailStep ==
    ASSUME LogTypeOK, HalfInv, WholeInv, TailInv, LogNext
    PROVE  TailInv'
<1> USE LogAssumption
<1>0. file \in Seq(Line) /\ Len(file) \in Nat /\ Len(file) \in 0 .. Len(file)
  BY FileFacts DEF LogTypeOK, Line
<1>s. SeqAt(Len(file)) \in Nat /\ seq \in Nat
  BY <1>0, FileFacts DEF LogTypeOK
<1>f. UNCHANGED file => HashAt(Len(file))' = HashAt(Len(file)) /\ SeqAt(Len(file))' = SeqAt(Len(file))
  BY DEF HashAt, SeqAt
<1>1. ASSUME NEW w \in Writers, BeginAppend(w) PROVE TailInv'
  <2> SUFFICES ASSUME ~spoilt PROVE TailInv'
    BY <1>1 DEF BeginAppend, TailInv
  <2>1. \A v \in Writers : step[v] = "out" /\ (v # w => step'[v] = "out")
    BY <1>1 DEF BeginAppend, TakesLock, LogTypeOK
  <2>2. serving /\ lastHash = HashAt(Len(file)) /\ SeqAt(Len(file)) <= seq
    BY <1>1, <2>1 DEF BeginAppend, TailInv
  <2>3. /\ draft'[w] = [hash |-> made', prev |-> lastHash, seq |-> seq'] /\ seq' = seq + 1
        /\ step'[w] = "hashed" /\ UNCHANGED <<file, lastHash>>
    BY <1>1 DEF BeginAppend, LogTypeOK
  <2>4. HashAt(Len(file))' = HashAt(Len(file)) /\ SeqAt(Len(file))' = SeqAt(Len(file))
    BY <1>f, <2>3
  <2>5. draft'[w].prev = lastHash /\ draft'[w].seq = seq + 1
    BY <2>3
  <2> QED
    BY <1>s, <2>1, <2>2, <2>3, <2>4, <2>5 DEF TailInv, Drafting
<1>2. ASSUME NEW w \in Writers, StartLine(w) PROVE TailInv'
  <2>1. UNCHANGED <<file, draft, seq, lastHash, serving, spoilt>>
    BY <1>2 DEF StartLine
  <2>2. \A v \in Writers : /\ Drafting(v)' => Drafting(v)
                           /\ step'[v] = "written" <=> step[v] = "written"
                           /\ step'[v] # "out" => step[v] # "out"
    BY <1>2 DEF StartLine, LogTypeOK, Drafting
  <2> QED
    BY <1>f, <2>1, <2>2 DEF TailInv
<1>3. ASSUME NEW w \in Writers, FinishLine(w) PROVE TailInv'
  <2> SUFFICES ASSUME ~spoilt PROVE TailInv'
    BY <1>3 DEF FinishLine, TailInv
  <2>1. /\ step[w] = "started" /\ half # "junk"
        /\ draft[w] \in LogEntry /\ file' = Append(file, draft[w])
        /\ UNCHANGED <<seq, lastHash, draft, serving, spoilt>>
    BY <1>3 DEF FinishLine, HalfInv, LogTypeOK
  <2>2. draft[w] \in Line
    BY <2>1 DEF Line
  <2>3. Len(file') = Len(file) + 1 /\ file'[Len(file')] = draft[w]
    BY <1>0, <2>1, <2>2, Grown
  <2>4. SeqAt(Len(file))' = draft[w].seq
    BY <1>0, <2>3 DEF SeqAt
  <2>5. \A v \in Writers : step'[v] # "out" => v = w /\ step'[v] = "written"
    BY <1>3 DEF FinishLine, LogTypeOK
  <2>6. draft[w].seq <= seq /\ step'[w] = "written"
    BY <1>3, <2>1 DEF TailInv, FinishLine, LogTypeOK
  <2> QED
    BY <1>0, <2>1, <2>3, <2>4, <2>5, <2>6 DEF TailInv, Drafting
<1>4. ASSUME NEW w \in Writers, EndAppend(w) PROVE TailInv'
  <2> SUFFICES ASSUME ~spoilt PROVE TailInv'
    BY <1>4 DEF EndAppend, TailInv
  <2>1. UNCHANGED <<file, draft, seq, serving, spoilt>> /\ lastHash' = draft[w].hash /\ step[w] = "written"
    BY <1>4 DEF EndAppend
  <2>2. \A v \in Writers : step'[v] = "out"
    BY <1>4 DEF EndAppend, LogTypeOK
  <2>3. lastHash' = HashAt(Len(file))
    BY <1>0, <2>1 DEF TailInv, HashAt
  <2>4. SeqAt(Len(file)) <= seq
    BY <2>1 DEF TailInv, HalfInv
  <2> QED
    BY <1>f, <2>1, <2>2, <2>3, <2>4 DEF TailInv, Drafting
<1>5. ASSUME NEW w \in Writers, LogAppendRaises(w) PROVE TailInv'
  <2> SUFFICES ASSUME ~spoilt, step[w] = "hashed" PROVE TailInv'
    BY <1>5 DEF LogAppendRaises, TailInv
  <2>1. UNCHANGED <<file, seq, lastHash, serving>>
    BY <1>5 DEF LogAppendRaises
  <2>2. \A v \in Writers : step'[v] = "out" /\ step[v] # "written"
    BY <1>5 DEF LogAppendRaises, LogTypeOK
  <2> QED
    BY <1>f, <2>1, <2>2 DEF TailInv, Drafting
<1>6. ASSUME NEW r \in Readers, ReaderStep(r) PROVE TailInv'
  <2>1. UNCHANGED <<file, seq, lastHash, step, draft, serving, spoilt>>
    BY <1>6, ReaderFrame DEF writing
  <2> QED
    BY <1>f, <2>1 DEF TailInv, Drafting
<1>7. CASE LogCrash
  BY <1>7 DEF LogCrash, TailInv, Drafting
<1>8. CASE LogStart
  <2> SUFFICES ASSUME ~spoilt PROVE TailInv'
    BY <1>8 DEF LogStart, TailInv
  <2>1. UNCHANGED <<file, step, spoilt>>
    BY <1>8 DEF LogStart
  <2>2. lastHash' = HashAt(Len(file)) /\ seq' = SeqAt(Len(file))
    BY <1>8, <2>1, StartsAtLast
  <2>3. \A v \in Writers : step[v] = "out"
    BY <1>8 DEF LogStart, HalfInv
  <2> QED
    BY <1>f, <1>s, <2>1, <2>2, <2>3 DEF TailInv, Drafting
<1> QED
  BY <1>1, <1>2, <1>3, <1>4, <1>5, <1>6, <1>7, <1>8 DEF LogNext, ReaderStep

LEMMA NumberStep ==
    ASSUME LogTypeOK, HalfInv, WholeInv, TailInv, NumberInv, LogNext
    PROVE  NumberInv'
<1>0. file \in Seq(Line) /\ Len(file) \in Nat /\ Len(file) \in 0 .. Len(file)
  BY FileFacts DEF LogTypeOK, Line
<1>n. seq \in Nat /\ failures \in Nat
  BY LogAssumption DEF LogTypeOK
<1>l. \A i \in 1 .. Len(file) : file[i] \in Line
  BY <1>0, FileFacts
<1>m. \A i \in 1 .. Len(file) : file[i].seq \in Nat
  BY <1>l, LineType
<1>s. seq \in Nat /\ failures \in Nat /\ \A i \in 1 .. Len(file) : file[i].seq \in Nat
  BY <1>n, <1>m
<1>1. ASSUME NEW w \in Writers, BeginAppend(w) PROVE NumberInv'
  <2> SUFFICES ASSUME ~spoilt PROVE NumberInv'
    BY <1>1 DEF BeginAppend, NumberInv
  <2>1. \A v \in Writers : step[v] = "out" /\ (v # w => step'[v] = "out")
    BY <1>1, LogAssumption DEF BeginAppend, TakesLock, LogTypeOK
  <2>2. serving /\ seq <= Len(file) + failures
    BY <1>1, <2>1 DEF BeginAppend, NumberInv, Drafting
  <2>3. /\ draft'[w].seq = seq + 1 /\ seq' = seq + 1 /\ Drafting(w)'
        /\ UNCHANGED <<file, failures, serving>>
    BY <1>1 DEF BeginAppend, LogTypeOK, Drafting
  <2>4. seq + 1 <= (Len(file) + 1) + failures
    BY <1>0, <1>s, <2>2
  <2>5. \A v \in Writers : Drafting(v)' => draft'[v].seq = seq + 1
    BY <2>1, <2>3 DEF Drafting
  <2> QED
    BY <2>3, <2>4, <2>5 DEF NumberInv
<1>2. ASSUME NEW w \in Writers, StartLine(w) PROVE NumberInv'
  <2>1. UNCHANGED <<file, draft, seq, serving, failures, spoilt>>
    BY <1>2 DEF StartLine
  <2>2. \A v \in Writers : Drafting(v)' <=> Drafting(v)
    BY <1>2 DEF StartLine, LogTypeOK, Drafting
  <2> QED
    BY <2>1, <2>2 DEF NumberInv
<1>3. ASSUME NEW w \in Writers, FinishLine(w) PROVE NumberInv'
  <2> SUFFICES ASSUME ~spoilt PROVE NumberInv'
    BY <1>3 DEF FinishLine, NumberInv
  <2>1. /\ step[w] = "started" /\ half # "junk"
        /\ draft[w] \in LogEntry /\ file' = Append(file, draft[w])
        /\ UNCHANGED <<seq, draft, serving, failures, spoilt>>
    BY <1>3 DEF FinishLine, HalfInv, LogTypeOK
  <2>2. draft[w] \in Line /\ draft[w].seq \in Nat
    BY <2>1 DEF Line, LogEntry
  <2>3. /\ Len(file') = Len(file) + 1 /\ file'[Len(file) + 1] = draft[w]
        /\ \A i \in 1 .. Len(file) : file'[i] = file[i]
    BY <1>0, <2>1, <2>2, Grown
  <2>4. Len(file) + 1 <= draft[w].seq
    <3>1. SeqAt(Len(file)) < draft[w].seq
      BY <2>1 DEF TailInv, Drafting
    <3>2. Len(file) <= SeqAt(Len(file)) /\ SeqAt(Len(file)) \in Nat
      BY <1>0, <1>s DEF SeqAt, NumberInv
    <3> QED
      BY <1>0, <2>2, <3>1, <3>2
  <2>5. draft[w].seq <= (Len(file) + 1) + failures
    BY <2>1 DEF NumberInv, Drafting
  <2>6. \A i \in 1 .. Len(file) : i <= file[i].seq /\ file[i].seq <= i + failures
    BY DEF NumberInv
  <2>7. \A i \in 1 .. Len(file') : i <= file'[i].seq /\ file'[i].seq <= i + failures'
    <3> SUFFICES ASSUME NEW i \in 1 .. Len(file')
                 PROVE  i <= file'[i].seq /\ file'[i].seq <= i + failures
      BY <2>1
    <3>1. i \in 1 .. Len(file) \/ i = Len(file) + 1
      BY <1>0, <2>3
    <3> QED
      BY <2>3, <2>4, <2>5, <2>6, <3>1
  <2>8. \A v \in Writers : ~Drafting(v)'
    BY <1>3 DEF FinishLine, LogTypeOK, Drafting
  <2>9. serving => seq <= (Len(file) + 1) + failures
    BY DEF NumberInv
  <2>10. serving' => seq' <= Len(file') + failures' /\ seq' <= (Len(file') + 1) + failures'
    BY <1>0, <1>s, <2>1, <2>3, <2>9
  <2> QED
    BY <2>7, <2>8, <2>10 DEF NumberInv
<1>4. ASSUME NEW w \in Writers, EndAppend(w) PROVE NumberInv'
  <2>1. UNCHANGED <<file, draft, seq, serving, failures, spoilt>>
    BY <1>4 DEF EndAppend
  <2>2. \A v \in Writers : Drafting(v)' <=> Drafting(v)
    BY <1>4 DEF EndAppend, LogTypeOK, Drafting
  <2> QED
    BY <2>1, <2>2 DEF NumberInv
<1>5. ASSUME NEW w \in Writers, LogAppendRaises(w) PROVE NumberInv'
  <2> SUFFICES ASSUME ~spoilt, step[w] = "hashed" PROVE NumberInv'
    BY <1>5 DEF LogAppendRaises, NumberInv
  <2>1. UNCHANGED <<file, seq, serving>> /\ failures' = failures + 1
    BY <1>5 DEF LogAppendRaises
  <2>2. \A v \in Writers : ~Drafting(v)'
    BY <1>5 DEF LogAppendRaises, LogTypeOK, Drafting
  <2>3. serving' => seq' <= Len(file') + failures' /\ seq' <= (Len(file') + 1) + failures'
    BY <1>0, <1>s, <2>1 DEF NumberInv
  <2>4. \A i \in 1 .. Len(file') : i <= file'[i].seq /\ file'[i].seq <= i + failures'
    BY <1>0, <1>s, <2>1 DEF NumberInv
  <2> QED
    BY <2>2, <2>3, <2>4 DEF NumberInv
<1>6. ASSUME NEW r \in Readers, ReaderStep(r) PROVE NumberInv'
  <2>1. UNCHANGED <<file, seq, step, draft, serving, failures, spoilt>>
    BY <1>6, ReaderFrame DEF writing
  <2> QED
    BY <2>1 DEF NumberInv, Drafting
<1>7. CASE LogCrash
  <2> SUFFICES ASSUME ~spoilt PROVE NumberInv'
    BY <1>7 DEF LogCrash, NumberInv
  <2>1. UNCHANGED file /\ failures' = failures + 1 /\ ~serving'
    BY <1>7 DEF LogCrash
  <2>2. \A v \in Writers : ~Drafting(v)'
    BY <1>7 DEF LogCrash, Drafting
  <2>3. \A i \in 1 .. Len(file') : i <= file'[i].seq /\ file'[i].seq <= i + failures'
    BY <1>0, <1>s, <2>1 DEF NumberInv
  <2> QED
    BY <2>1, <2>2, <2>3 DEF NumberInv
<1>8. CASE LogStart
  <2> SUFFICES ASSUME ~spoilt PROVE NumberInv'
    BY <1>8 DEF LogStart, NumberInv
  <2>1. UNCHANGED <<file, step, draft, failures, spoilt>>
    BY <1>8 DEF LogStart
  <2>2. \A v \in Writers : step[v] = "out"
    BY <1>8 DEF LogStart, HalfInv
  <2>3. seq' = SeqAt(Len(file))
    BY <1>8, StartsAtLast
  <2>4. SeqAt(Len(file)) <= Len(file) + failures /\ SeqAt(Len(file)) \in Nat
    BY <1>0, <1>s DEF SeqAt, NumberInv
  <2>5. seq' <= Len(file) + failures /\ seq' <= (Len(file) + 1) + failures
    BY <1>0, <1>s, <2>3, <2>4
  <2> QED
    BY <2>1, <2>2, <2>5 DEF NumberInv, Drafting
<1> QED
  BY <1>1, <1>2, <1>3, <1>4, <1>5, <1>6, <1>7, <1>8 DEF LogNext, ReaderStep

\* What is filed, or swallowed, stays so while the file grows.
LEMMA FiledStays ==
    ASSUME file \in Seq(Line), NEW l \in Line, file' = Append(file, l)
    PROVE  /\ \A h : Filed(h) => Filed(h)'
           /\ Swallowed => Swallowed'
           /\ Filed(l.hash)' /\ (l = Junk => Swallowed')
BY Grown DEF Filed, Swallowed

LEMMA KeptStep ==
    ASSUME LogTypeOK, KeptInv, LogNext
    PROVE  KeptInv'
<1>0. file \in Seq(Line)
  BY DEF LogTypeOK, Line
<1>1. UNCHANGED file => (\A h : Filed(h)' <=> Filed(h)) /\ (Swallowed' <=> Swallowed)
  BY DEF Filed, Swallowed
<1>2. ASSUME NEW w \in Writers, FinishLine(w) PROVE KeptInv'
  <2> DEFINE l == IF half = "junk" THEN Junk ELSE draft[w]
  <2>1. l \in Line /\ file' = Append(file, l) /\ UNCHANGED <<draft, acked, due>>
    BY <1>2 DEF FinishLine, LogTypeOK, Line, reading
  <2>2. l = Junk \/ l = draft[w]
    OBVIOUS
  <2> HIDE DEF l
  <2>3. Filed(draft[w].hash)' \/ Swallowed'
    BY <1>0, <2>1, <2>2, FiledStays
  <2>4. (\A h : Filed(h) => Filed(h)') /\ (Swallowed => Swallowed')
    BY <1>0, <2>1, FiledStays
  <2>5. \A v \in Writers : step'[v] = "written" => v = w \/ step[v] = "written"
    BY <1>2 DEF FinishLine, LogTypeOK
  <2> QED
    BY <2>1, <2>3, <2>4, <2>5 DEF KeptInv
<1>3. ASSUME NEW w \in Writers, EndAppend(w) PROVE KeptInv'
  <2>1. UNCHANGED <<file, draft, due>> /\ acked' = acked \union {draft[w].hash} /\ step[w] = "written"
    BY <1>3 DEF EndAppend, reading
  <2>2. \A v \in Writers : step'[v] # "written"
    BY <1>3 DEF EndAppend, LogTypeOK
  <2> QED
    BY <1>1, <2>1, <2>2 DEF KeptInv
<1>4. ASSUME NEW r \in Readers, BeginVerify(r) PROVE KeptInv'
  <2>1. UNCHANGED <<file, draft, step, acked>> /\ due' = [due EXCEPT ![r] = acked]
    BY <1>4 DEF BeginVerify, writing
  <2>2. \A q \in Readers : due'[q] = acked \/ due'[q] = due[q]
    BY <2>1 DEF LogTypeOK
  <2> QED
    BY <1>1, <2>1, <2>2 DEF KeptInv
<1>5. ASSUME NEW r \in Readers, ReadLine(r) \/ ReadEnd(r) PROVE KeptInv'
  <2>1. UNCHANGED <<file, draft, step, acked, due>>
    BY <1>5 DEF ReadLine, ReadEnd, writing
  <2> QED
    BY <1>1, <2>1 DEF KeptInv
<1>6. ASSUME NEW w \in Writers, BeginAppend(w) PROVE KeptInv'
  <2>1. UNCHANGED <<file, acked, due>>
    BY <1>6 DEF BeginAppend
  <2>2. \A v \in Writers : step'[v] = "written" => step[v] = "written" /\ draft'[v] = draft[v]
    BY <1>6 DEF BeginAppend, LogTypeOK
  <2> QED
    BY <1>1, <2>1, <2>2 DEF KeptInv
<1>7. CASE LogCrash \/ LogStart \/ \E w \in Writers : StartLine(w) \/ LogAppendRaises(w)
  <2>1. UNCHANGED <<file, draft, acked, due>>
    BY <1>7 DEF LogCrash, LogStart, StartLine, LogAppendRaises, reading
  <2>2. \A v \in Writers : step'[v] = "written" => step[v] = "written"
    BY <1>7 DEF LogCrash, LogStart, StartLine, LogAppendRaises, LogTypeOK
  <2> QED
    BY <1>1, <2>1, <2>2 DEF KeptInv
<1> QED
  BY <1>2, <1>3, <1>4, <1>5, <1>6, <1>7 DEF LogNext

LEMMA ReadStep ==
    ASSUME LogTypeOK, ReadInv, LogNext
    PROVE  ReadInv'
<1>0. file \in Seq(Line) /\ Len(file) \in Nat
  BY FileFacts DEF LogTypeOK, Line
<1>1. UNCHANGED file \/ \E l \in Line : file' = Append(file, l)
  <2>1. ASSUME NEW w \in Writers, FinishLine(w) PROVE \E l \in Line : file' = Append(file, l)
    <3>1. (IF half = "junk" THEN Junk ELSE draft[w]) \in Line
      BY <2>1 DEF FinishLine, LogTypeOK, Line
    <3> QED
      BY <2>1, <3>1 DEF FinishLine
  <2> QED
    BY <2>1 DEF LogNext, BeginAppend, StartLine, EndAppend, LogAppendRaises, LogCrash, LogStart,
                BeginVerify, ReadLine, ReadEnd
<1>2. Len(file') \in Nat /\ Len(file) <= Len(file') /\ \A i \in 1 .. Len(file) : file'[i] = file[i]
  BY <1>0, <1>1, Grown
<1> DEFINE Parses(r) == place[r] <= Len(file) /\ \A i \in 1 .. place[r] : file[i] # Junk
           Reads(r) == verdict[r] \in {"reading", "ok"} => Parses(r)
           Meets(r) == verdict[r] = "reading" /\ (\E w \in Writers : step[w] # "out") => met[r]
<1>p. \A q \in Readers : place[q] \in Nat
  BY DEF LogTypeOK
<1>3. ASSUME NEW q \in Readers, Parses(q), place'[q] = place[q] PROVE Parses(q)'
  BY <1>0, <1>2, <1>3, <1>p
<1> SUFFICES ASSUME NEW q \in Readers PROVE Reads(q)' /\ Meets(q)'
  BY DEF ReadInv
<1>4. Reads(q) /\ Meets(q)
  BY DEF ReadInv
<1>5. Reads(q)'
  <2>1. CASE verdict'[q] = verdict[q] /\ place'[q] = place[q]
    BY <1>3, <1>4, <2>1
  <2>2. CASE verdict'[q] \notin {"reading", "ok"}
    BY <2>2
  <2>3. ASSUME NEW r \in Readers, BeginVerify(r) PROVE Reads(q)'
    <3>1. CASE r = q
      BY <1>0, <2>3, <3>1 DEF BeginVerify, LogTypeOK
    <3>2. CASE r # q
      BY <2>1, <2>3, <3>2 DEF BeginVerify, LogTypeOK
    <3> QED
      BY <3>1, <3>2
  <2>4. ASSUME NEW r \in Readers, ReadLine(r) PROVE Reads(q)'
    <3>1. CASE r = q
      <4>1. Parses(q) /\ file' = file /\ place[q] < Len(file)
        BY <1>4, <2>4, <3>1, LineRead DEF ReadLine
      <4>2. CASE file[place[q] + 1] # Junk /\ place' = [place EXCEPT ![q] = place[q] + 1]
        <5>1. place'[q] = place[q] + 1
          BY <4>2 DEF LogTypeOK
        <5>2. \A i \in 1 .. place[q] + 1 : file[i] # Junk
          BY <1>p, <4>1, <4>2
        <5> QED
          BY <1>0, <1>p, <4>1, <5>1, <5>2
      <4>3. CASE verdict' = [verdict EXCEPT ![q] = "error"] \/ verdict' = [verdict EXCEPT ![q] = "break"]
        BY <2>2, <4>3 DEF LogTypeOK
      <4> QED
        BY <2>4, <3>1, <4>2, <4>3, LineRead
    <3>2. CASE r # q
      BY <2>1, <2>4, <3>2, LineRead DEF LogTypeOK
    <3> QED
      BY <3>1, <3>2
  <2>5. ASSUME NEW r \in Readers, ReadEnd(r) PROVE Reads(q)'
    <3>1. verdict[r] = "reading" /\ place' = place
      BY <2>5 DEF ReadEnd
    <3>2. q # r => verdict'[q] = verdict[q]
      BY <2>5 DEF ReadEnd, LogTypeOK
    <3> QED
      BY <1>3, <1>4, <3>1, <3>2
  <2>6. CASE LogCrash
    BY <2>2, <2>6 DEF LogCrash
  <2>7. CASE LogStart \/ \E w \in Writers : WriterStep(w)
    <3>1. verdict' = verdict /\ place' = place
      BY <2>7 DEF LogStart, WriterStep, BeginAppend, StartLine, FinishLine, EndAppend,
                  LogAppendRaises, reading
    <3> QED
      BY <2>1, <3>1
  <2> QED
    BY <2>3, <2>4, <2>5, <2>6, <2>7 DEF LogNext, WriterStep
<1>6. Meets(q)'
  <2>1. ASSUME NEW w \in Writers, BeginAppend(w) PROVE Meets(q)'
    BY <2>1 DEF BeginAppend
  <2>2. ASSUME NEW w \in Writers, StartLine(w) \/ FinishLine(w) \/ EndAppend(w) \/ LogAppendRaises(w)
        PROVE  Meets(q)'
    <3>1. verdict' = verdict /\ met' = met
      BY <2>2 DEF StartLine, FinishLine, EndAppend, LogAppendRaises, reading
    <3>2. \A v \in Writers : step'[v] # "out" => step[v] # "out"
      BY <2>2 DEF StartLine, FinishLine, EndAppend, LogAppendRaises, LogTypeOK
    <3> QED
      BY <1>4, <3>1, <3>2
  <2>3. ASSUME NEW r \in Readers, BeginVerify(r) PROVE Meets(q)'
    <3>1. step' = step
      BY <2>3 DEF BeginVerify, writing
    <3>2. CASE r = q
      <4>1. met'[q] = \E w \in Writers : step[w] # "out"
        BY <2>3, <3>2, Zenon DEF BeginVerify, LogTypeOK
      <4> QED
        BY <3>1, <4>1
    <3>3. CASE r # q
      <4>1. verdict'[q] = verdict[q]
        BY <2>3, <3>3 DEF BeginVerify, LogTypeOK
      <4>2. met'[q] = met[q]
        BY <2>3, <3>3, Zenon DEF BeginVerify, LogTypeOK
      <4> QED
        BY <1>4, <3>1, <4>1, <4>2
    <3> QED
      BY <3>2, <3>3
  <2>4. ASSUME NEW r \in Readers, ReadLine(r) \/ ReadEnd(r) PROVE Meets(q)'
    <3>1. step' = step /\ met' = met
      BY <2>4 DEF ReadLine, ReadEnd, writing
    <3>2. verdict'[q] = "reading" => verdict[q] = "reading"
      BY <2>4, LineRead DEF ReadEnd, LogTypeOK
    <3> QED
      BY <1>4, <3>1, <3>2
  <2>5. CASE LogCrash
    BY <2>5 DEF LogCrash
  <2>6. CASE LogStart
    BY <1>4, <2>6 DEF LogStart, reading
  <2> QED
    BY <2>1, <2>2, <2>3, <2>4, <2>5, <2>6 DEF LogNext
<1> QED
  BY <1>5, <1>6

\* What a reader makes of the state it reads the last line in.
LEMMA ReadEndSound ==
    ASSUME LogTypeOK, HalfInv, TailInv, KeptInv, ReadInv, NEW r \in Readers, ReadEnd(r)
    PROVE  /\ verdict'[r] = "ok" => \A h \in due[r] : \E i \in 1 .. place[r] : file[i].hash = h
           /\ verdict'[r] = "error" => spoilt \/ met[r]
           /\ verdict'[r] = "break" => spoilt
<1>1. /\ verdict[r] = "reading" /\ place[r] = Len(file)
      /\ verdict'[r] = "error" => half # "none"
      /\ verdict'[r] = "break" => \E line \in HalfLines : line.prev # HashAt(Len(file))
  BY DEF ReadEnd, LogTypeOK
<1>2. ~Swallowed /\ \A h \in due[r] : Filed(h) \/ Swallowed
  BY <1>1 DEF ReadInv, KeptInv, Swallowed
<1>3. half # "none" => spoilt \/ met[r]
  BY <1>1 DEF HalfInv, ReadInv, LogTypeOK
<1>4. ~spoilt => \A line \in HalfLines : line.prev = HashAt(Len(file))
  <2>1. half \in {"none", "started", "junk"}
    BY DEF LogTypeOK
  <2>2. ~spoilt => half # "junk"
    BY DEF HalfInv
  <2>3. ~spoilt => \A w \in Writers : step[w] = "started" => draft[w].prev = HashAt(Len(file))
    BY DEF TailInv, Drafting
  <2> QED
    BY <2>1, <2>2, <2>3, HalfLinesAre
<1> QED
  BY <1>1, <1>2, <1>3, <1>4 DEF Filed

LEMMA ReadLineSound ==
    ASSUME LogTypeOK, WholeInv, NEW r \in Readers, ReadLine(r)
    PROVE  /\ verdict'[r] \in {"break", "error"} => spoilt
           /\ verdict'[r] # "ok"
<1>0. file \in Seq(Line) /\ Len(file) \in Nat
  BY FileFacts DEF LogTypeOK, Line
<1>1. verdict[r] = "reading" /\ place[r] + 1 \in 1 .. Len(file) /\ (place[r] + 1) - 1 = place[r]
  BY <1>0, LineRead DEF LogTypeOK
<1>2. ~spoilt => file[place[r] + 1] # Junk /\ file[place[r] + 1].prev = HashAt(place[r])
  BY <1>1 DEF WholeInv
<1> QED
  BY <1>1, <1>2, LineRead DEF LogTypeOK

LEMMA VerdictStep ==
    ASSUME LogInv, LogNext
    PROVE  VerdictSound'
<1> USE DEF LogInv
<1>0. file \in Seq(Line) /\ Len(file) \in Nat
  BY FileFacts DEF LogTypeOK, Line
<1>1. /\ spoilt => spoilt'
      /\ \A i \in 1 .. Len(file) : file'[i] = file[i]
  <2>1. ASSUME NEW w \in Writers, LogAppendRaises(w)
        PROVE  (spoilt => spoilt') /\ UNCHANGED file
    BY <2>1 DEF LogAppendRaises
  <2>3. ASSUME LogCrash
        PROVE  (spoilt => spoilt') /\ UNCHANGED file
    BY <2>3 DEF LogCrash
  <2>2. ASSUME NEW w \in Writers, FinishLine(w)
        PROVE  spoilt' = spoilt /\ \A i \in 1 .. Len(file) : file'[i] = file[i]
    <3>1. (IF half = "junk" THEN Junk ELSE draft[w]) \in Line
      BY <2>2 DEF FinishLine, LogTypeOK, Line
    <3> QED
      BY <1>0, <2>2, <3>1, Grown DEF FinishLine
  <2> QED
    BY <2>1, <2>2, <2>3 DEF LogNext, BeginAppend, StartLine, EndAppend, LogStart,
                            BeginVerify, ReadLine, ReadEnd
<1> DEFINE Covers(r) == \A h \in due[r] : \E i \in 1 .. place[r] : file[i].hash = h
           Sound(r) == /\ verdict[r] = "ok" => Covers(r)
                       /\ verdict[r] = "break" => spoilt
                       /\ verdict[r] = "error" => spoilt \/ met[r]
<1> SUFFICES ASSUME NEW q \in Readers PROVE Sound(q)'
  BY DEF VerdictSound
<1>2. Sound(q)
  BY DEF VerdictSound
<1>p. place[q] \in Nat
  BY DEF LogTypeOK
<1>3. CASE /\ verdict'[q] = verdict[q] /\ place'[q] = place[q] /\ due'[q] = due[q]
           /\ (met[q] => met'[q])
  <2>1. verdict[q] = "ok" => place[q] <= Len(file)
    BY DEF ReadInv
  <2>2. verdict[q] = "ok" => Covers(q)'
    BY <1>0, <1>1, <1>2, <1>3, <1>p, <2>1
  <2> QED
    BY <1>1, <1>2, <1>3, <2>2
<1>4. ASSUME NEW r \in Readers, BeginVerify(r) PROVE Sound(q)'
  <2>1. CASE r = q
    BY <1>4, <2>1 DEF BeginVerify, LogTypeOK
  <2>2. CASE r # q
    <3>1. verdict'[q] = verdict[q] /\ place'[q] = place[q] /\ due'[q] = due[q]
      BY <1>4, <2>2 DEF BeginVerify, LogTypeOK
    <3>2. met'[q] = met[q]
      BY <1>4, <2>2, Zenon DEF BeginVerify, LogTypeOK
    <3> QED
      BY <1>3, <3>1, <3>2
  <2> QED
    BY <2>1, <2>2
<1>5. ASSUME NEW r \in Readers, ReadLine(r) PROVE Sound(q)'
  <2>1. UNCHANGED <<file, due, met, spoilt>>
    BY <1>5 DEF ReadLine
  <2>2. CASE r = q
    BY <1>5, <2>1, <2>2, ReadLineSound
  <2>3. CASE r # q
    BY <1>3, <1>5, <2>1, <2>3, LineRead DEF LogTypeOK
  <2> QED
    BY <2>2, <2>3
<1>6. ASSUME NEW r \in Readers, ReadEnd(r) PROVE Sound(q)'
  <2>1. UNCHANGED <<file, place, due, met, spoilt>>
    BY <1>6 DEF ReadEnd
  <2>2. CASE r = q
    BY <1>6, <2>1, <2>2, ReadEndSound
  <2>3. CASE r # q
    BY <1>3, <1>6, <2>1, <2>3 DEF ReadEnd, LogTypeOK
  <2> QED
    BY <2>2, <2>3
<1>7. CASE LogCrash
  BY <1>7 DEF LogCrash
<1>8. CASE LogStart \/ \E w \in Writers : WriterStep(w)
  <2>1. verdict' = verdict /\ place' = place /\ due' = due
    BY <1>8 DEF LogStart, WriterStep, BeginAppend, StartLine, FinishLine, EndAppend,
                LogAppendRaises, reading
  <2>2. met[q] => met'[q]
    BY <1>8 DEF LogStart, WriterStep, BeginAppend, StartLine, FinishLine, EndAppend,
                LogAppendRaises, reading
  <2> QED
    BY <1>3, <2>1, <2>2
<1> QED
  BY <1>4, <1>5, <1>6, <1>7, <1>8 DEF LogNext, WriterStep

LEMMA LogInitInv == LogInit => LogInv
<1> SUFFICES ASSUME LogInit PROVE LogInv
  OBVIOUS
<1>1. file = <<>> /\ file \in Seq(LogEntry \union {Junk}) /\ Len(file) = 0 /\ 1 .. Len(file) = {}
  BY EmptySeq DEF LogInit
<1>2. LogTypeOK
  <2> USE LogAssumption DEF LogInit
  <2>1. 0 \in 0 .. MaxEntries /\ 0 \in 0 .. MaxFailures
    OBVIOUS
  <2>2. /\ step \in [Writers -> {"out", "hashed", "started", "written"}]
        /\ draft \in [Writers -> LogEntry \union {Junk}]
        /\ \A w \in Writers : step[w] = "out"
    OBVIOUS
  <2>3. /\ verdict \in [Readers -> {"idle", "reading", "ok", "break", "error"}]
        /\ place \in [Readers -> 0 .. MaxEntries]
        /\ due \in [Readers -> SUBSET Hashes] /\ met \in [Readers -> BOOLEAN]
    BY <2>1
  <2> QED
    BY <1>1, <2>1, <2>2, <2>3 DEF LogTypeOK
<1>3. HalfInv /\ MadeInv /\ WholeInv /\ NumberInv /\ KeptInv
  BY <1>1 DEF LogInit, HalfInv, MadeInv, WholeInv, NumberInv, KeptInv, Drafting
<1>4. TailInv
  BY <1>1 DEF LogInit, TailInv, Drafting, HashAt, SeqAt
<1>5. ReadInv /\ VerdictSound
  BY DEF LogInit, ReadInv, VerdictSound
<1> QED
  BY <1>2, <1>3, <1>4, <1>5 DEF LogInv

\* The inductive invariant of the log and its readers.
THEOREM LogInvariant == LogSpec => []LogInv
<1>1. LogInv /\ LogNext => LogInv'
  BY LogTypesStep, HalfStep, MadeStep, WholeStep, TailStep, NumberStep, KeptStep, ReadStep,
     VerdictStep DEF LogInv
<1>2. LogInv /\ UNCHANGED logVars => LogInv'
  <2> SUFFICES ASSUME LogInv, UNCHANGED logVars PROVE LogInv'
    OBVIOUS
  <2> USE DEF logVars, writing, reading, LogInv
  <2>1. LogTypeOK' /\ HalfInv' /\ MadeInv'
    BY DEF LogTypeOK, HalfInv, MadeInv, Drafting
  <2>2. WholeInv' /\ TailInv' /\ NumberInv'
    BY DEF WholeInv, TailInv, NumberInv, HashAt, SeqAt, Drafting
  <2>3. KeptInv' /\ ReadInv' /\ VerdictSound'
    BY DEF KeptInv, ReadInv, VerdictSound, Filed, Swallowed
  <2> QED
    BY <2>1, <2>2, <2>3
<1> QED
  BY <1>1, <1>2, LogInitInv, PTL DEF LogSpec

\* The verdicts of the lockless verify_chain() are worth what they say.
THEOREM VerdictsSound == LogSpec => []VerdictSound
BY LogInvariant, PTL DEF LogInv

\* append() keeps the chain whole until a write fails half-way.
THEOREM ChainWhole == LogSpec => []WholeUntilSpoilt
<1>1. LogInv => WholeUntilSpoilt
  <2> SUFFICES ASSUME LogInv, ~spoilt PROVE WholeUntilSpoilt
    BY DEF WholeUntilSpoilt
  <2>0. file \in Seq(Line) /\ Len(file) \in Nat
    BY FileFacts DEF LogInv, LogTypeOK, Line
  <2>1. \A i \in 1 .. Len(file) : file[i] # Junk /\ file[i].prev = HashAt(i - 1)
                                  /\ SeqAt(i - 1) < file[i].seq
    BY DEF LogInv, WholeInv
  <2>2. AcceptedLen = Len(file)
    BY <2>0, <2>1, AcceptedWhole
  <2>3. \A i \in 1 .. Len(file) : i > 1 => file[i].seq > file[i - 1].seq
    <3> SUFFICES ASSUME NEW i \in 1 .. Len(file), i > 1 PROVE file[i].seq > file[i - 1].seq
      OBVIOUS
    <3>1. SeqAt(i - 1) = file[i - 1].seq /\ i - 1 \in 0 .. Len(file)
      BY <2>0 DEF SeqAt
    <3>2. SeqAt(i - 1) \in Nat /\ file[i].seq \in Nat
      BY <2>0, <3>1, FileFacts, LineType
    <3> QED
      BY <2>1, <3>1, <3>2
  <2>4. \A h \in acked : \E i \in 1 .. Len(file) : file[i].hash = h
    BY <2>1 DEF LogInv, KeptInv, Filed, Swallowed
  <2>5. \A i \in 1 .. Len(file) : file[i].seq \in i .. i + failures
    <3>1. \A i \in 1 .. Len(file) : i <= file[i].seq /\ file[i].seq <= i + failures
      BY DEF LogInv, NumberInv
    <3>2. \A i \in 1 .. Len(file) : file[i].seq \in Nat
      BY <2>0, FileFacts, LineType
    <3>3. failures \in Nat
      BY LogAssumption DEF LogInv, LogTypeOK
    <3> QED
      BY <3>1, <3>2, <3>3
  <2> QED
    BY <2>2, <2>3, <2>4, <2>5 DEF WholeUntilSpoilt
<1> QED
  BY <1>1, LogInvariant, PTL

-----------------------------------------------------------------------------
(* The limiter under threads *)

Grant == [stamp : Nat, at : Nat]

\* The window w holds the stamps of the last grants of g, and whatever was
\* evicted from it is older than a window at time t.
Tails(w, g, window, t) ==
    /\ Len(w) <= Len(g)
    /\ \A n \in 1 .. Len(w) : w[n] = g[Len(g) - Len(w) + n].stamp
    /\ \A n \in 1 .. Len(g) - Len(w) : g[n].stamp < t - window

\* Grants are in the order of real time, none is later than t, and a stamp is
\* at most one delay old.
Timely(g, t) ==
    /\ \A n \in 1 .. Len(g) :
           g[n].stamp <= g[n].at /\ g[n].at <= g[n].stamp + Delay /\ g[n].at <= t
    /\ \A m, n \in 1 .. Len(g) : m <= n => g[m].at <= g[n].at

\* GrantsSpaced for one identity and one window.
Apart(g, limit, window) ==
    \A n \in 1 .. Len(g) - limit : g[n + limit].at - g[n].at > window - Delay

\* RefusedOnlyWhenBusy for one window, at time t.
BusyAt(g, limit, window, t) ==
    Len(g) >= limit /\ g[Len(g) - limit + 1].at >= t - window - Delay

CallInv ==
    \A t \in Callers : calls[t].active => calls[t].now <= clock /\ clock <= calls[t].now + Delay

GrantInv ==
    \A i \in Identities :
        /\ Tails(minute[i], granted[i], Minute, clock)
        /\ Tails(hour[i], granted[i], Hour, clock)
        /\ Timely(granted[i], clock)
        /\ Apart(granted[i], PerMinute, Minute)
        /\ Apart(granted[i], PerHour, Hour)

RefusalInv ==
    refusal.active =>
        \/ refusal.minute >= PerMinute /\ BusyAt(granted[refusal.identity], PerMinute, Minute, refusal.at)
        \/ refusal.hour >= PerHour /\ BusyAt(granted[refusal.identity], PerHour, Hour, refusal.at)

LimiterInv == LimiterTypeOK /\ CallInv /\ GrantInv /\ RefusalInv

LEMMA RestIs ==
    ASSUME NEW w \in Seq(Nat), NEW k \in 0 .. Len(w)
    PROVE  /\ Rest(w, k) \in Seq(Nat)
           /\ Len(Rest(w, k)) = Len(w) - k
           /\ \A n \in 1 .. Len(w) - k : Rest(w, k)[n] = w[k + n]
<1>1. Len(w) \in Nat
  BY LenProperties
<1>2. k + 1 \in 1 .. Len(w) + 1 /\ Len(w) \in k .. Len(w)
  BY <1>1
<1>3. \A i \in k + 1 .. Len(w) : w[i] \in Nat
  BY ElementOfSeq, <1>1
<1> QED
  BY <1>1, <1>2, <1>3, SubSeqProperties DEF Rest

LEMMA GrantFacts ==
    ASSUME NEW g \in Seq(Grant)
    PROVE  Len(g) \in Nat /\ \A n \in 1 .. Len(g) : g[n].stamp \in Nat /\ g[n].at \in Nat
<1>1. Len(g) \in Nat /\ \A n \in 1 .. Len(g) : g[n] \in Grant
  BY LenProperties, ElementOfSeq
<1> QED
  BY <1>1 DEF Grant

LEMMA GrantAppended ==
    ASSUME NEW g \in Seq(Grant), NEW instant \in Nat, NEW t \in Nat
    PROVE  LET b == Append(g, [stamp |-> instant, at |-> t])
           IN  /\ b \in Seq(Grant) /\ Len(b) = Len(g) + 1 /\ Len(g) \in Nat
               /\ \A n \in 1 .. Len(g) : b[n] = g[n]
               /\ b[Len(g) + 1].stamp = instant /\ b[Len(g) + 1].at = t
<1> DEFINE e == [stamp |-> instant, at |-> t]
<1>1. e \in Grant /\ e.stamp = instant /\ e.at = t
  BY DEF Grant
<1> HIDE DEF e
<1>2. Append(g, e) \in Seq(Grant) /\ Len(Append(g, e)) = Len(g) + 1 /\ Len(g) \in Nat
  BY <1>1, AppendProperties, LenProperties
<1>3. (\A n \in 1 .. Len(g) : Append(g, e)[n] = g[n]) /\ Append(g, e)[Len(g) + 1] = e
  BY <1>1, AppendProperties
<1> QED
  BY <1>1, <1>2, <1>3 DEF e

\* Eviction by a clock that is old evicts only what is old now.
LEMMA EvictionKeeps ==
    ASSUME NEW w \in Seq(Nat), NEW g \in Seq(Grant), NEW t \in Nat, NEW instant \in Nat,
           NEW window \in Nat, NEW k \in 0 .. Len(w),
           Tails(w, g, window, t), Evicts(w, instant - window, k), instant <= t
    PROVE  Tails(Rest(w, k), g, window, t)
<1>1. Len(w) \in Nat /\ Len(g) \in Nat /\ \A n \in 1 .. Len(g) : g[n].stamp \in Nat
  BY LenProperties, GrantFacts
<1> DEFINE v == Rest(w, k)
<1>2. Len(v) = Len(w) - k /\ \A n \in 1 .. Len(w) - k : v[n] = w[k + n]
  BY RestIs
<1> HIDE DEF v
<1>3. Len(v) <= Len(g)
  BY <1>1, <1>2 DEF Tails
<1>4. ASSUME NEW n \in 1 .. Len(v) PROVE v[n] = g[Len(g) - Len(v) + n].stamp
  <2>1. k + n \in 1 .. Len(w) /\ Len(g) - Len(w) + (k + n) = Len(g) - Len(v) + n
    BY <1>1, <1>2
  <2>2. w[k + n] = g[Len(g) - Len(w) + (k + n)].stamp
    BY <2>1 DEF Tails
  <2> QED
    BY <1>1, <1>2, <2>1, <2>2
<1>5. ASSUME NEW n \in 1 .. Len(g) - Len(v) PROVE g[n].stamp < t - window
  <2>1. CASE n \in 1 .. Len(g) - Len(w)
    BY <2>1 DEF Tails
  <2>2. CASE n \notin 1 .. Len(g) - Len(w)
    <3> DEFINE j == n - (Len(g) - Len(w))
    <3>1. j \in 1 .. k /\ j \in 1 .. Len(w) /\ Len(g) - Len(w) + j = n /\ n \in 1 .. Len(g)
      BY <1>1, <1>2, <2>2 DEF Tails
    <3> HIDE DEF j
    <3>2. w[j] = g[n].stamp /\ w[j] < instant - window
      BY <3>1 DEF Tails, Evicts
    <3>3. \A x, y, z, u \in Int : x < y - u /\ y <= z => x < z - u
      OBVIOUS
    <3>4. w[j] \in Int /\ instant \in Int /\ t \in Int /\ window \in Int
      BY <1>1, <3>1, <3>2
    <3> QED
      BY <3>2, <3>3, <3>4, Zenon
  <2> QED
    BY <2>1, <2>2
<1> QED
  BY <1>3, <1>4, <1>5 DEF Tails, v

LEMMA GrantTails ==
    ASSUME NEW w \in Seq(Nat), NEW g \in Seq(Grant), NEW t \in Nat, NEW instant \in Nat,
           NEW window \in Nat, Tails(w, g, window, t)
    PROVE  Tails(Append(w, instant), Append(g, [stamp |-> instant, at |-> t]), window, t)
<1> DEFINE v == Append(w, instant)
           b == Append(g, [stamp |-> instant, at |-> t])
<1>1. /\ Len(v) = Len(w) + 1 /\ Len(w) \in Nat
      /\ \A n \in 1 .. Len(w) : v[n] = w[n]
      /\ v[Len(w) + 1] = instant
  BY AppendProperties, LenProperties
<1>2. /\ Len(b) = Len(g) + 1 /\ Len(g) \in Nat
      /\ \A n \in 1 .. Len(g) : b[n] = g[n]
      /\ b[Len(g) + 1].stamp = instant
  BY GrantAppended
<1> HIDE DEF v, b
<1>3. Len(b) - Len(v) = Len(g) - Len(w) /\ Len(v) <= Len(b) /\ Len(g) - Len(w) \in Nat
  BY <1>1, <1>2 DEF Tails
<1>4. ASSUME NEW n \in 1 .. Len(v) PROVE v[n] = b[Len(b) - Len(v) + n].stamp
  <2>1. CASE n = Len(w) + 1
    BY <1>1, <1>2, <1>3, <2>1
  <2>2. CASE n \in 1 .. Len(w)
    <3>1. w[n] = g[Len(g) - Len(w) + n].stamp /\ Len(g) - Len(w) + n \in 1 .. Len(g)
      BY <1>1, <1>2, <2>2 DEF Tails
    <3> QED
      BY <1>1, <1>2, <1>3, <2>2, <3>1
  <2> QED
    BY <1>1, <2>1, <2>2
<1>5. ASSUME NEW n \in 1 .. Len(b) - Len(v) PROVE b[n].stamp < t - window
  <2>1. n \in 1 .. Len(g) - Len(w) /\ n \in 1 .. Len(g)
    BY <1>1, <1>2, <1>3
  <2> QED
    BY <1>2, <2>1 DEF Tails
<1> QED
  BY <1>3, <1>4, <1>5 DEF Tails, v, b

LEMMA TailsLater ==
    ASSUME NEW w \in Seq(Nat), NEW g \in Seq(Grant), NEW t \in Nat, NEW window \in Nat,
           Tails(w, g, window, t)
    PROVE  Tails(w, g, window, t + 1)
<1>1. Len(w) \in Nat /\ Len(g) \in Nat /\ \A n \in 1 .. Len(g) : g[n].stamp \in Nat
  BY LenProperties, GrantFacts
<1>2. ASSUME NEW n \in 1 .. Len(g) - Len(w) PROVE g[n].stamp < t + 1 - window
  <2>1. n \in 1 .. Len(g) /\ g[n].stamp < t - window
    BY <1>1 DEF Tails
  <2> QED
    BY <1>1, <2>1
<1> QED
  BY <1>2 DEF Tails

LEMMA GrantTimely ==
    ASSUME NEW g \in Seq(Grant), NEW t \in Nat, NEW instant \in Nat,
           Timely(g, t), instant <= t, t <= instant + Delay
    PROVE  Timely(Append(g, [stamp |-> instant, at |-> t]), t)
<1> DEFINE b == Append(g, [stamp |-> instant, at |-> t])
<1>1. /\ Len(b) = Len(g) + 1 /\ Len(g) \in Nat
      /\ \A n \in 1 .. Len(g) : b[n] = g[n]
      /\ b[Len(g) + 1].stamp = instant /\ b[Len(g) + 1].at = t
  BY GrantAppended
<1> HIDE DEF b
<1>2. ASSUME NEW n \in 1 .. Len(b)
      PROVE  b[n].stamp <= b[n].at /\ b[n].at <= b[n].stamp + Delay /\ b[n].at <= t
  <2>1. n \in 1 .. Len(g) \/ n = Len(g) + 1
    BY <1>1
  <2> QED
    BY <1>1, <2>1 DEF Timely
<1>3. ASSUME NEW m \in 1 .. Len(b), NEW n \in 1 .. Len(b), m <= n PROVE b[m].at <= b[n].at
  <2>1. CASE n = Len(g) + 1
    BY <1>1, <1>2, <2>1
  <2>2. CASE n \in 1 .. Len(g)
    <3>1. m \in 1 .. Len(g)
      BY <1>1, <1>3, <2>2
    <3> QED
      BY <1>1, <1>3, <2>2, <3>1 DEF Timely
  <2> QED
    BY <1>1, <2>1, <2>2
<1> QED
  BY <1>2, <1>3 DEF Timely, b

LEMMA TimelyLater ==
    ASSUME NEW g \in Seq(Grant), NEW t \in Nat, Timely(g, t)
    PROVE  Timely(g, t + 1)
BY GrantFacts DEF Timely

\* A grant by a window that is not full: the grant that would be too near was
\* evicted, by a clock no later than the one that grants.
LEMMA GrantApart ==
    ASSUME NEW w \in Seq(Nat), NEW g \in Seq(Grant), NEW t \in Nat, NEW instant \in Nat,
           NEW window \in Nat, NEW limit \in Nat \ {0},
           Tails(w, g, window, t), Timely(g, t), Apart(g, limit, window), Len(w) < limit
    PROVE  Apart(Append(g, [stamp |-> instant, at |-> t]), limit, window)
<1> DEFINE b == Append(g, [stamp |-> instant, at |-> t])
<1>1. /\ Len(b) = Len(g) + 1 /\ Len(g) \in Nat
      /\ \A n \in 1 .. Len(g) : b[n] = g[n] /\ g[n].stamp \in Nat /\ g[n].at \in Nat
      /\ b[Len(g) + 1].at = t
  BY GrantAppended, GrantFacts
<1>2. Len(w) \in Nat /\ Delay \in Nat
  BY LenProperties, LimiterAssumption
<1> HIDE DEF b
<1> SUFFICES ASSUME NEW n \in 1 .. Len(b) - limit
             PROVE  b[n + limit].at - b[n].at > window - Delay
  BY DEF Apart, b
<1>3. CASE n = Len(g) + 1 - limit
  <2>1. n \in 1 .. Len(g) - Len(w) /\ n \in 1 .. Len(g) /\ n + limit = Len(g) + 1
    BY <1>1, <1>2, <1>3
  <2>2. g[n].stamp < t - window /\ g[n].at <= g[n].stamp + Delay
    BY <2>1 DEF Tails, Timely
  <2>3. b[n + limit].at = t /\ b[n].at = g[n].at /\ g[n].stamp \in Nat /\ g[n].at \in Nat
    BY <1>1, <2>1
  <2>4. \A s, a \in Nat : s < t - window /\ a <= s + Delay => t - a > window - Delay
    BY <1>2
  <2>5. t - g[n].at > window - Delay
    BY <2>2, <2>3, <2>4
  <2> QED
    BY <2>3, <2>5
<1>4. CASE n # Len(g) + 1 - limit
  <2> DEFINE x == Len(g)
  <2>1. n \in 1 .. x + 1 - limit /\ n # x + 1 - limit /\ x \in Nat
    BY <1>1, <1>4
  <2> HIDE DEF x
  <2>2. n \in 1 .. x - limit /\ n \in 1 .. x /\ n + limit \in 1 .. x
    BY <2>1
  <2> QED
    BY <1>1, <2>2 DEF Apart, x
<1> QED
  BY <1>3, <1>4

\* A full window whose head was kept: as many grants, the first of them no
\* older than a window and a delay.
LEMMA FullIsBusy ==
    ASSUME NEW w \in Seq(Nat), NEW g \in Seq(Grant), NEW t \in Nat, NEW instant \in Nat,
           NEW window \in Nat, NEW limit \in Nat \ {0}, NEW k \in 0 .. Len(w),
           Tails(w, g, window, t), Timely(g, t), Evicts(w, instant - window, k),
           t <= instant + Delay, Len(w) - k = limit
    PROVE  BusyAt(g, limit, window, t)
<1>1. Len(w) \in Nat /\ Delay \in Nat /\ Len(g) \in Nat
      /\ \A n \in 1 .. Len(g) : g[n].stamp \in Nat /\ g[n].at \in Nat
  BY LenProperties, LimiterAssumption, GrantFacts
<1> DEFINE first == Len(g) - limit + 1
<1>2. k + 1 \in 1 .. Len(w) /\ Len(g) - Len(w) + (k + 1) = first /\ Len(w) <= Len(g)
  <2>1. \A x, y \in Nat : x - k = limit
                        => k + 1 \in 1 .. x /\ y - x + (k + 1) = y - limit + 1
    OBVIOUS
  <2> QED
    BY <1>1, <2>1 DEF Tails
<1>3. first \in 1 .. Len(g) /\ Len(g) >= limit
  BY <1>1, <1>2
<1>4. w[k + 1] = g[first].stamp /\ w[k + 1] >= instant - window
  <2>1. k + 1 \in 1 .. Len(w) /\ k < Len(w)
    BY <1>1, <1>2
  <2>2. w[k + 1] = g[Len(g) - Len(w) + (k + 1)].stamp
    BY <2>1 DEF Tails
  <2>3. w[k + 1] >= instant - window
    BY <2>1 DEF Evicts
  <2> QED
    BY <1>2, <2>2, <2>3
<1>5. g[first].stamp <= g[first].at
  BY <1>3 DEF Timely
<1> HIDE DEF first
<1>6. g[first].at >= t - window - Delay
  <2>1. g[first].stamp \in Nat /\ g[first].at \in Nat
    BY <1>1, <1>3
  <2>2. \A x, y, i, u, d \in Int : x >= i - u /\ x <= y /\ t <= i + d => y >= t - u - d
    OBVIOUS
  <2>3. instant \in Int /\ window \in Int /\ Delay \in Int
    BY <1>1
  <2>4. g[first].stamp \in Int /\ g[first].at \in Int /\ g[first].stamp >= instant - window
    BY <1>4, <2>1
  <2> QED
    BY <1>5, <2>2, <2>3, <2>4, Zenon
<1> QED
  BY <1>3, <1>6 DEF BusyAt, first

LEMMA BusyStays ==
    ASSUME NEW g \in Seq(Grant), NEW t \in Nat, NEW instant \in Nat, NEW before \in Nat,
           NEW window \in Nat, NEW limit \in Nat \ {0},
           Timely(g, t), BusyAt(g, limit, window, before)
    PROVE  BusyAt(Append(g, [stamp |-> instant, at |-> t]), limit, window, before)
<1> DEFINE b == Append(g, [stamp |-> instant, at |-> t])
<1>1. /\ Len(b) = Len(g) + 1 /\ Len(g) \in Nat
      /\ \A n \in 1 .. Len(g) : b[n] = g[n] /\ g[n].at \in Nat
      /\ b[Len(g) + 1].at = t
  BY GrantAppended, GrantFacts
<1> DEFINE first == Len(g) - limit + 1
           next == Len(b) - limit + 1
<1>2. Len(g) >= limit /\ g[first].at >= before - window - Delay
  BY DEF BusyAt
<1>3. first \in 1 .. Len(g) /\ next = first + 1 /\ next \in 1 .. Len(g) + 1
  BY <1>1, <1>2
<1>4. g[first].at <= b[next].at
  <2>1. CASE next = Len(g) + 1
    <3>1. g[first].at <= t
      BY <1>3 DEF Timely
    <3> QED
      BY <1>1, <2>1, <3>1
  <2>2. CASE next # Len(g) + 1
    <3>1. next \in 1 .. Len(g) /\ first <= next
      BY <1>1, <1>3, <2>2
    <3>2. g[first].at <= g[next].at
      BY <1>3, <3>1 DEF Timely
    <3> QED
      BY <1>1, <3>1, <3>2
  <2> QED
    BY <2>1, <2>2
<1>5. g[first].at \in Nat /\ b[next].at \in Nat /\ Delay \in Nat
  <2>1. next \in 1 .. Len(g) \/ next = Len(g) + 1
    BY <1>1, <1>3
  <2> QED
    BY <1>1, <1>3, <2>1, LimiterAssumption
<1>6. Len(b) >= limit
  BY <1>1, <1>2
<1> HIDE DEF first, next, b
<1>7. b[next].at >= before - window - Delay
  BY <1>2, <1>4, <1>5
<1> QED
  BY <1>6, <1>7 DEF BusyAt, next, b

-----------------------------------------------------------------------------
(* The steps of the limiter *)

LEMMA WindowOf ==
    ASSUME LimiterTypeOK, NEW i \in Identities
    PROVE  /\ minute[i] \in Seq(Nat) /\ hour[i] \in Seq(Nat) /\ granted[i] \in Seq(Grant)
           /\ Len(minute[i]) <= PerMinute /\ Len(hour[i]) <= PerHour
BY DEF LimiterTypeOK, Grant

\* What a grant does to the windows and to the record of its identity.
LEMMA GrantsKeeps ==
    ASSUME NEW w \in Seq(Nat), NEW v \in Seq(Nat), NEW g \in Seq(Grant),
           NEW t \in Nat, NEW instant \in Nat, instant <= t, t <= instant + Delay,
           Tails(w, g, Minute, t), Tails(v, g, Hour, t), Timely(g, t),
           Apart(g, PerMinute, Minute), Apart(g, PerHour, Hour),
           Len(w) < PerMinute, Len(v) < PerHour
    PROVE  LET b == Append(g, [stamp |-> instant, at |-> t]) IN
           /\ Tails(Append(w, instant), b, Minute, t) /\ Tails(Append(v, instant), b, Hour, t)
           /\ Timely(b, t) /\ Apart(b, PerMinute, Minute) /\ Apart(b, PerHour, Hour)
<1>1. Minute \in Nat /\ Hour \in Nat /\ PerMinute \in Nat \ {0} /\ PerHour \in Nat \ {0}
  BY LimiterAssumption
<1> DEFINE b == Append(g, [stamp |-> instant, at |-> t])
<1>2. Tails(Append(w, instant), b, Minute, t) /\ Tails(Append(v, instant), b, Hour, t)
  BY <1>1, GrantTails
<1>3. Timely(b, t)
  BY GrantTimely
<1>4. Apart(b, PerMinute, Minute) /\ Apart(b, PerHour, Hour)
  BY <1>1, GrantApart
<1> QED
  BY <1>2, <1>3, <1>4

\* A step leaves the windows and grants of the other identities alone.
LEMMA OthersKeep ==
    ASSUME LimiterInv, NEW i \in Identities, NEW j \in Identities, j # i,
           NEW x, NEW y, NEW z, clock' = clock,
           minute' = [minute EXCEPT ![i] = x], hour' = [hour EXCEPT ![i] = y],
           granted' = [granted EXCEPT ![i] = z]
    PROVE  /\ minute'[j] = minute[j] /\ hour'[j] = hour[j] /\ granted'[j] = granted[j]
           /\ Tails(minute'[j], granted'[j], Minute, clock')
           /\ Tails(hour'[j], granted'[j], Hour, clock')
           /\ Timely(granted'[j], clock')
           /\ Apart(granted'[j], PerMinute, Minute)
           /\ Apart(granted'[j], PerHour, Hour)
<1>1. minute'[j] = minute[j] /\ hour'[j] = hour[j] /\ granted'[j] = granted[j]
  BY DEF LimiterInv, LimiterTypeOK
<1> QED
  BY <1>1 DEF LimiterInv, GrantInv

LEMMA GrantStep ==
    ASSUME LimiterInv, NEW i \in Identities, NEW instant \in Nat, instant <= clock, clock <= instant + Delay,
           NEW n \in 0 .. Len(minute[i]), NEW p \in 0 .. Len(hour[i]),
           Evicts(minute[i], instant - Minute, n), Evicts(hour[i], instant - Hour, p),
           Len(Rest(minute[i], n)) < PerMinute, Len(Rest(hour[i], p)) < PerHour,
           Grants(i, Rest(minute[i], n), Rest(hour[i], p), instant), clock' = clock
    PROVE  /\ minute' \in [Identities -> Seq(Nat)] /\ hour' \in [Identities -> Seq(Nat)]
           /\ granted' \in [Identities -> Seq(Grant)]
           /\ \A j \in Identities : Len(minute'[j]) <= PerMinute /\ Len(hour'[j]) <= PerHour
           /\ GrantInv' /\ RefusalInv'
<1>1. /\ minute[i] \in Seq(Nat) /\ hour[i] \in Seq(Nat) /\ granted[i] \in Seq(Grant)
      /\ clock \in Nat
  BY WindowOf DEF LimiterInv, LimiterTypeOK
<1>2. /\ Minute \in Nat /\ Hour \in Nat /\ Delay \in Nat
      /\ PerMinute \in Nat \ {0} /\ PerHour \in Nat \ {0}
  BY LimiterAssumption
<1> DEFINE m == Rest(minute[i], n)
           h == Rest(hour[i], p)
           e == [stamp |-> instant, at |-> clock]
           b == Append(granted[i], e)
<1>3. /\ m \in Seq(Nat) /\ h \in Seq(Nat)
      /\ Len(m) \in Nat /\ Len(h) \in Nat
  BY <1>1, RestIs, LenProperties
<1>4. /\ Tails(m, granted[i], Minute, clock) /\ Tails(h, granted[i], Hour, clock)
      /\ Timely(granted[i], clock)
      /\ Apart(granted[i], PerMinute, Minute) /\ Apart(granted[i], PerHour, Hour)
  BY <1>1, <1>2, EvictionKeeps DEF LimiterInv, GrantInv
<1>5. Len(m) < PerMinute /\ Len(h) < PerHour
  OBVIOUS
<1>6. /\ minute' = [minute EXCEPT ![i] = Append(m, instant)]
      /\ hour' = [hour EXCEPT ![i] = Append(h, instant)]
      /\ granted' = [granted EXCEPT ![i] = b]
      /\ refusal' = refusal
  BY DEF Grants
<1> HIDE DEF m, h
<1>7. /\ Append(m, instant) \in Seq(Nat) /\ Append(h, instant) \in Seq(Nat)
      /\ Len(Append(m, instant)) = Len(m) + 1 /\ Len(Append(h, instant)) = Len(h) + 1
  BY <1>3, AppendProperties
<1>8. b \in Seq(Grant)
  BY <1>1, GrantAppended
<1>9. /\ Tails(Append(m, instant), b, Minute, clock) /\ Tails(Append(h, instant), b, Hour, clock)
      /\ Timely(b, clock) /\ Apart(b, PerMinute, Minute) /\ Apart(b, PerHour, Hour)
  BY <1>1, <1>3, <1>4, <1>5, GrantsKeeps
<1> HIDE DEF b
<1>10. /\ minute' \in [Identities -> Seq(Nat)] /\ hour' \in [Identities -> Seq(Nat)]
       /\ granted' \in [Identities -> Seq(Grant)]
       /\ minute'[i] = Append(m, instant) /\ hour'[i] = Append(h, instant) /\ granted'[i] = b
  BY <1>6, <1>7, <1>8 DEF LimiterInv, LimiterTypeOK, Grant
<1>11. ASSUME NEW j \in Identities, j # i
       PROVE  /\ minute'[j] = minute[j] /\ hour'[j] = hour[j] /\ granted'[j] = granted[j]
              /\ Tails(minute'[j], granted'[j], Minute, clock')
              /\ Tails(hour'[j], granted'[j], Hour, clock')
              /\ Timely(granted'[j], clock')
              /\ Apart(granted'[j], PerMinute, Minute)
              /\ Apart(granted'[j], PerHour, Hour)
  BY <1>6, <1>11, OthersKeep
<1>12. \A j \in Identities : Len(minute'[j]) <= PerMinute /\ Len(hour'[j]) <= PerHour
  <2> SUFFICES ASSUME NEW j \in Identities
               PROVE  Len(minute'[j]) <= PerMinute /\ Len(hour'[j]) <= PerHour
    OBVIOUS
  <2>1. CASE j = i
    <3>1. Len(m) + 1 <= PerMinute /\ Len(h) + 1 <= PerHour
      BY <1>2, <1>3, <1>5
    <3> QED
      BY <1>7, <1>10, <2>1, <3>1
  <2>2. CASE j # i
    BY <1>11, <2>2, WindowOf DEF LimiterInv
  <2> QED
    BY <2>1, <2>2
<1>13. GrantInv'
  BY <1>9, <1>10, <1>11 DEF GrantInv
<1>14. RefusalInv'
  <2> SUFFICES ASSUME refusal.active
               PROVE  RefusalInv'
    BY <1>6 DEF RefusalInv
  <2>1. /\ refusal.identity \in Identities /\ refusal.at \in Nat
        /\ \/ /\ refusal.minute >= PerMinute
              /\ BusyAt(granted[refusal.identity], PerMinute, Minute, refusal.at)
           \/ /\ refusal.hour >= PerHour
              /\ BusyAt(granted[refusal.identity], PerHour, Hour, refusal.at)
    <3>1. refusal.identity \in Identities /\ refusal.at \in Nat
      <4>1. refusal # NoCall
        BY DEF NoCall
      <4> QED
        BY <4>1 DEF LimiterInv, LimiterTypeOK
    <3> QED
      BY <3>1 DEF LimiterInv, RefusalInv
  <2>2. CASE refusal.identity = i
    <3>1. /\ BusyAt(granted[i], PerMinute, Minute, refusal.at)
               => BusyAt(b, PerMinute, Minute, refusal.at)
          /\ BusyAt(granted[i], PerHour, Hour, refusal.at)
               => BusyAt(b, PerHour, Hour, refusal.at)
      BY <1>1, <1>2, <1>4, <2>1, BusyStays DEF b
    <3> QED
      BY <1>6, <1>10, <2>1, <2>2, <3>1 DEF RefusalInv
  <2>3. CASE refusal.identity # i
    BY <1>6, <1>11, <2>1, <2>3 DEF RefusalInv
  <2> QED
    BY <2>2, <2>3
<1> QED
  BY <1>10, <1>12, <1>13, <1>14

LEMMA RefuseStep ==
    ASSUME LimiterInv, NEW i \in Identities, NEW instant \in Nat, instant <= clock, clock <= instant + Delay,
           NEW n \in 0 .. Len(minute[i]), NEW p \in 0 .. Len(hour[i]),
           Evicts(minute[i], instant - Minute, n), Evicts(hour[i], instant - Hour, p),
           ~(Len(Rest(minute[i], n)) < PerMinute /\ Len(Rest(hour[i], p)) < PerHour),
           Refuses(i, Rest(minute[i], n), Rest(hour[i], p)), clock' = clock
    PROVE  /\ minute' \in [Identities -> Seq(Nat)] /\ hour' \in [Identities -> Seq(Nat)]
           /\ granted' = granted
           /\ \A j \in Identities : Len(minute'[j]) <= PerMinute /\ Len(hour'[j]) <= PerHour
           /\ refusal' \in [active : {TRUE}, identity : Identities, at : Nat,
                            minute : Nat, hour : Nat]
           /\ GrantInv' /\ RefusalInv'
<1>1. /\ minute[i] \in Seq(Nat) /\ hour[i] \in Seq(Nat) /\ granted[i] \in Seq(Grant)
      /\ Len(minute[i]) <= PerMinute /\ Len(hour[i]) <= PerHour
      /\ clock \in Nat
  BY WindowOf DEF LimiterInv, LimiterTypeOK
<1>2. /\ Minute \in Nat /\ Hour \in Nat /\ Delay \in Nat
      /\ PerMinute \in Nat \ {0} /\ PerHour \in Nat \ {0}
  BY LimiterAssumption
<1> DEFINE m == Rest(minute[i], n)
           h == Rest(hour[i], p)
<1>3. /\ m \in Seq(Nat) /\ h \in Seq(Nat)
      /\ Len(m) \in Nat /\ Len(h) \in Nat
      /\ Len(minute[i]) \in Nat /\ Len(hour[i]) \in Nat
      /\ Len(m) = Len(minute[i]) - n /\ Len(h) = Len(hour[i]) - p
  BY <1>1, RestIs, LenProperties
<1>4. /\ Tails(m, granted[i], Minute, clock) /\ Tails(h, granted[i], Hour, clock)
      /\ Tails(minute[i], granted[i], Minute, clock) /\ Tails(hour[i], granted[i], Hour, clock)
      /\ Timely(granted[i], clock)
      /\ Apart(granted[i], PerMinute, Minute) /\ Apart(granted[i], PerHour, Hour)
  BY <1>1, <1>2, EvictionKeeps DEF LimiterInv, GrantInv
<1>5. /\ minute' = [minute EXCEPT ![i] = m]
      /\ hour' = [hour EXCEPT ![i] = h]
      /\ granted' = granted
      /\ refusal' = [active |-> TRUE, identity |-> i, at |-> clock,
                     minute |-> Len(m), hour |-> Len(h)]
  BY DEF Refuses
<1>6. ~(Len(m) < PerMinute /\ Len(h) < PerHour)
  OBVIOUS
<1> HIDE DEF m, h
<1>7. Len(m) <= PerMinute /\ Len(h) <= PerHour
  <2>1. \A x, y, k \in Nat : x <= y => x - k <= y
    OBVIOUS
  <2>2. n \in Nat /\ p \in Nat
    BY <1>3
  <2>3. PerMinute \in Nat /\ PerHour \in Nat
    BY <1>2
  <2> QED
    BY <1>1, <1>3, <2>1, <2>2, <2>3, Zenon
<1>8. /\ minute' \in [Identities -> Seq(Nat)] /\ hour' \in [Identities -> Seq(Nat)]
      /\ minute'[i] = m /\ hour'[i] = h
  BY <1>3, <1>5 DEF LimiterInv, LimiterTypeOK
<1>9. granted' = [granted EXCEPT ![i] = granted[i]]
  BY <1>5 DEF LimiterInv, LimiterTypeOK
<1>10. ASSUME NEW j \in Identities, j # i
       PROVE  /\ minute'[j] = minute[j] /\ hour'[j] = hour[j] /\ granted'[j] = granted[j]
              /\ Tails(minute'[j], granted'[j], Minute, clock')
              /\ Tails(hour'[j], granted'[j], Hour, clock')
              /\ Timely(granted'[j], clock')
              /\ Apart(granted'[j], PerMinute, Minute)
              /\ Apart(granted'[j], PerHour, Hour)
  BY <1>5, <1>9, <1>10, OthersKeep
<1>11. \A j \in Identities : Len(minute'[j]) <= PerMinute /\ Len(hour'[j]) <= PerHour
  BY <1>7, <1>8, <1>10, WindowOf DEF LimiterInv
<1>12. GrantInv'
  BY <1>4, <1>5, <1>8, <1>10 DEF GrantInv
<1>13. refusal' \in [active : {TRUE}, identity : Identities, at : Nat, minute : Nat, hour : Nat]
  BY <1>1, <1>3, <1>5
<1>14. ASSUME Len(m) = PerMinute PROVE RefusalInv'
  <2>1. BusyAt(granted[i], PerMinute, Minute, clock)
    BY <1>1, <1>2, <1>3, <1>4, <1>14, FullIsBusy DEF m
  <2>2. refusal'.minute >= PerMinute
    BY <1>2, <1>5, <1>14
  <2>3. BusyAt(granted'[refusal'.identity], PerMinute, Minute, refusal'.at)
    BY <1>5, <2>1
  <2> QED
    BY <2>2, <2>3 DEF RefusalInv
<1>15. ASSUME Len(h) = PerHour PROVE RefusalInv'
  <2>1. BusyAt(granted[i], PerHour, Hour, clock)
    BY <1>1, <1>2, <1>3, <1>4, <1>15, FullIsBusy DEF h
  <2>2. refusal'.hour >= PerHour
    BY <1>2, <1>5, <1>15
  <2>3. BusyAt(granted'[refusal'.identity], PerHour, Hour, refusal'.at)
    BY <1>5, <2>1
  <2> QED
    BY <2>2, <2>3 DEF RefusalInv
<1>16. Len(m) = PerMinute \/ Len(h) = PerHour
  <2>1. \A a, b, x, y \in Nat : a <= x /\ b <= y /\ ~(a < x /\ b < y) => a = x \/ b = y
    OBVIOUS
  <2>2. Len(m) \in Nat /\ Len(h) \in Nat /\ PerMinute \in Nat /\ PerHour \in Nat
    BY <1>2, <1>3
  <2> QED
    BY <1>6, <1>7, <2>1, <2>2
<1> QED
  BY <1>5, <1>8, <1>11, <1>12, <1>13, <1>14, <1>15, <1>16

LEMMA DecideStep ==
    ASSUME LimiterInv, NEW t \in Callers, Decides(t)
    PROVE  LimiterInv'
<1> DEFINE i == calls[t].identity
           instant == calls[t].now
<1>1. i \in Identities /\ instant \in Nat /\ instant <= clock /\ clock <= instant + Delay
  <2>1. calls[t] # NoCall
    BY DEF Decides, NoCall
  <2>2. calls[t] \in Call
    BY <2>1 DEF LimiterInv, LimiterTypeOK
  <2> QED
    BY <2>2 DEF Decides, LimiterInv, CallInv, Call
<1>2. calls' = [calls EXCEPT ![t] = NoCall] /\ clock' = clock
  BY DEF Decides
<1>3. PICK n \in 0 .. Len(minute[i]), p \in 0 .. Len(hour[i]) :
          /\ Evicts(minute[i], instant - Minute, n)
          /\ Evicts(hour[i], instant - Hour, p)
          /\ \/ /\ Len(Rest(minute[i], n)) < PerMinute /\ Len(Rest(hour[i], p)) < PerHour
                /\ Grants(i, Rest(minute[i], n), Rest(hour[i], p), instant)
             \/ /\ ~(Len(Rest(minute[i], n)) < PerMinute /\ Len(Rest(hour[i], p)) < PerHour)
                /\ Refuses(i, Rest(minute[i], n), Rest(hour[i], p))
  BY Zenon DEF Decides
<1> HIDE DEF i, instant
<1>4. calls' \in [Callers -> Call \union {NoCall}] /\ CallInv'
  <2>1. calls' \in [Callers -> Call \union {NoCall}]
    BY <1>2 DEF LimiterInv, LimiterTypeOK
  <2>2. CallInv'
    BY <1>2 DEF LimiterInv, LimiterTypeOK, CallInv, NoCall
  <2> QED
    BY <2>1, <2>2
<1>5. clock' \in Nat
  BY <1>2 DEF LimiterInv, LimiterTypeOK
<1>6. CASE /\ Len(Rest(minute[i], n)) < PerMinute /\ Len(Rest(hour[i], p)) < PerHour
           /\ Grants(i, Rest(minute[i], n), Rest(hour[i], p), instant)
  <2>1. /\ minute' \in [Identities -> Seq(Nat)] /\ hour' \in [Identities -> Seq(Nat)]
        /\ granted' \in [Identities -> Seq(Grant)]
        /\ \A j \in Identities : Len(minute'[j]) <= PerMinute /\ Len(hour'[j]) <= PerHour
        /\ GrantInv' /\ RefusalInv'
    BY <1>1, <1>2, <1>3, <1>6, GrantStep
  <2>2. refusal' = refusal
    BY <1>6 DEF Grants
  <2> QED
    BY <1>4, <1>5, <2>1, <2>2 DEF LimiterInv, LimiterTypeOK, Grant
<1>7. CASE /\ ~(Len(Rest(minute[i], n)) < PerMinute /\ Len(Rest(hour[i], p)) < PerHour)
           /\ Refuses(i, Rest(minute[i], n), Rest(hour[i], p))
  <2>1. /\ minute' \in [Identities -> Seq(Nat)] /\ hour' \in [Identities -> Seq(Nat)]
        /\ granted' = granted
        /\ \A j \in Identities : Len(minute'[j]) <= PerMinute /\ Len(hour'[j]) <= PerHour
        /\ refusal' \in [active : {TRUE}, identity : Identities, at : Nat,
                         minute : Nat, hour : Nat]
        /\ GrantInv' /\ RefusalInv'
    BY <1>1, <1>2, <1>3, <1>7, RefuseStep
  <2> QED
    BY <1>4, <1>5, <2>1 DEF LimiterInv, LimiterTypeOK
<1> QED
  BY <1>3, <1>6, <1>7

LEMMA TickStep ==
    ASSUME LimiterInv, LimiterTick
    PROVE  LimiterInv'
<1>1. clock \in Nat /\ clock' = clock + 1 /\ UNCHANGED <<minute, hour, calls, granted, refusal>>
  BY DEF LimiterTick, LimiterInv, LimiterTypeOK
<1>2. LimiterTypeOK'
  <2>1. clock' \in Nat
    BY <1>1
  <2> QED
    BY <1>1, <2>1 DEF LimiterInv, LimiterTypeOK
<1>3. CallInv'
  <2> SUFFICES ASSUME NEW t \in Callers, calls[t].active
               PROVE  calls[t].now <= clock' /\ clock' <= calls[t].now + Delay
    BY <1>1 DEF CallInv
  <2>1. calls[t].now \in Nat
    <3>1. calls[t] # NoCall
      BY DEF NoCall
    <3> QED
      BY <3>1 DEF LimiterInv, LimiterTypeOK, Call
  <2>2. calls[t].now <= clock /\ clock < calls[t].now + Delay
    BY DEF LimiterInv, CallInv, LimiterTick
  <2> QED
    BY <1>1, <2>1, <2>2, LimiterAssumption
<1>4. GrantInv'
  <2> SUFFICES ASSUME NEW i \in Identities
               PROVE  /\ Tails(minute[i], granted[i], Minute, clock + 1)
                      /\ Tails(hour[i], granted[i], Hour, clock + 1)
                      /\ Timely(granted[i], clock + 1)
                      /\ Apart(granted[i], PerMinute, Minute)
                      /\ Apart(granted[i], PerHour, Hour)
    BY <1>1 DEF GrantInv
  <2>1. minute[i] \in Seq(Nat) /\ hour[i] \in Seq(Nat) /\ granted[i] \in Seq(Grant)
    BY WindowOf DEF LimiterInv
  <2>2. Minute \in Nat /\ Hour \in Nat
    BY LimiterAssumption
  <2> QED
    BY <1>1, <2>1, <2>2, TailsLater, TimelyLater DEF LimiterInv, GrantInv
<1>5. RefusalInv'
  BY <1>1 DEF LimiterInv, RefusalInv
<1> QED
  BY <1>2, <1>3, <1>4, <1>5 DEF LimiterInv

LEMMA ClockReadStep ==
    ASSUME LimiterInv, NEW t \in Callers, NEW i \in Identities, ReadsClock(t, i)
    PROVE  LimiterInv'
<1>1. /\ calls' = [calls EXCEPT ![t] = [active |-> TRUE, identity |-> i, now |-> clock]]
      /\ UNCHANGED <<clock, minute, hour, granted, refusal>> /\ clock \in Nat
  BY DEF ReadsClock, LimiterInv, LimiterTypeOK
<1>2. calls' \in [Callers -> Call \union {NoCall}]
  BY <1>1 DEF LimiterInv, LimiterTypeOK, Call
<1>3. LimiterTypeOK'
  BY <1>1, <1>2 DEF LimiterInv, LimiterTypeOK
<1>4. CallInv'
  BY <1>1, LimiterAssumption DEF LimiterInv, LimiterTypeOK, CallInv
<1>5. GrantInv' /\ RefusalInv'
  BY <1>1 DEF LimiterInv, GrantInv, RefusalInv
<1> QED
  BY <1>3, <1>4, <1>5 DEF LimiterInv

LEMMA LimiterStep ==
    ASSUME LimiterInv, [LimiterNext]_limiterVars
    PROVE  LimiterInv'
<1>1. CASE UNCHANGED limiterVars
  BY <1>1 DEF limiterVars, LimiterInv, LimiterTypeOK, CallInv, GrantInv, RefusalInv
<1> QED
  BY <1>1, ClockReadStep, DecideStep, TickStep DEF LimiterNext

LEMMA LimiterStart ==
    ASSUME LimiterInit
    PROVE  LimiterInv
<1>1. LimiterTypeOK
  BY LimiterAssumption, EmptySeq DEF LimiterInit, LimiterTypeOK
<1>2. CallInv /\ RefusalInv
  BY DEF LimiterInit, CallInv, RefusalInv, NoCall
<1>3. GrantInv
  <2> SUFFICES ASSUME NEW i \in Identities
               PROVE  /\ Tails(<<>>, <<>>, Minute, 0) /\ Tails(<<>>, <<>>, Hour, 0)
                      /\ Timely(<<>>, 0)
                      /\ Apart(<<>>, PerMinute, Minute) /\ Apart(<<>>, PerHour, Hour)
    BY DEF LimiterInit, GrantInv
  <2> QED
    BY LimiterAssumption DEF Tails, Timely, Apart
<1> QED
  BY <1>1, <1>2, <1>3 DEF LimiterInv

\* Every variable of the limiter keeps its type, and no window grows past its
\* limit.
THEOREM LimiterTypes == LimiterSpec => []LimiterTypeOK
<1>1. LimiterInv => LimiterTypeOK
  BY DEF LimiterInv
<1> QED
  BY <1>1, LimiterStart, LimiterStep, PTL DEF LimiterSpec

\* Whatever order the threads get the lock in, and however old the time they
\* evict by: grants are spaced in real time, up to the delay of one thread.
THEOREM LimiterSpaces == LimiterSpec => []GrantsSpaced
<1>1. LimiterInv => GrantsSpaced
  BY DEF LimiterInv, GrantInv, Apart, GrantsSpaced
<1> QED
  BY <1>1, LimiterStart, LimiterStep, PTL DEF LimiterSpec

\* No identity is refused without as many recent grants as its limit.
THEOREM LimiterRefuses == LimiterSpec => []RefusedOnlyWhenBusy
<1>1. LimiterInv => RefusedOnlyWhenBusy
  BY DEF LimiterInv, RefusalInv, BusyAt, RefusedOnlyWhenBusy
<1> QED
  BY <1>1, LimiterStart, LimiterStep, PTL DEF LimiterSpec

-----------------------------------------------------------------------------
(* The HITL gate, one request at a time and under threads *)

USE HitlAssumption DEF HitlAssumption

-----------------------------------------------------------------------------
(* Scores fall as the count grows *)

LEMMA BodyParts ==
  ASSUME NEW b \in Bodies
  PROVE  /\ b.fp \in Fingerprints
         /\ b.action \in Ratings /\ b.target \in Ratings
         /\ b.a2a \in BOOLEAN /\ b.injection \in BOOLEAN
  BY DEF Body

LEMMA HistoryScoreFalls ==
  ASSUME NEW m \in 0 .. Frequent, NEW n \in 0 .. Frequent, m <= n
  PROVE  /\ HistoryScore(n) <= HistoryScore(m)
         /\ HistoryScore(m) \in 0 .. 10 /\ HistoryScore(n) \in 0 .. 10
  BY DEF HistoryScore, Frequent

LEMMA CappedMonotone ==
  ASSUME NEW s \in Nat, NEW t \in Nat, s <= t
  PROVE  Capped(s) <= Capped(t) /\ Capped(s) \in Nat /\ Capped(t) \in Nat
  BY DEF Capped

LEMMA TierMonotone ==
  ASSUME NEW s \in Nat, NEW t \in Nat, s <= t
  PROVE  TierForScore(s) <= TierForScore(t)
  BY DEF TierForScore, AUTO, MEDIUM, HIGH, CRITICAL

\* The score of a body falls, or stays, as its fingerprint becomes familiar.
LEMMA ScoreFalls ==
  ASSUME NEW b \in Bodies, NEW m \in 0 .. Frequent, NEW n \in 0 .. Frequent, m <= n
  PROVE  Score(b, n) <= Score(b, m) /\ Score(b, n) \in Nat /\ Score(b, m) \in Nat
  <1> DEFINE base(k) == 40 * b.action + 35 * b.target + 25 * HistoryScore(k)
             injected(k) == IF b.injection THEN Capped(base(k) + 500) ELSE base(k)
  <1>1. base(n) <= base(m) /\ base(n) \in Nat /\ base(m) \in Nat
    <2>1. b.action \in 0 .. 10 /\ b.target \in 0 .. 10
      BY BodyParts DEF Ratings
    <2>2. /\ HistoryScore(n) <= HistoryScore(m)
          /\ HistoryScore(m) \in 0 .. 10 /\ HistoryScore(n) \in 0 .. 10
      BY HistoryScoreFalls
    <2>3. \A a, t \in 0 .. 10, x, y \in 0 .. 10 :
              x <= y => /\ 40 * a + 35 * t + 25 * x <= 40 * a + 35 * t + 25 * y
                        /\ 40 * a + 35 * t + 25 * x \in Nat
                        /\ 40 * a + 35 * t + 25 * y \in Nat
      OBVIOUS
    <2> QED
      BY <2>1, <2>2, <2>3
  <1> HIDE DEF base
  <1>2. injected(n) <= injected(m) /\ injected(n) \in Nat /\ injected(m) \in Nat
    <2>1. CASE b.injection
      <3>1. base(n) + 500 \in Nat /\ base(m) + 500 \in Nat /\ base(n) + 500 <= base(m) + 500
        BY <1>1
      <3> QED
        BY <2>1, <3>1, CappedMonotone
    <2>2. CASE ~b.injection
      BY <2>2, <1>1
    <2> QED
      BY <2>1, <2>2
  <1> HIDE DEF injected
  <1>3. Score(b, n) = (IF b.a2a THEN Capped(injected(n) + 300) ELSE injected(n))
    BY DEF Score, injected, base
  <1>4. Score(b, m) = (IF b.a2a THEN Capped(injected(m) + 300) ELSE injected(m))
    BY DEF Score, injected, base
  <1>5. CASE b.a2a
    <2>1. injected(n) + 300 \in Nat /\ injected(m) + 300 \in Nat
          /\ injected(n) + 300 <= injected(m) + 300
      BY <1>2
    <2> QED
      BY <1>3, <1>4, <1>5, <2>1, CappedMonotone
  <1>6. CASE ~b.a2a
    BY <1>2, <1>3, <1>4, <1>6
  <1> QED
    BY <1>5, <1>6

-----------------------------------------------------------------------------
(* The history *)

\* The file is readable and as the process has it, until a save fails.
HistoryInv ==
    /\ counts \in Count
    /\ saved \in [readable : BOOLEAN, counts : Count]
    /\ faults \in Nat
    /\ faults = 0 => saved.readable /\ (up => saved.counts = counts)

LEMMA BumpedType ==
  ASSUME counts \in Count, NEW u \in Users, NEW b \in Bodies
  PROVE  /\ Bumped(u, b.fp) \in Count
         /\ \A v \in Users, g \in Fingerprints : counts[v][g] <= Bumped(u, b.fp)[v][g]
  <1>1. b.fp \in Fingerprints
    BY BodyParts
  <1>2. \A v \in Users, g \in Fingerprints : counts[v][g] \in 0 .. Frequent
    BY DEF Count
  <1> DEFINE n == counts[u][b.fp]
             n1 == IF n < Frequent THEN n + 1 ELSE n
  <1>3. n1 \in 0 .. Frequent /\ n <= n1
    BY <1>1, <1>2 DEF Frequent
  <1> HIDE DEF n1
  <1>4. Bumped(u, b.fp) = [counts EXCEPT ![u][b.fp] = n1]
    BY DEF Bumped, n1
  <1>5. Bumped(u, b.fp) \in Count
    BY <1>1, <1>3, <1>4 DEF Count
  <1>6. ASSUME NEW v \in Users, NEW g \in Fingerprints
        PROVE  counts[v][g] <= Bumped(u, b.fp)[v][g]
    <2>1. CASE v = u /\ g = b.fp
      <3>1. Bumped(u, b.fp)[v][g] = n1
        BY <1>1, <1>4, <2>1 DEF Count
      <3> QED
        BY <1>3, <2>1, <3>1
    <2>2. CASE v # u \/ g # b.fp
      <3>1. Bumped(u, b.fp)[v][g] = counts[v][g]
        BY <1>1, <1>4, <2>2 DEF Count
      <3>2. counts[v][g] \in 0 .. Frequent
        BY <1>2
      <3> QED
        BY <3>1, <3>2
    <2> QED
      BY <2>1, <2>2
  <1> QED
    BY <1>5, <1>6

\* Whatever becomes of a submission, it is counted and saved.
LEMMA SubmitCounts ==
  ASSUME NEW u \in Users, NEW b \in Bodies, Submit(u, b)
  PROVE  /\ up /\ up' = up /\ faults' = faults
         /\ now' = now /\ signed' = signed
         /\ Scored(u, b)
  BY Zenon DEF Submit, Submits, InjectionBlocked, AutoApproved, TokenRequired, TokenAccepted,
     TokenRefused, ChallengeIssued, ChallengeAccepted, ChallengeForOtherBody, ChallengeRefused

LEMMA EmptyHistory ==
  /\ NoCounts \in Count
  /\ Unreadable \in [readable : BOOLEAN, counts : Count]
  <1>1. NoCounts \in Count
    BY DEF NoCounts, Count, Frequent
  <1> QED
    BY <1>1 DEF Unreadable

LEMMA HistoryStep ==
  ASSUME HistoryInv, [HitlNext]_hitlVars
  PROVE  HistoryInv'
  <1> USE DEF HistoryInv
  <1>1. ASSUME NEW u \in Users, NEW b \in Bodies, Submit(u, b)
        PROVE  HistoryInv'
    <2>1. up' = up /\ faults' = faults /\ counts' = Bumped(u, b.fp)
          /\ saved' = [readable |-> TRUE, counts |-> counts']
      BY <1>1, SubmitCounts DEF Scored
    <2>2. counts' \in Count
      BY <2>1, BumpedType
    <2>3. saved' \in [readable : BOOLEAN, counts : Count]
          /\ saved'.readable /\ saved'.counts = counts'
      BY <2>1, <2>2
    <2>4. faults' \in Nat
      BY <2>1
    <2> QED
      BY <2>2, <2>3, <2>4, Zenon
  <1>2. ASSUME NEW u \in Users, NEW b \in Bodies, SaveRaises(u, b)
        PROVE  HistoryInv'
    <2>1. faults' = faults + 1 /\ counts' = Bumped(u, b.fp) /\ saved' \in {saved, Unreadable}
      BY <1>2 DEF SaveRaises, Fault
    <2>2. counts' \in Count
      BY <2>1, BumpedType
    <2>3. saved' \in [readable : BOOLEAN, counts : Count]
      BY <2>1, EmptyHistory, Zenon
    <2>4. faults' \in Nat /\ faults' # 0
      BY <2>1
    <2> QED
      BY <2>2, <2>3, <2>4
  <1>3. CASE Crash
    BY <1>3, EmptyHistory DEF Crash, Stops
  <1>4. CASE CrashInSave
    <2>1. counts' = NoCounts /\ faults' = faults + 1 /\ saved' = Unreadable
      BY <1>4 DEF CrashInSave, Stops, Fault
    <2>2. faults' \in Nat /\ faults' # 0
      BY <2>1
    <2> QED
      BY <2>1, <2>2, EmptyHistory DEF Unreadable
  <1>5. CASE Start
    <2>1. faults' = faults /\ saved' = saved
          /\ counts' = (IF saved.readable THEN saved.counts ELSE NoCounts)
      BY <1>5 DEF Start
    <2> QED
      BY <2>1, EmptyHistory
  <1>6. CASE Tick \/ (\E c \in Ids : Sign(c)) \/ UNCHANGED hitlVars
    BY <1>6 DEF Tick, Sign, hitlVars, history
  <1> QED
    BY <1>1, <1>2, <1>3, <1>4, <1>5, <1>6 DEF HitlNext

LEMMA HistoryInit ==
  ASSUME HitlInit
  PROVE  HistoryInv
  <1>1. PICK n \in PriorCounts : counts = [u \in Users |-> [p \in Fingerprints |-> n]]
    BY DEF HitlInit
  <1>2. counts \in Count
    BY <1>1 DEF Count
  <1> QED
    BY <1>2 DEF HitlInit, HistoryInv

\* As long as no save failed or was cut short, every process scores with the
\* counts the one before it had, for any number of restarts.
THEOREM HistoryKept == HitlSpec => []HistorySurvives
  <1>1. HistoryInv => HistorySurvives
    BY DEF HistoryInv, HistorySurvives
  <1> QED
    BY <1>1, HistoryInit, HistoryStep, PTL DEF HitlSpec

\* No submission, of anybody, raises the tier a request will be handled in.
THEOREM NeverEscalates == HitlSpec => RetryNeverEscalates
  <1>1. ASSUME HistoryInv, [HitlNext]_hitlVars, NEW u \in Users, NEW b \in Bodies, up, up'
        PROVE  Tier(u, b)' <= Tier(u, b)
    <2>1. counts'[u][b.fp] \in 0 .. Frequent /\ counts[u][b.fp] \in 0 .. Frequent
      BY <1>1, BodyParts, HistoryStep DEF HistoryInv, Count
    <2>2. counts[u][b.fp] <= counts'[u][b.fp]
      <3>1. ASSUME NEW v \in Users, NEW c \in Bodies, counts' = Bumped(v, c.fp)
            PROVE  counts[u][b.fp] <= counts'[u][b.fp]
        BY <1>1, <3>1, BumpedType, BodyParts DEF HistoryInv
      <3>2. CASE counts' = counts
        BY <2>1, <3>2
      <3>3. \/ counts' = counts
            \/ \E v \in Users, c \in Bodies : counts' = Bumped(v, c.fp)
        <4>1. CASE \E v \in Users, c \in Bodies : Submit(v, c) \/ SaveRaises(v, c)
          BY <4>1, SubmitCounts, Zenon DEF Scored, SaveRaises
        <4>2. CASE Crash \/ CrashInSave \/ Start
          BY <1>1, <4>2 DEF Crash, CrashInSave, Stops, Start
        <4>3. CASE Tick \/ (\E c \in Ids : Sign(c)) \/ UNCHANGED hitlVars
          BY <4>3 DEF Tick, Sign, hitlVars, history
        <4> QED
          BY <1>1, <4>1, <4>2, <4>3 DEF HitlNext
      <3> QED
        BY <3>1, <3>2, <3>3
    <2>3. /\ Score(b, counts'[u][b.fp]) <= Score(b, counts[u][b.fp])
          /\ Score(b, counts'[u][b.fp]) \in Nat /\ Score(b, counts[u][b.fp]) \in Nat
      BY <2>1, <2>2, ScoreFalls
    <2>4. TierForScore(Score(b, counts'[u][b.fp])) <= TierForScore(Score(b, counts[u][b.fp]))
      BY <2>3, TierMonotone
    <2> QED
      BY <2>4 DEF Tier
  <1>2. ASSUME HistoryInv, [HitlNext]_hitlVars
        PROVE  [\A u \in Users, b \in Bodies :
                   up /\ up' => Tier(u, b)' <= Tier(u, b)]_hitlVars
    BY <1>1, <1>2
  <1> QED
    BY <1>2, HistoryInit, HistoryStep, PTL DEF HitlSpec, RetryNeverEscalates

-----------------------------------------------------------------------------
(* The credentials *)

\* No approval was bought with this credential.
Unspent(id) == \A i \in 1 .. Len(approvals) : approvals[i].by # id

\* A token in the store is as it was issued, and unspent.
TokenInv ==
    \A t \in DOMAIN tokens :
        /\ t \in 1 .. Len(issued)
        /\ tokens[t] \in [user : Users, expiry : Nat]
        /\ issued[t].kind = "token"
        /\ issued[t].user = tokens[t].user
        /\ tokens[t].expiry = issued[t].at + TTL
        /\ Unspent(t)

\* A challenge in the store is as it was issued, and unspent until it is used.
ChallengeInv ==
    \A c \in DOMAIN challenges :
        /\ c \in 1 .. Len(issued)
        /\ challenges[c] \in [body : Bodies, user : Users, at : Nat, used : BOOLEAN]
        /\ issued[c].kind = "challenge"
        /\ issued[c].body = challenges[c].body
        /\ issued[c].at = challenges[c].at
        /\ ~challenges[c].used => Unspent(c)

\* What ApprovalsBacked says of one approval.
Backed(a) ==
    /\ a.by \in 1 .. Len(issued)
    /\ a.at - issued[a.by].at <= TTL
    /\ IF a.tier = CRITICAL
       THEN issued[a.by].kind = "challenge" /\ issued[a.by].body = a.body /\ a.by \in signed
       ELSE issued[a.by].kind = "token" /\ issued[a.by].user = a.user

AllBacked == \A i \in 1 .. Len(approvals) : Backed(approvals[i])

CredentialTypeOK ==
    /\ now \in Nat
    /\ up \in BOOLEAN
    /\ signed \subseteq Ids
    /\ issued \in Seq(Credential) /\ Len(issued) <= MaxIds
    /\ approvals \in Seq(Approval)

CredentialInv ==
    /\ CredentialTypeOK
    /\ TokenInv
    /\ ChallengeInv
    /\ AllBacked
    /\ OneApprovalEach

\* Issuing adds one record and leaves the others.
LEMMA IssuedExtends ==
  ASSUME CredentialTypeOK, NEW u \in Users, NEW b \in Bodies,
         NEW kind \in {"token", "challenge"}, Issued(u, b, kind)
  PROVE  /\ issued' \in Seq(Credential) /\ Len(issued') = Len(issued) + 1
         /\ Len(issued') <= MaxIds /\ NewId = Len(issued')
         /\ \A i \in 1 .. Len(issued) : issued'[i] = issued[i]
         /\ issued'[NewId] = [user |-> u, body |-> b, kind |-> kind, at |-> now]
  <1> DEFINE x == [user |-> u, body |-> b, kind |-> kind, at |-> now]
  <1>1. x \in Credential
    BY DEF Credential, CredentialTypeOK
  <1>2. issued' = Append(issued, x) /\ NewId \in Ids
    BY DEF Issued
  <1> HIDE DEF x
  <1>3. issued \in Seq(Credential) /\ Len(issued) \in Nat
    BY LenProperties DEF CredentialTypeOK
  <1>4. /\ issued' \in Seq(Credential) /\ Len(issued') = Len(issued) + 1
        /\ \A i \in 1 .. Len(issued) : issued'[i] = issued[i]
        /\ issued'[Len(issued) + 1] = x
    BY <1>1, <1>2, <1>3, AppendProperties
  <1>5. NewId = Len(issued') /\ Len(issued') <= MaxIds
    BY <1>2, <1>3, <1>4 DEF NewId, Ids
  <1> QED
    BY <1>4, <1>5 DEF x, NewId

\* Records stay backed as more are issued and more challenges signed.
LEMMA BackedGrows ==
  ASSUME CredentialTypeOK, AllBacked, approvals' = approvals, signed \subseteq signed',
         Len(issued') \in Nat, Len(issued) <= Len(issued'),
         \A i \in 1 .. Len(issued) : issued'[i] = issued[i]
  PROVE  AllBacked'
  <1>1. Len(issued) \in Nat
    BY LenProperties DEF CredentialTypeOK
  <1> SUFFICES ASSUME NEW i \in 1 .. Len(approvals)
               PROVE  Backed(approvals[i])'
    BY DEF AllBacked
  <1> DEFINE a == approvals[i]
  <1>2. Backed(a)
    BY DEF AllBacked
  <1> HIDE DEF a
  <1>3. a.by \in 1 .. Len(issued') /\ issued'[a.by] = issued[a.by]
    BY <1>1, <1>2 DEF Backed
  <1>4. a' = a
    BY DEF a
  <1>5. Backed(a)'
    BY <1>2, <1>3, <1>4 DEF Backed
  <1> QED
    BY <1>4, <1>5 DEF a

\* A new token.
LEMMA TokenIssuedKeeps ==
  ASSUME CredentialInv, NEW u \in Users, NEW b \in Bodies, IssueToken(u, b),
         UNCHANGED <<now, up, signed, approvals>>
  PROVE  CredentialInv'
  <1>1. /\ issued' \in Seq(Credential) /\ Len(issued') = Len(issued) + 1
        /\ Len(issued') <= MaxIds /\ NewId = Len(issued')
        /\ \A i \in 1 .. Len(issued) : issued'[i] = issued[i]
        /\ issued'[NewId] = [user |-> u, body |-> b, kind |-> "token", at |-> now]
    BY IssuedExtends DEF IssueToken, CredentialInv
  <1>2. Len(issued) \in Nat /\ Len(issued') \in Nat
    BY <1>1, LenProperties DEF CredentialInv, CredentialTypeOK
  <1>3. CredentialTypeOK'
    BY <1>1 DEF CredentialInv, CredentialTypeOK
  <1>4. AllBacked'
    BY <1>1, <1>2, BackedGrows DEF CredentialInv
  <1>5. OneApprovalEach'
    BY DEF CredentialInv, OneApprovalEach
  <1>6. \A id : Unspent(id)' <=> Unspent(id)
    BY DEF Unspent
  <1>7. Unspent(NewId)
    <2>1. \A i \in 1 .. Len(approvals) : approvals[i].by \in 1 .. Len(issued)
      BY DEF CredentialInv, AllBacked, Backed
    <2> QED
      BY <1>1, <1>2, <2>1 DEF Unspent
  <1>8. TokenInv'
    <2> SUFFICES ASSUME NEW t \in DOMAIN tokens'
                 PROVE  /\ t \in 1 .. Len(issued')
                        /\ tokens'[t] \in [user : Users, expiry : Nat]
                        /\ issued'[t].kind = "token"
                        /\ issued'[t].user = tokens'[t].user
                        /\ tokens'[t].expiry = issued'[t].at + TTL
                        /\ Unspent(t)
      BY <1>6 DEF TokenInv
    <2> DEFINE v == [user |-> u, expiry |-> now + TTL]
    <2>1. tokens' = With(tokens, NewId, v)
      BY DEF IssueToken
    <2> HIDE DEF v
    <2>2. /\ DOMAIN tokens' = DOMAIN tokens \union {NewId}
          /\ tokens'[NewId] = v
          /\ \A i \in DOMAIN tokens : i # NewId => tokens'[i] = tokens[i]
      BY <2>1, Zenon DEF With
    <2>3. CASE t = NewId
      <3>1. tokens'[t] = [user |-> u, expiry |-> now + TTL]
        BY <2>2, <2>3 DEF v
      <3>2. t \in 1 .. Len(issued')
        BY <1>1, <1>2, <2>3
      <3> QED
        BY <1>1, <1>7, <2>3, <3>1, <3>2 DEF CredentialInv, CredentialTypeOK
    <2>4. CASE t # NewId
      <3>1. t \in DOMAIN tokens /\ tokens'[t] = tokens[t]
        BY <2>2, <2>4
      <3>2. t \in 1 .. Len(issued) /\ issued'[t] = issued[t]
        BY <1>1, <3>1 DEF CredentialInv, TokenInv
      <3>3. t \in 1 .. Len(issued')
        BY <1>1, <1>2, <3>2
      <3> QED
        BY <3>1, <3>2, <3>3 DEF CredentialInv, TokenInv
    <2> QED
      BY <2>3, <2>4
  <1>9. ChallengeInv'
    <2>1. challenges' = challenges
      BY DEF IssueToken
    <2>2. ASSUME NEW c \in DOMAIN challenges
          PROVE  c \in 1 .. Len(issued') /\ issued'[c] = issued[c]
      <3>1. c \in 1 .. Len(issued)
        BY DEF CredentialInv, ChallengeInv
      <3> QED
        BY <1>1, <1>2, <3>1
    <2> QED
      BY <1>6, <2>1, <2>2 DEF CredentialInv, ChallengeInv
  <1> QED
    BY <1>3, <1>4, <1>5, <1>8, <1>9 DEF CredentialInv

\* A new challenge.
IssuesChallenge(u, b) ==
    /\ Issued(u, b, "challenge")
    /\ challenges' = With(challenges, NewId,
           [body |-> b, user |-> u, at |-> now, used |-> FALSE])
    /\ UNCHANGED <<tokens, approvals>>

LEMMA ChallengeIssuedKeeps ==
  ASSUME CredentialInv, NEW u \in Users, NEW b \in Bodies, IssuesChallenge(u, b),
         UNCHANGED <<now, up, signed>>
  PROVE  CredentialInv'
  <1>0. approvals' = approvals /\ tokens' = tokens
    BY DEF IssuesChallenge
  <1>1. /\ issued' \in Seq(Credential) /\ Len(issued') = Len(issued) + 1
        /\ Len(issued') <= MaxIds /\ NewId = Len(issued')
        /\ \A i \in 1 .. Len(issued) : issued'[i] = issued[i]
        /\ issued'[NewId] = [user |-> u, body |-> b, kind |-> "challenge", at |-> now]
    BY IssuedExtends DEF IssuesChallenge, CredentialInv
  <1>2. Len(issued) \in Nat /\ Len(issued') \in Nat
    BY <1>1, LenProperties DEF CredentialInv, CredentialTypeOK
  <1>3. CredentialTypeOK'
    BY <1>0, <1>1 DEF CredentialInv, CredentialTypeOK
  <1>4. AllBacked'
    BY <1>0, <1>1, <1>2, BackedGrows DEF CredentialInv
  <1>5. OneApprovalEach'
    BY <1>0 DEF CredentialInv, OneApprovalEach
  <1>6. \A id : Unspent(id)' <=> Unspent(id)
    BY <1>0 DEF Unspent
  <1>7. Unspent(NewId)
    <2>1. \A i \in 1 .. Len(approvals) : approvals[i].by \in 1 .. Len(issued)
      BY DEF CredentialInv, AllBacked, Backed
    <2> QED
      BY <1>1, <1>2, <2>1 DEF Unspent
  <1>8. ChallengeInv'
    <2> SUFFICES ASSUME NEW c \in DOMAIN challenges'
                 PROVE  /\ c \in 1 .. Len(issued')
                        /\ challenges'[c] \in [body : Bodies, user : Users, at : Nat,
                                                used : BOOLEAN]
                        /\ issued'[c].kind = "challenge"
                        /\ issued'[c].body = challenges'[c].body
                        /\ issued'[c].at = challenges'[c].at
                        /\ ~challenges'[c].used => Unspent(c)
      BY <1>6 DEF ChallengeInv
    <2> DEFINE v == [body |-> b, user |-> u, at |-> now, used |-> FALSE]
    <2>1. challenges' = With(challenges, NewId, v)
      BY DEF IssuesChallenge
    <2> HIDE DEF v
    <2>2. /\ DOMAIN challenges' = DOMAIN challenges \union {NewId}
          /\ challenges'[NewId] = v
          /\ \A i \in DOMAIN challenges : i # NewId => challenges'[i] = challenges[i]
      BY <2>1, Zenon DEF With
    <2>3. CASE c = NewId
      <3>1. challenges'[c] = [body |-> b, user |-> u, at |-> now, used |-> FALSE]
        BY <2>2, <2>3 DEF v
      <3>2. c \in 1 .. Len(issued')
        BY <1>1, <1>2, <2>3
      <3> QED
        BY <1>1, <1>7, <2>3, <3>1, <3>2 DEF CredentialInv, CredentialTypeOK
    <2>4. CASE c # NewId
      <3>1. c \in DOMAIN challenges /\ challenges'[c] = challenges[c]
        BY <2>2, <2>4
      <3>2. c \in 1 .. Len(issued) /\ issued'[c] = issued[c]
        BY <1>1, <3>1 DEF CredentialInv, ChallengeInv
      <3>3. c \in 1 .. Len(issued')
        BY <1>1, <1>2, <3>2
      <3> QED
        BY <3>1, <3>2, <3>3 DEF CredentialInv, ChallengeInv
    <2> QED
      BY <2>3, <2>4
  <1>9. TokenInv'
    <2>1. ASSUME NEW t \in DOMAIN tokens
          PROVE  t \in 1 .. Len(issued') /\ issued'[t] = issued[t]
      <3>1. t \in 1 .. Len(issued)
        BY DEF CredentialInv, TokenInv
      <3> QED
        BY <1>1, <1>2, <3>1
    <2> QED
      BY <1>0, <1>6, <2>1 DEF CredentialInv, TokenInv
  <1> QED
    BY <1>3, <1>4, <1>5, <1>8, <1>9 DEF CredentialInv

\* Nothing is issued or approved: credentials may be dropped or used up, more

\* challenges signed, and time may pass.
LEMMA QuietKeeps ==
  ASSUME CredentialInv, UNCHANGED <<issued, approvals>>,
         now' \in Nat, up' \in BOOLEAN, signed' \subseteq Ids, signed \subseteq signed',
         DOMAIN tokens' \subseteq DOMAIN tokens,
         \A t \in DOMAIN tokens' : tokens'[t] = tokens[t],
         DOMAIN challenges' \subseteq DOMAIN challenges,
         \A c \in DOMAIN challenges' :
             \/ challenges'[c] = challenges[c]
             \/ challenges'[c] = [challenges[c] EXCEPT !.used = TRUE]
  PROVE  CredentialInv'
  <1>1. \A id : Unspent(id)' <=> Unspent(id)
    BY DEF Unspent
  <1>2. CredentialTypeOK'
    BY DEF CredentialInv, CredentialTypeOK
  <1>3. TokenInv'
    BY <1>1 DEF CredentialInv, TokenInv
  <1>4. ChallengeInv'
    <2> SUFFICES ASSUME NEW c \in DOMAIN challenges'
                 PROVE  /\ c \in 1 .. Len(issued)
                        /\ challenges'[c] \in [body : Bodies, user : Users, at : Nat,
                                                used : BOOLEAN]
                        /\ issued[c].kind = "challenge"
                        /\ issued[c].body = challenges'[c].body
                        /\ issued[c].at = challenges'[c].at
                        /\ ~challenges'[c].used => Unspent(c)
      BY <1>1 DEF ChallengeInv
    <2>1. /\ c \in 1 .. Len(issued)
          /\ challenges[c] \in [body : Bodies, user : Users, at : Nat, used : BOOLEAN]
          /\ issued[c].kind = "challenge"
          /\ issued[c].body = challenges[c].body
          /\ issued[c].at = challenges[c].at
          /\ ~challenges[c].used => Unspent(c)
      BY DEF CredentialInv, ChallengeInv
    <2>2. CASE challenges'[c] = challenges[c]
      BY <2>1, <2>2
    <2>3. CASE challenges'[c] = [challenges[c] EXCEPT !.used = TRUE]
      BY <2>1, <2>3
    <2> QED
      BY <2>2, <2>3
  <1>5. AllBacked'
    <2>1. Len(issued) \in Nat
      BY LenProperties DEF CredentialInv, CredentialTypeOK
    <2> QED
      BY <2>1, BackedGrows DEF CredentialInv
  <1>6. OneApprovalEach'
    BY DEF CredentialInv, OneApprovalEach
  <1> QED
    BY <1>2, <1>3, <1>4, <1>5, <1>6 DEF CredentialInv

\* An approval spends its credential: it was unspent, and afterwards it is out
\* of the store of tokens, or marked as used.
Spends(u, b, tier, id) ==
    /\ ApprovedBy(u, b, tier, id)
    /\ Unspent(id)
    /\ Backed([user |-> u, body |-> b, tier |-> tier, by |-> id, at |-> now])
    /\ UNCHANGED <<now, up, signed, issued>>
    /\ DOMAIN tokens' \subseteq DOMAIN tokens \ {id}
    /\ \A t \in DOMAIN tokens' : tokens'[t] = tokens[t]
    /\ DOMAIN challenges' \subseteq DOMAIN challenges
    /\ \A c \in DOMAIN challenges' :
           \/ challenges'[c] = challenges[c] /\ c # id
           \/ challenges'[c] = [challenges[c] EXCEPT !.used = TRUE]

LEMMA ApprovalKeeps ==
  ASSUME CredentialInv, NEW u \in Users, NEW b \in Bodies,
         NEW tier \in {MEDIUM, HIGH, CRITICAL}, NEW id \in Ids,
         Spends(u, b, tier, id)
  PROVE  CredentialInv'
  <1> USE DEF Spends
  <1> DEFINE x == [user |-> u, body |-> b, tier |-> tier, by |-> id, at |-> now]
  <1>1. x \in Approval /\ x.by = id
    BY DEF Approval, CredentialInv, CredentialTypeOK
  <1>2. approvals' = Append(approvals, x)
    BY DEF ApprovedBy
  <1>3. Backed(x)
    OBVIOUS
  <1> HIDE DEF x
  <1>4. approvals \in Seq(Approval) /\ Len(approvals) \in Nat
    BY LenProperties DEF CredentialInv, CredentialTypeOK
  <1>5. /\ approvals' \in Seq(Approval) /\ Len(approvals') = Len(approvals) + 1
        /\ \A i \in 1 .. Len(approvals) : approvals'[i] = approvals[i]
        /\ approvals'[Len(approvals) + 1] = x
    BY <1>1, <1>2, <1>4, AppendProperties
  <1>6. ASSUME NEW i \in 1 .. Len(approvals')
        PROVE  \/ i \in 1 .. Len(approvals) /\ approvals'[i] = approvals[i]
               \/ i = Len(approvals) + 1 /\ approvals'[i] = x
    BY <1>4, <1>5
  <1>7. ASSUME NEW k, k # id, Unspent(k)
        PROVE  Unspent(k)'
    BY <1>1, <1>6, <1>7 DEF Unspent
  <1>8. CredentialTypeOK'
    BY <1>5 DEF CredentialInv, CredentialTypeOK
  <1>9. TokenInv'
    BY <1>7 DEF CredentialInv, TokenInv
  <1>10. ChallengeInv'
    <2> SUFFICES ASSUME NEW c \in DOMAIN challenges'
                 PROVE  /\ c \in 1 .. Len(issued)
                        /\ challenges'[c] \in [body : Bodies, user : Users, at : Nat,
                                                used : BOOLEAN]
                        /\ issued[c].kind = "challenge"
                        /\ issued[c].body = challenges'[c].body
                        /\ issued[c].at = challenges'[c].at
                        /\ ~challenges'[c].used => Unspent(c)'
      BY DEF ChallengeInv
    <2>1. /\ c \in 1 .. Len(issued)
          /\ challenges[c] \in [body : Bodies, user : Users, at : Nat, used : BOOLEAN]
          /\ issued[c].kind = "challenge"
          /\ issued[c].body = challenges[c].body
          /\ issued[c].at = challenges[c].at
          /\ ~challenges[c].used => Unspent(c)
      BY DEF CredentialInv, ChallengeInv
    <2>2. CASE challenges'[c] = challenges[c] /\ c # id
      BY <1>7, <2>1, <2>2
    <2>3. CASE challenges'[c] = [challenges[c] EXCEPT !.used = TRUE]
      BY <2>1, <2>3
    <2> QED
      BY <2>2, <2>3
  <1>11. AllBacked'
    <2> SUFFICES ASSUME NEW i \in 1 .. Len(approvals')
                 PROVE  Backed(approvals[i])'
      BY DEF AllBacked
    <2>1. CASE i \in 1 .. Len(approvals) /\ approvals'[i] = approvals[i]
      BY <2>1 DEF CredentialInv, AllBacked, Backed
    <2>2. CASE i = Len(approvals) + 1 /\ approvals'[i] = x
      BY <1>3, <2>2 DEF Backed
    <2> QED
      BY <1>6, <2>1, <2>2
  <1>12. OneApprovalEach'
    <2> SUFFICES ASSUME NEW i \in 1 .. Len(approvals'), NEW j \in 1 .. Len(approvals'),
                        approvals'[i].by = approvals'[j].by
                 PROVE  i = j
      BY DEF OneApprovalEach
    <2>1. \A n \in 1 .. Len(approvals) : approvals[n].by # id
      BY DEF Unspent
    <2>2. CASE i \in 1 .. Len(approvals) /\ approvals'[i] = approvals[i]
      <3>1. j \in 1 .. Len(approvals) /\ approvals'[j] = approvals[j]
        BY <1>1, <1>6, <2>1, <2>2
      <3> QED
        BY <2>2, <3>1 DEF CredentialInv, OneApprovalEach
    <2>3. CASE i = Len(approvals) + 1 /\ approvals'[i] = x
      BY <1>1, <1>6, <2>1, <2>3
    <2> QED
      BY <1>6, <2>2, <2>3
  <1> QED
    BY <1>8, <1>9, <1>10, <1>11, <1>12 DEF CredentialInv

\* A valid token is one that was issued to this user no longer ago than TTL.
LEMMA TokenAcceptedKeeps ==
  ASSUME CredentialInv, NEW u \in Users, NEW b \in Bodies, NEW t \in Ids,
         NEW tier \in {MEDIUM, HIGH}, ApprovedBy(u, b, tier, t),
         TokenValid(t, u), TokenConsumed(t), UNCHANGED <<now, up, signed, issued>>
  PROVE  CredentialInv'
  <1>1. ApprovedBy(u, b, tier, t)
    OBVIOUS
  <1>2. /\ t \in DOMAIN tokens /\ tokens[t].user = u /\ now <= tokens[t].expiry
        /\ tokens' = Without(tokens, t) /\ challenges' = challenges /\ issued' = issued
    BY DEF TokenValid, TokenConsumed
  <1>3. /\ t \in 1 .. Len(issued) /\ issued[t].kind = "token" /\ issued[t].user = u
        /\ now <= issued[t].at + TTL
        /\ Unspent(t)
    BY <1>2 DEF CredentialInv, TokenInv
  <1>4. issued[t].at \in Nat /\ now \in Nat
    <2>1. issued \in Seq(Credential) /\ now \in Nat
      BY DEF CredentialInv, CredentialTypeOK
    <2>2. issued[t] \in Credential
      BY <1>3, <2>1, ElementOfSeq, Zenon
    <2> QED
      BY <2>1, <2>2 DEF Credential
  <1>5. tier # CRITICAL /\ tier \in {MEDIUM, HIGH, CRITICAL}
    BY DEF MEDIUM, HIGH, CRITICAL
  <1>6. Backed([user |-> u, body |-> b, tier |-> tier, by |-> t, at |-> now])
    <2>1. now - issued[t].at <= TTL
      BY <1>3, <1>4
    <2> QED
      BY <1>3, <1>5, <2>1 DEF Backed
  <1>7. /\ DOMAIN tokens' \subseteq DOMAIN tokens \ {t}
        /\ \A k \in DOMAIN tokens' : tokens'[k] = tokens[k]
    BY <1>2, Zenon DEF Without
  <1>8. /\ DOMAIN challenges' \subseteq DOMAIN challenges
        /\ \A c \in DOMAIN challenges' :
              \/ challenges'[c] = challenges[c] /\ c # t
              \/ challenges'[c] = [challenges[c] EXCEPT !.used = TRUE]
    BY <1>2, <1>3 DEF CredentialInv, ChallengeInv
  <1>9. Unspent(t) /\ UNCHANGED <<now, up, signed, issued>>
    BY <1>2, <1>3
  <1>10. Spends(u, b, tier, t)
    BY <1>1, <1>6, <1>7, <1>8, <1>9, Zenon DEF Spends
  <1> QED
    BY <1>5, <1>10, ApprovalKeeps

\* A verified challenge of this body: answered by the key holder and not older

\* than TTL.
LEMMA ChallengeAcceptedKeeps ==
  ASSUME CredentialInv, NEW u \in Users, NEW b \in Bodies, NEW c \in Ids,
         ChallengeVerifies(c), challenges[c].body = b, ChallengeUsed(c),
         ApprovedBy(u, b, CRITICAL, c), UNCHANGED <<now, up, signed, tokens, issued>>
  PROVE  CredentialInv'
  <1>1. ApprovedBy(u, b, CRITICAL, c)
    OBVIOUS
  <1>2. /\ c \in DOMAIN challenges /\ ~challenges[c].used /\ c \in signed
        /\ ~(now - challenges[c].at > TTL)
        /\ challenges[c].body = b
        /\ challenges' = [challenges EXCEPT ![c].used = TRUE]
        /\ tokens' = tokens /\ issued' = issued
    BY DEF ChallengeVerifies, Expired, ChallengeUsed
  <1>3. /\ c \in 1 .. Len(issued) /\ issued[c].kind = "challenge" /\ issued[c].body = b
        /\ issued[c].at = challenges[c].at
        /\ Unspent(c)
    BY <1>2 DEF CredentialInv, ChallengeInv
  <1>4. issued[c].at \in Nat /\ now \in Nat
    <2>1. issued \in Seq(Credential) /\ now \in Nat
      BY DEF CredentialInv, CredentialTypeOK
    <2>2. issued[c] \in Credential
      BY <1>3, <2>1, ElementOfSeq, Zenon
    <2> QED
      BY <2>1, <2>2 DEF Credential
  <1>5. Backed([user |-> u, body |-> b, tier |-> CRITICAL, by |-> c, at |-> now])
    <2>1. now - issued[c].at <= TTL
      BY <1>2, <1>3, <1>4
    <2> QED
      BY <1>2, <1>3, <2>1 DEF Backed
  <1>6. /\ DOMAIN tokens' \subseteq DOMAIN tokens \ {c}
        /\ \A k \in DOMAIN tokens' : tokens'[k] = tokens[k]
    BY <1>2, <1>3 DEF CredentialInv, TokenInv
  <1>7. /\ DOMAIN challenges' \subseteq DOMAIN challenges
        /\ \A k \in DOMAIN challenges' :
              \/ challenges'[k] = challenges[k] /\ k # c
              \/ challenges'[k] = [challenges[k] EXCEPT !.used = TRUE]
    BY <1>2
  <1>8. Unspent(c) /\ UNCHANGED <<now, up, signed, issued>>
    BY <1>2, <1>3
  <1>9. CRITICAL \in {MEDIUM, HIGH, CRITICAL}
    OBVIOUS
  <1>10. Spends(u, b, CRITICAL, c)
    BY <1>1, <1>5, <1>6, <1>7, <1>8, Zenon DEF Spends
  <1> QED
    BY <1>9, <1>10, ApprovalKeeps

\* A submission that neither issues nor approves drops credentials or uses them up.
LEMMA QuietSubmission ==
  ASSUME CredentialInv, NEW u \in Users, NEW b \in Bodies,
         UNCHANGED <<now, up, signed>>,
         \/ InjectionBlocked(u, b)
         \/ AutoApproved(u, b)
         \/ ChallengeRefused(u, b)
         \/ \E t \in Ids : TokenRefused(u, b, t) \/ ChallengeForOtherBody(u, b, t)
  PROVE  CredentialInv'
  <1>1. UNCHANGED <<issued, approvals>>
    BY Zenon DEF InjectionBlocked, AutoApproved, ChallengeRefused, TokenRefused,
       ChallengeForOtherBody
  <1>2. now' \in Nat /\ up' \in BOOLEAN /\ signed' \subseteq Ids /\ signed \subseteq signed'
    BY DEF CredentialInv, CredentialTypeOK
  <1>3. tokens' = tokens \/ \E t : tokens' = Without(tokens, t)
    BY Zenon DEF InjectionBlocked, AutoApproved, ChallengeRefused, TokenRefused,
       ChallengeForOtherBody, TokenConsumed, stores
  <1>4. DOMAIN tokens' \subseteq DOMAIN tokens /\ \A t \in DOMAIN tokens' : tokens'[t] = tokens[t]
    BY <1>3, Zenon DEF Without
  <1>5. \/ challenges' = challenges
        \/ \E c : challenges' = Without(challenges, c)
        \/ \E c : challenges' = [challenges EXCEPT ![c].used = TRUE]
    BY Zenon DEF InjectionBlocked, AutoApproved, ChallengeRefused, TokenRefused,
       ChallengeForOtherBody, TokenConsumed, ChallengeUsed, stores
  <1>6. /\ DOMAIN challenges' \subseteq DOMAIN challenges
        /\ \A c \in DOMAIN challenges' :
              \/ challenges'[c] = challenges[c]
              \/ challenges'[c] = [challenges[c] EXCEPT !.used = TRUE]
    <2>1. CASE challenges' = challenges \/ \E c : challenges' = Without(challenges, c)
      BY <2>1, Zenon DEF Without
    <2>2. CASE \E c : challenges' = [challenges EXCEPT ![c].used = TRUE]
      BY <2>2
    <2> QED
      BY <1>5, <2>1, <2>2
  <1> QED
    BY <1>1, <1>2, <1>4, <1>6, QuietKeeps

\* ... and so does everything that is not a submission.
LEMMA QuietRest ==
  ASSUME CredentialInv,
         \/ \E u \in Users, b \in Bodies : SaveRaises(u, b)
         \/ \E c \in Ids : Sign(c)
         \/ Crash \/ CrashInSave \/ Start \/ Tick
         \/ UNCHANGED hitlVars
  PROVE  CredentialInv'
  <1>1. UNCHANGED <<issued, approvals>>
    BY Zenon DEF SaveRaises, Sign, Crash, CrashInSave, Stops, Start, Tick, hitlVars
  <1>2. now \in Nat /\ up \in BOOLEAN /\ signed \subseteq Ids
    BY DEF CredentialInv, CredentialTypeOK
  <1>3. now' \in Nat
    <2>1. now' = now \/ now' = now + 1
      BY Zenon DEF SaveRaises, Sign, Crash, CrashInSave, Stops, Start, Tick, hitlVars
    <2> QED
      BY <1>2, <2>1
  <1>4. up' \in BOOLEAN
    <2>1. up' = up \/ up' = TRUE \/ up' = FALSE
      BY Zenon DEF SaveRaises, Sign, Crash, CrashInSave, Stops, Start, Tick, hitlVars
    <2> QED
      BY <1>2, <2>1
  <1>5. signed' = signed \/ \E c \in Ids : signed' = signed \union {c}
    BY Zenon DEF SaveRaises, Sign, Crash, CrashInSave, Stops, Start, Tick, hitlVars
  <1>6. \/ tokens' = tokens /\ challenges' = challenges
        \/ tokens' = <<>> /\ challenges' = <<>>
    BY Zenon DEF SaveRaises, Sign, Crash, CrashInSave, Stops, Start, Tick, hitlVars, stores
  <1>7. DOMAIN tokens' \subseteq DOMAIN tokens /\ \A t \in DOMAIN tokens' : tokens'[t] = tokens[t]
    BY <1>6
  <1>8. /\ DOMAIN challenges' \subseteq DOMAIN challenges
        /\ \A c \in DOMAIN challenges' :
              \/ challenges'[c] = challenges[c]
              \/ challenges'[c] = [challenges[c] EXCEPT !.used = TRUE]
    BY <1>6
  <1>9. signed' \subseteq Ids /\ signed \subseteq signed'
    BY <1>2, <1>5
  <1> QED
    BY <1>1, <1>3, <1>4, <1>7, <1>8, <1>9, QuietKeeps

LEMMA CredentialStep ==
  ASSUME CredentialInv, [HitlNext]_hitlVars
  PROVE  CredentialInv'
  <1>1. ASSUME NEW u \in Users, NEW b \in Bodies, Submit(u, b)
        PROVE  CredentialInv'
    <2>0. UNCHANGED <<now, up, signed>>
      BY <1>1, SubmitCounts
    <2>1. CASE TokenRequired(u, b)
      BY <2>0, <2>1, TokenIssuedKeeps DEF TokenRequired
    <2>2. CASE ChallengeIssued(u, b)
      <3>1. IssuesChallenge(u, b)
        BY <2>2 DEF ChallengeIssued, IssuesChallenge
      <3> QED
        BY <2>0, <3>1, ChallengeIssuedKeeps
    <2>3. CASE \E t \in Ids : TokenAccepted(u, b, t)
      <3>1. PICK t \in Ids : TokenAccepted(u, b, t)
        BY <2>3
      <3>2. PICK tier \in {MEDIUM, HIGH} : ApprovedBy(u, b, tier, t)
        BY <3>1 DEF TokenAccepted
      <3>3. TokenValid(t, u) /\ TokenConsumed(t) /\ issued' = issued
        BY <3>1 DEF TokenAccepted
      <3> QED
        BY <2>0, <3>2, <3>3, TokenAcceptedKeeps
    <2>4. CASE \E c \in Ids : ChallengeAccepted(u, b, c)
      <3>1. PICK c \in Ids : ChallengeAccepted(u, b, c)
        BY <2>4
      <3> QED
        BY <2>0, <3>1, ChallengeAcceptedKeeps DEF ChallengeAccepted
    <2>5. CASE \/ InjectionBlocked(u, b)
               \/ AutoApproved(u, b)
               \/ ChallengeRefused(u, b)
               \/ \E t \in Ids : TokenRefused(u, b, t) \/ ChallengeForOtherBody(u, b, t)
      BY <2>0, <2>5, QuietSubmission
    <2> QED
      BY <1>1, <2>1, <2>2, <2>3, <2>4, <2>5, Zenon DEF Submit
  <1>2. CASE \/ \E u \in Users, b \in Bodies : SaveRaises(u, b)
             \/ \E c \in Ids : Sign(c)
             \/ Crash \/ CrashInSave \/ Start \/ Tick
             \/ UNCHANGED hitlVars
    BY <1>2, QuietRest
  <1> QED
    BY <1>1, <1>2 DEF HitlNext

LEMMA CredentialInit == HitlInit => CredentialInv
  <1> SUFFICES ASSUME HitlInit PROVE CredentialInv
    OBVIOUS
  <1>1. Len(approvals) = 0 /\ Len(issued) = 0
    BY DEF HitlInit
  <1>2. approvals \in Seq(Approval) /\ issued \in Seq(Credential)
    BY EmptySeq DEF HitlInit
  <1>3. CredentialTypeOK
    BY <1>1, <1>2 DEF HitlInit, CredentialTypeOK
  <1>4. TokenInv /\ ChallengeInv
    BY DEF HitlInit, TokenInv, ChallengeInv
  <1>5. AllBacked /\ OneApprovalEach
    BY <1>1 DEF AllBacked, OneApprovalEach
  <1> QED
    BY <1>3, <1>4, <1>5 DEF CredentialInv

\* A token or a challenge approves one submission at most.
THEOREM ApprovesOnce == HitlSpec => []OneApprovalEach
  <1>1. CredentialInv => OneApprovalEach
    BY DEF CredentialInv
  <1> QED
    BY <1>1, CredentialInit, CredentialStep, PTL DEF HitlSpec

\* Every approval above AUTO has a credential that was fit for it.
THEOREM NoApprovalUnbacked == HitlSpec => []ApprovalsBacked
  <1>1. CredentialInv => ApprovalsBacked
    BY DEF CredentialInv, AllBacked, Backed, ApprovalsBacked
  <1> QED
    BY <1>1, CredentialInit, CredentialStep, PTL DEF HitlSpec

LEMMA TypesFollow ==
  ASSUME HistoryInv, CredentialInv
  PROVE  HitlTypeOK
  <1>1. 1 .. Len(issued) \subseteq Ids
    <2>1. Len(issued) \in Nat /\ Len(issued) <= MaxIds
      BY LenProperties DEF CredentialInv, CredentialTypeOK
    <2> QED
      BY <2>1 DEF Ids
  <1>2. /\ DOMAIN tokens \subseteq Ids
        /\ \A t \in DOMAIN tokens : tokens[t] \in [user : Users, expiry : Nat]
    BY <1>1 DEF CredentialInv, TokenInv
  <1>3. /\ DOMAIN challenges \subseteq Ids
        /\ \A c \in DOMAIN challenges :
              challenges[c] \in [body : Bodies, user : Users, at : Nat, used : BOOLEAN]
    BY <1>1 DEF CredentialInv, ChallengeInv
  <1>4. counts \in Count /\ saved \in [readable : BOOLEAN, counts : Count] /\ faults \in Nat
    BY DEF HistoryInv
  <1> QED
    BY <1>2, <1>3, <1>4, Zenon DEF HitlTypeOK, CredentialInv, CredentialTypeOK

\* Every variable of the gate keeps its type.
THEOREM GateTypes == HitlSpec => []HitlTypeOK
  BY TypesFollow, HistoryInit, HistoryStep, CredentialInit, CredentialStep, PTL DEF HitlSpec

-----------------------------------------------------------------------------
(* The gate under threads *)

\* The tier of a submission with given counts, and the tier one carries.
TierAt(u, b, k) == TierForScore(Score(b, k[u][b.fp]))
Strict(h, k) == h.tier >= TierAt(h.user, h.body, k)

HandlingInv ==
    /\ handling \in [Threads -> Handling \union {Idle}]
    /\ \A t \in Threads : handling[t].busy => up /\ Strict(handling[t], counts)

ThreadedInv == CredentialInv /\ HistoryInv /\ HandlingInv

LEMMA TierType ==
  ASSUME NEW u, NEW b, NEW k
  PROVE  TierAt(u, b, k) \in {AUTO, MEDIUM, HIGH, CRITICAL}
  BY DEF TierAt, TierForScore

LEMMA TierOrder ==
  \A x \in {AUTO, MEDIUM, HIGH, CRITICAL} : x \in Nat
  BY DEF AUTO, MEDIUM, HIGH, CRITICAL

\* What a thread carries is never laxer when others have been counted.
LEMMA StrictStays ==
  ASSUME counts \in Count, NEW v \in Users, NEW c \in Bodies,
         NEW h \in Handling, Strict(h, counts)
  PROVE  Strict(h, Bumped(v, c.fp))
  <1> DEFINE k == Bumped(v, c.fp)
             u == h.user
             b == h.body
  <1>1. u \in Users /\ b \in Bodies /\ h.tier \in {AUTO, MEDIUM, HIGH, CRITICAL}
    BY DEF Handling
  <1>2. k \in Count /\ b.fp \in Fingerprints /\ \A w \in Users, g \in Fingerprints : counts[w][g] <= k[w][g]
    BY <1>1, BumpedType, BodyParts
  <1> HIDE DEF k, u, b
  <1>3. counts[u][b.fp] \in 0 .. Frequent /\ k[u][b.fp] \in 0 .. Frequent
        /\ counts[u][b.fp] <= k[u][b.fp]
    BY <1>1, <1>2 DEF Count
  <1>4. /\ Score(b, k[u][b.fp]) <= Score(b, counts[u][b.fp])
        /\ Score(b, k[u][b.fp]) \in Nat /\ Score(b, counts[u][b.fp]) \in Nat
    BY <1>1, <1>3, ScoreFalls
  <1>5. TierAt(u, b, k) <= TierAt(u, b, counts)
    BY <1>4, TierMonotone DEF TierAt
  <1>6. TierAt(u, b, k) \in Nat /\ TierAt(u, b, counts) \in Nat /\ h.tier \in Nat
    BY <1>1, TierType, TierOrder
  <1>7. h.tier >= TierAt(u, b, counts)
    BY DEF Strict, u, b
  <1>8. h.tier >= TierAt(u, b, k)
    BY <1>5, <1>6, <1>7
  <1> QED
    BY <1>8 DEF Strict, u, b, k

LEMMA HandledIs ==
  ASSUME HandlingInv, NEW t \in Threads, handling[t].busy
  PROVE  handling[t] \in Handling /\ up /\ Strict(handling[t], counts)
  <1>1. handling[t] # Idle
    BY DEF Idle
  <1> QED
    BY <1>1 DEF HandlingInv

\* Scoring, also when the save raises.
LEMMA ScoredKeeps ==
  ASSUME ThreadedInv, NEW t \in Threads, NEW u \in Users, NEW b \in Bodies,
         Scores(t, u, b) \/ ScoreRaises(t, u, b)
  PROVE  ThreadedInv'
  <1> DEFINE h == [busy |-> TRUE, user |-> u, body |-> b, tier |-> Tier(u, b)]
  <1>1. /\ counts' = Bumped(u, b.fp) /\ up /\ up' = up
        /\ UNCHANGED <<now, tokens, challenges, signed, issued, approvals>>
        /\ handling' = handling \/ handling' = [handling EXCEPT ![t] = h]
    BY DEF Scores, ScoreRaises, Scored, stores
  <1>2. CredentialInv'
    BY <1>1, QuietKeeps DEF ThreadedInv, CredentialInv, CredentialTypeOK
  <1>3. counts \in Count /\ counts' \in Count
    BY <1>1, BumpedType DEF ThreadedInv, HistoryInv
  <1>4. HistoryInv'
    <2>1. CASE Scores(t, u, b)
      <3>1. saved' = [readable |-> TRUE, counts |-> counts'] /\ faults' = faults
        BY <2>1 DEF Scores, Scored
      <3>2. saved' \in [readable : BOOLEAN, counts : Count]
            /\ saved'.readable /\ saved'.counts = counts'
        BY <1>3, <3>1
      <3>3. faults' \in Nat
        BY <3>1 DEF ThreadedInv, HistoryInv
      <3> QED
        BY <1>3, <3>2, <3>3, Zenon DEF HistoryInv
    <2>2. CASE ScoreRaises(t, u, b)
      <3>1. saved' = saved /\ faults' = faults + 1 /\ faults \in Nat
        BY <2>2 DEF ScoreRaises, Fault, ThreadedInv, HistoryInv
      <3>2. faults' \in Nat /\ faults' # 0
        BY <3>1
      <3> QED
        BY <1>3, <3>1, <3>2 DEF ThreadedInv, HistoryInv
    <2> QED
      BY <2>1, <2>2
  <1>5. h.tier = TierAt(u, b, counts) /\ h \in Handling
    BY TierType DEF Tier, TierAt, Handling
  <1>6. Strict(h, counts)
    <2>1. TierAt(u, b, counts) \in Nat
      BY TierType, TierOrder
    <2> QED
      BY <1>5, <2>1 DEF Strict
  <1>7. Strict(h, counts')
    BY <1>1, <1>3, <1>5, <1>6, StrictStays
  <1> HIDE DEF h
  <1>8. handling' \in [Threads -> Handling \union {Idle}]
    BY <1>1, <1>5 DEF ThreadedInv, HandlingInv
  <1>9. ASSUME NEW s \in Threads, handling'[s].busy
        PROVE  up' /\ Strict(handling'[s], counts')
    <2>1. CASE handling'[s] = handling[s]
      <3>1. handling[s] \in Handling /\ Strict(handling[s], counts)
        BY <1>9, <2>1, HandledIs DEF ThreadedInv
      <3> QED
        BY <1>1, <1>3, <2>1, <3>1, StrictStays
    <2>2. CASE handling'[s] # handling[s]
      <3>1. handling'[s] = h
        BY <1>1, <2>2 DEF ThreadedInv, HandlingInv
      <3> QED
        BY <1>1, <1>7, <3>1
    <2> QED
      BY <2>1, <2>2
  <1>10. HandlingInv'
    BY <1>8, <1>9 DEF HandlingInv
  <1> QED
    BY <1>2, <1>4, <1>10 DEF ThreadedInv

\* Enforcement leaves the history alone and frees its thread.
LEMMA EnforcedFrees ==
  ASSUME ThreadedInv, NEW t \in Threads, NEW tiers, Enforces(t, tiers)
  PROVE  HistoryInv' /\ HandlingInv' /\ UNCHANGED <<now, up, signed>>
         /\ handling[t].user \in Users /\ handling[t].body \in Bodies
  <1>1. /\ handling' = [handling EXCEPT ![t] = Idle] /\ handling[t].busy
        /\ UNCHANGED <<now, up, counts, saved, signed, faults>>
    BY DEF Enforces, history
  <1>2. HistoryInv'
    BY <1>1 DEF ThreadedInv, HistoryInv
  <1>3. handling' \in [Threads -> Handling \union {Idle}]
    BY <1>1 DEF ThreadedInv, HandlingInv
  <1>4. ASSUME NEW s \in Threads, handling'[s].busy
        PROVE  up' /\ Strict(handling'[s], counts')
    <2>1. s # t
      BY <1>1, <1>4 DEF ThreadedInv, HandlingInv, Idle
    <2>2. handling'[s] = handling[s]
      BY <1>1, <2>1 DEF ThreadedInv, HandlingInv
    <2> QED
      BY <1>1, <1>4, <2>2, HandledIs DEF ThreadedInv
  <1>5. handling[t] \in Handling
    BY <1>1, HandledIs DEF ThreadedInv
  <1> QED
    BY <1>1, <1>2, <1>3, <1>4, <1>5 DEF HandlingInv, Handling

LEMMA EnforceKeeps ==
  ASSUME ThreadedInv, NEW t \in Threads, Enforce(t)
  PROVE  ThreadedInv'
  <1>1. PICK tiers : Enforces(t, tiers)
    BY Zenon DEF Enforce, EnforceAuto, EnforceIssuesToken, EnforceToken, EnforceIssuesChallenge,
       EnforceChallenge, EnforceRefuses
  <1> DEFINE u == handling[t].user
             b == handling[t].body
  <1>2. /\ HistoryInv' /\ HandlingInv' /\ UNCHANGED <<now, up, signed>>
        /\ u \in Users /\ b \in Bodies
    BY <1>1, EnforcedFrees
  <1>3. CredentialInv /\ now' \in Nat /\ up' \in BOOLEAN /\ signed' \subseteq Ids
        /\ signed \subseteq signed'
    BY <1>2 DEF ThreadedInv, CredentialInv, CredentialTypeOK
  <1> SUFFICES CredentialInv'
    BY <1>2 DEF ThreadedInv
  <1>4. CASE EnforceAuto(t)
    BY <1>3, <1>4, QuietKeeps DEF EnforceAuto, stores
  <1>5. CASE EnforceIssuesToken(t)
    BY <1>2, <1>3, <1>5, TokenIssuedKeeps DEF EnforceIssuesToken
  <1>6. ASSUME NEW k \in Ids, EnforceToken(t, k)
        PROVE  CredentialInv'
    <2>1. TokenConsumed(k) /\ issued' = issued /\ handling[t].tier \in {MEDIUM, HIGH}
      BY <1>6 DEF EnforceToken, Enforces
    <2>2. CASE TokenValid(k, u)
      <3>1. ApprovedBy(u, b, handling[t].tier, k)
        BY <1>6, <2>2 DEF EnforceToken
      <3> QED
        BY <1>2, <1>3, <2>1, <2>2, <3>1, TokenAcceptedKeeps
    <2>3. CASE ~TokenValid(k, u)
      <3>1. approvals' = approvals
        BY <1>6, <2>3 DEF EnforceToken
      <3>2. /\ DOMAIN tokens' \subseteq DOMAIN tokens
            /\ \A i \in DOMAIN tokens' : tokens'[i] = tokens[i]
            /\ challenges' = challenges
        BY <2>1, Zenon DEF TokenConsumed, Without
      <3> QED
        BY <1>3, <2>1, <3>1, <3>2, QuietKeeps
    <2> QED
      BY <2>2, <2>3
  <1>7. CASE EnforceIssuesChallenge(t)
    <2>1. IssuesChallenge(u, b)
      BY <1>7 DEF EnforceIssuesChallenge, IssuesChallenge
    <2> QED
      BY <1>2, <1>3, <2>1, ChallengeIssuedKeeps
  <1>8. ASSUME NEW c \in Ids, EnforceChallenge(t, c)
        PROVE  CredentialInv'
    <2>1. ChallengeVerifies(c) /\ ChallengeUsed(c) /\ UNCHANGED <<tokens, issued>>
      BY <1>8 DEF EnforceChallenge
    <2>2. CASE challenges[c].body = b
      <3>1. ApprovedBy(u, b, CRITICAL, c)
        BY <1>8, <2>2 DEF EnforceChallenge
      <3> QED
        BY <1>2, <1>3, <2>1, <2>2, <3>1, ChallengeAcceptedKeeps
    <2>3. CASE challenges[c].body # b
      <3>1. approvals' = approvals
        BY <1>8, <2>3 DEF EnforceChallenge
      <3> QED
        BY <1>3, <2>1, <3>1, QuietKeeps DEF ChallengeUsed
    <2> QED
      BY <2>2, <2>3
  <1>9. CASE EnforceRefuses(t)
    <2>1. /\ UNCHANGED <<tokens, issued, approvals>>
          /\ challenges' = challenges \/ \E c : challenges' = Without(challenges, c)
      BY <1>9, Zenon DEF EnforceRefuses
    <2>2. /\ DOMAIN challenges' \subseteq DOMAIN challenges
          /\ \A c \in DOMAIN challenges' : challenges'[c] = challenges[c]
      BY <2>1, Zenon DEF Without
    <2> QED
      BY <1>3, <2>1, <2>2, QuietKeeps
  <1> QED
    BY <1>4, <1>5, <1>6, <1>7, <1>8, <1>9 DEF Enforce

LEMMA LostKeeps ==
  ASSUME ThreadedInv, DecisionsLost
  PROVE  ThreadedInv'
  <1>1. Crash /\ handling' = [t \in Threads |-> Idle]
    BY DEF DecisionsLost
  <1>2. CredentialInv'
    BY <1>1, QuietRest DEF ThreadedInv
  <1>3. HistoryInv'
    BY <1>1, HistoryStep DEF ThreadedInv, HitlNext
  <1>4. HandlingInv'
    BY <1>1 DEF HandlingInv, Idle
  <1> QED
    BY <1>2, <1>3, <1>4 DEF ThreadedInv

LEMMA RestKeeps ==
  ASSUME ThreadedInv, Start \/ Tick \/ (\E c \in Ids : Sign(c)) \/ UNCHANGED hitlVars,
         handling' = handling
  PROVE  ThreadedInv'
  <1>1. CredentialInv'
    BY QuietRest DEF ThreadedInv
  <1>2. HistoryInv'
    BY HistoryStep DEF ThreadedInv, HitlNext
  <1>3. CASE ~up
    <2>1. \A t \in Threads : ~handling[t].busy
      BY <1>3 DEF ThreadedInv, HandlingInv
    <2>2. HandlingInv'
      BY <2>1 DEF ThreadedInv, HandlingInv
    <2> QED
      BY <1>1, <1>2, <2>2 DEF ThreadedInv
  <1>4. CASE up
    <2>1. counts' = counts /\ up' = up
      BY <1>4 DEF Start, Tick, Sign, hitlVars, history
    <2>2. HandlingInv'
      BY <2>1 DEF ThreadedInv, HandlingInv
    <2> QED
      BY <1>1, <1>2, <2>2 DEF ThreadedInv
  <1> QED
    BY <1>3, <1>4

LEMMA ThreadedStep ==
  ASSUME ThreadedInv, [ThreadedNext]_threadedVars
  PROVE  ThreadedInv'
  <1>1. CASE UNCHANGED threadedVars
    BY <1>1, RestKeeps DEF threadedVars
  <1>2. CASE ThreadedNext
    BY <1>2, ScoredKeeps, EnforceKeeps, LostKeeps, RestKeeps DEF ThreadedNext
  <1> QED
    BY <1>1, <1>2

LEMMA ThreadedStart ==
  ASSUME ThreadedInit
  PROVE  ThreadedInv
  <1>1. HitlInit
    BY DEF ThreadedInit
  <1>2. CredentialInv /\ HistoryInv
    BY <1>1, CredentialInit, HistoryInit
  <1>3. HandlingInv
    BY DEF ThreadedInit, HandlingInv, Idle
  <1> QED
    BY <1>2, <1>3 DEF ThreadedInv

\* A credential approves once, and only what it was fit for, whatever threads
\* present it, and at whatever tier they were scored.
THEOREM ThreadsApproveOnce == ThreadedSpec => []ApprovedOnceAndBacked
  <1>1. ThreadedInv => ApprovedOnceAndBacked
    BY DEF ThreadedInv, CredentialInv, AllBacked, Backed, ApprovedOnceAndBacked, ApprovalsBacked
  <1> QED
    BY <1>1, ThreadedStart, ThreadedStep, PTL DEF ThreadedSpec

\* A request is never enforced in a tier laxer than scoring it now would give.
THEOREM StaleTierStricter == ThreadedSpec => []StaleTierIsStricter
  <1>1. ThreadedInv => StaleTierIsStricter
    BY DEF ThreadedInv, HandlingInv, Strict, TierAt, Tier, StaleTierIsStricter
  <1> QED
    BY <1>1, ThreadedStart, ThreadedStep, PTL DEF ThreadedSpec

\* Every variable of the threaded gate keeps its type.
THEOREM ThreadedTypes == ThreadedSpec => []ThreadedTypeOK
  <1>1. ThreadedInv => ThreadedTypeOK
    BY TypesFollow DEF ThreadedInv, HandlingInv, ThreadedTypeOK
  <1> QED
    BY <1>1, ThreadedStart, ThreadedStep, PTL DEF ThreadedSpec

\* The history survives restarts here, too.
THEOREM ThreadsKeepHistory == ThreadedSpec => []HistorySurvives
  <1>1. ThreadedInv => HistorySurvives
    BY DEF ThreadedInv, HistoryInv, HistorySurvives
  <1> QED
    BY <1>1, ThreadedStart, ThreadedStep, PTL DEF ThreadedSpec

-----------------------------------------------------------------------------
(* OpenClaw's process *)

USE OpenClawAssumption DEF OpenClawAssumption

-----------------------------------------------------------------------------
(* The requests *)

Logs == Seq({"blocked", "passed"})
Stages == {"new", "checked", "admitted", "calling", "answering", "done"}
Replies == {"none", "turned away", "rejected", "refused", "failed", "released"}

RequestTypes ==
    /\ stage \in [Requests -> Stages]
    /\ reply \in [Requests -> Replies]
    /\ answer \in [Requests -> Replies \union {"lost"}]
    /\ lines \in [Requests -> Logs]
    /\ approved \in SUBSET Requests
    /\ sent \in SUBSET Requests
    /\ raised \in SUBSET Requests

\* The possible ends of a handler that found an empty log.
Told(r, a, log) ==
    \/ a = "released" /\ log = <<"passed">> /\ r \in sent
    \/ a = "refused" /\ log = <<"blocked">>
    \/ a = "failed" /\ log \in {<<>>, <<"blocked">>}
    \/ a \in {"turned away", "rejected"} /\ log = <<>> /\ r \notin approved

\* ... when append() raised.
ToldTorn(r, log) ==
    \/ log \in {<<>>, <<"blocked">>, <<"blocked", "blocked">>}
    \/ log \in {<<"passed">>, <<"passed", "blocked">>} /\ r \in sent

\* A handler that is not through has left no trace.
StageInv(r) ==
    /\ stage[r] = "done" <=> answer[r] # "none"
    /\ stage[r] \in {"new", "checked", "admitted", "calling"} => reply[r] = "none"
    /\ stage[r] = "answering" => reply[r] # "none"
    /\ stage[r] \in {"new", "checked", "admitted"} => r \notin approved
    /\ stage[r] = "calling" => r \in approved
    /\ r \in sent => r \in approved
    /\ answer[r] \in {"none", "lost", reply[r]}

\* A response and the log it was made with stay together.
ReplyInv(r) ==
    /\ reply[r] = "none" => lines[r] = <<>> /\ r \notin raised
    /\ reply[r] # "none" =>
          \/ Told(r, reply[r], lines[r])
          \/ r \in raised /\ reply[r] = "failed" /\ ToldTorn(r, lines[r])

RequestInv ==
    /\ RequestTypes
    /\ \A r \in Requests : StageInv(r) /\ ReplyInv(r)

-----------------------------------------------------------------------------
(* What a step of a request is *)

\* The response becomes ready.
ReadyStep(r) ==
    /\ stage[r] \in {"new", "checked", "admitted", "calling"}
    /\ \E a \in Replies \ {"none"}, log \in Logs :
           /\ Responds(r, a, log)
           /\ \/ Told(r, a, log) /\ raised' = raised
              \/ a = "failed" /\ ToldTorn(r, log) /\ raised' = raised \union {r}

\* The handler goes on.
PassedGate(r) ==
    /\ At(r, "new")
    /\ Goes(r, "checked")
    /\ UNCHANGED <<reply, answer, lines, approved, sent, raised>>

MoveStep(r) == PassedGate(r) \/ RateAllowed(r) \/ Approve(r) \/ ProviderReceives(r)

LEMMA LineAppended ==
  ASSUME NEW e \in {"blocked", "passed"}
  PROVE  /\ Append(<<>>, e) = <<e>>
         /\ Append(<<e>>, "blocked") = <<e, "blocked">>
         /\ <<>> \in Logs /\ <<e>> \in Logs /\ <<e, "blocked">> \in Logs
  <1> DEFINE S == {"blocked", "passed"}
             one == Append(<<>>, e)
             two == Append(<<e>>, "blocked")
  <1>1. <<>> \in Seq(S) /\ <<e>> \in Seq(S) /\ <<e, "blocked">> \in Seq(S)
    OBVIOUS
  <1>2. one \in Seq(S) /\ Len(one) = 1 /\ one[1] = e
    BY <1>1, AppendProperties
  <1>3. two \in Seq(S) /\ Len(two) = 2 /\ two[1] = e /\ two[2] = "blocked"
    BY <1>1, AppendProperties
  <1> HIDE DEF one, two
  <1>4. \A i \in 1 .. Len(one) : one[i] = <<e>>[i]
    BY <1>2
  <1>5. \A i \in 1 .. Len(two) : two[i] = <<e, "blocked">>[i]
    BY <1>3
  <1>6. one = <<e>> /\ two = <<e, "blocked">>
    BY <1>1, <1>2, <1>3, <1>4, <1>5, SeqEqual
  <1> QED
    BY <1>1, <1>6 DEF one, two, Logs

LEMMA TornIs ==
  ASSUME NEW e \in {"blocked", "passed"}, NEW log \in Torn(<<>>, e)
  PROVE  /\ log \in {<<>>, <<e>>} /\ log \in Logs
         /\ \A final \in Torn(log, "blocked") :
                final \in {<<>>, <<"blocked">>, <<e>>, <<e, "blocked">>} /\ final \in Logs
  <1>1. log = <<>> \/ log = <<e>>
    BY LineAppended DEF Torn
  <1>2. Append(<<>>, "blocked") = <<"blocked">> /\ <<"blocked">> \in Logs
    BY LineAppended
  <1>3. Append(<<e>>, "blocked") = <<e, "blocked">>
    BY LineAppended
  <1>4. ASSUME NEW final \in Torn(log, "blocked")
        PROVE  final \in {<<>>, <<"blocked">>, <<e>>, <<e, "blocked">>}
    <2>1. final = log \/ final = Append(log, "blocked")
      BY DEF Torn
    <2> QED
      BY <1>1, <1>2, <1>3, <2>1
  <1> QED
    BY <1>1, <1>2, <1>4, LineAppended

LEMMA UnloggedReady ==
  ASSUME NEW r \in Requests, lines[r] = <<>>,
         stage[r] \in {"new", "checked", "admitted", "calling"},
         NEW a \in Replies \ {"none"}, Told(r, a, <<>>), Unlogged(r, a)
  PROVE  ReadyStep(r)
  <1>1. <<>> \in Logs
    BY LineAppended
  <1> QED
    BY <1>1, Zenon DEF Unlogged, ReadyStep

LEMMA LoggedReady ==
  ASSUME NEW r \in Requests, lines[r] = <<>>,
         stage[r] \in {"new", "checked", "admitted", "calling"},
         NEW a \in Replies \ {"none"}, NEW e \in {"blocked", "passed"},
         Told(r, a, <<e>>), e = "passed" => r \in sent,
         Logged(r, e, a) \/ LoggedGuarded(r, e, a)
  PROVE  ReadyStep(r)
  <1>1. Append(lines[r], e) = <<e>> /\ <<e>> \in Logs
    BY LineAppended
  <1>2. CASE Responds(r, a, Append(lines[r], e)) /\ UNCHANGED <<raised, errors>>
    BY <1>1, <1>2, Zenon DEF ReadyStep
  <1>3. ASSUME AppendRaises(r), NEW log \in Logs, Responds(r, "failed", log),
               log \in {<<>>, <<"blocked">>, <<e>>, <<e, "blocked">>}
        PROVE  ReadyStep(r)
    <2>1. ToldTorn(r, log)
      BY <1>3 DEF ToldTorn
    <2>2. raised' = raised \union {r} /\ "failed" \in Replies \ {"none"}
      BY <1>3 DEF AppendRaises, Replies
    <2> QED
      BY <1>3, <2>1, <2>2, Zenon DEF ReadyStep
  <1>4. CASE AppendRaises(r) /\ \E log \in Torn(lines[r], e) : Responds(r, "failed", log)
    <2>1. PICK log \in Torn(<<>>, e) : Responds(r, "failed", log)
      BY <1>4
    <2>2. log \in {<<>>, <<e>>} /\ log \in Logs
      BY TornIs
    <2> QED
      BY <1>3, <1>4, <2>1, <2>2
  <1>5. CASE /\ AppendRaises(r)
             /\ \E log \in Torn(lines[r], e) :
                    \E final \in Torn(log, "blocked") : Responds(r, "failed", final)
    <2>1. PICK log \in Torn(<<>>, e) :
              \E final \in Torn(log, "blocked") : Responds(r, "failed", final)
      BY <1>5
    <2>2. PICK final \in Torn(log, "blocked") : Responds(r, "failed", final)
      BY <2>1
    <2>3. final \in {<<>>, <<"blocked">>, <<e>>, <<e, "blocked">>} /\ final \in Logs
      BY TornIs
    <2> QED
      BY <1>3, <1>5, <2>2, <2>3
  <1> QED
    BY <1>2, <1>4, <1>5, Zenon DEF Logged, LoggedGuarded

\* A handler becomes ready, goes on, or has its answer delivered.
LEMMA RequestStepKinds ==
  ASSUME NEW r \in Requests, RequestInv, RequestStep(r)
  PROVE  ReadyStep(r) \/ MoveStep(r) \/ Answers(r)
  <1>0. /\ StageInv(r) /\ ReplyInv(r)
        /\ stage[r] \in {"new", "checked", "admitted", "calling"} => lines[r] = <<>>
    BY DEF RequestInv, StageInv, ReplyInv
  <1>1. CASE SafeModeGate(r)
    <2>1. CASE safeMode
      <3>1. stage[r] = "new" /\ Unlogged(r, "turned away")
        BY <1>1, <2>1 DEF SafeModeGate, At
      <3>2. Told(r, "turned away", <<>>)
        BY <1>0, <3>1 DEF StageInv, Told
      <3> QED
        BY <1>0, <3>1, <3>2, UnloggedReady DEF Replies
    <2>2. CASE ~safeMode
      <3>1. PassedGate(r)
        BY <1>1, <2>2, Zenon DEF SafeModeGate, PassedGate
      <3> QED
        BY <3>1 DEF MoveStep
    <2> QED
      BY <2>1, <2>2
  <1>2. CASE RateLimited(r) \/ Refuse(r) \/ ScanBlocks(r)
    <2>1. /\ stage[r] \in {"checked", "admitted", "calling"}
          /\ Logged(r, "blocked", "refused") \/ LoggedGuarded(r, "blocked", "refused")
      BY <1>2, Zenon DEF RateLimited, Refuse, ScanBlocks, At
    <2>2. Told(r, "refused", <<"blocked">>)
      BY DEF Told
    <2> QED
      BY <1>0, <2>1, <2>2, LoggedReady DEF Replies
  <1>3. CASE RejectBody(r)
    <2>1. stage[r] = "admitted" /\ Unlogged(r, "rejected")
      BY <1>3 DEF RejectBody, At
    <2>2. Told(r, "rejected", <<>>)
      BY <1>0, <2>1 DEF StageInv, Told
    <2> QED
      BY <1>0, <2>1, <2>2, UnloggedReady DEF Replies
  <1>4. CASE EvaluationRaises(r) \/ CallRaises(r)
    <2>1. stage[r] \in {"admitted", "calling"} /\ Logged(r, "blocked", "failed")
      BY <1>4, Zenon DEF EvaluationRaises, CallRaises, At
    <2>2. Told(r, "failed", <<"blocked">>)
      BY DEF Told
    <2> QED
      BY <1>0, <2>1, <2>2, LoggedReady DEF Replies
  <1>5. CASE Misconfigured(r)
    <2>1. stage[r] = "calling" /\ Unlogged(r, "failed")
      BY <1>5 DEF Misconfigured, At
    <2>2. Told(r, "failed", <<>>)
      BY DEF Told
    <2> QED
      BY <1>0, <2>1, <2>2, UnloggedReady DEF Replies
  <1>6. CASE Release(r)
    <2>1. stage[r] = "calling" /\ r \in sent /\ LoggedGuarded(r, "passed", "released")
      BY <1>6 DEF Release, At
    <2>2. Told(r, "released", <<"passed">>)
      BY <2>1 DEF Told
    <2> QED
      BY <1>0, <2>1, <2>2, LoggedReady DEF Replies
  <1> QED
    BY <1>1, <1>2, <1>3, <1>4, <1>5, <1>6, Zenon DEF RequestStep, MoveStep

-----------------------------------------------------------------------------
(* Every step keeps what is known of the requests *)

\* A step that leaves a request alone keeps what is known of it.
LEMMA Frame ==
  ASSUME NEW s, StageInv(s), ReplyInv(s),
         stage'[s] = stage[s], reply'[s] = reply[s], answer'[s] = answer[s],
         lines'[s] = lines[s],
         s \in approved' <=> s \in approved,
         s \in sent' <=> s \in sent,
         s \in raised' <=> s \in raised
  PROVE  StageInv(s)' /\ ReplyInv(s)'
  BY DEF StageInv, ReplyInv, Told, ToldTorn

LEMMA ReadyKeeps ==
  ASSUME RequestInv, NEW r \in Requests, ReadyStep(r)
  PROVE  RequestInv'
  <1>1. PICK a \in Replies \ {"none"}, log \in Logs :
            /\ Responds(r, a, log)
            /\ \/ Told(r, a, log) /\ raised' = raised
               \/ a = "failed" /\ ToldTorn(r, log) /\ raised' = raised \union {r}
    BY Zenon DEF ReadyStep
  <1>2. /\ stage' = [stage EXCEPT ![r] = "answering"]
        /\ reply' = [reply EXCEPT ![r] = a]
        /\ lines' = [lines EXCEPT ![r] = log]
        /\ UNCHANGED <<answer, approved, sent>>
    BY <1>1 DEF Responds, Goes
  <1>3. RequestTypes'
    <2>1. stage' \in [Requests -> Stages]
      BY <1>2 DEF RequestInv, RequestTypes, Stages
    <2>2. reply' \in [Requests -> Replies] /\ lines' \in [Requests -> Logs]
      BY <1>2 DEF RequestInv, RequestTypes
    <2>3. raised' \in SUBSET Requests
      BY <1>1 DEF RequestInv, RequestTypes
    <2> QED
      BY <1>2, <2>1, <2>2, <2>3 DEF RequestInv, RequestTypes
  <1>4. ASSUME NEW s \in Requests
        PROVE  StageInv(s)' /\ ReplyInv(s)'
    <2>1. StageInv(s) /\ ReplyInv(s)
      BY DEF RequestInv
    <2>2. CASE s # r
      <3>1. stage'[s] = stage[s] /\ reply'[s] = reply[s] /\ lines'[s] = lines[s]
        BY <1>2, <2>2 DEF RequestInv, RequestTypes
      <3>2. s \in raised' <=> s \in raised
        BY <1>1, <2>2
      <3> QED
        BY <1>2, <2>1, <3>1, <3>2, Frame
    <2>3. CASE s = r
      <3>1. stage'[s] = "answering" /\ reply'[s] = a /\ lines'[s] = log /\ a # "none"
        BY <1>2, <2>3 DEF RequestInv, RequestTypes
      <3>2. stage[s] \in {"new", "checked", "admitted", "calling"}
        BY <2>3 DEF ReadyStep
      <3>3. StageInv(s)'
        BY <1>2, <2>1, <3>1, <3>2 DEF StageInv
      <3>4. CASE Told(r, a, log) /\ raised' = raised
        <4>1. ReplyInv(s)'
          BY <1>2, <2>3, <3>1, <3>4 DEF ReplyInv, Told
        <4> QED
          BY <3>3, <4>1
      <3>5. CASE a = "failed" /\ ToldTorn(r, log) /\ raised' = raised \union {r}
        <4>1. ReplyInv(s)'
          BY <1>2, <2>3, <3>1, <3>5 DEF ReplyInv, ToldTorn
        <4> QED
          BY <3>3, <4>1
      <3> QED
        BY <1>1, <3>4, <3>5
    <2> QED
      BY <2>2, <2>3
  <1> QED
    BY <1>3, <1>4 DEF RequestInv

LEMMA MoveKeeps ==
  ASSUME RequestInv, NEW r \in Requests, MoveStep(r)
  PROVE  RequestInv'
  <1>1. PICK st \in Stages :
            /\ stage' = [stage EXCEPT ![r] = st]
            /\ \/ st = "checked" /\ stage[r] = "new" /\ approved' = approved /\ sent' = sent
               \/ st = "admitted" /\ stage[r] = "checked" /\ approved' = approved /\ sent' = sent
               \/ /\ st = "calling" /\ stage[r] = "admitted"
                  /\ approved' = approved \union {r} /\ sent' = sent
               \/ /\ st = "calling" /\ stage[r] = "calling"
                  /\ approved' = approved /\ sent' = sent \union {r}
    <2>1. CASE PassedGate(r) \/ RateAllowed(r) \/ Approve(r)
      BY <2>1, Zenon DEF PassedGate, RateAllowed, Approve, At, Goes, Stages
    <2>2. CASE ProviderReceives(r)
      <3>1. stage' = stage /\ stage[r] = "calling" /\ approved' = approved
            /\ sent' = sent \union {r}
        BY <2>2 DEF ProviderReceives, At
      <3>2. stage' = [stage EXCEPT ![r] = "calling"]
        BY <3>1 DEF RequestInv, RequestTypes
      <3> QED
        BY <3>1, <3>2 DEF Stages
    <2> QED
      BY <2>1, <2>2 DEF MoveStep
  <1>2. UNCHANGED <<reply, answer, lines, raised>>
    BY Zenon DEF MoveStep, PassedGate, RateAllowed, Approve, ProviderReceives
  <1>3. RequestTypes'
    <2>1. stage' \in [Requests -> Stages]
      BY <1>1 DEF RequestInv, RequestTypes
    <2>2. approved' \in SUBSET Requests /\ sent' \in SUBSET Requests
      BY <1>1 DEF RequestInv, RequestTypes
    <2> QED
      BY <1>2, <2>1, <2>2 DEF RequestInv, RequestTypes
  <1>4. ASSUME NEW s \in Requests
        PROVE  StageInv(s)' /\ ReplyInv(s)'
    <2>1. StageInv(s) /\ ReplyInv(s)
      BY DEF RequestInv
    <2>2. CASE s # r
      <3>1. stage'[s] = stage[s]
        BY <1>1, <2>2 DEF RequestInv, RequestTypes
      <3>2. (s \in approved' <=> s \in approved) /\ (s \in sent' <=> s \in sent)
        BY <1>1, <2>2
      <3> QED
        BY <1>2, <2>1, <3>1, <3>2, Frame
    <2>3. CASE s = r
      <3>1. stage'[s] = st
        BY <1>1, <2>3 DEF RequestInv, RequestTypes
      <3>2. StageInv(s)'
        BY <1>1, <1>2, <2>1, <2>3, <3>1 DEF StageInv
      <3>3. reply[s] = "none"
        BY <1>1, <2>1, <2>3 DEF StageInv
      <3>4. ReplyInv(s)'
        BY <1>2, <2>1, <3>3 DEF ReplyInv
      <3> QED
        BY <3>2, <3>4
    <2> QED
      BY <2>2, <2>3
  <1> QED
    BY <1>3, <1>4 DEF RequestInv

LEMMA AnswersKeeps ==
  ASSUME RequestInv, NEW r \in Requests, Answers(r)
  PROVE  RequestInv'
  <1>1. /\ stage[r] = "answering"
        /\ stage' = [stage EXCEPT ![r] = "done"]
        /\ answer' = [answer EXCEPT ![r] = reply[r]]
        /\ UNCHANGED <<reply, lines, approved, sent, raised>>
    BY DEF Answers, At, Goes
  <1>2. RequestTypes'
    BY <1>1 DEF RequestInv, RequestTypes, Stages
  <1>3. ASSUME NEW s \in Requests
        PROVE  StageInv(s)' /\ ReplyInv(s)'
    <2>1. StageInv(s) /\ ReplyInv(s)
      BY DEF RequestInv
    <2>2. CASE s # r
      <3>1. stage'[s] = stage[s] /\ answer'[s] = answer[s]
        BY <1>1, <2>2 DEF RequestInv, RequestTypes
      <3> QED
        BY <1>1, <2>1, <3>1, Frame
    <2>3. CASE s = r
      <3>1. stage'[s] = "done" /\ answer'[s] = reply[s]
        BY <1>1, <2>3 DEF RequestInv, RequestTypes
      <3>2. StageInv(s)'
        BY <1>1, <2>1, <2>3, <3>1 DEF StageInv
      <3>3. ReplyInv(s)'
        BY <1>1, <2>1 DEF ReplyInv, Told, ToldTorn
      <3> QED
        BY <3>2, <3>3
    <2> QED
      BY <2>2, <2>3
  <1> QED
    BY <1>2, <1>3 DEF RequestInv

\* The process dies: whoever was under way gets no answer.
LEMMA KilledKeeps ==
  ASSUME RequestInv, Killed
  PROVE  RequestInv'
  <1>1. /\ stage' = [r \in Requests |-> IF Lost(r) THEN "done" ELSE stage[r]]
        /\ answer' = [r \in Requests |-> IF Lost(r) THEN "lost" ELSE answer[r]]
        /\ UNCHANGED <<reply, lines, approved, sent, raised>>
    BY DEF Killed
  <1>2. RequestTypes'
    BY <1>1 DEF RequestInv, RequestTypes, Stages
  <1>3. ASSUME NEW s \in Requests
        PROVE  StageInv(s)' /\ ReplyInv(s)'
    <2>1. StageInv(s) /\ ReplyInv(s)
      BY DEF RequestInv
    <2>2. ReplyInv(s)'
      BY <1>1, <2>1 DEF ReplyInv, Told, ToldTorn
    <2>3. CASE Lost(s)
      <3>1. stage'[s] = "done" /\ answer'[s] = "lost"
        BY <1>1, <2>3
      <3>2. StageInv(s)'
        BY <1>1, <2>1, <3>1 DEF StageInv
      <3> QED
        BY <2>2, <3>2
    <2>4. CASE ~Lost(s)
      <3>1. stage'[s] = stage[s] /\ answer'[s] = answer[s]
        BY <1>1, <2>4
      <3> QED
        BY <1>1, <2>1, <3>1, Frame
    <2> QED
      BY <2>3, <2>4
  <1> QED
    BY <1>2, <1>3 DEF RequestInv

LEMMA RequestsRest ==
  ASSUME RequestInv, UNCHANGED requestVars
  PROVE  RequestInv'
  <1>1. UNCHANGED <<stage, reply, answer, lines, approved, sent, raised>>
    BY DEF requestVars
  <1>2. RequestTypes'
    BY <1>1 DEF RequestInv, RequestTypes
  <1>3. \A s \in Requests : StageInv(s)' /\ ReplyInv(s)'
    BY <1>1, Frame DEF RequestInv
  <1> QED
    BY <1>2, <1>3 DEF RequestInv

\* The steps that are no step of a request.
ThreadStep == Wakes \/ Writes \/ WriteRaises \/ AlertDone \/ ThreadDies
OperatorStep == EmergencyActivates \/ OperatorDeactivates \/ Tampers
Starts == \E chainValid, keyFound \in BOOLEAN : Startup(chainValid, keyFound)

LEMMA OthersRest ==
  ASSUME ThreadStep \/ OperatorStep \/ Starts \/ StartupFails \/ Passes
  PROVE  UNCHANGED requestVars
  BY Zenon DEF ThreadStep, OperatorStep, Starts, Wakes, Writes, WriteRaises, AlertDone,
     ThreadDies, EmergencyActivates, OperatorDeactivates, Tampers, Startup, StartupFails, Passes

LEMMA ClawStepKinds ==
  ASSUME ClawStep
  PROVE  \/ \E r \in Requests : RequestStep(r)
         \/ Killed
         \/ ThreadStep \/ OperatorStep \/ Starts \/ StartupFails \/ Passes
  BY Zenon DEF ClawStep, ThreadStep, OperatorStep, Starts

LEMMA RequestInvStep ==
  ASSUME RequestInv, [ClawNext]_clawVars
  PROVE  RequestInv'
  <1>1. CASE UNCHANGED clawVars
    BY <1>1, RequestsRest DEF clawVars
  <1>2. CASE ClawNext
    <2>1. ASSUME NEW r \in Requests, RequestStep(r)
          PROVE  RequestInv'
      BY <2>1, RequestStepKinds, ReadyKeeps, MoveKeeps, AnswersKeeps
    <2>2. CASE Killed
      BY <2>2, KilledKeeps
    <2>3. CASE ThreadStep \/ OperatorStep \/ Starts \/ StartupFails \/ Passes
      BY <2>3, OthersRest, RequestsRest
    <2>4. ClawStep
      BY <1>2 DEF ClawNext
    <2> QED
      BY <2>1, <2>2, <2>3, <2>4, ClawStepKinds, Zenon
  <1> QED
    BY <1>1, <1>2

LEMMA RequestInvInit ==
  ASSUME ClawInit
  PROVE  RequestInv
  <1>1. <<>> \in Logs
    BY LineAppended
  <1>2. RequestTypes
    BY <1>1 DEF ClawInit, RequestTypes, Stages, Replies
  <1>3. ASSUME NEW s \in Requests
        PROVE  StageInv(s) /\ ReplyInv(s)
    BY DEF ClawInit, StageInv, ReplyInv
  <1> QED
    BY <1>2, <1>3 DEF RequestInv

\* What the log says of a request is what its client was told, unless
\* append() raised.
THEOREM LinesTellTheTruth == ClawSpec => []LinesAreTrue
  <1>1. ASSUME RequestInv, NEW r \in Requests \ raised
        PROVE  /\ Len(lines[r]) <= 1
               /\ answer[r] = "released" => lines[r] = <<"passed">>
               /\ answer[r] = "refused" => lines[r] = <<"blocked">>
               /\ answer[r] \in {"turned away", "rejected"} => lines[r] = <<>>
               /\ answer[r] = "failed" => lines[r] \in {<<>>, <<"blocked">>}
    <2>1. StageInv(r) /\ ReplyInv(r)
      BY <1>1 DEF RequestInv
    <2>2. (reply[r] = "none" /\ lines[r] = <<>>) \/ Told(r, reply[r], lines[r])
      BY <2>1 DEF ReplyInv
    <2>3. lines[r] \in {<<>>, <<"passed">>, <<"blocked">>}
      BY <2>2 DEF Told
    <2>4. Len(lines[r]) <= 1
      <3>1. CASE lines[r] = <<>>
        BY <3>1
      <3>2. CASE lines[r] = <<"passed">>
        BY <3>2
      <3>3. CASE lines[r] = <<"blocked">>
        BY <3>3
      <3> QED
        BY <2>3, <3>1, <3>2, <3>3
    <2> QED
      BY <2>1, <2>2, <2>4 DEF StageInv, Told
  <1>2. RequestInv => LinesAreTrue
    BY <1>1 DEF LinesAreTrue
  <1> QED
    BY <1>2, RequestInvInit, RequestInvStep, PTL DEF ClawSpec

-----------------------------------------------------------------------------
(* The gateway implements the proxy *)

\* The lines a client's answer settled: entries of the refinement mapping.
Settled == [r \in Requests |-> IF answer[r] \in {"none", "lost"} THEN <<>> ELSE lines[r]]

LEMMA AnswersRefines ==
  ASSUME RequestInv, NEW r \in Requests, Answers(r)
  PROVE  Proxy!Next
  <1>1. /\ stage[r] = "answering"
        /\ answer' = [answer EXCEPT ![r] = reply[r]]
        /\ UNCHANGED <<reply, lines, approved, sent>>
    BY DEF Answers, At
  <1>2. StageInv(r) /\ ReplyInv(r)
    BY DEF RequestInv
  <1>3. answer[r] = "none" /\ reply[r] # "none" /\ reply[r] \in Replies
    BY <1>1, <1>2 DEF StageInv, RequestInv, RequestTypes
  <1>4. Settled' = [Settled EXCEPT ![r] = lines[r]] /\ Settled[r] = <<>>
    <2>1. ASSUME NEW s \in Requests
          PROVE  Settled'[s] = (IF s = r THEN lines[r] ELSE Settled[s])
      <3>1. answer'[s] = IF s = r THEN reply[r] ELSE answer[s]
        BY <1>1 DEF RequestInv, RequestTypes
      <3> QED
        BY <1>1, <1>3, <3>1 DEF Settled, Replies
    <2>2. Settled[r] = <<>>
      BY <1>3 DEF Settled
    <2>3. Settled' = [s \in Requests |-> Settled'[s]] /\ Settled = [s \in Requests |-> Settled[s]]
      BY DEF Settled
    <2> QED
      BY <2>1, <2>2, <2>3
  <1>5. lines[r] = <<>> => Settled' = Settled
    <2>1. Settled = [s \in Requests |-> Settled[s]]
      BY DEF Settled
    <2> QED
      BY <1>4, <2>1
  <1>6. Proxy!Answer(r, reply[r])
    BY <1>1, <1>3 DEF Proxy!Answer
  <1>7. Proxy!Release(r) \/ Proxy!Refuse(r) \/ Proxy!TurnAway(r) \/ Proxy!Fail(r)
    <2>1. CASE reply[r] = "released"
      <3>1. r \in sent /\ lines[r] = <<"passed">>
        BY <1>2, <2>1 DEF ReplyInv, Told
      <3>2. Proxy!Release(r)
        BY <1>4, <1>6, <2>1, <3>1 DEF Proxy!Release, Settled
      <3> QED
        BY <3>2
    <2>2. CASE reply[r] = "refused"
      <3>1. lines[r] = <<"blocked">>
        BY <1>2, <2>2 DEF ReplyInv, Told
      <3>2. Proxy!Refuse(r)
        BY <1>4, <1>6, <2>2, <3>1 DEF Proxy!Refuse, Settled
      <3> QED
        BY <3>2
    <2>3. CASE reply[r] \in {"turned away", "rejected"}
      <3>1. lines[r] = <<>> /\ r \notin approved
        BY <1>2, <2>3 DEF ReplyInv, Told
      <3>2. Proxy!TurnAway(r)
        BY <1>5, <1>6, <2>3, <3>1 DEF Proxy!TurnAway, Settled
      <3> QED
        BY <3>2
    <2>4. CASE reply[r] = "failed"
      <3>1. ToldTorn(r, lines[r])
        BY <1>2, <2>4 DEF ReplyInv, Told, ToldTorn
      <3>2. Proxy!Fail(r)
        BY <1>4, <1>5, <1>6, <2>4, <3>1 DEF Proxy!Fail, Settled, ToldTorn
      <3> QED
        BY <3>2
    <2> QED
      BY <1>3, <2>1, <2>2, <2>3, <2>4 DEF Replies
  <1> QED
    BY <1>7, Zenon DEF Proxy!Next

\* The proxy does not see a response before it is delivered.
LEMMA ReadyRefines ==
  ASSUME RequestInv, NEW r \in Requests, ReadyStep(r)
  PROVE  UNCHANGED <<approved, sent, answer, Settled>>
  <1>1. PICK a, log : Responds(r, a, log)
    BY Zenon DEF ReadyStep
  <1>2. UNCHANGED <<approved, sent, answer>> /\ lines' = [lines EXCEPT ![r] = log]
    BY <1>1 DEF Responds
  <1>3. answer[r] = "none"
    BY DEF ReadyStep, RequestInv, StageInv
  <1>4. ASSUME NEW s \in Requests
        PROVE  Settled'[s] = Settled[s]
    BY <1>2, <1>3 DEF Settled, RequestInv, RequestTypes
  <1>5. Settled' = Settled
    BY <1>4, Zenon DEF Settled
  <1> QED
    BY <1>2, <1>5

LEMMA MoveRefines ==
  ASSUME RequestInv, NEW r \in Requests, MoveStep(r)
  PROVE  Proxy!Next \/ UNCHANGED <<approved, sent, answer, Settled>>
  <1>1. UNCHANGED <<answer, lines>>
    BY Zenon DEF MoveStep, PassedGate, RateAllowed, Approve, ProviderReceives
  <1>2. Settled' = Settled
    BY <1>1 DEF Settled
  <1>3. CASE Approve(r)
    <2>1. answer[r] = "none"
      BY <1>3 DEF RequestInv, StageInv, Approve, At
    <2>2. approved' = approved \union {r} /\ sent' = sent
      BY <1>3 DEF Approve
    <2>3. Proxy!Approve(r)
      BY <1>1, <1>2, <2>1, <2>2 DEF Proxy!Approve, Settled
    <2> QED
      BY <2>3, Zenon DEF Proxy!Next
  <1>4. CASE ProviderReceives(r)
    <2>1. answer[r] = "none" /\ r \in approved
      BY <1>4 DEF RequestInv, StageInv, ProviderReceives, At
    <2>2. sent' = sent \union {r} /\ approved' = approved
      BY <1>4 DEF ProviderReceives
    <2>3. Proxy!Send(r)
      BY <1>1, <1>2, <2>1, <2>2 DEF Proxy!Send, Settled
    <2> QED
      BY <2>3, Zenon DEF Proxy!Next
  <1>5. CASE PassedGate(r) \/ RateAllowed(r)
    <2>1. approved' = approved /\ sent' = sent
      BY <1>5 DEF PassedGate, RateAllowed
    <2> QED
      BY <1>1, <1>2, <2>1
  <1> QED
    BY <1>3, <1>4, <1>5 DEF MoveStep

LEMMA KilledRefines ==
  ASSUME RequestInv, Killed
  PROVE  Proxy!Next
  <1>1. /\ answer' = [r \in Requests |-> IF Lost(r) THEN "lost" ELSE answer[r]]
        /\ UNCHANGED <<approved, sent, lines>>
    BY DEF Killed
  <1> DEFINE lost == {r \in Requests : Lost(r)}
  <1>2. \A r \in lost : answer[r] = "none"
    BY DEF Lost, RequestInv, StageInv
  <1>3. answer' = [r \in Requests |-> IF r \in lost THEN "lost" ELSE answer[r]]
    BY <1>1
  <1>4. lost \in SUBSET {r \in Requests : answer[r] = "none"}
    BY <1>2
  <1>5. ASSUME NEW s \in Requests
        PROVE  Settled'[s] = Settled[s]
    BY <1>1, <1>2 DEF Settled
  <1> HIDE DEF lost
  <1>6. Settled' = Settled
    BY <1>5, Zenon DEF Settled
  <1>7. Proxy!Lose
    BY <1>1, <1>3, <1>4, <1>6, Zenon DEF Proxy!Lose, Settled
  <1> QED
    BY <1>7, Zenon DEF Proxy!Next

\* before_request and proxy_messages, each request in a thread of its own,
\* implement GovernedProxy.
THEOREM ClawImplementsProxy == ClawSpec => ProxyPromise
  <1>1. ClawInit => Proxy!Init
    BY DEF ClawInit, Proxy!Init
  <1>2. ASSUME RequestInv, [ClawNext]_clawVars
        PROVE  [Proxy!Next]_(Proxy!proxyVars)
    <2>1. CASE UNCHANGED <<approved, sent, answer, Settled>>
      BY <2>1 DEF Proxy!proxyVars, Settled
    <2>2. CASE UNCHANGED requestVars
      <3>1. UNCHANGED <<approved, sent, answer, Settled>>
        BY <2>2 DEF requestVars, Settled
      <3> QED
        BY <2>1, <3>1
    <2>3. CASE UNCHANGED clawVars
      BY <2>2, <2>3 DEF clawVars
    <2>4. CASE ClawNext
      <3>1. ASSUME NEW r \in Requests, RequestStep(r)
            PROVE  Proxy!Next \/ UNCHANGED <<approved, sent, answer, Settled>>
        BY <1>2, <3>1, RequestStepKinds, ReadyRefines, MoveRefines, AnswersRefines
      <3>2. CASE Killed
        BY <1>2, <3>2, KilledRefines
      <3>3. CASE ThreadStep \/ OperatorStep \/ Starts \/ StartupFails \/ Passes
        BY <2>2, <3>3, OthersRest
      <3>4. ClawStep
        BY <2>4 DEF ClawNext
      <3> QED
        BY <2>1, <3>1, <3>2, <3>3, <3>4, ClawStepKinds, Zenon
    <2> QED
      BY <1>2, <2>3, <2>4
  <1> QED
    BY <1>1, <1>2, RequestInvInit, RequestInvStep, PTL DEF ClawSpec, ProxyPromise, Proxy!Spec

-----------------------------------------------------------------------------
(* The heartbeat thread *)

WatchTypes ==
    /\ time \in Nat /\ heartbeat \in [kind : Kinds, at : Nat]
    /\ alive \in BOOLEAN /\ safeMode \in BOOLEAN /\ slipped \in BOOLEAN
    /\ thread \in {"off", "asleep", "checked", "alerting", "dead"} /\ wake \in Nat
    /\ errors \in 0 .. MaxErrors /\ hands \in 0 .. MaxTampers /\ fineAt \in Nat

\* How long ago things may have been fine, for each place the thread can be
\* in: not at all before a beat is written, a post's time while it reports,
\* and an interval more when it sleeps after that.
WatchInv ==
    /\ fineAt <= time
    /\ Fine => fineAt = time
    /\ alive <=> thread # "off"
    /\ thread = "checked" => fineAt = time
    /\ thread = "asleep" => time <= wake /\ wake <= fineAt + WriteInterval + PostTime
    /\ thread = "alerting" => time <= wake /\ wake <= fineAt + PostTime

\* What a thread that is about to write found valid still is, unless the file
\* was changed since.
CheckedInv == thread = "checked" /\ ~slipped => Valid(heartbeat)

LEMMA FileTypes ==
  ASSUME time \in Nat, heartbeat \in [kind : Kinds, at : Nat]
  PROVE  /\ BeatNow \in [kind : Kinds, at : Nat]
         /\ \A k \in Kinds : HeartbeatFile(k) \in [kind : Kinds, at : Nat]
         /\ Appended \subseteq [kind : Kinds, at : Nat]
         /\ Broken \subseteq [kind : Kinds, at : Nat]
  <1>1. BeatNow \in [kind : Kinds, at : Nat]
    BY DEF BeatNow, Kinds
  <1>2. \A k \in Kinds : HeartbeatFile(k) \in [kind : Kinds, at : Nat]
    BY DEF HeartbeatFile
  <1>3. "malformed" \in Kinds /\ "empty" \in Kinds
    BY DEF Kinds
  <1>4. Appended \subseteq [kind : Kinds, at : Nat]
    BY <1>1, <1>2, <1>3 DEF Appended
  <1>5. Broken \subseteq [kind : Kinds, at : Nat]
    BY <1>2, <1>3, <1>4 DEF Broken
  <1> QED
    BY <1>1, <1>2, <1>4, <1>5

\* No request step touches what the heartbeat thread works with.
LEMMA RequestFrame ==
  ASSUME NEW r \in Requests, RequestStep(r)
  PROVE  /\ UNCHANGED <<time, heartbeat, thread, wake, alive, safeMode, hands>>
         /\ errors' = errors \/ Error
  <1>1. UNCHANGED requestRest
    BY Zenon DEF RequestStep, SafeModeGate, RateLimited, RateAllowed, RejectBody, Refuse,
       EvaluationRaises, Approve, ProviderReceives, Misconfigured, CallRaises, ScanBlocks,
       Release, Answers
  <1>2. errors' = errors \/ Error
    BY Zenon DEF RequestStep, SafeModeGate, RateLimited, RateAllowed, RejectBody, Refuse,
       EvaluationRaises, Approve, ProviderReceives, Misconfigured, CallRaises, ScanBlocks,
       Release, Answers, Unlogged, Logged, LoggedGuarded, AppendRaises
  <1> QED
    BY <1>1, <1>2 DEF requestRest, monitorVars

\* What the observer notes: the last instant with nothing to notice moves on,
\* never back.
LEMMA Observed ==
  ASSUME fineAt \in Nat, fineAt <= time, time \in Nat, time' \in Nat, time <= time', Observes
  PROVE  /\ fineAt' \in Nat /\ fineAt <= fineAt' /\ fineAt' <= time'
         /\ Fine' => fineAt' = time'
  BY DEF Observes

LEMMA SlippedType ==
  ASSUME slipped \in BOOLEAN, Observes
  PROVE  slipped' \in BOOLEAN
  BY DEF Observes

LEMMA WatchTypesStep ==
  ASSUME WatchTypes, WatchInv, ClawStep, Observes
  PROVE  WatchTypes' /\ time <= time'
  <1>1. slipped' \in BOOLEAN
    BY SlippedType DEF WatchTypes
  <1>2. WriteInterval \in Nat /\ PostTime \in Nat /\ MaxErrors \in Nat /\ MaxTampers \in Nat
    OBVIOUS
  <1>3. Error => errors' \in 0 .. MaxErrors
    BY <1>2 DEF Error, WatchTypes
  <1>4. /\ Appended \subseteq [kind : Kinds, at : Nat] /\ Broken \subseteq [kind : Kinds, at : Nat]
        /\ BeatNow \in [kind : Kinds, at : Nat]
        /\ \A k \in Kinds : HeartbeatFile(k) \in [kind : Kinds, at : Nat]
    BY FileTypes DEF WatchTypes
  <1> DEFINE Core ==
         /\ time' \in Nat /\ heartbeat' \in [kind : Kinds, at : Nat]
         /\ alive' \in BOOLEAN /\ safeMode' \in BOOLEAN
         /\ thread' \in {"off", "asleep", "checked", "alerting", "dead"} /\ wake' \in Nat
         /\ errors' \in 0 .. MaxErrors /\ hands' \in 0 .. MaxTampers
         /\ time <= time'
  <1>5. ASSUME Core PROVE WatchTypes' /\ time <= time'
    <2>1. fineAt' \in Nat
      BY <1>5, Observed DEF WatchTypes, WatchInv
    <2> QED
      BY <1>1, <1>5, <2>1 DEF WatchTypes
  <1>6. ASSUME NEW r \in Requests, RequestStep(r) PROVE Core
    BY <1>3, <1>6, RequestFrame DEF WatchTypes
  <1>7. CASE Wakes
    <2>1. UNCHANGED <<time, heartbeat, alive, errors, hands>>
      BY <1>7 DEF Wakes
    <2>2. safeMode' \in BOOLEAN /\ thread' \in {"checked", "alerting"} /\ wake' \in Nat
      <3>1. CASE Valid(heartbeat)
        <4>1. thread' = "checked" /\ safeMode' = safeMode /\ wake' = wake
          BY <1>7, <3>1 DEF Wakes
        <4> QED
          BY <4>1 DEF WatchTypes
      <3>2. CASE ~Valid(heartbeat)
        <4>1. safeMode' = TRUE /\ thread' = "alerting" /\ wake' = time + PostTime
          BY <1>7, <3>2 DEF Wakes, Activates
        <4> QED
          BY <1>2, <4>1 DEF WatchTypes
      <3> QED
        BY <3>1, <3>2
    <2> QED
      BY <1>5, <2>1, <2>2 DEF WatchTypes
  <1>8. CASE Writes
    <2>1. UNCHANGED <<time, alive, safeMode, errors, hands>> /\ heartbeat' \in Appended
      BY <1>8 DEF Writes
    <2>2. thread' = "asleep" /\ wake' \in Nat
      BY <1>2, <1>8 DEF Writes, Sleeps, WatchTypes
    <2> QED
      BY <1>4, <1>5, <2>1, <2>2 DEF WatchTypes
  <1>9. CASE WriteRaises
    <2>1. UNCHANGED <<time, alive, hands>> /\ heartbeat' \in Broken /\ Error
      BY <1>9 DEF WriteRaises
    <2>2. safeMode' = TRUE /\ thread' = "alerting" /\ wake' \in Nat
      BY <1>2, <1>9 DEF WriteRaises, Activates, WatchTypes
    <2> QED
      BY <1>3, <1>4, <1>5, <2>1, <2>2 DEF WatchTypes
  <1>10. CASE AlertDone
    <2>1. UNCHANGED <<time, heartbeat, alive, safeMode, errors, hands>>
      BY <1>10 DEF AlertDone
    <2>2. thread' = "asleep" /\ wake' \in Nat
      BY <1>2, <1>10 DEF AlertDone, Sleeps, WatchTypes
    <2> QED
      BY <1>5, <2>1, <2>2 DEF WatchTypes
  <1>11. CASE ThreadDies
    BY <1>3, <1>5, <1>11 DEF ThreadDies, WatchTypes
  <1>12. CASE EmergencyActivates \/ OperatorDeactivates
    <2>1. /\ UNCHANGED <<time, heartbeat, thread, wake, alive, errors, hands>>
          /\ safeMode' = TRUE \/ safeMode' = FALSE
      BY <1>12 DEF EmergencyActivates, OperatorDeactivates, monitorVars
    <2>2. safeMode' \in BOOLEAN
      BY <2>1
    <2>3. alive' \in BOOLEAN
      BY <2>1 DEF WatchTypes
    <2>4. UNCHANGED <<time, heartbeat, thread, wake, errors, hands>>
      BY <2>1
    <2> QED
      BY <1>5, <2>2, <2>3, <2>4 DEF WatchTypes
  <1>13. ASSUME NEW chainValid \in BOOLEAN, NEW keyFound \in BOOLEAN,
                Startup(chainValid, keyFound)
         PROVE  Core
    <2>1. UNCHANGED <<time, errors, hands>> /\ alive' = TRUE
      BY <1>13 DEF Startup
    <2>2. heartbeat' \in [kind : Kinds, at : Nat]
      <3>1. heartbeat' = BeatNow \/ heartbeat' = heartbeat
        BY <1>13 DEF Startup
      <3> QED
        BY <1>4, <3>1 DEF WatchTypes
    <2>3. safeMode' \in BOOLEAN
      BY <1>13 DEF Startup
    <2>4. thread' = "asleep" /\ wake' \in Nat
      BY <1>2, <1>13 DEF Startup, Sleeps, WatchTypes
    <2> QED
      BY <2>1, <2>2, <2>3, <2>4 DEF WatchTypes
  <1>14. CASE StartupFails
    BY <1>3, <1>4, <1>5, <1>14 DEF StartupFails, WatchTypes
  <1>15. CASE Killed
    <2>1. /\ time' = time /\ hands' = hands /\ alive' = FALSE /\ Error
          /\ thread' = "off" /\ wake' = 0 /\ safeMode' = FALSE
      BY <1>15 DEF Killed
    <2>2. heartbeat' \in Broken \/ heartbeat' = heartbeat
      BY <1>15 DEF Killed
    <2>3. heartbeat' \in [kind : Kinds, at : Nat]
      BY <1>4, <2>2 DEF WatchTypes
    <2>4. alive' \in BOOLEAN /\ safeMode' \in BOOLEAN
      BY <2>1
    <2>5. time' \in Nat /\ time <= time' /\ wake' \in Nat /\ hands' \in 0 .. MaxTampers
      BY <2>1 DEF WatchTypes
    <2> QED
      BY <1>3, <1>5, <2>1, <2>3, <2>4, <2>5
  <1>16. CASE Tampers
    <2>1. /\ UNCHANGED <<time, thread, wake, safeMode, alive, errors>>
          /\ hands < MaxTampers /\ hands' = hands + 1
          /\ \E k \in Kinds : heartbeat' = HeartbeatFile(k)
      BY <1>16 DEF Tampers
    <2>2. hands' \in 0 .. MaxTampers
      BY <1>2, <2>1 DEF WatchTypes
    <2> QED
      BY <1>4, <1>5, <2>1, <2>2 DEF WatchTypes
  <1>17. CASE Passes
    <2>1. UNCHANGED <<heartbeat, thread, wake, alive, safeMode, errors, hands>>
          /\ time' = time + 1
      BY <1>17 DEF Passes, monitorVars
    <2>2. time' \in Nat /\ time <= time'
      BY <2>1 DEF WatchTypes
    <2> QED
      BY <1>5, <2>1, <2>2 DEF WatchTypes
  <1> QED
    BY <1>5, <1>6, <1>7, <1>8, <1>9, <1>10, <1>11, <1>12, <1>13, <1>14, <1>15, <1>16, <1>17
       DEF ClawStep

\* The bounds of WatchInv, as the last instant moves on.
LEMMA BoundsKeep ==
  ASSUME NEW before \in Nat, NEW after \in Nat, NEW until \in Nat, before <= after
  PROVE  /\ until <= before + PostTime => until <= after + PostTime
         /\ until <= before + WriteInterval + PostTime
               => until <= after + WriteInterval + PostTime
         /\ until <= after + PostTime
               => until + WriteInterval <= after + WriteInterval + PostTime
         /\ after <= after + PostTime
  OBVIOUS

\* Time stands still and the thread stays where it is.
LEMMA WatchStands ==
  ASSUME WatchTypes, WatchInv, Observes, UNCHANGED <<time, thread, wake, alive>>
  PROVE  WatchInv'
  <1>1. fineAt' \in Nat /\ fineAt <= fineAt' /\ fineAt' <= time' /\ (Fine' => fineAt' = time')
    BY Observed DEF WatchTypes, WatchInv
  <1>2. thread = "checked" => fineAt' = time'
    BY <1>1 DEF WatchTypes, WatchInv
  <1>3. thread = "asleep" => time' <= wake' /\ wake' <= fineAt' + WriteInterval + PostTime
    BY <1>1, BoundsKeep DEF WatchTypes, WatchInv
  <1>4. thread = "alerting" => time' <= wake' /\ wake' <= fineAt' + PostTime
    BY <1>1, BoundsKeep DEF WatchTypes, WatchInv
  <1> QED
    BY <1>1, <1>2, <1>3, <1>4 DEF WatchInv

\* The thread begins to sleep.
LEMMA WatchSleeps ==
  ASSUME WatchTypes, WatchInv, Observes, time' = time, alive', Sleeps,
         thread \in {"checked", "alerting"} \/ Fine'
  PROVE  WatchInv'
  <1>1. fineAt' \in Nat /\ fineAt <= fineAt' /\ fineAt' <= time' /\ (Fine' => fineAt' = time')
    BY Observed DEF WatchTypes, WatchInv
  <1>2. thread' = "asleep" /\ wake' = time + WriteInterval
    BY DEF Sleeps
  <1>3. time <= fineAt' + PostTime
    <2>1. CASE thread \in {"checked", "alerting"}
      <3>1. CASE thread = "checked"
        BY <1>1, <3>1, BoundsKeep DEF WatchTypes, WatchInv
      <3>2. CASE thread = "alerting"
        <4>1. \A a, b, c, d \in Nat : a <= b /\ b <= c + PostTime /\ c <= d => a <= d + PostTime
          OBVIOUS
        <4> QED
          BY <1>1, <3>2, <4>1 DEF WatchTypes, WatchInv
      <3> QED
        BY <2>1, <3>1, <3>2
    <2>2. CASE Fine'
      <3>1. fineAt' = time /\ time \in Nat
        BY <1>1, <2>2 DEF WatchTypes
      <3> QED
        BY <3>1
    <2> QED
      BY <2>1, <2>2
  <1>4. time' <= wake' /\ wake' <= fineAt' + WriteInterval + PostTime
    <2>1. time \in Nat /\ time' = time
      BY DEF WatchTypes
    <2>2. \A a, b \in Nat : a <= b + PostTime
              => a <= a + WriteInterval /\ a + WriteInterval <= b + WriteInterval + PostTime
      OBVIOUS
    <2> QED
      BY <1>1, <1>2, <1>3, <2>1, <2>2
  <1> QED
    BY <1>1, <1>2, <1>4 DEF WatchInv

\* The thread activates safe mode and reports.
LEMMA WatchAlerts ==
  ASSUME WatchTypes, WatchInv, Observes, time' = time, alive', Activates
  PROVE  WatchInv'
  <1>1. fineAt' \in Nat /\ fineAt <= fineAt' /\ fineAt' <= time' /\ (Fine' => fineAt' = time')
    BY Observed DEF WatchTypes, WatchInv
  <1>2. thread' = "alerting" /\ wake' = time + PostTime /\ Fine'
    BY DEF Activates, Fine
  <1>3. time' <= wake' /\ wake' <= fineAt' + PostTime
    BY <1>1, <1>2 DEF WatchTypes
  <1> QED
    BY <1>1, <1>2, <1>3 DEF WatchInv

LEMMA WatchStep ==
  ASSUME WatchTypes, WatchInv, ClawStep, Observes
  PROVE  WatchInv'
  <1>0. fineAt' \in Nat /\ fineAt <= fineAt' /\ fineAt' <= time' /\ (Fine' => fineAt' = time')
    BY WatchTypesStep, Observed DEF WatchTypes, WatchInv
  <1>1. ASSUME NEW r \in Requests, RequestStep(r) PROVE WatchInv'
    BY <1>1, RequestFrame, WatchStands
  <1>2. CASE Wakes
    <2>1. CASE Valid(heartbeat)
      <3>1. UNCHANGED <<time, heartbeat, alive>> /\ thread' = "checked"
        BY <1>2, <2>1 DEF Wakes
      <3>2. Valid(heartbeat)'
        BY <2>1, <3>1 DEF Valid
      <3>3. fineAt' = time' /\ alive
        BY <1>0, <1>2, <3>2 DEF Fine, Wakes
      <3> QED
        BY <1>0, <3>1, <3>3 DEF WatchInv
    <2>2. CASE ~Valid(heartbeat)
      <3>1. time' = time /\ alive' /\ Activates
        BY <1>2, <2>2 DEF Wakes
      <3> QED
        BY <3>1, WatchAlerts
    <2> QED
      BY <2>1, <2>2
  <1>3. CASE Writes
    <2>1. time' = time /\ alive' /\ Sleeps /\ thread = "checked"
      BY <1>3 DEF Writes, WatchInv
    <2> QED
      BY <2>1, WatchSleeps
  <1>4. CASE WriteRaises
    <2>1. time' = time /\ alive' /\ Activates
      BY <1>4 DEF WriteRaises, WatchInv
    <2> QED
      BY <2>1, WatchAlerts
  <1>5. CASE AlertDone
    <2>1. time' = time /\ alive' /\ Sleeps /\ thread = "alerting"
      BY <1>5 DEF AlertDone, WatchInv
    <2> QED
      BY <2>1, WatchSleeps
  <1>6. CASE ThreadDies
    <2>1. thread' = "dead" /\ alive'
      BY <1>6 DEF ThreadDies
    <2> QED
      BY <1>0, <2>1 DEF WatchInv
  <1>7. CASE EmergencyActivates \/ OperatorDeactivates \/ Tampers
    <2>1. UNCHANGED <<time, thread, wake, alive>>
      BY <1>7 DEF EmergencyActivates, OperatorDeactivates, Tampers, monitorVars
    <2> QED
      BY <2>1, WatchStands
  <1>8. ASSUME NEW chainValid \in BOOLEAN, NEW keyFound \in BOOLEAN,
               Startup(chainValid, keyFound)
        PROVE  WatchInv'
    <2>1. time' = time /\ alive' /\ Sleeps
      BY <1>8 DEF Startup
    <2>2. Fine'
      <3>1. safeMode' = (~chainValid \/ ~keyFound \/ ~Valid(heartbeat'))
        BY <1>8 DEF Startup
      <3>2. ~Valid(heartbeat)' => safeMode'
        BY <2>1, <3>1 DEF Valid
      <3> QED
        BY <3>2, Zenon DEF Fine
    <2> QED
      BY <2>1, <2>2, WatchSleeps
  <1>9. CASE StartupFails
    <2>1. UNCHANGED <<time, thread, wake, alive>>
      BY <1>9 DEF StartupFails
    <2> QED
      BY <2>1, WatchStands
  <1>10. CASE Killed
    <2>1. thread' = "off" /\ ~alive'
      BY <1>10 DEF Killed
    <2> QED
      BY <1>0, <2>1 DEF WatchInv
  <1>11. CASE Passes
    <2>1. UNCHANGED <<thread, wake, alive>> /\ time' = time + 1 /\ thread # "checked"
          /\ (alive /\ thread \in {"asleep", "alerting"} => time < wake)
      BY <1>11 DEF Passes, monitorVars
    <2>2. thread \in {"asleep", "alerting"} => time' <= wake
      BY <2>1 DEF WatchTypes, WatchInv
    <2>3. thread = "asleep" => wake' <= fineAt' + WriteInterval + PostTime
      BY <1>0, <2>1, BoundsKeep DEF WatchTypes, WatchInv
    <2>4. thread = "alerting" => wake' <= fineAt' + PostTime
      BY <1>0, <2>1, BoundsKeep DEF WatchTypes, WatchInv
    <2> QED
      BY <1>0, <2>1, <2>2, <2>3, <2>4 DEF WatchInv
  <1> QED
    BY <1>1, <1>2, <1>3, <1>4, <1>5, <1>6, <1>7, <1>8, <1>9, <1>10, <1>11 DEF ClawStep

\* Only the write changes the file while a thread is about to write, or the
\* history notes it.
LEMMA CheckedStep ==
  ASSUME WatchTypes, WatchInv, CheckedInv, ClawStep, Observes
  PROVE  CheckedInv'
  <1> SUFFICES ASSUME thread' = "checked", ~slipped'
               PROVE  Valid(heartbeat)'
    BY DEF CheckedInv
  <1>1. CASE thread = "checked"
    <2>1. ~slipped /\ heartbeat' = heartbeat
      BY <1>1 DEF Observes
    <2>2. Valid(heartbeat)
      BY <1>1, <2>1 DEF CheckedInv
    <2>3. time' = time
      <3>1. CASE Passes
        BY <1>1, <3>1 DEF Passes
      <3>2. ASSUME NEW r \in Requests, RequestStep(r) PROVE time' = time
        BY <3>2, RequestFrame
      <3> QED
        BY <3>1, <3>2, Zenon DEF ClawStep, Wakes, Writes, WriteRaises, AlertDone, ThreadDies,
           EmergencyActivates, OperatorDeactivates, Startup, StartupFails, Killed, Tampers
    <2> QED
      BY <2>1, <2>2, <2>3 DEF Valid
  <1>2. CASE thread # "checked"
    <2>1. CASE Wakes
      <3>1. Valid(heartbeat) /\ UNCHANGED <<time, heartbeat>>
        BY <2>1 DEF Wakes, Activates
      <3> QED
        BY <3>1 DEF Valid
    <2>2. ASSUME NEW r \in Requests, RequestStep(r) PROVE FALSE
      BY <1>2, <2>2, RequestFrame
    <2>3. ~(Writes \/ WriteRaises \/ AlertDone \/ ThreadDies)
      BY DEF Writes, WriteRaises, AlertDone, ThreadDies, Sleeps, Activates
    <2>4. ~(EmergencyActivates \/ OperatorDeactivates \/ StartupFails \/ Killed \/ Tampers
            \/ Passes)
      BY <1>2 DEF EmergencyActivates, OperatorDeactivates, StartupFails, Killed, Tampers,
         Passes, monitorVars
    <2>5. ASSUME NEW chainValid \in BOOLEAN, NEW keyFound \in BOOLEAN,
                 Startup(chainValid, keyFound)
          PROVE  FALSE
      BY <2>5 DEF Startup, Sleeps
    <2> QED
      BY <2>1, <2>2, <2>3, <2>4, <2>5, Zenon DEF ClawStep
  <1> QED
    BY <1>1, <1>2

ClawInv == RequestInv /\ WatchTypes /\ WatchInv /\ CheckedInv

LEMMA ClawInvStep ==
  ASSUME ClawInv, [ClawNext]_clawVars
  PROVE  ClawInv'
  <1>1. CASE ClawNext
    <2>1. RequestInv'
      BY <1>1, RequestInvStep DEF ClawInv
    <2>2. ClawStep /\ Observes
      BY <1>1 DEF ClawNext
    <2>3. WatchTypes' /\ WatchInv' /\ CheckedInv'
      BY <2>2, WatchTypesStep, WatchStep, CheckedStep DEF ClawInv
    <2> QED
      BY <2>1, <2>3 DEF ClawInv
  <1>2. CASE UNCHANGED clawVars
    <2>1. RequestInv'
      BY RequestInvStep DEF ClawInv
    <2>2. /\ UNCHANGED <<time, heartbeat, thread, wake, alive, safeMode>>
          /\ UNCHANGED <<errors, hands, fineAt, slipped>>
      BY <1>2 DEF clawVars, monitorVars
    <2>3. WatchTypes'
      BY <2>2 DEF ClawInv, WatchTypes
    <2>4. (Valid(heartbeat)' <=> Valid(heartbeat)) /\ (Fine' <=> Fine)
      BY <2>2 DEF Valid, Fine
    <2>5. WatchInv' /\ CheckedInv'
      BY <2>2, <2>4 DEF ClawInv, WatchInv, CheckedInv
    <2> QED
      BY <2>1, <2>3, <2>5 DEF ClawInv
  <1> QED
    BY <1>1, <1>2

LEMMA ClawInvInit ==
  ASSUME ClawInit
  PROVE  ClawInv
  <1>1. RequestInv
    BY RequestInvInit
  <1>2. WatchTypes
    <2>1. heartbeat \in [kind : Kinds, at : Nat] /\ time = 0
      BY DEF ClawInit, HeartbeatFile, Kinds
    <2>2. alive \in BOOLEAN /\ safeMode \in BOOLEAN /\ slipped \in BOOLEAN
      BY Zenon DEF ClawInit
    <2>3. thread = "off" /\ wake = 0 /\ errors = 0 /\ hands = 0 /\ fineAt = 0
      BY DEF ClawInit
    <2>4. MaxErrors \in Nat /\ MaxTampers \in Nat
      OBVIOUS
    <2> QED
      BY <2>1, <2>2, <2>3, <2>4 DEF WatchTypes
  <1>3. /\ time = 0 /\ fineAt = 0 /\ alive = FALSE /\ thread = "off"
    BY DEF ClawInit
  <1>4. WatchInv /\ CheckedInv
    BY <1>3 DEF WatchInv, CheckedInv
  <1> QED
    BY <1>1, <1>2, <1>4 DEF ClawInv

\* Every variable of the process keeps its type, and who is through has an
\* answer, or lost it with the process.
THEOREM ClawTypes == ClawSpec => []ClawTypeOK
  <1>1. ASSUME ClawInv PROVE ClawTypeOK
    <2>1. approved \subseteq Requests /\ sent \subseteq approved /\ raised \subseteq Requests
      BY <1>1 DEF ClawInv, RequestInv, RequestTypes, StageInv
    <2>2. /\ stage \in [Requests -> {"new", "checked", "admitted", "calling", "answering", "done"}]
          /\ reply \in [Requests -> {"none", "turned away", "rejected", "refused", "failed",
                                     "released"}]
          /\ lines \in [Requests -> Seq({"blocked", "passed"})]
          /\ \A r \in Requests : stage[r] = "done" <=> answer[r] # "none"
      BY <1>1 DEF ClawInv, RequestInv, RequestTypes, StageInv, Stages, Replies, Logs
    <2>3. answer \in [Requests -> {"none", "turned away", "rejected", "refused", "failed",
                                   "released", "lost"}]
      BY <1>1 DEF ClawInv, RequestInv, RequestTypes, Replies
    <2> QED
      BY <1>1, <2>1, <2>2, <2>3 DEF ClawInv, WatchTypes, ClawTypeOK
  <1> QED
    BY <1>1, ClawInvInit, ClawInvStep, PTL DEF ClawSpec

\* A lost heartbeat is noticed within an interval and the time of a post,
\* whatever the requests, the operator and the disk do.
THEOREM ClawLossNoticed == ClawSpec => []LossNoticed
  <1>1. ASSUME ClawInv PROVE LossNoticed
    <2>1. time \in Nat /\ fineAt \in Nat /\ fineAt <= time /\ wake \in Nat
      BY <1>1 DEF ClawInv, WatchTypes, WatchInv
    <2>2. CASE Fine \/ thread = "checked"
      <3>1. fineAt = time
        BY <1>1, <2>2 DEF ClawInv, WatchInv
      <3> QED
        BY <2>1, <3>1 DEF LossNoticed
    <2>3. CASE thread = "asleep"
      <3>1. time <= wake /\ wake <= fineAt + WriteInterval + PostTime
        BY <1>1, <2>3 DEF ClawInv, WatchInv
      <3> QED
        BY <2>1, <3>1 DEF LossNoticed
    <2>4. CASE thread = "alerting"
      <3>1. time <= wake /\ wake <= fineAt + PostTime
        BY <1>1, <2>4 DEF ClawInv, WatchInv
      <3> QED
        BY <2>1, <3>1 DEF LossNoticed
    <2>5. thread \in {"off", "dead"} => Fine
      BY <1>1 DEF ClawInv, WatchInv, Fine
    <2> QED
      BY <1>1, <2>2, <2>3, <2>4, <2>5 DEF ClawInv, WatchTypes
  <1> QED
    BY <1>1, ClawInvInit, ClawInvStep, PTL DEF ClawSpec

\* No append of the gateway revives a heartbeat it found invalid.
THEOREM ClawNeverRevives == ClawSpec => NeverRevived
  <1>1. ASSUME ClawInv, ClawStep, alive, hands' = hands, ~slipped, ~Valid(heartbeat)
        PROVE  ~Valid(heartbeat)'
    <2>1. thread # "checked"
      BY <1>1 DEF ClawInv, CheckedInv
    <2>2. heartbeat' = heartbeat
      <3>1. ASSUME NEW r \in Requests, RequestStep(r) PROVE heartbeat' = heartbeat
        BY <3>1, RequestFrame
      <3>2. CASE Wakes \/ AlertDone \/ ThreadDies \/ EmergencyActivates \/ OperatorDeactivates
                 \/ Passes
        BY <3>2, Zenon DEF Wakes, AlertDone, ThreadDies, EmergencyActivates,
           OperatorDeactivates, Passes, monitorVars
      <3>3. ~Writes /\ ~WriteRaises
        BY <2>1 DEF Writes, WriteRaises
      <3>4. CASE Killed
        BY <2>1, <3>4 DEF Killed
      <3>5. ~StartupFails /\ \A c, k \in BOOLEAN : ~Startup(c, k)
        BY <1>1 DEF StartupFails, Startup
      <3>6. ~Tampers
        <4>1. hands \in Nat
          BY <1>1 DEF ClawInv, WatchTypes
        <4>2. hands' = hands
          BY <1>1
        <4>3. hands' # hands + 1
          BY <4>1, <4>2
        <4> QED
          BY <4>3 DEF Tampers
      <3> QED
        BY <1>1, <3>1, <3>2, <3>3, <3>4, <3>5, <3>6, Zenon DEF ClawStep
    <2>3. time' \in Nat /\ time \in Nat /\ time <= time' /\ heartbeat.at \in Nat
      <3>1. CASE Passes
        BY <1>1, <3>1 DEF Passes, ClawInv, WatchTypes
      <3>2. ASSUME NEW r \in Requests, RequestStep(r) PROVE time' = time
        BY <3>2, RequestFrame
      <3>3. time' = time \/ Passes
        BY <1>1, <3>2, Zenon DEF ClawStep, Wakes, Writes, WriteRaises, AlertDone, ThreadDies,
           EmergencyActivates, OperatorDeactivates, Startup, StartupFails, Killed, Tampers
      <3> QED
        BY <1>1, <3>1, <3>3 DEF ClawInv, WatchTypes
    <2> QED
      BY <1>1, <2>2, <2>3 DEF Valid
  <1>2. ASSUME ClawInv, [ClawNext]_clawVars
        PROVE  [alive /\ alive' /\ hands' = hands /\ ~slipped /\ ~Valid(heartbeat)
                  => ~Valid(heartbeat)']_clawVars
    BY <1>1, <1>2, Zenon DEF ClawNext
  <1> QED
    BY <1>2, ClawInvInit, ClawInvStep, PTL DEF ClawSpec, NeverRevived
-----------------------------------------------------------------------------
(* The parts together *)

\* Each part of the gateway takes its own steps, whatever runs beside it,
LEMMA PartsRun ==
  MCSpec => LogSpec /\ LimiterSpec /\ ThreadedSpec /\ ClawSpec
  <1>1. MCInit => LogInit /\ LimiterInit /\ ThreadedInit /\ ClawInit
    BY DEF MCInit
  <1>2. [MCNext]_mcVars => [LogNext]_logVars
    BY Zenon DEF MCNext, mcVars
  <1>3. [MCNext]_mcVars => [LimiterNext]_limiterVars
    BY Zenon DEF MCNext, mcVars
  <1>4. [MCNext]_mcVars => [ThreadedNext]_threadedVars
    BY Zenon DEF MCNext, mcVars
  <1>5. [MCNext]_mcVars => [ClawNext]_clawVars
    BY Zenon DEF MCNext, mcVars
  <1> QED
    BY <1>1, <1>2, <1>3, <1>4, <1>5, PTL DEF MCSpec, LogSpec, LimiterSpec, ThreadedSpec, ClawSpec

\* so that the variables of all of them keep their types.
THEOREM PartsTyped == MCSpec => []TypesOK
  <1>1. LogTypeOK /\ LimiterTypeOK /\ ThreadedTypeOK /\ ClawTypeOK => TypesOK
    BY DEF TypesOK
  <1>2. LogSpec => []LogTypeOK
    BY LogInvariant, PTL DEF LogInv
  <1> QED
    BY <1>1, <1>2, PartsRun, LimiterTypes, ThreadedTypes, ClawTypes, PTL
=============================================================================
