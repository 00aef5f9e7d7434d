-------------------------- MODULE AuditChainProofs --------------------------
(***************************************************************************)
(* Theorems about the audit chain, for every set of keys and every bound:  *)
(* type correctness, that every break is explained, that no step of the    *)
(* program mends a broken chain, and that the log implements the           *)
(* append-only log.                                                        *)
(***************************************************************************)
EXTENDS AuditChain, TLAPS, SequenceTheorems, WellFoundedInduction

\* A new line is a line.
LEMMA NewLineType ==
    ASSUME TypeOK PROVE NewLine \in Line
BY DEF TypeOK, NewLine, Line, Text

\* What the file becomes when a line, or a part of one, is written to it.
LEMMA WrittenType ==
    ASSUME NEW f \in Seq(Line), NEW l \in Line
    PROVE  /\ Written(f, l) \in Seq(Line)
           /\ \A g \in Fragments(f, l) : g \in Seq(Line)
<1>1. \A t \in Text : [l EXCEPT !.text = t] \in Line
  BY DEF Line
<1>2. CASE Unsealed(f)
  <2>1. Len(f) \in 1 .. Len(f) /\ f[Len(f)] \in Line
    BY <1>2, EmptySeq, ElementOfSeq DEF Unsealed
  <2>2. \A t \in Text : [f[Len(f)] EXCEPT !.text = t] \in Line
    BY <2>1 DEF Line
  <2>3. \A t \in Text : [f EXCEPT ![Len(f)].text = t] \in Seq(Line)
    BY <2>1, <2>2, ExceptSeq
  <2> QED
    BY <1>2, <2>3 DEF Written, Fragments, Text
<1>3. CASE ~Unsealed(f)
  <2>1. \A e \in Line : Append(f, e) \in Seq(Line)
    BY AppendProperties
  <2>2. \A t \in {"torn", "bare"} : Append(f, [l EXCEPT !.text = t]) \in Seq(Line)
    BY <1>1, <2>1 DEF Text
  <2> QED
    BY <1>3, <2>1, <2>2 DEF Written, Fragments
<1> QED
  BY <1>2, <1>3

\* The hash of the last line is a hash.
LEMMA TailHashType ==
    ASSUME NEW f \in Seq(Line)
    PROVE  TailHash(f) \in Nat
<1>1. CASE Len(f) = 0
  BY <1>1 DEF TailHash, Before, Genesis
<1>2. CASE Len(f) # 0
  <2>1. f[Len(f)] \in Line
    BY <1>2, LenProperties, ElementOfSeq
  <2>2. TailHash(f) = f[Len(f)].hash
    BY <1>2, LenProperties DEF TailHash, Before
  <2> QED
    BY <2>1, <2>2 DEF Line
<1> QED
  BY <1>1, <1>2

LEMMA TypeInductive == TypeOK /\ [Next]_vars => TypeOK'
<1> SUFFICES ASSUME TypeOK, [Next]_vars PROVE TypeOK'
  OBVIOUS
<1>a. /\ seq \in Nat /\ last \in Nat /\ minted \in Nat
      /\ failures \in Nat /\ crashes \in Nat /\ hands \in Nat
  BY DEF TypeOK
<1>b. TailHash(file) \in Nat /\ Len(file) \in Nat
  BY TailHashType, LenProperties DEF TypeOK
<1>c. /\ present \in BOOLEAN /\ up \in BOOLEAN /\ halted \in BOOLEAN
      /\ key \in Keys /\ causes \in SUBSET Cause
  BY DEF TypeOK
<1>d. /\ file \in Seq(Line) /\ acked \in Seq(Nat) /\ NewLine \in Line
      /\ Written(file, NewLine) \in Seq(Line)
      /\ \A g \in Fragments(file, NewLine) : g \in Seq(Line)
  BY NewLineType, WrittenType DEF TypeOK
<1>1. CASE AppendOk
  <2>1. seq' \in Nat /\ last' \in Nat /\ minted' \in Nat
    BY <1>a, <1>b, <1>1 DEF AppendOk, counters
  <2>2. failures' \in Nat /\ crashes' \in Nat /\ hands' \in Nat
    BY <1>a, <1>1 DEF AppendOk, counters
  <2>3. file' \in Seq(Line) /\ acked' \in Seq(Nat)
    BY <1>a, <1>d, <1>1, AppendProperties DEF AppendOk
  <2>4. /\ present' \in BOOLEAN /\ up' \in BOOLEAN /\ halted' \in BOOLEAN
       /\ key' \in Keys /\ causes' \in SUBSET Cause
    BY <1>c, <1>1 DEF AppendOk, counters, Cause
  <2> QED
    BY <2>1, <2>2, <2>3, <2>4 DEF TypeOK
<1>2. CASE AppendFails
  <2>0. /\ seq' = seq + 1 /\ last' = last /\ minted' = minted + 1
        /\ failures' = failures + 1 /\ crashes' = crashes /\ hands' = hands
    BY <1>2, Zenon DEF AppendFails
  <2>1. seq' \in Nat /\ last' \in Nat /\ minted' \in Nat
    BY <1>a, <2>0
  <2>2. failures' \in Nat /\ crashes' \in Nat /\ hands' \in Nat
    BY <1>a, <2>0
  <2>3. file' \in Seq(Line) /\ acked' \in Seq(Nat)
    BY <1>d, <1>2 DEF AppendFails
  <2>4. /\ present' \in BOOLEAN /\ up' \in BOOLEAN /\ halted' \in BOOLEAN
       /\ key' \in Keys /\ causes' \in SUBSET Cause
    BY <1>c, <1>2 DEF AppendFails, Cause
  <2> QED
    BY <2>1, <2>2, <2>3, <2>4 DEF TypeOK
<1>3. CASE Crash
  <2>0. /\ seq' = 0 /\ last' = 0 /\ (minted' = minted \/ minted' = minted + 1)
        /\ failures' = failures /\ crashes' = crashes + 1 /\ hands' = hands
    BY <1>3, Zenon DEF Crash, Genesis
  <2>1. seq' \in Nat /\ last' \in Nat /\ minted' \in Nat
    BY <1>a, <2>0
  <2>2. failures' \in Nat /\ crashes' \in Nat /\ hands' \in Nat
    BY <1>a, <2>0
  <2>3. file' \in Seq(Line) /\ acked' \in Seq(Nat)
    BY <1>d, <1>3 DEF Crash, disk
  <2>4. /\ present' \in BOOLEAN /\ up' \in BOOLEAN /\ halted' \in BOOLEAN
       /\ key' \in Keys /\ causes' \in SUBSET Cause
    BY <1>c, <1>3 DEF Crash, disk, Cause
  <2> QED
    BY <2>1, <2>2, <2>3, <2>4 DEF TypeOK
<1>4. CASE Start
  <2>1. seq' \in Nat /\ last' \in Nat /\ minted' \in Nat
    BY <1>a, <1>b, <1>4 DEF Start, Resync, disk, counters
  <2>2. failures' \in Nat /\ crashes' \in Nat /\ hands' \in Nat
    BY <1>a, <1>4 DEF Start, Resync, disk, counters
  <2>3. file' \in Seq(Line) /\ acked' \in Seq(Nat)
    BY <1>d, <1>4 DEF Start, disk
  <2>4. /\ present' \in BOOLEAN /\ up' \in BOOLEAN /\ halted' \in BOOLEAN
       /\ key' \in Keys /\ causes' \in SUBSET Cause
    BY <1>c, <1>4 DEF Start, Resync, disk, counters, Cause
  <2> QED
    BY <2>1, <2>2, <2>3, <2>4 DEF TypeOK
<1>5. CASE HealthCheck
  <2>1. seq' \in Nat /\ last' \in Nat /\ minted' \in Nat
    BY <1>a, <1>b, <1>5 DEF HealthCheck, Resync, disk, memory, counters
  <2>2. failures' \in Nat /\ crashes' \in Nat /\ hands' \in Nat
    BY <1>a, <1>5 DEF HealthCheck, Resync, disk, memory, counters
  <2>3. file' \in Seq(Line) /\ acked' \in Seq(Nat)
    BY <1>d, <1>5 DEF HealthCheck, disk
  <2>4. /\ present' \in BOOLEAN /\ up' \in BOOLEAN /\ halted' \in BOOLEAN
       /\ key' \in Keys /\ causes' \in SUBSET Cause
    BY <1>c, <1>5 DEF HealthCheck, Resync, disk, memory, counters, Cause
  <2> QED
    BY <2>1, <2>2, <2>3, <2>4 DEF TypeOK
<1>6. CASE HandEdits
  <2>a. PICK i \in 1 .. Len(file) : file' = [file EXCEPT ![i].text = "bad"]
    BY <1>6 DEF HandEdits
  <2>b. file' \in Seq(Line)
    <3>1. file[i] \in Line
      BY <1>d, ElementOfSeq
    <3>2. [file[i] EXCEPT !.text = "bad"] \in Line
      BY <3>1 DEF Line, Text
    <3> QED
      BY <1>d, <2>a, <3>2, ExceptSeq
  <2>1. seq' \in Nat /\ last' \in Nat /\ minted' \in Nat
    BY <1>a, <1>b, <1>6 DEF HandEdits, Touch, memory
  <2>2. failures' \in Nat /\ crashes' \in Nat /\ hands' \in Nat
    BY <1>a, <1>6 DEF HandEdits, Touch, memory
  <2>3. file' \in Seq(Line) /\ acked' \in Seq(Nat)
    BY <1>d, <1>6, <2>b DEF HandEdits
  <2>4. /\ present' \in BOOLEAN /\ up' \in BOOLEAN /\ halted' \in BOOLEAN
       /\ key' \in Keys /\ causes' \in SUBSET Cause
    BY <1>c, <1>6 DEF HandEdits, Touch, memory, Cause
  <2> QED
    BY <2>1, <2>2, <2>3, <2>4 DEF TypeOK
<1>7. CASE HandTruncates
  <2>a. PICK n \in 0 .. Len(file) : file' = SubSeq(file, 1, n)
    BY <1>7 DEF HandTruncates
  <2>b. file' \in Seq(Line)
    <3>1. \A i \in 1 .. n : file[i] \in Line
      BY <1>b, <1>d, ElementOfSeq
    <3> QED
      BY <1>b, <2>a, <3>1, SubSeqProperties
  <2>1. seq' \in Nat /\ last' \in Nat /\ minted' \in Nat
    BY <1>a, <1>b, <1>7 DEF HandTruncates, Touch, memory
  <2>2. failures' \in Nat /\ crashes' \in Nat /\ hands' \in Nat
    BY <1>a, <1>7 DEF HandTruncates, Touch, memory
  <2>3. file' \in Seq(Line) /\ acked' \in Seq(Nat)
    BY <1>d, <1>7, <2>b DEF HandTruncates
  <2>4. /\ present' \in BOOLEAN /\ up' \in BOOLEAN /\ halted' \in BOOLEAN
       /\ key' \in Keys /\ causes' \in SUBSET Cause
    BY <1>c, <1>7 DEF HandTruncates, Touch, memory, Cause
  <2> QED
    BY <2>1, <2>2, <2>3, <2>4 DEF TypeOK
<1>8. CASE HandRemoves
  <2>1. seq' \in Nat /\ last' \in Nat /\ minted' \in Nat
    BY <1>a, <1>b, <1>8 DEF HandRemoves, Touch, memory
  <2>2. failures' \in Nat /\ crashes' \in Nat /\ hands' \in Nat
    BY <1>a, <1>8 DEF HandRemoves, Touch, memory
  <2>3. file' \in Seq(Line) /\ acked' \in Seq(Nat)
    BY <1>d, <1>8, EmptySeq DEF HandRemoves
  <2>4. /\ present' \in BOOLEAN /\ up' \in BOOLEAN /\ halted' \in BOOLEAN
       /\ key' \in Keys /\ causes' \in SUBSET Cause
    BY <1>c, <1>8 DEF HandRemoves, Touch, memory, Cause
  <2> QED
    BY <2>1, <2>2, <2>3, <2>4 DEF TypeOK
<1>9. CASE UNCHANGED vars
  BY <1>9, <1>a, <1>c, <1>d DEF vars, TypeOK
<1> QED
  BY <1>1, <1>2, <1>3, <1>4, <1>5, <1>6, <1>7, <1>8, <1>9 DEF Next

\* Type correctness of the audit log, its file and its history.
THEOREM TypeCorrect == Spec => []TypeOK
<1>1. Init => TypeOK
  <2> SUFFICES ASSUME Init PROVE TypeOK
    OBVIOUS
  <2>1. file \in Seq(Line) /\ acked \in Seq(Nat)
    BY EmptySeq DEF Init
  <2>2. /\ present \in BOOLEAN /\ up \in BOOLEAN /\ halted \in BOOLEAN
        /\ key \in Keys /\ causes \in SUBSET Cause
    BY DEF Init
  <2>3. /\ seq \in Nat /\ last \in Nat /\ minted \in Nat
        /\ failures \in Nat /\ crashes \in Nat /\ hands \in Nat
    BY DEF Init, Genesis
  <2> QED
    BY <2>1, <2>2, <2>3 DEF TypeOK
<1> QED
  BY <1>1, TypeInductive, PTL DEF Spec

-----------------------------------------------------------------------------
(* Every break is explained *)

\* A line chained to the tail of a terminated file that links throughout goes
\* on a line of its own, and the file it makes links throughout and ends with
\* its hash.
LEMMA AppendLinks ==
    ASSUME NEW f \in Seq(Line), NEW l \in Line, AllLinked(f), ~Unsealed(f),
           l.text = "ok", l.prev = TailHash(f)
    PROVE  /\ Written(f, l) = Append(f, l)
           /\ AllLinked(Append(f, l))
           /\ TailHash(Append(f, l)) = l.hash
<1> DEFINE g == Append(f, l)
<1>1. /\ Len(g) = Len(f) + 1 /\ Len(f) \in Nat
      /\ g[Len(f) + 1] = l
      /\ \A i \in 1 .. Len(f) : g[i] = f[i]
  BY AppendProperties, LenProperties
<1>3. ASSUME NEW i \in 1 .. Len(g) PROVE Linked(g, i)
  <2>1. Before(g, i) = Before(f, i)
    BY <1>1, <1>3 DEF Before
  <2>2. CASE i \in 1 .. Len(f)
    <3>1. Linked(f, i) /\ g[i] = f[i]
      BY <1>1, <2>2 DEF AllLinked
    <3> QED
      BY <2>1, <3>1 DEF Linked
  <2>3. CASE i = Len(f) + 1
    BY <1>1, <2>1, <2>3 DEF Linked, TailHash
  <2> QED
    BY <1>1, <2>2, <2>3
<1>4. TailHash(g) = l.hash
  <2>1. Len(g) + 1 # 1 /\ Len(g) + 1 - 1 = Len(f) + 1
    BY <1>1
  <2> QED
    BY <1>1, <2>1 DEF TailHash, Before
<1> QED
  BY <1>3, <1>4 DEF Written, AllLinked

\* While the gateway can append to an undamaged log, writing the next line
\* keeps it so.
LEMMA WriteLinks ==
    ASSUME TypeOK, ChainInv, NoFragment, causes = {}, up, ~halted
    PROVE  /\ AllLinked(Written(file, NewLine))
           /\ TailHash(Written(file, NewLine)) = minted + 1
<1>1. AllLinked(file) /\ last = TailHash(file) /\ ~Unsealed(file)
  BY DEF ChainInv, InStep, NoFragment, Undamaged
<1>2. NewLine.text = "ok" /\ NewLine.prev = last /\ NewLine.hash = minted + 1
  BY DEF NewLine
<1>3. file \in Seq(Line) /\ NewLine \in Line
  BY NewLineType DEF TypeOK
<1> QED
  BY <1>1, <1>2, <1>3, AppendLinks

LEMMA ChainInvInductive ==
    TypeOK /\ ChainInv /\ NoFragment /\ [Next]_vars => ChainInv'
<1> SUFFICES ASSUME TypeOK, ChainInv, NoFragment, [Next]_vars, causes' = {}
             PROVE  AllLinked(file') /\ InStep'
  BY DEF ChainInv
<1>1. CASE AppendOk
  <2>1. causes = {} /\ up /\ ~halted /\ file' = Written(file, NewLine)
        /\ last' = minted + 1
    BY <1>1 DEF AppendOk, CanAppend
  <2> QED
    BY <2>1, WriteLinks DEF InStep
<1>2. CASE AppendFails
  <2>1. file' = file /\ causes = {} /\ last' = last /\ up' = up /\ halted' = halted
    BY <1>2, Zenon DEF AppendFails
  <2> QED
    BY <2>1 DEF ChainInv, InStep
<1>3. CASE Crash
  <2>1. ~up'
    BY <1>3 DEF Crash
  <2>2. causes = {} /\ (\/ file' = file
                        \/ CanAppend /\ file' = Written(file, NewLine))
    BY <1>3, Zenon DEF Crash, disk
  <2>3. CASE file' = file
    BY <2>1, <2>2, <2>3 DEF ChainInv, InStep
  <2>4. CASE CanAppend /\ file' = Written(file, NewLine)
    BY <2>1, <2>2, <2>4, WriteLinks DEF CanAppend, InStep
  <2> QED
    BY <2>2, <2>3, <2>4
<1>4. CASE Start
  <2>1. PICK k \in Keys :
          IF Verifies(file, k)
          THEN Resync /\ halted' = FALSE /\ causes' = causes \ {"failed fsync"}
          ELSE UNCHANGED <<seq, last, causes>> /\ halted' = TRUE
    BY <1>4 DEF Start
  <2>2. file' = file
    BY <1>4 DEF Start, disk
  <2>3. CASE Verifies(file, k)
    BY <2>1, <2>2, <2>3 DEF Verifies, AllLinked, Resync, InStep
  <2>4. CASE ~Verifies(file, k)
    <3>1. causes' = causes /\ halted' = TRUE
      BY <2>1, <2>4
    <3> QED
      BY <2>2, <3>1 DEF ChainInv, InStep
  <2> QED
    BY <2>3, <2>4
<1>5. CASE HealthCheck
  <2>1. file' = file /\ up' = up /\ halted' = halted
    BY <1>5 DEF HealthCheck, disk
  <2>2. CASE present /\ Verifies(file, key)
    BY <1>5, <2>1, <2>2 DEF HealthCheck, Verifies, AllLinked, Resync, InStep
  <2>3. CASE ~(present /\ Verifies(file, key))
    <3>1. last' = last /\ causes' = causes
      BY <1>5, <2>3 DEF HealthCheck, memory
    <3> QED
      BY <2>1, <3>1 DEF ChainInv, InStep
  <2> QED
    BY <2>2, <2>3
<1>6. CASE HandEdits \/ HandTruncates \/ HandRemoves
  BY <1>6 DEF HandEdits, HandTruncates, HandRemoves, Touch
<1>7. CASE UNCHANGED vars
  BY <1>7 DEF vars, ChainInv, InStep
<1> QED
  BY <1>1, <1>2, <1>3, <1>4, <1>5, <1>6, <1>7 DEF Next

-----------------------------------------------------------------------------
(* What a step may do to the file *)

\* g is f with at most one more line, or with its unterminated tail written on.
Keeps(f, g) ==
    /\ g \in Seq(Line)
    /\ \/ Len(g) = Len(f)
       \/ Len(g) = Len(f) + 1 /\ ~Unsealed(f)
    /\ \A i \in 1 .. Len(f) :
          /\ g[i].hash = f[i].hash
          /\ \/ g[i] = f[i]
             \/ /\ i = Len(f) /\ Len(g) = Len(f) /\ Unsealed(f)
                /\ g[i].text \in {"bad", "torn"}

\* A write keeps the file, and a line it adds carries the hash it was given.
LEMMA WriteKeeps ==
    ASSUME NEW f \in Seq(Line), NEW l \in Line,
           NEW g \in {Written(f, l)} \union Fragments(f, l)
    PROVE  /\ Keeps(f, g)
           /\ Len(g) = Len(f) + 1 => g[Len(f) + 1].hash = l.hash
<1>0. Len(f) \in Nat /\ g \in Seq(Line)
  BY WrittenType, LenProperties
<1>1. CASE Unsealed(f)
  <2>1. Len(f) \in 1 .. Len(f) /\ f[Len(f)] \in Line
    BY <1>1, EmptySeq, ElementOfSeq DEF Unsealed
  <2>2. PICK t \in {"bad", "torn"} : g = [f EXCEPT ![Len(f)].text = t]
    BY <1>1 DEF Written, Fragments
  <2> DEFINE e == [f[Len(f)] EXCEPT !.text = t]
  <2>3. e \in Line /\ e.hash = f[Len(f)].hash /\ e.text = t
    BY <2>1 DEF Line, Text
  <2>4. g = [f EXCEPT ![Len(f)] = e]
    BY <2>2
  <2> HIDE DEF e
  <2>5. /\ Len(g) = Len(f)
        /\ \A i \in 1 .. Len(f) : g[i] = IF i = Len(f) THEN e ELSE f[i]
    BY <2>1, <2>3, <2>4, ExceptSeq
  <2>6. \A i \in 1 .. Len(f) :
          /\ g[i].hash = f[i].hash
          /\ g[i] = f[i] \/ (i = Len(f) /\ g[i].text \in {"bad", "torn"})
    BY <2>3, <2>5
  <2> QED
    BY <1>0, <1>1, <2>5, <2>6 DEF Keeps
<1>2. CASE ~Unsealed(f)
  <2>1. PICK e \in Line : g = Append(f, e) /\ e.hash = l.hash
    <3>1. \A t \in {"torn", "bare"} :
             [l EXCEPT !.text = t] \in Line /\ [l EXCEPT !.text = t].hash = l.hash
      BY DEF Line, Text
    <3> QED
      BY <1>2, <3>1 DEF Written, Fragments
  <2>2. /\ Len(g) = Len(f) + 1 /\ g[Len(f) + 1] = e
        /\ \A i \in 1 .. Len(f) : g[i] = f[i]
    BY <2>1, AppendProperties, LenProperties
  <2> QED
    BY <1>0, <1>2, <2>1, <2>2 DEF Keeps
<1> QED
  BY <1>1, <1>2

\* Every step of the program keeps the file; a hash it adds is a new one.
LEMMA StepKeeps ==
    ASSUME TypeOK, [Next]_vars, hands' = hands
    PROVE  /\ Keeps(file, file')
           /\ minted' = minted \/ minted' = minted + 1
           /\ Len(file') = Len(file) + 1 =>
                minted' = minted + 1 /\ file'[Len(file) + 1].hash = minted + 1
<1>1. CASE file' = file
  <2>1. minted' = minted \/ minted' = minted + 1
    <3>1. CASE AppendOk \/ AppendFails
      BY <3>1, Zenon DEF AppendOk, AppendFails
    <3>2. CASE Crash
      BY <3>2, Zenon DEF Crash
    <3>3. CASE Start \/ HealthCheck \/ HandEdits \/ HandTruncates \/ HandRemoves
      BY <3>3, Zenon DEF Start, HealthCheck, HandEdits, HandTruncates, HandRemoves
    <3> QED
      BY <3>1, <3>2, <3>3, Zenon DEF Next, vars
  <2>2. Len(file) \in Nat
    BY LenProperties DEF TypeOK
  <2> QED
    BY <1>1, <2>1, <2>2 DEF Keeps, TypeOK
<1>2. CASE /\ file' \in {Written(file, NewLine)} \union Fragments(file, NewLine)
           /\ minted' = minted + 1
  <2>1. NewLine \in Line /\ NewLine.hash = minted + 1
    BY NewLineType DEF NewLine
  <2> QED
    BY <1>2, <2>1, WriteKeeps DEF TypeOK
<1>3. \/ file' = file
      \/ /\ file' \in {Written(file, NewLine)} \union Fragments(file, NewLine)
         /\ minted' = minted + 1
  <2>1. CASE AppendOk
    BY <2>1 DEF AppendOk
  <2>2. CASE AppendFails
    BY <2>2, Zenon DEF AppendFails
  <2>3. CASE Crash
    BY <2>3, Zenon DEF Crash, disk
  <2>4. CASE Start \/ HealthCheck
    BY <2>4 DEF Start, HealthCheck, disk
  <2>5. CASE HandEdits \/ HandTruncates \/ HandRemoves
    BY <2>5 DEF HandEdits, HandTruncates, HandRemoves, Touch, TypeOK
  <2> QED
    BY <2>1, <2>2, <2>3, <2>4, <2>5 DEF Next, vars
<1> QED
  BY <1>1, <1>2, <1>3

-----------------------------------------------------------------------------
(* The linked prefix *)

\* LinkedLen picks the number it describes: there is a first line that does
\* not link, or none.
LEMMA LinkedLenIs ==
    ASSUME NEW f \in Seq(Line)
    PROVE  /\ LinkedLen(f) \in 0 .. Len(f)
           /\ \A i \in 1 .. LinkedLen(f) : Linked(f, i)
           /\ LinkedLen(f) < Len(f) => ~Linked(f, LinkedLen(f) + 1)
<1> DEFINE T == {i \in 1 .. Len(f) : ~Linked(f, i)}
<1>0. Len(f) \in Nat
  BY LenProperties
<1>1. \E n \in 0 .. Len(f) :
          /\ \A i \in 1 .. n : Linked(f, i)
          /\ n < Len(f) => ~Linked(f, n + 1)
  <2>1. CASE T = {}
    <3>1. Len(f) \in 0 .. Len(f) /\ \A i \in 1 .. Len(f) : Linked(f, i)
      BY <1>0, <2>1
    <3> QED
      BY <1>0, <3>1
  <2>2. CASE T # {}
    <3>1. PICK m \in T : \A y \in T : ~(<<y, m>> \in OpToRel(<, Nat))
      <4>1. T \subseteq Nat
        BY <1>0
      <4> QED
        BY <2>2, <4>1, WFMin, NatLessThanWellFounded
    <3>2. T \subseteq Nat /\ m \in 1 .. Len(f) /\ ~Linked(f, m)
      <4>1. m \in T
        OBVIOUS
      <4> QED
        BY <1>0, <4>1
    <3>3. \A y \in T : ~(y < m)
      BY <3>1, <3>2, Zenon DEF OpToRel
    <3>4. \A i \in 1 .. m - 1 : Linked(f, i)
      <4> SUFFICES ASSUME NEW i \in 1 .. m - 1, ~Linked(f, i) PROVE FALSE
        OBVIOUS
      <4>1. i \in T /\ i < m
        BY <1>0, <3>2
      <4> QED
        BY <3>3, <4>1
    <3>5. m - 1 \in 0 .. Len(f) /\ (m - 1) + 1 = m
      BY <1>0, <3>2
    <3> HIDE DEF T
    <3> QED
      BY <3>2, <3>4, <3>5
  <2> QED
    BY <2>1, <2>2
<1> QED
  BY <1>1 DEF LinkedLen

LEMMA EmptyLinks ==
    ASSUME NEW f \in Seq(Line), Len(f) = 0
    PROVE  LinkedLen(f) = 0
<1>1. LinkedLen(f) \in 0 .. Len(f)
  BY LinkedLenIs
<1> QED
  BY <1>1

\* A line that does not link bounds the linked prefix.
LEMMA LinkedLenBound ==
    ASSUME NEW f \in Seq(Line), NEW i \in 1 .. Len(f), ~Linked(f, i)
    PROVE  LinkedLen(f) < i
BY LinkedLenIs, LenProperties

\* A prefix that links is no longer than the linked prefix.
LEMMA LinkedLenReaches ==
    ASSUME NEW f \in Seq(Line), NEW n \in 0 .. Len(f),
           \A i \in 1 .. n : Linked(f, i)
    PROVE  n <= LinkedLen(f)
BY LinkedLenIs, LenProperties

\* What did not link does not, as long as no hand touches the file, and what
\* linked links, but for an unterminated tail that was written on.
LEMMA LinkedKept ==
    ASSUME NEW f \in Seq(Line), NEW g, Keeps(f, g), NEW i \in 1 .. Len(f)
    PROVE  /\ Linked(g, i) => Linked(f, i)
           /\ g[i] = f[i] => (Linked(g, i) <=> Linked(f, i))
           /\ g[i] # f[i] => ~Linked(g, i)
<1>1. Before(g, i) = Before(f, i)
  BY LenProperties DEF Before, Keeps
<1>2. g[i] = f[i] \/ g[i].text \in {"bad", "torn"}
  BY DEF Keeps
<1> QED
  BY <1>1, <1>2 DEF Linked

\* No step of the program mends a broken chain.
THEOREM BrokenForGood == Spec => BrokenStaysBroken
<1>1. TypeOK /\ TypeOK' /\ [Next]_vars =>
        [hands' = hands /\ LinkedLen(file) < Len(file)
           => LinkedLen(file') < Len(file')]_vars
  <2> SUFFICES ASSUME TypeOK, TypeOK', [Next]_vars, hands' = hands,
                      LinkedLen(file) < Len(file)
               PROVE  LinkedLen(file') < Len(file')
    OBVIOUS
  <2> DEFINE m == LinkedLen(file) + 1
  <2>1. Keeps(file, file') /\ file \in Seq(Line) /\ file' \in Seq(Line)
    BY StepKeeps DEF TypeOK
  <2>2. m \in 1 .. Len(file) /\ ~Linked(file, m)
    BY <2>1, LinkedLenIs, LenProperties
  <2>3. m \in 1 .. Len(file')
    BY <2>1, <2>2, LenProperties DEF Keeps
  <2>4. ~Linked(file', m)
    BY <2>1, <2>2, LinkedKept
  <2>5. LinkedLen(file') < m
    BY <2>1, <2>3, <2>4, LinkedLenBound
  <2> QED
    BY <2>1, <2>3, <2>5, LinkedLenIs, LenProperties
<1> QED
  BY <1>1, TypeCorrect, PTL DEF Spec, BrokenStaysBroken

-----------------------------------------------------------------------------
(* Acknowledged entries *)

LEMMA HashesInductive == TypeOK /\ HashesGrow /\ [Next]_vars => HashesGrow'
<1> SUFFICES ASSUME TypeOK, HashesGrow, [Next]_vars PROVE HashesGrow'
  OBVIOUS
<1>0. /\ file \in Seq(Line) /\ Len(file) \in Nat /\ minted \in Nat
      /\ \A i \in 1 .. Len(file) : file[i] \in Line /\ file[i].hash \in Nat
  <2>1. file \in Seq(Line) /\ minted \in Nat
    BY DEF TypeOK
  <2>2. \A i \in 1 .. Len(file) : file[i] \in Line
    BY <2>1, ElementOfSeq
  <2> QED
    BY <2>1, <2>2, LenProperties DEF Line
<1>1. CASE hands' = hands
  <2>1. /\ Keeps(file, file')
        /\ minted' = minted \/ minted' = minted + 1
        /\ Len(file') = Len(file) + 1 =>
             minted' = minted + 1 /\ file'[Len(file) + 1].hash = minted + 1
    BY <1>1, StepKeeps
  <2>2. \A i \in 1 .. Len(file) : file'[i].hash = file[i].hash
    BY <2>1 DEF Keeps
  <2>3. Len(file') = Len(file) \/ Len(file') = Len(file) + 1
    BY <2>1 DEF Keeps
  <2>4. \A i \in 1 .. Len(file) : file[i].hash <= minted
    BY DEF HashesGrow
  <2>5. \A i, j \in 1 .. Len(file) : i < j => file[i].hash < file[j].hash
    BY DEF HashesGrow
  <2>6. CASE Len(file') = Len(file)
    <3>1. \A i \in 1 .. Len(file') : file'[i].hash <= minted'
      BY <1>0, <2>1, <2>2, <2>4, <2>6
    <3> QED
      BY <2>2, <2>5, <2>6, <3>1 DEF HashesGrow
  <2>7. CASE Len(file') = Len(file) + 1
    <3>1. minted' = minted + 1 /\ file'[Len(file) + 1].hash = minted + 1
      BY <2>1, <2>7
    <3>2. \A i \in 1 .. Len(file') :
             file'[i].hash = IF i = Len(file) + 1 THEN minted + 1 ELSE file[i].hash
      BY <1>0, <2>2, <2>7, <3>1
    <3>3. \A i \in 1 .. Len(file') : file'[i].hash <= minted'
      BY <1>0, <2>4, <2>7, <3>1, <3>2
    <3>4. ASSUME NEW i \in 1 .. Len(file'), NEW j \in 1 .. Len(file'), i < j
          PROVE  file'[i].hash < file'[j].hash
      <4>1. i \in 1 .. Len(file) /\ file'[i].hash = file[i].hash
        BY <1>0, <2>7, <3>2, <3>4
      <4>2. CASE j = Len(file) + 1
        BY <1>0, <2>4, <3>2, <4>1, <4>2
      <4>3. CASE j \in 1 .. Len(file)
        BY <1>0, <2>5, <3>2, <3>4, <4>1, <4>3
      <4> QED
        BY <1>0, <2>7, <4>2, <4>3
    <3> QED
      BY <3>3, <3>4 DEF HashesGrow
  <2> QED
    BY <2>3, <2>6, <2>7
<1>2. CASE HandEdits
  <2>1. PICK k \in 1 .. Len(file) : file' = [file EXCEPT ![k].text = "bad"]
    BY <1>2 DEF HandEdits
  <2>a. file[k] \in Line
    BY <1>0
  <2>2. file[k] \in Line /\ [file[k] EXCEPT !.text = "bad"] \in Line
    BY <2>a DEF Line, Text
  <2>3. /\ Len(file') = Len(file)
        /\ \A i \in 1 .. Len(file) :
             file'[i] = IF i = k THEN [file[k] EXCEPT !.text = "bad"] ELSE file[i]
    BY <1>0, <2>1, <2>2, ExceptSeq
  <2>4. \A i \in 1 .. Len(file) : file'[i].hash = file[i].hash
    BY <2>2, <2>3 DEF Line
  <2>5. minted' = minted
    BY <1>2 DEF HandEdits
  <2> QED
    BY <2>3, <2>4, <2>5 DEF HashesGrow
<1>3. CASE HandTruncates
  <2>1. PICK n \in 0 .. Len(file) : file' = SubSeq(file, 1, n)
    BY <1>3 DEF HandTruncates
  <2>2. \A i \in 1 .. n : file[i] \in Line
    BY <1>0, ElementOfSeq
  <2>3. Len(file') = n /\ \A i \in 1 .. n : file'[i] = file[i]
    BY <1>0, <2>1, <2>2, SubSeqProperties
  <2>4. minted' = minted
    BY <1>3 DEF HandTruncates
  <2> QED
    BY <1>0, <2>1, <2>3, <2>4 DEF HashesGrow
<1>4. CASE HandRemoves
  BY <1>4 DEF HandRemoves, HashesGrow
<1>5. CASE AppendOk \/ AppendFails \/ Crash \/ Start \/ HealthCheck \/ UNCHANGED vars
  <2>1. hands' = hands
    BY <1>5, Zenon DEF AppendOk, AppendFails, Crash, Start, HealthCheck, counters, vars
  <2> QED
    BY <1>1, <2>1
<1> QED
  BY <1>2, <1>3, <1>4, <1>5 DEF Next

\* A write that is not swallowed by a fragment puts the hash in the file.
LEMMA AckedInductive ==
    TypeOK /\ NoFragment /\ AckedWritten /\ [Next]_vars
      => NoFragment' /\ AckedWritten'
<1> SUFFICES ASSUME TypeOK, NoFragment, AckedWritten, [Next]_vars,
                    Undamaged'
             PROVE  /\ ~Unsealed(file')
                    /\ \A n \in 1 .. Len(acked') :
                          \E i \in 1 .. Len(file') : file'[i].hash = acked'[n]
  BY DEF NoFragment, AckedWritten
<1>0. "hand" \notin causes' /\ "partial write" \notin causes'
  BY DEF Undamaged
<1>1. ~(HandEdits \/ HandTruncates \/ HandRemoves)
  <2> SUFFICES ASSUME Touch PROVE FALSE
    BY DEF HandEdits, HandTruncates, HandRemoves
  <2>1. "hand" \in causes'
    BY DEF Touch
  <2> QED
    BY <1>0, <2>1
<1>2. hands' = hands /\ Undamaged
  <2>1. CASE AppendOk
    BY <2>1 DEF AppendOk, counters, Undamaged
  <2>2. CASE AppendFails
    BY <2>2, Zenon DEF AppendFails, Undamaged
  <2>3. CASE Crash
    BY <2>3, Zenon DEF Crash, Undamaged
  <2>4. CASE Start
    BY <2>4 DEF Start, counters, Undamaged
  <2>5. CASE HealthCheck
    BY <2>5 DEF HealthCheck, counters, Undamaged
  <2>6. CASE UNCHANGED vars
    BY <2>6 DEF vars, Undamaged
  <2> QED
    BY <1>1, <2>1, <2>2, <2>3, <2>4, <2>5, <2>6 DEF Next
<1>3. \A n \in 1 .. Len(acked) : \E i \in 1 .. Len(file) : file[i].hash = acked[n]
  BY <1>2 DEF AckedWritten
<1>4. Keeps(file, file') /\ Len(file) \in Nat /\ Len(file') \in Nat
  BY <1>2, StepKeeps, LenProperties DEF TypeOK, Keeps
<1>b. Len(file) \in Nat /\ Len(file') \in Nat
  BY <1>4
<1>5. \A n \in 1 .. Len(acked) : \E i \in 1 .. Len(file') : file'[i].hash = acked[n]
  <2> SUFFICES ASSUME NEW n \in 1 .. Len(acked)
               PROVE  \E i \in 1 .. Len(file') : file'[i].hash = acked[n]
    OBVIOUS
  <2>1. PICK i \in 1 .. Len(file) : file[i].hash = acked[n]
    BY <1>3
  <2>2. file'[i].hash = file[i].hash
    BY <1>4 DEF Keeps
  <2>3. Len(file') = Len(file) \/ Len(file') = Len(file) + 1
    BY <1>4 DEF Keeps
  <2>4. i \in 1 .. Len(file')
    BY <1>b, <2>3
  <2> QED
    BY <2>1, <2>2, <2>4
<1>a. ASSUME NEW l \in Line, l.text = "ok", file' = Written(file, l)
      PROVE  file' = Append(file, l) /\ ~Unsealed(file')
  <2>1. ~Unsealed(file)
    BY <1>2 DEF NoFragment
  <2>2. file' = Append(file, l)
    BY <1>a, <2>1 DEF Written
  <2>3. Len(file') = Len(file) + 1 /\ file'[Len(file) + 1] = l
    BY <2>2, AppendProperties DEF TypeOK
  <2> QED
    BY <1>a, <2>2, <2>3 DEF Unsealed
<1>6. CASE AppendOk
  <2>a. NewLine.hash = minted + 1 /\ NewLine.text = "ok"
    BY DEF NewLine
  <2>b. minted \in Nat /\ acked \in Seq(Nat)
    BY DEF TypeOK
  <2>2. /\ file' = Append(file, NewLine) /\ ~Unsealed(file')
        /\ acked' = Append(acked, minted + 1)
    BY <1>6, <1>a, <2>a, NewLineType DEF AppendOk
  <2>3. NewLine \in Line /\ NewLine.hash = minted + 1 /\ minted + 1 \in Nat
    BY <2>a, <2>b, NewLineType
  <2>4. Len(file') = Len(file) + 1 /\ file'[Len(file) + 1] = NewLine
    BY <2>2, <2>3, AppendProperties DEF TypeOK
  <2>5. /\ Len(acked') = Len(acked) + 1 /\ acked'[Len(acked) + 1] = minted + 1
        /\ \A n \in 1 .. Len(acked) : acked'[n] = acked[n]
        /\ Len(acked) \in Nat
    <3>1. minted + 1 \in Nat /\ Len(acked) \in Nat
      BY <2>b, LenProperties
    <3> DEFINE e == minted + 1
    <3> HIDE DEF e
    <3>2. e \in Nat /\ acked' = Append(acked, e)
      BY <2>2, <3>1 DEF e
    <3>3. /\ Len(acked') = Len(acked) + 1 /\ acked'[Len(acked) + 1] = e
          /\ \A n \in 1 .. Len(acked) : acked'[n] = acked[n]
      BY <2>b, <3>2, AppendProperties
    <3> QED
      BY <3>1, <3>3 DEF e
  <2>6. ASSUME NEW n \in 1 .. Len(acked')
        PROVE  \E i \in 1 .. Len(file') : file'[i].hash = acked'[n]
    <3>1. CASE n \in 1 .. Len(acked)
      BY <1>5, <2>5, <3>1
    <3>2. CASE n = Len(acked) + 1
      <4>1. Len(file) + 1 \in 1 .. Len(file')
        BY <1>b, <2>4
      <4> QED
        BY <2>3, <2>4, <2>5, <3>2, <4>1
    <3> QED
      BY <2>5, <3>1, <3>2
  <2> QED
    BY <2>2, <2>6
<1>7. CASE AppendFails \/ Crash \/ Start \/ HealthCheck \/ UNCHANGED vars
  <2>1. acked' = acked
    BY <1>7, Zenon DEF AppendFails, Crash, Start, HealthCheck, vars
  <2>2. file' = file \/ file' = Written(file, NewLine)
    <3>1. CASE AppendFails
      BY <1>0, <3>1, Zenon DEF AppendFails
    <3>2. CASE Crash
      BY <1>0, <3>2, Zenon DEF Crash, disk
    <3>3. CASE Start \/ HealthCheck \/ UNCHANGED vars
      BY <3>3 DEF Start, HealthCheck, disk, vars
    <3> QED
      BY <1>7, <3>1, <3>2, <3>3
  <2>3. NewLine \in Line /\ NewLine.text = "ok"
    BY NewLineType DEF NewLine
  <2>4. ~Unsealed(file')
    BY <1>2, <1>a, <2>2, <2>3 DEF NoFragment
  <2> QED
    BY <1>5, <2>1, <2>4
<1> QED
  BY <1>1, <1>6, <1>7 DEF Next

LEMMA NoFragmentInvariant == Spec => [](NoFragment /\ AckedWritten)
<1>1. Init => NoFragment /\ AckedWritten
  <2> SUFFICES ASSUME Init PROVE NoFragment /\ AckedWritten
    OBVIOUS
  <2>1. file = <<>> /\ acked = <<>>
    BY DEF Init
  <2> QED
    BY <2>1 DEF NoFragment, Unsealed, AckedWritten
<1> QED
  BY <1>1, TypeCorrect, AckedInductive, PTL DEF Spec

LEMMA ChainInvariant == Spec => []ChainInv
<1>1. Init => ChainInv
  <2> SUFFICES ASSUME Init PROVE AllLinked(file) /\ InStep
    BY DEF ChainInv
  <2>1. file = <<>> /\ ~up
    BY DEF Init
  <2> QED
    BY <2>1 DEF AllLinked, InStep
<1> QED
  BY <1>1, TypeCorrect, NoFragmentInvariant, ChainInvInductive, PTL DEF Spec

\* verify_chain() reports a break only with a reason for it.
THEOREM BreaksExplained == Spec => []BreaksAreExplained
<1>1. ChainInv => BreaksAreExplained
  BY DEF ChainInv, AllLinked, BreaksAreExplained, Verifies
<1> QED
  BY <1>1, ChainInvariant, PTL

\* What append() returned is verifiable later, in the order it was returned.
THEOREM AcknowledgedKept == Spec => []AcknowledgedVerifiable
<1>1. Init => HashesGrow
  <2> SUFFICES ASSUME Init PROVE HashesGrow
    OBVIOUS
  <2>1. file = <<>>
    BY DEF Init
  <2> QED
    BY <2>1 DEF HashesGrow
<1>2. TypeOK /\ ChainInv /\ HashesGrow /\ AckedWritten => AcknowledgedVerifiable
  <2> SUFFICES ASSUME TypeOK, ChainInv, HashesGrow, AckedWritten, causes = {}
               PROVE  \A n \in 1 .. Len(acked) :
                        \E i \in 1 .. LinkedLen(file) : file[i].hash = acked[n]
    BY DEF AcknowledgedVerifiable, HashesGrow
  <2>1. file \in Seq(Line) /\ Len(file) \in Nat
    BY LenProperties DEF TypeOK
  <2>2. Len(file) <= LinkedLen(file)
    <3>1. \A i \in 1 .. Len(file) : Linked(file, i)
      BY DEF ChainInv, AllLinked
    <3> QED
      BY <2>1, <3>1, LinkedLenReaches
  <2>3. LinkedLen(file) = Len(file)
    BY <2>1, <2>2, LinkedLenIs
  <2> QED
    BY <2>3 DEF AckedWritten, Undamaged
<1> QED
  BY <1>1, <1>2, TypeCorrect, ChainInvariant, NoFragmentInvariant, HashesInductive,
     PTL DEF Spec

-----------------------------------------------------------------------------
(* The append-only log *)

\* A prefix of the linked lines: what a hand leaves of the log.
LEMMA PrefixIsHand ==
    ASSUME TypeOK, file' \in Seq(Line), hands' = hands + 1,
           LinkedLen(file') <= LinkedLen(file),
           \A i \in 1 .. LinkedLen(file') : file'[i].hash = file[i].hash
    PROVE  Log!Hand
<1> DEFINE n == LinkedLen(file')
<1>1. n \in 0 .. LinkedLen(file) /\ LinkedLen(file) \in Nat
  BY LinkedLenIs, LenProperties DEF TypeOK
<1>2. Len(LinkedHashes) = LinkedLen(file)
  BY <1>1 DEF LinkedHashes
<1>3. LinkedHashes' = SubSeq(LinkedHashes, 1, n)
  BY <1>1 DEF LinkedHashes
<1>4. InDoubt' \in BOOLEAN
  BY DEF InDoubt
<1> QED
  BY <1>1, <1>2, <1>3, <1>4 DEF Log!Hand

\* A hand on the file leaves a prefix of the linked lines.
LEMMA HandRefines ==
    ASSUME TypeOK, TypeOK', HandEdits \/ HandTruncates \/ HandRemoves
    PROVE  Log!Hand
<1>1. hands' = hands + 1
  BY DEF HandEdits, HandTruncates, HandRemoves, Touch
<1>2. /\ file \in Seq(Line) /\ file' \in Seq(Line)
      /\ Len(file) \in Nat /\ Len(file') \in Nat
  BY LenProperties DEF TypeOK
<1>3. CASE HandEdits
  <2>1. PICK k \in 1 .. Len(file) : file' = [file EXCEPT ![k].text = "bad"]
    BY <1>3 DEF HandEdits
  <2>2. file[k] \in Line
    BY <1>2, ElementOfSeq
  <2>3. [file[k] EXCEPT !.text = "bad"] \in Line
    BY <2>2 DEF Line, Text
  <2>4. /\ Len(file') = Len(file)
        /\ \A i \in 1 .. Len(file) :
             file'[i] = IF i = k THEN [file[k] EXCEPT !.text = "bad"] ELSE file[i]
    BY <1>2, <2>1, <2>3, ExceptSeq
  <2>5. \A i \in 1 .. Len(file) : file'[i].hash = file[i].hash
    BY <2>2, <2>4 DEF Line
  <2>6. ASSUME NEW i \in 1 .. Len(file), ~Linked(file, i) PROVE ~Linked(file', i)
    <3>1. Before(file', i) = Before(file, i)
      BY <1>2, <2>5 DEF Before
    <3>2. CASE i = k
      <4>1. file'[i].text = "bad"
        BY <2>2, <2>4, <3>2 DEF Line
      <4> QED
        BY <4>1 DEF Linked
    <3>3. CASE i # k
      BY <2>4, <2>6, <3>1, <3>3 DEF Linked
    <3> QED
      BY <3>2, <3>3
  <2>7. LinkedLen(file') <= LinkedLen(file)
    <3>1. CASE LinkedLen(file) = Len(file)
      BY <1>2, <2>4, <3>1, LinkedLenIs
    <3>2. CASE LinkedLen(file) < Len(file)
      <4> DEFINE m == LinkedLen(file) + 1
      <4>1. m \in 1 .. Len(file) /\ ~Linked(file, m) /\ LinkedLen(file) \in Nat
        BY <1>2, <3>2, LinkedLenIs
      <4>2. LinkedLen(file') < m
        BY <1>2, <2>4, <2>6, <4>1, LinkedLenBound
      <4> QED
        BY <1>2, <4>1, <4>2, LinkedLenIs
    <3> QED
      BY <1>2, <3>1, <3>2, LinkedLenIs
  <2>8. \A i \in 1 .. LinkedLen(file') : file'[i].hash = file[i].hash
    BY <1>2, <2>4, <2>5, LinkedLenIs
  <2> QED
    BY <1>1, <1>2, <2>7, <2>8, PrefixIsHand
<1>4. CASE HandTruncates
  <2>1. PICK n \in 0 .. Len(file) : file' = SubSeq(file, 1, n)
    BY <1>4 DEF HandTruncates
  <2>2. \A i \in 1 .. n : file[i] \in Line
    BY <1>2, ElementOfSeq
  <2>3. Len(file') = n /\ \A i \in 1 .. n : file'[i] = file[i]
    BY <1>2, <2>1, <2>2, SubSeqProperties
  <2>4. \A i \in 1 .. n : Linked(file', i) <=> Linked(file, i)
    BY <1>2, <2>3 DEF Linked, Before
  <2>5. LinkedLen(file') \in 0 .. n /\ n \in 0 .. Len(file)
    BY <1>2, <2>3, LinkedLenIs
  <2>6. \A i \in 1 .. LinkedLen(file') : Linked(file, i)
    BY <1>2, <2>4, <2>5, LinkedLenIs
  <2>7. LinkedLen(file') <= LinkedLen(file)
    BY <1>2, <2>5, <2>6, LinkedLenReaches
  <2>8. \A i \in 1 .. LinkedLen(file') : file'[i].hash = file[i].hash
    BY <1>2, <2>3, <2>5
  <2> QED
    BY <1>1, <1>2, <2>7, <2>8, PrefixIsHand
<1>5. CASE HandRemoves
  <2>1. Len(file') = 0
    BY <1>5, EmptySeq DEF HandRemoves
  <2>2. LinkedLen(file') = 0
    BY <1>2, <2>1, EmptyLinks
  <2>3. LinkedLen(file) \in 0 .. Len(file)
    BY <1>2, LinkedLenIs
  <2>4. LinkedLen(file') <= LinkedLen(file)
    BY <1>2, <2>2, <2>3
  <2>5. \A i \in 1 .. LinkedLen(file') : file'[i].hash = file[i].hash
    BY <2>2
  <2> QED
    BY <1>1, <1>2, <2>4, <2>5, PrefixIsHand
<1> QED
  BY <1>3, <1>4, <1>5

\* The linked prefix after a write on an unterminated tail: the tail is out.
LEMMA TailLost ==
    ASSUME NEW f \in Seq(Line), NEW g \in Seq(Line), Keeps(f, g),
           NEW k \in 1 .. Len(f), k = Len(f), g[k] # f[k]
    PROVE  /\ Len(g) = Len(f) /\ Unsealed(f)
           /\ LinkedLen(g) = IF LinkedLen(f) = k THEN k - 1 ELSE LinkedLen(f)
<1>1. Len(g) = k /\ Unsealed(f) /\ k \in Nat /\ k \in 1 .. Len(g) /\ ~Linked(g, k)
  <2>1. Len(g) = k /\ Unsealed(f)
    BY DEF Keeps
  <2> QED
    BY <2>1, LinkedKept, LenProperties
<1>2. \A i \in 1 .. k - 1 : Linked(g, i) <=> Linked(f, i)
  <2> SUFFICES ASSUME NEW i \in 1 .. k - 1 PROVE Linked(g, i) <=> Linked(f, i)
    OBVIOUS
  <2>1. i \in 1 .. Len(f) /\ i # Len(f)
    BY <1>1
  <2>2. g[i] = f[i]
    BY <2>1 DEF Keeps
  <2> QED
    BY <2>1, <2>2, LinkedKept
<1> DEFINE m == LinkedLen(f)
           n == LinkedLen(g)
<1>3. m \in 0 .. k /\ n \in 0 .. k /\ n < k
  BY <1>1, LinkedLenIs, LinkedLenBound
<1>4. \A i \in 1 .. m : Linked(f, i)
  BY LinkedLenIs
<1>5. CASE m = k
  <2>1. k - 1 \in 0 .. Len(g) /\ \A i \in 1 .. k - 1 : Linked(g, i)
    BY <1>1, <1>2, <1>4, <1>5
  <2>2. k - 1 <= n
    BY <2>1, LinkedLenReaches
  <2> QED
    BY <1>1, <1>3, <1>5, <2>2
<1>6. CASE m # k
  <2>1. m \in 0 .. Len(g) /\ \A i \in 1 .. m : Linked(g, i)
    BY <1>1, <1>2, <1>3, <1>4, <1>6
  <2>2. m <= n
    BY <2>1, LinkedLenReaches
  <2>3. ~Linked(f, m + 1) /\ m + 1 \in 1 .. k
    BY <1>1, <1>3, <1>6, LinkedLenIs
  <2>4. ~Linked(g, m + 1)
    BY <1>1, <1>2, <2>3
  <2>5. n < m + 1
    BY <1>1, <2>3, <2>4, LinkedLenBound
  <2> QED
    BY <1>1, <1>3, <1>6, <2>2, <2>5
<1> QED
  BY <1>1, <1>5, <1>6

\* The linked prefix after a line went to the end of a terminated file.
LEMMA LineAdded ==
    ASSUME NEW f \in Seq(Line), NEW g \in Seq(Line), Keeps(f, g),
           Len(g) = Len(f) + 1
    PROVE  /\ ~Unsealed(f)
           /\ \/ LinkedLen(g) = LinkedLen(f)
              \/ LinkedLen(g) = LinkedLen(f) + 1 /\ LinkedLen(f) = Len(f)
<1>0. Len(f) \in Nat /\ Len(g) \in Nat
  BY LenProperties
<1>1. ~Unsealed(f) /\ \A i \in 1 .. Len(f) : g[i] = f[i]
  BY <1>0 DEF Keeps
<1>2. \A i \in 1 .. Len(f) : Linked(g, i) <=> Linked(f, i)
  BY <1>1, LinkedKept
<1> DEFINE m == LinkedLen(f)
           n == LinkedLen(g)
<1>3. m \in 0 .. Len(f) /\ n \in 0 .. Len(g)
  BY LinkedLenIs
<1>4. m <= n
  <2>1. m \in 0 .. Len(g)
    BY <1>0, <1>3
  <2>2. \A i \in 1 .. m : Linked(g, i)
    BY <1>0, <1>2, <1>3, LinkedLenIs
  <2> QED
    BY <2>1, <2>2, LinkedLenReaches
<1>5. CASE m < Len(f)
  <2>1. m + 1 \in 1 .. Len(f) /\ ~Linked(f, m + 1)
    BY <1>0, <1>3, <1>5, LinkedLenIs
  <2>2. m + 1 \in 1 .. Len(g) /\ ~Linked(g, m + 1)
    BY <1>0, <1>2, <2>1
  <2>3. n < m + 1
    BY <2>2, LinkedLenBound
  <2> QED
    BY <1>0, <1>1, <1>3, <1>4, <2>3
<1>6. CASE m = Len(f)
  BY <1>0, <1>1, <1>3, <1>4, <1>6
<1> QED
  BY <1>0, <1>3, <1>5, <1>6

\* A step of the program leaves the log, extends it by one entry or withdraws
\* the one in doubt.
LEMMA ProgramRefines ==
    ASSUME TypeOK, TypeOK', [Next]_vars, hands' = hands
    PROVE  \/ LinkedHashes' = LinkedHashes /\ InDoubt' = InDoubt
           \/ Log!Extend
           \/ Log!Withdraw
<1>1. /\ file \in Seq(Line) /\ file' \in Seq(Line)
      /\ Len(file) \in Nat /\ Len(file') \in Nat
  BY LenProperties DEF TypeOK
<1>2. Keeps(file, file')
  BY StepKeeps
<1>3. \A i \in 1 .. Len(file) : file'[i].hash = file[i].hash
  BY <1>2 DEF Keeps
<1> DEFINE m == LinkedLen(file)
           n == LinkedLen(file')
<1>4. m \in 0 .. Len(file) /\ n \in 0 .. Len(file')
  BY <1>1, LinkedLenIs
<1>5. ASSUME n = m PROVE LinkedHashes' = LinkedHashes
  BY <1>1, <1>3, <1>4, <1>5 DEF LinkedHashes
<1>6. CASE Len(file') = Len(file) + 1
  <2>1. ~Unsealed(file) /\ (n = m \/ (n = m + 1 /\ m = Len(file)))
    BY <1>1, <1>2, <1>6, LineAdded
  <2>2. ~InDoubt
    BY <2>1 DEF InDoubt
  <2>3. CASE n = m
    <3>1. n # Len(file')
      BY <1>1, <1>4, <1>6, <2>3
    <3>2. ~InDoubt'
      BY <3>1 DEF InDoubt
    <3>3. InDoubt \in BOOLEAN /\ InDoubt' \in BOOLEAN
      BY DEF InDoubt
    <3> QED
      BY <1>5, <2>2, <2>3, <3>2, <3>3
  <2>4. CASE n = m + 1
    <3>1. /\ Len(LinkedHashes) = m /\ Len(LinkedHashes') = m + 1 /\ m \in Nat
      BY <1>1, <1>4, <2>4 DEF LinkedHashes
    <3>2. SubSeq(LinkedHashes', 1, m) = LinkedHashes
      BY <1>3, <1>4, <2>4, <3>1 DEF LinkedHashes
    <3>3. InDoubt' \in BOOLEAN
      BY DEF InDoubt
    <3> QED
      BY <2>2, <3>1, <3>2, <3>3 DEF Log!Extend
  <2> QED
    BY <2>1, <2>3, <2>4
<1>7. CASE Len(file') = Len(file)
  <2>1. CASE \A i \in 1 .. Len(file) : file'[i] = file[i]
    <3>1. file' = file
      BY <1>1, <1>7, <2>1, SeqEqual
    <3>2. LinkedHashes' = LinkedHashes /\ InDoubt' = InDoubt
      BY <3>1 DEF LinkedHashes, InDoubt
    <3> QED
      BY <3>2
  <2>2. CASE \E i \in 1 .. Len(file) : file'[i] # file[i]
    <3>1. PICK k \in 1 .. Len(file) : file'[k] # file[k]
      BY <2>2
    <3>2. k = Len(file)
      BY <1>2, <3>1 DEF Keeps
    <3>3. /\ Unsealed(file)
          /\ n = IF m = k THEN k - 1 ELSE m
      BY <1>1, <1>2, <3>1, <3>2, TailLost
    <3>4. n < k /\ k = Len(file') /\ k \in Nat
      BY <1>1, <1>4, <1>7, <3>1, <3>2, <3>3
    <3>5. InDoubt' = FALSE
      <4>1. n # Len(file')
        BY <1>4, <3>4
      <4> QED
        BY <4>1 DEF InDoubt
    <3>6. CASE m = k
      <4>1. n = m - 1 /\ InDoubt
        BY <3>2, <3>3, <3>6 DEF InDoubt
      <4>2. Len(LinkedHashes) = m /\ m \in Nat \ {0}
        BY <1>4, <3>1, <3>6 DEF LinkedHashes
      <4>3. LinkedHashes' = SubSeq(LinkedHashes, 1, m - 1)
        BY <1>3, <1>4, <3>2, <3>6, <4>1, <4>2 DEF LinkedHashes
      <4> QED
        BY <3>5, <4>1, <4>2, <4>3 DEF Log!Withdraw
    <3>7. CASE m # k
      <4>1. n = m /\ InDoubt = FALSE
        BY <3>2, <3>3, <3>7 DEF InDoubt
      <4> QED
        BY <1>5, <3>5, <4>1
    <3> QED
      BY <3>6, <3>7
  <2> QED
    BY <2>1, <2>2
<1> QED
  BY <1>2, <1>6, <1>7 DEF Keeps

\* The audit log implements the append-only log.
THEOREM ImplementsAppendOnly == Spec => AppendOnly
<1>1. Init => Log!Init
  <2> SUFFICES ASSUME Init PROVE Log!Init
    OBVIOUS
  <2>1. file = <<>> /\ file \in Seq(Line) /\ Len(file) = 0 /\ hands = 0
    BY EmptySeq DEF Init
  <2>2. LinkedLen(file) = 0
    BY <2>1, EmptyLinks
  <2>3. InDoubt = FALSE
    BY <2>1 DEF InDoubt, Unsealed
  <2> QED
    BY <2>1, <2>2, <2>3 DEF Log!Init, LinkedHashes
<1>2. TypeOK /\ TypeOK' /\ [Next]_vars => [Log!Next]_<<LinkedHashes, InDoubt, hands>>
  <2> SUFFICES ASSUME TypeOK, TypeOK', [Next]_vars
               PROVE  [Log!Next]_<<LinkedHashes, InDoubt, hands>>
    OBVIOUS
  <2>1. CASE HandEdits \/ HandTruncates \/ HandRemoves
    BY <2>1, HandRefines DEF Log!Next
  <2>2. CASE ~(HandEdits \/ HandTruncates \/ HandRemoves)
    <3>1. hands' = hands
      BY <2>2, Zenon DEF Next, AppendOk, AppendFails, Crash, Start, HealthCheck,
                         counters, vars
    <3> QED
      BY <3>1, ProgramRefines DEF Log!Next
  <2> QED
    BY <2>1, <2>2
<1> QED
  BY <1>1, <1>2, TypeCorrect, PTL DEF Spec, AppendOnly, Log!Spec
=============================================================================
