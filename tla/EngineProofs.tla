---------------------------- MODULE EngineProofs ----------------------------
(***************************************************************************)
(* Proofs about the enforcement engine and the runtimes that call it, for  *)
(* any number of threads, nodes, tools and agents.  A state holds what a   *)
(* call has still to execute, so the invariant says what such a program    *)
(* may look like (Program, Remainder, Gated), that every statement keeps   *)
(* it so, and that every operation of every runtime is such a program.     *)
(***************************************************************************)
EXTENDS MCRuntimes, Sums, SequenceTheorems, WellFoundedInduction, FiniteSetTheorems, TLAPS

-----------------------------------------------------------------------------
(* Programs: what a call may consist of *)

\* Statements without a branch, branches with such bodies, and handlers with
\* bodies that may branch.
Plain ==
    [op : {"link", "write", "find", "readScore", "frequency", "snapshot", "verdict"}]
        \union [op : {"hash"}, kind : {"note", "finding", "content"}]
        \union [op : {"raise"}, kind : {"violation", "tripped", "classH", "other"}]
        \union [op : {"storeScore"}, points : Nat]
        \union [op : {"read", "run", "admit"}, of : Counters]
        \union [op : {"store"}, of : Counters, by : Int, floor : BOOLEAN]
        \union [op : {"assign"}, of : Counters, value : Nat]

Raisable == {"violation", "tripped", "classH", "os", "other"}

Content(x) == x.op = "hash" /\ x.kind = "content"
Before(s, i, n, op) == i > n => s[i - n].op = op

\* Hash, link and write stay together, and so do a violation, its penalty and
\* its event, in what follows a statement and in what precedes it, unless the
\* call is in the middle of one.
Ahead(s, i) ==
    /\ s[i].op = "hash" => i + 1 <= Len(s) /\ s[i + 1].op = "link"
    /\ s[i].op = "link" => i + 1 <= Len(s) /\ s[i + 1].op = "write"
    /\ s[i].op = "readScore" => i + 1 <= Len(s) /\ s[i + 1].op = "storeScore"
    /\ s[i].op = "find" => /\ i + 3 <= Len(s)
                           /\ s[i + 1].op = "readScore" /\ s[i + 2].op = "storeScore"
                           /\ Content(s[i + 3])

Behind(s, i) ==
    /\ s[i].op = "link" => Before(s, i, 1, "hash")
    /\ s[i].op = "write" => Before(s, i, 1, "link")
    /\ s[i].op = "storeScore" => Before(s, i, 1, "readScore")
    /\ Content(s[i]) => /\ Before(s, i, 1, "storeScore") /\ Before(s, i, 2, "readScore")
                        /\ Before(s, i, 3, "find")

Joined(s) == \A i \in 1 .. Len(s) : Ahead(s, i) /\ Behind(s, i)

\* It begins with neither.
Fresh(s) ==
    \A i \in 1 .. Len(s) : /\ s[i].op \in {"link", "write", "storeScore"} => i > 1
                           /\ Content(s[i]) => i > 3

Whole(s) == Joined(s) /\ Fresh(s)

Flat == {s \in Seq(Plain) : Whole(s)}
Branch == [op : {"compare"}, of : Counters, limit : Int, over : Flat, within : Flat]
Branching == {s \in Seq(Plain \union Branch) : Whole(s)}
Handler == [op : {"except"}, kinds : SUBSET Raisable, body : Branching]
Stmt == Plain \union Branch \union Handler
Program == {s \in Seq(Stmt) : Whole(s)}
Remainder == {s \in Seq(Stmt) : Joined(s)}

LEMMA ConcatAt ==
  ASSUME NEW a \in Seq(Stmt), NEW b \in Seq(Stmt)
  PROVE  /\ a \o b \in Seq(Stmt)
         /\ Len(a) \in Nat /\ Len(b) \in Nat /\ Len(a \o b) = Len(a) + Len(b)
         /\ \A i \in 1 .. Len(a) : (a \o b)[i] = a[i]
         /\ \A i \in 1 .. Len(b) : (a \o b)[Len(a) + i] = b[i]
  <1>1. Len(a) \in Nat /\ Len(b) \in Nat
    BY LenProperties
  <1>2. /\ a \o b \in Seq(Stmt) /\ Len(a \o b) = Len(a) + Len(b)
        /\ \A i \in 1 .. Len(a) + Len(b) : (a \o b)[i] = IF i <= Len(a) THEN a[i] ELSE b[i - Len(a)]
    BY ConcatProperties
  <1> QED
    BY <1>1, <1>2

LEMMA JoinedConcat ==
  ASSUME NEW a \in Remainder, NEW b \in Program
  PROVE  a \o b \in Remainder
  <1> DEFINE c == a \o b
             m == Len(a)
             n == Len(b)
  <1>1. a \in Seq(Stmt) /\ b \in Seq(Stmt) /\ Joined(a) /\ Joined(b) /\ Fresh(b)
    BY DEF Remainder, Program, Whole
  <1>2. /\ c \in Seq(Stmt) /\ m \in Nat /\ n \in Nat /\ Len(c) = m + n
        /\ \A i \in 1 .. m : c[i] = a[i]
        /\ \A i \in 1 .. n : c[m + i] = b[i]
    BY <1>1, ConcatAt
  <1> HIDE DEF c
  <1>3. ASSUME NEW i \in 1 .. m PROVE Ahead(c, i) /\ Behind(c, i)
    <2>1. Ahead(a, i) /\ Behind(a, i)
      BY <1>1 DEF Joined
    <2>2. /\ c[i] = a[i]
          /\ i + 1 <= m => c[i + 1] = a[i + 1]
          /\ i + 2 <= m => c[i + 2] = a[i + 2]
          /\ i + 3 <= m => c[i + 3] = a[i + 3]
      BY <1>2
    <2>3. /\ i > 1 => c[i - 1] = a[i - 1]
          /\ i > 2 => c[i - 2] = a[i - 2]
          /\ i > 3 => c[i - 3] = a[i - 3]
      <3>1. \A k \in 1 .. 3 : i > k => i - k \in 1 .. m
        BY <1>2
      <3>2. \A k \in 1 .. 3 : i > k => c[i - k] = a[i - k]
        BY <1>2, <3>1
      <3> QED
        BY <3>2
    <2>4. Ahead(c, i)
      BY <1>2, <2>1, <2>2 DEF Ahead
    <2>5. Behind(c, i)
      BY <1>2, <2>1, <2>2, <2>3 DEF Behind, Before
    <2> QED
      BY <2>4, <2>5
  <1>4. ASSUME NEW j \in 1 .. n PROVE Ahead(c, m + j) /\ Behind(c, m + j)
    <2>1. Ahead(b, j) /\ Behind(b, j)
      BY <1>1 DEF Joined
    <2>2. /\ c[m + j] = b[j]
          /\ j + 1 <= n => c[(m + j) + 1] = b[j + 1]
          /\ j + 2 <= n => c[(m + j) + 2] = b[j + 2]
          /\ j + 3 <= n => c[(m + j) + 3] = b[j + 3]
      <3>1. \A k \in 0 .. 3 : j + k <= n => j + k \in 1 .. n /\ m + (j + k) = (m + j) + k
        BY <1>2
      <3>2. \A k \in 0 .. 3 : j + k <= n => c[(m + j) + k] = b[j + k]
        BY <1>2, <3>1
      <3> QED
        BY <3>2, <1>2
    <2>3. /\ j > 1 => c[(m + j) - 1] = b[j - 1]
          /\ j > 2 => c[(m + j) - 2] = b[j - 2]
          /\ j > 3 => c[(m + j) - 3] = b[j - 3]
      <3>1. \A k \in 1 .. 3 : j > k => j - k \in 1 .. n /\ m + (j - k) = (m + j) - k
        BY <1>2
      <3>2. \A k \in 1 .. 3 : j > k => c[(m + j) - k] = b[j - k]
        BY <1>2, <3>1
      <3> QED
        BY <3>2, <1>2
    <2>4. /\ b[j].op \in {"link", "write", "storeScore"} => j > 1
          /\ Content(b[j]) => j > 3
      BY <1>1 DEF Fresh
    <2>5. Ahead(c, m + j)
      BY <1>2, <2>1, <2>2 DEF Ahead
    <2>6. Behind(c, m + j)
      <3>1. b[j].op = "link" => Before(c, m + j, 1, "hash")
        BY <2>1, <2>3, <2>4 DEF Behind, Before
      <3>2. b[j].op = "write" => Before(c, m + j, 1, "link")
        BY <2>1, <2>3, <2>4 DEF Behind, Before
      <3>3. b[j].op = "storeScore" => Before(c, m + j, 1, "readScore")
        BY <2>1, <2>3, <2>4 DEF Behind, Before
      <3>4. Content(b[j]) => /\ Before(c, m + j, 1, "storeScore")
                             /\ Before(c, m + j, 2, "readScore") /\ Before(c, m + j, 3, "find")
        <4>1. Content(b[j]) => j > 1 /\ j > 2 /\ j > 3
          BY <2>4
        <4> QED
          BY <2>1, <2>3, <4>1 DEF Behind, Before
      <3> QED
        BY <2>2, <3>1, <3>2, <3>3, <3>4 DEF Behind
    <2> QED
      BY <2>5, <2>6
  <1>5. ASSUME NEW i \in 1 .. m + n PROVE Ahead(c, i) /\ Behind(c, i)
    <2>1. CASE i <= m
      BY <2>1, <1>2, <1>3
    <2>2. CASE i > m
      <3>1. i - m \in 1 .. n /\ i = m + (i - m)
        BY <2>2, <1>2
      <3> QED
        BY <3>1, <1>4
    <2> QED
      BY <2>1, <2>2, <1>2
  <1>6. Joined(c)
    BY <1>2, <1>5 DEF Joined
  <1> QED
    BY <1>2, <1>6 DEF Remainder, c

LEMMA WholeConcat ==
  ASSUME NEW a \in Program, NEW b \in Program
  PROVE  a \o b \in Program
  <1> DEFINE c == a \o b
             m == Len(a)
             n == Len(b)
  <1>1. c \in Remainder
    BY JoinedConcat DEF Remainder, Program, Whole
  <1>2. a \in Seq(Stmt) /\ b \in Seq(Stmt) /\ Fresh(a) /\ Fresh(b)
    BY DEF Program, Whole
  <1>3. /\ m \in Nat /\ n \in Nat /\ Len(c) = m + n
        /\ \A i \in 1 .. m : c[i] = a[i]
        /\ \A i \in 1 .. n : c[m + i] = b[i]
    BY <1>2, ConcatAt
  <1> HIDE DEF c
  <1>4. ASSUME NEW i \in 1 .. m + n
        PROVE  /\ c[i].op \in {"link", "write", "storeScore"} => i > 1
               /\ Content(c[i]) => i > 3
    <2>1. CASE i \in 1 .. m
      BY <2>1, <1>2, <1>3 DEF Fresh
    <2>2. CASE ~(i \in 1 .. m)
      <3>1. i - m \in 1 .. n /\ i = m + (i - m)
        BY <2>2, <1>3
      <3>2. c[i] = b[i - m]
        BY <3>1, <1>3
      <3> QED
        BY <3>1, <3>2, <1>2, <1>3 DEF Fresh
    <2> QED
      BY <2>1, <2>2
  <1> QED
    BY <1>1, <1>3, <1>4 DEF Program, Remainder, Whole, Fresh, c

\* d is s without its first k statements.
Suffix(d, s, k) ==
    /\ d \in Seq(Stmt) /\ k \in 0 .. Len(s) /\ Len(d) = Len(s) - k
    /\ \A i \in 1 .. Len(s) - k : d[i] = s[k + i]

\* Nothing that belongs together is cut behind statement k.
CutsNothing(s, k) ==
    /\ s[k].op \notin {"hash", "link", "find", "readScore"}
    /\ s[k].op = "storeScore" /\ k + 1 <= Len(s) => ~Content(s[k + 1])

LEMMA SuffixJoined ==
  ASSUME NEW s \in Remainder, NEW k, NEW d, Suffix(d, s, k)
  PROVE  d \in Remainder
  <1> DEFINE m == Len(s)
  <1>1. /\ d \in Seq(Stmt) /\ k \in Nat /\ m \in Nat /\ k <= m /\ Len(d) = m - k
        /\ \A i \in 1 .. m - k : d[i] = s[k + i]
    BY LenProperties DEF Suffix, Remainder
  <1>2. Joined(s)
    BY DEF Remainder
  <1>3. ASSUME NEW i \in 1 .. m - k PROVE Ahead(d, i) /\ Behind(d, i)
    <2>1. k + i \in 1 .. m
      BY <1>1
    <2>2. Ahead(s, k + i) /\ Behind(s, k + i)
      BY <1>2, <2>1 DEF Joined
    <2>3. /\ d[i] = s[k + i]
          /\ i + 1 <= m - k => d[i + 1] = s[(k + i) + 1]
          /\ i + 2 <= m - k => d[i + 2] = s[(k + i) + 2]
          /\ i + 3 <= m - k => d[i + 3] = s[(k + i) + 3]
      <3>1. \A n \in 0 .. 3 : i + n <= m - k => i + n \in 1 .. m - k /\ k + (i + n) = (k + i) + n
        BY <1>1
      <3>2. \A n \in 0 .. 3 : i + n <= m - k => d[i + n] = s[(k + i) + n]
        BY <1>1, <3>1
      <3> QED
        BY <1>1, <3>2
    <2>4. /\ i > 1 => d[i - 1] = s[(k + i) - 1]
          /\ i > 2 => d[i - 2] = s[(k + i) - 2]
          /\ i > 3 => d[i - 3] = s[(k + i) - 3]
      <3>1. \A n \in 1 .. 3 : i > n => i - n \in 1 .. m - k /\ k + (i - n) = (k + i) - n
        BY <1>1
      <3>2. \A n \in 1 .. 3 : i > n => d[i - n] = s[(k + i) - n]
        BY <1>1, <3>1
      <3> QED
        BY <3>2
    <2>5. Ahead(d, i)
      BY <1>1, <2>2, <2>3 DEF Ahead
    <2>6. Behind(d, i)
      <3>1. \A n \in 1 .. 3 : i > n => k + i > n
        BY <1>1
      <3>2. s[k + i].op = "link" => Before(d, i, 1, "hash")
        BY <2>2, <2>4, <3>1 DEF Behind, Before
      <3>3. s[k + i].op = "write" => Before(d, i, 1, "link")
        BY <2>2, <2>4, <3>1 DEF Behind, Before
      <3>4. s[k + i].op = "storeScore" => Before(d, i, 1, "readScore")
        BY <2>2, <2>4, <3>1 DEF Behind, Before
      <3>5. Content(s[k + i]) => /\ Before(d, i, 1, "storeScore")
                                 /\ Before(d, i, 2, "readScore") /\ Before(d, i, 3, "find")
        BY <2>2, <2>4, <3>1 DEF Behind, Before
      <3> QED
        BY <2>3, <3>2, <3>3, <3>4, <3>5 DEF Behind
    <2> QED
      BY <2>5, <2>6
  <1> QED
    BY <1>1, <1>3 DEF Remainder, Joined

LEMMA SuffixWhole ==
  ASSUME NEW s \in Remainder, NEW k \in Nat, k >= 1, NEW d, Suffix(d, s, k), CutsNothing(s, k)
  PROVE  d \in Program
  <1> DEFINE m == Len(s)
  <1>1. /\ d \in Seq(Stmt) /\ m \in Nat /\ k <= m /\ Len(d) = m - k
        /\ \A i \in 1 .. m - k : d[i] = s[k + i]
    BY LenProperties DEF Suffix, Remainder
  <1>2. \A j \in 1 .. m : Behind(s, j)
    BY DEF Remainder, Joined
  <1>3. ASSUME NEW i \in 1 .. m - k, s[k + i].op \in {"link", "write", "storeScore"}, ~(i > 1)
        PROVE  FALSE
    <2>1. i = 1 /\ k + 1 \in 1 .. m /\ k + 1 > 1 /\ (k + 1) - 1 = k
      BY <1>1, <1>3
    <2>2. Behind(s, k + 1) /\ s[k + 1].op \in {"link", "write", "storeScore"}
      BY <1>2, <1>3, <2>1
    <2>3. s[k].op \in {"hash", "link", "readScore"}
      BY <2>1, <2>2 DEF Behind, Before
    <2> QED
      BY <2>3 DEF CutsNothing
  <1>4. ASSUME NEW i \in 1 .. m - k, Content(s[k + i]), ~(i > 3)
        PROVE  FALSE
    <2>1. Behind(s, k + i)
      BY <1>1, <1>2
    <2>2. /\ Before(s, k + i, 1, "storeScore") /\ Before(s, k + i, 2, "readScore")
          /\ Before(s, k + i, 3, "find")
      BY <1>4, <2>1 DEF Behind
    <2>3. CASE i = 1
      <3>1. k + i > 1 /\ (k + i) - 1 = k /\ k + 1 <= m
        <4>1. k \in Nat /\ k >= 1 /\ m \in Nat /\ 1 \in 1 .. m - k
          BY <1>1, <2>3
        <4>2. \A x, y \in Nat : x >= 1 /\ 1 \in 1 .. y - x
                                => x + 1 > 1 /\ (x + 1) - 1 = x /\ x + 1 <= y
          OBVIOUS
        <4> HIDE DEF m
        <4> QED
          BY <2>3, <4>1, <4>2, Zenon
      <3> QED
        BY <1>4, <2>2, <2>3, <3>1 DEF Before, CutsNothing
    <2>4. CASE i = 2
      <3>1. k + i > 2 /\ (k + i) - 2 = k
        BY <1>1, <2>4
      <3> QED
        BY <2>2, <3>1 DEF Before, CutsNothing
    <2>5. CASE i = 3
      <3>1. k + i > 3 /\ (k + i) - 3 = k
        BY <1>1, <2>5
      <3> QED
        BY <2>2, <3>1 DEF Before, CutsNothing
    <2> QED
      BY <1>4, <2>3, <2>4, <2>5
  <1>5. d \in Remainder
    BY SuffixJoined
  <1> QED
    BY <1>1, <1>3, <1>4, <1>5 DEF Program, Remainder, Whole, Fresh

LEMMA TailSuffix ==
  ASSUME NEW s \in Remainder, s # <<>>
  PROVE  /\ Suffix(Tail(s), s, 1) /\ Head(s) = s[1] /\ Len(s) \in Nat /\ Len(s) >= 1
         /\ s \in Seq(Stmt) /\ s[1] \in Stmt
  <1>1. s \in Seq(Stmt)
    BY DEF Remainder
  <1>2. Len(s) \in Nat /\ Len(s) # 0
    BY <1>1, LenProperties, EmptySeq
  <1>3. Tail(s) \in Seq(Stmt) /\ Len(Tail(s)) = Len(s) - 1
    BY <1>1, HeadTailProperties
  <1>4. \A i \in 1 .. Len(s) - 1 : Tail(s)[i] = s[i + 1]
    BY <1>1, <1>2
  <1>5. Head(s) = s[1] /\ s[1] \in Stmt
    BY <1>1, <1>2, ElementOfSeq
  <1> QED
    BY <1>1, <1>2, <1>3, <1>4, <1>5 DEF Suffix

LEMMA SubSeqSuffix ==
  ASSUME NEW s \in Remainder, NEW k \in 0 .. Len(s)
  PROVE  Suffix(SubSeq(s, k + 1, Len(s)), s, k)
  <1>1. s \in Seq(Stmt) /\ Len(s) \in Nat
    BY LenProperties DEF Remainder
  <1>2. k + 1 \in 1 .. Len(s) + 1 /\ Len(s) \in (k + 1) - 1 .. Len(s)
    BY <1>1
  <1>3. \A i \in k + 1 .. Len(s) : s[i] \in Stmt
    BY <1>1, ElementOfSeq
  <1>4. /\ SubSeq(s, k + 1, Len(s)) \in Seq(Stmt) /\ Len(SubSeq(s, k + 1, Len(s))) = Len(s) - k
        /\ \A i \in 1 .. Len(s) - k : SubSeq(s, k + 1, Len(s))[i] = s[k + i]
    BY <1>1, <1>2, <1>3, SubSeqProperties
  <1> QED
    BY <1>1, <1>4 DEF Suffix

\* What a statement with a given name carries.
LEMMA StmtParts ==
  ASSUME NEW x \in Stmt
  PROVE  /\ x.op = "hash" => x.kind \in {"note", "finding", "content"}
         /\ x.op = "raise" => x.kind \in {"violation", "tripped", "classH", "other"}
         /\ x.op = "storeScore" => x.points \in Nat
         /\ x.op \in {"read", "run", "admit", "store", "assign", "compare"} => x.of \in Counters
         /\ x.op = "store" => x.by \in Int /\ x.floor \in BOOLEAN
         /\ x.op = "assign" => x.value \in Nat
         /\ x.op = "compare" => x.limit \in Int /\ x.over \in Flat /\ x.within \in Flat
         /\ x.op = "except" => x.body \in Branching
  <1>1. CASE x \in Plain
    BY <1>1 DEF Plain
  <1>2. CASE x \in Branch
    BY <1>2 DEF Branch
  <1>3. CASE x \in Handler
    BY <1>3 DEF Handler
  <1> QED
    BY <1>1, <1>2, <1>3 DEF Stmt

LEMMA Programs ==
  Flat \subseteq Program /\ Branching \subseteq Program /\ Program \subseteq Remainder
  <1>1. Plain \subseteq Stmt /\ Plain \union Branch \subseteq Stmt
    BY DEF Stmt
  <1>2. ASSUME NEW s \in Flat PROVE s \in Program
    BY <1>1, SeqMonotonic DEF Flat, Program
  <1>3. ASSUME NEW s \in Branching PROVE s \in Program
    BY <1>1, SeqMonotonic DEF Branching, Program
  <1>4. Program \subseteq Remainder
    BY DEF Program, Remainder, Whole
  <1> QED
    BY <1>2, <1>3, <1>4

LEMMA Least ==
  ASSUME NEW T \in SUBSET Nat, T # {}
  PROVE  \E m \in T : \A y \in T : m <= y
  <1>1. PICK m \in T : \A y \in T : ~(<<y, m>> \in OpToRel(<, Nat))
    BY WFMin, NatLessThanWellFounded
  <1>2. \A y \in T : ~(y < m)
    BY <1>1, Zenon DEF OpToRel
  <1>3. \A y \in T : m <= y
    BY <1>2
  <1> QED
    BY <1>3

\* Skipping handlers that begin a program leaves a suffix.
LEMMA PastHandlersIs ==
  ASSUME NEW s \in Remainder
  PROVE  \E n \in 0 .. Len(s) :
            /\ Suffix(PastHandlers(s), s, n)
            /\ \A i \in 1 .. n : s[i].op = "except"
            /\ n = 0 => PastHandlers(s) = s
            /\ n = 0 <=> (s = <<>> \/ s[1].op # "except")
            /\ n = Len(s) \/ s[n + 1].op # "except"
  <1> DEFINE m == Len(s)
             Skips(n) == /\ \A i \in 1 .. n : s[i].op = "except"
                         /\ n = m \/ s[n + 1].op # "except"
             Others == {i \in 1 .. m : s[i].op # "except"}
  <1>1. s \in Seq(Stmt) /\ m \in Nat /\ (s = <<>> <=> m = 0)
    BY LenProperties, EmptySeq DEF Remainder
  <1>2. \E n \in 0 .. m : Skips(n)
    <2>1. CASE Others = {}
      <3>1. m \in 0 .. m /\ \A i \in 1 .. m : s[i].op = "except"
        BY <1>1, <2>1
      <3>2. Skips(m)
        BY <3>1
      <3> QED
        BY <3>1, <3>2
    <2>2. CASE Others # {}
      <3>9. Others \in SUBSET Nat
        OBVIOUS
      <3>1. PICK k \in Others : \A y \in Others : k <= y
        <4> HIDE DEF Others
        <4> QED
          BY <3>9, <2>2, Least
      <3>2. k - 1 \in 0 .. m /\ \A i \in 1 .. k - 1 : i \in 1 .. m /\ ~(k <= i)
        BY <1>1
      <3>3. \A i \in 1 .. k - 1 : s[i].op = "except"
        BY <3>1, <3>2
      <3>4. Skips(k - 1)
        BY <1>1, <3>2, <3>3
      <3> QED
        BY <3>2, <3>4
    <2> QED
      BY <2>1, <2>2
  <1> DEFINE n == CHOOSE n \in 0 .. m : Skips(n)
  <1>3. n \in 0 .. m /\ Skips(n)
    BY <1>2
  <1>4. PastHandlers(s) = SubSeq(s, n + 1, m)
    BY DEF PastHandlers
  <1> HIDE DEF n
  <1>5. Suffix(PastHandlers(s), s, n)
    BY <1>3, <1>4, SubSeqSuffix
  <1>6. n = 0 => PastHandlers(s) = s
    BY <1>1, <1>4, SubSeqFull
  <1>7. n = 0 <=> (s = <<>> \/ s[1].op # "except")
    BY <1>1, <1>3
  <1> QED
    BY <1>3, <1>5, <1>6, <1>7

LEMMA HandlersCut ==
  ASSUME NEW s, NEW k, s[k].op \notin {"hash", "link", "find", "readScore", "storeScore"}
  PROVE  CutsNothing(s, k)
  BY DEF CutsNothing

LEMMA PastHandlersJoined ==
  ASSUME NEW s \in Remainder
  PROVE  /\ PastHandlers(s) \in Remainder
         /\ s \in Program => PastHandlers(s) \in Program
         /\ s = <<>> \/ s[1].op # "except" => PastHandlers(s) = s
         /\ PastHandlers(s) # <<>> => PastHandlers(s)[1].op # "except"
  <1>1. PICK n \in 0 .. Len(s) :
            /\ Suffix(PastHandlers(s), s, n)
            /\ \A i \in 1 .. n : s[i].op = "except"
            /\ n = 0 => PastHandlers(s) = s
            /\ n = 0 <=> (s = <<>> \/ s[1].op # "except")
            /\ n = Len(s) \/ s[n + 1].op # "except"
    BY PastHandlersIs
  <1>2. PastHandlers(s) \in Remainder
    BY <1>1, SuffixJoined
  <1>3. n >= 1 => PastHandlers(s) \in Program
    <2> SUFFICES ASSUME n >= 1 PROVE PastHandlers(s) \in Program
      OBVIOUS
    <2>1. n \in Nat /\ n \in 1 .. n
      OBVIOUS
    <2>2. CutsNothing(s, n)
      BY <1>1, <2>1, HandlersCut
    <2> QED
      BY <1>1, <2>1, <2>2, SuffixWhole
  <1>4. n = 0 \/ n >= 1
    BY <1>1
  <1>5. ASSUME PastHandlers(s) # <<>> PROVE PastHandlers(s)[1].op # "except"
    <2>1. PastHandlers(s) \in Seq(Stmt) /\ Len(PastHandlers(s)) = Len(s) - n /\ Len(s) \in Nat
      BY <1>1, LenProperties DEF Suffix, Remainder
    <2>2. Len(PastHandlers(s)) # 0
      BY <1>5, <2>1, EmptySeq
    <2>3. n # Len(s) /\ 1 \in 1 .. Len(s) - n
      BY <2>1, <2>2
    <2>4. PastHandlers(s)[1] = s[n + 1]
      BY <1>1, <2>3 DEF Suffix
    <2> QED
      BY <1>1, <2>3, <2>4
  <1> QED
    BY <1>1, <1>2, <1>3, <1>4, <1>5

-----------------------------------------------------------------------------
(* How a statement moves its thread *)

\* Statements that belong together are executed one by one; behind them the
\* thread goes on with a program.
Steps(t) == ~CutsNothing(todo[t], 1) /\ todo'[t] = Tail(todo[t])
Leaps(t) == CutsNothing(todo[t], 1) /\ todo'[t] \in Program

\* Only t moves.
Moves(t) ==
    /\ todo' = [todo EXCEPT ![t] = todo'[t]]
    /\ Busy(t)
    /\ Steps(t) \/ Leaps(t)

LEMMA BusyIs ==
  ASSUME todo \in [Threads -> Remainder], NEW t \in Threads, Busy(t)
  PROVE  /\ todo[t] \in Remainder /\ todo[t] # <<>> /\ todo[t] \in Seq(Stmt)
         /\ Len(todo[t]) \in Nat /\ Len(todo[t]) >= 1
         /\ Current(t) = todo[t][1] /\ Current(t) \in Stmt
         /\ Suffix(Tail(todo[t]), todo[t], 1) /\ Tail(todo[t]) \in Remainder
         /\ CutsNothing(todo[t], 1) => Tail(todo[t]) \in Program
  <1>1. todo[t] \in Remainder /\ todo[t] # <<>>
    BY DEF Busy
  <1>2. /\ Suffix(Tail(todo[t]), todo[t], 1) /\ Head(todo[t]) = todo[t][1]
        /\ Len(todo[t]) \in Nat /\ Len(todo[t]) >= 1
        /\ todo[t] \in Seq(Stmt) /\ todo[t][1] \in Stmt
    BY <1>1, TailSuffix
  <1>3. Tail(todo[t]) \in Remainder
    BY <1>1, <1>2, SuffixJoined
  <1>4. CutsNothing(todo[t], 1) => Tail(todo[t]) \in Program
    BY <1>1, <1>2, SuffixWhole
  <1> QED
    BY <1>1, <1>2, <1>3, <1>4 DEF Current

\* What follows a statement that is not the last of those that belong together
\* is the next of them.
LEMMA StepsOnto ==
  ASSUME NEW s \in Remainder, s # <<>>, ~CutsNothing(s, 1)
  PROVE  /\ Len(s) >= 2 /\ Tail(s) # <<>> /\ Tail(s)[1] = s[2]
         /\ s[1].op = "hash" => s[2].op = "link"
         /\ s[1].op = "link" => s[2].op = "write"
         /\ s[1].op = "readScore" => s[2].op = "storeScore"
         /\ s[1].op = "find" => s[2].op = "readScore" /\ s[3].op = "storeScore"
                                /\ Content(s[4]) /\ Len(s) >= 4
         /\ s[1].op = "storeScore" => Content(s[2])
         /\ s[1].op \in {"hash", "link", "readScore", "find", "storeScore"}
         /\ s[2].op # "except"
  <1>1. Suffix(Tail(s), s, 1) /\ Len(s) \in Nat /\ Len(s) >= 1 /\ s \in Seq(Stmt)
    BY TailSuffix
  <1>2. Ahead(s, 1)
    BY <1>1 DEF Remainder, Joined
  <1>3. /\ s[1].op \in {"hash", "link", "readScore", "find", "storeScore"}
        /\ s[1].op = "storeScore" => Content(s[2]) /\ Len(s) >= 2
    BY <1>1 DEF CutsNothing
  <1>4. /\ s[1].op = "hash" => s[2].op = "link" /\ Len(s) >= 2
        /\ s[1].op = "link" => s[2].op = "write" /\ Len(s) >= 2
        /\ s[1].op = "readScore" => s[2].op = "storeScore" /\ Len(s) >= 2
        /\ s[1].op = "find" => s[2].op = "readScore" /\ s[3].op = "storeScore"
                               /\ Content(s[4]) /\ Len(s) >= 4
    BY <1>1, <1>2 DEF Ahead
  <1>5. Len(s) >= 2
    BY <1>1, <1>3, <1>4
  <1>6. Tail(s)[1] = s[2] /\ Len(Tail(s)) # 0
    BY <1>1, <1>5 DEF Suffix
  <1>7. Tail(s) # <<>>
    <2>1. Len(<<>>) = 0
      BY EmptySeq
    <2> QED
      BY <1>6, <2>1
  <1>8. s[2].op # "except"
    BY <1>3, <1>4 DEF Content
  <1> QED
    BY <1>3, <1>4, <1>5, <1>6, <1>7, <1>8

LEMMA AdvanceMoves ==
  ASSUME todo \in [Threads -> Remainder], NEW t \in Threads, Busy(t), Advances(t)
  PROVE  /\ Moves(t) /\ raised' = raised /\ todo' \in [Threads -> Remainder]
         /\ todo'[t] = PastHandlers(Tail(todo[t]))
  <1>1. /\ todo[t] \in Remainder /\ todo[t] # <<>> /\ Tail(todo[t]) \in Remainder
        /\ CutsNothing(todo[t], 1) => Tail(todo[t]) \in Program
    BY BusyIs
  <1>2. /\ todo' = [todo EXCEPT ![t] = PastHandlers(Tail(todo[t]))] /\ raised' = raised
        /\ todo'[t] = PastHandlers(Tail(todo[t]))
    BY DEF Advances, Goes
  <1>3. PastHandlers(Tail(todo[t])) \in Remainder
    BY <1>1, PastHandlersJoined
  <1>4. CASE CutsNothing(todo[t], 1)
    BY <1>1, <1>2, <1>3, <1>4, PastHandlersJoined DEF Moves, Leaps
  <1>5. CASE ~CutsNothing(todo[t], 1)
    <2>1. Tail(todo[t])[1].op # "except"
      BY <1>1, <1>5, StepsOnto
    <2>2. PastHandlers(Tail(todo[t])) = Tail(todo[t])
      BY <1>1, <2>1, PastHandlersJoined
    <2> QED
      BY <1>2, <1>3, <1>5, <2>2 DEF Moves, Steps
  <1> QED
    BY <1>4, <1>5

LEMMA GoesMoves ==
  ASSUME todo \in [Threads -> Remainder], NEW t \in Threads, Busy(t), CutsNothing(todo[t], 1),
         NEW b \in Program, Goes(t, b \o Tail(todo[t]))
  PROVE  /\ Moves(t) /\ raised' = raised /\ todo' \in [Threads -> Remainder]
         /\ todo'[t] = PastHandlers(b \o Tail(todo[t]))
  <1>1. Tail(todo[t]) \in Program
    BY BusyIs
  <1>2. b \o Tail(todo[t]) \in Program
    BY <1>1, WholeConcat
  <1> DEFINE p == PastHandlers(b \o Tail(todo[t]))
  <1>3. p \in Program /\ p \in Remainder
    BY <1>2, PastHandlersJoined, Programs
  <1>4. todo' = [todo EXCEPT ![t] = p] /\ raised' = raised
    BY DEF Goes
  <1> QED
    BY <1>3, <1>4 DEF Moves, Leaps

\* An exception leaves the call, or is taken by a handler that follows.
Escapes(t, kind) ==
    /\ todo'[t] = <<>> /\ raised' = [raised EXCEPT ![t] = kind]

Caught(t, i) ==
    /\ i \in 1 .. Len(Tail(todo[t])) /\ Tail(todo[t])[i].op = "except"
    /\ raised' = raised
    /\ todo'[t] = PastHandlers(Tail(todo[t])[i].body
                               \o SubSeq(Tail(todo[t]), i + 1, Len(Tail(todo[t]))))

LEMMA EmptyProgram ==
  <<>> \in Program /\ <<>> \in Flat
  <1>1. <<>> \in Seq(Stmt) /\ <<>> \in Seq(Plain) /\ Len(<<>>) = 0
    BY EmptySeq
  <1>2. Whole(<<>>)
    BY <1>1 DEF Whole, Joined, Fresh
  <1> QED
    BY <1>1, <1>2 DEF Program, Flat

LEMMA ThrowMoves ==
  ASSUME todo \in [Threads -> Remainder], NEW t \in Threads, Busy(t), CutsNothing(todo[t], 1),
         NEW kind, Throws(t, kind)
  PROVE  /\ Moves(t) /\ todo' \in [Threads -> Remainder]
         /\ Escapes(t, kind) \/ \E i \in Nat : Caught(t, i)
  <1> DEFINE rest == Tail(todo[t])
             takers == {i \in 1 .. Len(rest) : rest[i].op = "except" /\ kind \in rest[i].kinds}
  <1>1. rest \in Program /\ rest \in Remainder /\ rest \in Seq(Stmt) /\ Len(rest) \in Nat
    BY BusyIs, LenProperties DEF Remainder
  <1>2. CASE takers = {}
    <2>1. todo' = [todo EXCEPT ![t] = <<>>] /\ raised' = [raised EXCEPT ![t] = kind]
      BY <1>2 DEF Throws
    <2> QED
      BY <2>1, EmptyProgram, Programs DEF Moves, Leaps, Escapes
  <1>3. CASE takers # {}
    <2> DEFINE i == CHOOSE i \in takers : \A j \in takers : i <= j
    <2>1. i \in takers
      <3>1. takers \in SUBSET Nat
        OBVIOUS
      <3>2. \E k \in takers : \A j \in takers : k <= j
        <4> HIDE DEF takers
        <4> QED
          BY <1>3, <3>1, Least
      <3> QED
        BY <3>2
    <2>2. Goes(t, rest[i].body \o SubSeq(rest, i + 1, Len(rest)))
      BY <1>3 DEF Throws
    <2>3. i \in 1 .. Len(rest) /\ rest[i].op = "except"
      BY <2>1
    <2> HIDE DEF i
    <2>4. rest[i] \in Stmt
      BY <1>1, <2>3, ElementOfSeq
    <2>5. rest[i].body \in Program
      BY <2>3, <2>4, StmtParts, Programs
    <2>6. i \in Nat /\ i >= 1 /\ i \in 0 .. Len(rest) /\ CutsNothing(rest, i)
      <3>1. i \in Nat /\ i >= 1 /\ i \in 0 .. Len(rest)
        BY <1>1, <2>3
      <3>2. CutsNothing(rest, i)
        BY <2>3 DEF CutsNothing
      <3> QED
        BY <3>1, <3>2
    <2>7. SubSeq(rest, i + 1, Len(rest)) \in Program
      <3>1. Suffix(SubSeq(rest, i + 1, Len(rest)), rest, i)
        BY <1>1, <2>6, SubSeqSuffix
      <3> QED
        BY <1>1, <2>6, <3>1, SuffixWhole
    <2> DEFINE p == PastHandlers(rest[i].body \o SubSeq(rest, i + 1, Len(rest)))
    <2>8. p \in Program /\ p \in Remainder
      <3>1. rest[i].body \o SubSeq(rest, i + 1, Len(rest)) \in Program
        BY <2>5, <2>7, WholeConcat
      <3> QED
        BY <3>1, PastHandlersJoined, Programs
    <2>9. todo' = [todo EXCEPT ![t] = p] /\ raised' = raised
      BY <2>2 DEF Goes
    <2> QED
      BY <2>3, <2>6, <2>8, <2>9 DEF Moves, Leaps, Caught
  <1> QED
    BY <1>2, <1>3

-----------------------------------------------------------------------------
(* The statements that calls are made of *)

LEMMA EmitFits ==
  ASSUME NEW k \in {"note", "finding"}
  PROVE  Emit(k) \in Flat /\ Emit(k) \in Program
  <1> DEFINE s == Emit(k)
  <1>1. s \in Seq(Plain) /\ Len(s) = 3
    BY DEF Emit, Plain
  <1>2. /\ s[1].op = "hash" /\ s[1].kind = k /\ s[2].op = "link" /\ s[3].op = "write"
    BY DEF Emit
  <1> HIDE DEF s
  <1>3. \A i \in 1 .. 3 : i = 1 \/ i = 2 \/ i = 3
    OBVIOUS
  <1>4. Joined(s)
    <2>1. Ahead(s, 1) /\ Ahead(s, 2) /\ Ahead(s, 3)
      BY <1>1, <1>2 DEF Ahead
    <2>2. Behind(s, 1) /\ Behind(s, 2) /\ Behind(s, 3)
      BY <1>2 DEF Behind, Before, Content
    <2> QED
      BY <1>1, <1>3, <2>1, <2>2 DEF Joined
  <1>5. Fresh(s)
    BY <1>1, <1>2, <1>3 DEF Fresh, Content
  <1> QED
    BY <1>1, <1>4, <1>5, Programs DEF s, Flat, Whole

-----------------------------------------------------------------------------
(* The variables' values *)

TodoTypes ==
    /\ todo \in [Threads -> Remainder]
    /\ raised \in [Threads -> {"nothing"} \union Raisable]

LocalTypes ==
    /\ draft \in [Threads -> Event] /\ held \in [Threads -> Int]
    /\ call = [t \in Threads |-> [name |-> call[t].name, gate |-> call[t].gate]]
    /\ found \in [Threads -> BOOLEAN]

LogTypes ==
    /\ lines \in Seq(Event) /\ lastHash \in Nat /\ made \in Nat
    /\ tail \in Ends
    /\ tail = "bare" => lines # <<>>
    /\ missing \subseteq Nat /\ unwritten \in Nat

CountTypes ==
    /\ tier \in 1 .. 4 /\ violations \in Nat /\ charged \in Nat
    /\ count \in [Counters -> Int] /\ lost \in [Counters -> Nat] /\ ran \in [Counters -> Nat]
    /\ snapshots \in 0 .. 10 /\ leaked \in Nat
    /\ faults \in 0 .. MaxFaults /\ calls \in 0 .. MaxCalls

\* Only who is in a subgraph is leaving one.
Leaving(t) == call[t].name = "exit" /\ Busy(t)
ExitInv ==
    /\ opened \in [Threads -> Nat]
    /\ \A t \in Threads : Leaving(t) =>
           opened[t] > 0 /\ todo[t] \in {ExitSubgraph, Tail(ExitSubgraph)}

\* The score of a thread between its two halves of a penalty is one there was.
ScoreInv ==
    /\ score \in 0 .. MaxScore /\ score >= MaxScore - charged
    /\ ~forgiven => score = AtLeast(0, MaxScore - charged)
    /\ \A t \in Threads : At(t, "storeScore") =>
           held[t] \in 0 .. MaxScore /\ held[t] >= MaxScore - charged

EngineTypes == TodoTypes /\ LocalTypes /\ LogTypes /\ CountTypes


LEMMA CurrentIs ==
  ASSUME TodoTypes, NEW t \in Threads, Busy(t)
  PROVE  /\ todo[t] \in Remainder /\ todo[t] # <<>> /\ Current(t) = todo[t][1]
         /\ Current(t) \in Stmt
         /\ CutsNothing(todo[t], 1) <=>
                /\ Current(t).op \notin {"hash", "link", "find", "readScore"}
                /\ Current(t).op = "storeScore" /\ 2 <= Len(todo[t]) => ~Content(todo[t][2])
  <1>1. /\ todo[t] \in Remainder /\ todo[t] # <<>> /\ Current(t) = todo[t][1]
        /\ Current(t) \in Stmt
    BY BusyIs DEF TodoTypes
  <1> QED
    BY <1>1 DEF CutsNothing

\* A statement moves its thread, and an exception it raises is one of those
\* there are.
LEMMA StatementMoves ==
  ASSUME EngineTypes, NEW t \in Threads, Statement(t), ~GoInto(t)
  PROVE  Busy(t) /\ Moves(t) /\ TodoTypes'
  <1> USE DEF TodoTypes, EngineTypes
  <1>1. ASSUME Busy(t), Advances(t) PROVE Moves(t) /\ TodoTypes'
    BY <1>1, AdvanceMoves
  <1>2. ASSUME Busy(t), CutsNothing(todo[t], 1), NEW kind \in Raisable, Throws(t, kind)
        PROVE  Moves(t) /\ TodoTypes'
    <2>1. /\ Moves(t) /\ todo' \in [Threads -> Remainder]
          /\ Escapes(t, kind) \/ \E i \in Nat : Caught(t, i)
      BY <1>2, ThrowMoves
    <2>2. raised' = raised \/ raised' = [raised EXCEPT ![t] = kind]
      BY <2>1 DEF Escapes, Caught
    <2> QED
      BY <2>1, <2>2
  <1>3. ASSUME Busy(t), CutsNothing(todo[t], 1), NEW b \in Program, Goes(t, b \o Tail(todo[t]))
        PROVE  Moves(t) /\ TodoTypes'
    BY <1>3, GoesMoves
  <1>4. ASSUME Busy(t),
               Current(t).op \in {"write", "raise", "run", "verdict", "compare", "frequency"}
        PROVE  CutsNothing(todo[t], 1)
    BY <1>4, CurrentIs
  <1>5. CASE HashEvent(t) \/ LinkEvent(t) \/ WriteLine(t) \/ FindViolation(t)
    BY <1>1, <1>5 DEF HashEvent, LinkEvent, WriteLine, FindViolation, At
  <1>6. CASE ReadScore(t) \/ StoreScore(t) \/ ReadCount(t) \/ StoreCount(t)
    BY <1>1, <1>6 DEF ReadScore, StoreScore, ReadCount, StoreCount, At
  <1>7. CASE TakeSnapshot(t) \/ AssignCount(t) \/ AdmitOne(t)
    BY <1>1, <1>7 DEF TakeSnapshot, AssignCount, AdmitOne, At
  <1>8. CASE WriteFails(t)
    BY <1>2, <1>4, <1>8 DEF WriteFails, At, Raisable
  <1>9. CASE CompareCount(t)
    <2>1. Busy(t) /\ Current(t).op = "compare"
      BY <1>9 DEF CompareCount, At
    <2>2. Current(t).over \in Program /\ Current(t).within \in Program
      BY <2>1, CurrentIs, StmtParts, Programs
    <2>3. Goes(t, Current(t).over \o Tail(todo[t])) \/ Goes(t, Current(t).within \o Tail(todo[t]))
      BY <1>9 DEF CompareCount
    <2> QED
      BY <1>3, <1>4, <2>1, <2>2, <2>3
  <1>10. CASE NoteFrequency(t)
    <2>1. Busy(t) /\ Current(t).op = "frequency"
      BY <1>10 DEF NoteFrequency, At
    <2>2. Advances(t) \/ Goes(t, Emit("note") \o Tail(todo[t]))
      BY <1>10 DEF NoteFrequency
    <2> QED
      BY <1>1, <1>3, <1>4, <2>1, <2>2, EmitFits
  <1>11. CASE RaiseException(t)
    <2>1. Busy(t) /\ Current(t).op = "raise" /\ Throws(t, Current(t).kind)
      BY <1>11 DEF RaiseException, At
    <2>2. Current(t).kind \in Raisable
      BY <2>1, CurrentIs, StmtParts DEF Raisable
    <2> QED
      BY <1>2, <1>4, <2>1, <2>2
  <1>12. CASE RunWrapped(t)
    BY <1>1, <1>2, <1>4, <1>12 DEF RunWrapped, At, Raisable
  <1>13. CASE GiveVerdict(t)
    BY <1>1, <1>2, <1>4, <1>13 DEF GiveVerdict, At, Raisable
  <1> QED
    BY <1>5, <1>6, <1>7, <1>8, <1>9, <1>10, <1>11, <1>12, <1>13 DEF Statement

\* Where a thread may be found after a statement, by where it was.
LEMMA MovesOnto ==
  ASSUME todo \in [Threads -> Remainder], NEW t \in Threads, Moves(t)
  PROVE  /\ \A u \in Threads \ {t} : todo'[u] = todo[u]
         /\ At(t, "link")' <=> At(t, "hash")
         /\ At(t, "write")' <=> At(t, "link")
         /\ At(t, "storeScore")' <=> At(t, "readScore")
  <1>1. todo[t] \in Remainder /\ todo[t] # <<>> /\ Current(t) = todo[t][1]
    BY BusyIs DEF Moves
  <1>2. \A u \in Threads \ {t} : todo'[u] = todo[u]
    BY DEF Moves
  <1>3. CASE Steps(t)
    <2>1. todo'[t] # <<>> /\ Head(todo'[t]) = todo[t][2]
      <3>1. /\ Tail(todo[t]) # <<>> /\ Tail(todo[t])[1] = todo[t][2]
            /\ Tail(todo[t]) \in Seq(Stmt)
        BY <1>1, <1>3, StepsOnto, TailSuffix DEF Steps, Suffix
      <3> QED
        BY <1>3, <3>1 DEF Steps
    <2>2. /\ todo[t][1].op = "hash" => todo[t][2].op = "link"
          /\ todo[t][1].op = "link" => todo[t][2].op = "write"
          /\ todo[t][1].op = "readScore" => todo[t][2].op = "storeScore"
          /\ todo[t][1].op = "find" => todo[t][2].op = "readScore"
          /\ todo[t][1].op = "storeScore" => todo[t][2].op = "hash"
          /\ todo[t][1].op \in {"hash", "link", "readScore", "find", "storeScore"}
      BY <1>1, <1>3, StepsOnto DEF Steps, Content
    <2> QED
      BY <1>1, <1>2, <2>1, <2>2 DEF At, Busy, Current
  <1>4. CASE Leaps(t)
    <2>1. todo[t][1].op \notin {"hash", "link", "find", "readScore"}
      BY <1>4 DEF Leaps, CutsNothing
    <2>2. todo'[t] = <<>> \/ Head(todo'[t]).op \notin {"link", "write", "storeScore"}
      <3>1. todo'[t] \in Seq(Stmt) /\ Fresh(todo'[t])
        BY <1>4 DEF Leaps, Program, Whole
      <3>2. todo'[t] # <<>> => Len(todo'[t]) \in Nat /\ Len(todo'[t]) >= 1 /\ Head(todo'[t]) = todo'[t][1]
        BY <3>1, <1>4, TailSuffix, Programs DEF Leaps
      <3> QED
        BY <3>1, <3>2 DEF Fresh
    <2> QED
      BY <1>1, <1>2, <2>1, <2>2 DEF At, Busy, Current
  <1> QED
    BY <1>2, <1>3, <1>4 DEF Moves

LEMMA EventType ==
  ASSUME EngineTypes, NEW t \in Threads
  PROVE  /\ draft[t] \in Event /\ draft[t].hash \in Nat \ {0} /\ draft[t].prev \in Nat
         /\ held[t] \in Int
  BY DEF EngineTypes, LocalTypes, Event

\* The three things a write can make of the lines.
Added(e) ==
    /\ tail = "sealed" /\ tail' \in {"sealed", "bare"} /\ lines' = Append(lines, e)
    /\ UNCHANGED <<missing, unwritten>>
Dropped(e) ==
    /\ UNCHANGED lines
    /\ missing' = missing \union {e.hash} /\ unwritten' = unwritten + OnContent(e)
    /\ \/ tail' = tail
       \/ tail = "sealed" /\ tail' = "torn"
       \/ tail = "torn" /\ tail' = "sealed"
Spoiled(e) ==
    /\ tail = "bare" /\ tail' \in {"sealed", "torn"} /\ lines' = SubSeq(lines, 1, Len(lines) - 1)
    /\ missing' = missing \union {e.hash, LastLine.hash}
    /\ unwritten' = unwritten + OnContent(e) + OnContent(LastLine)

\* A write that returns, and one that raises: it costs no more than a fault.
LEMMA WriteOutcomes ==
  ASSUME NEW t \in Threads
  PROVE  /\ WriteLine(t) =>
              /\ At(t, "write") /\ faults' = faults
              /\ \/ Added(draft[t]) /\ tail' = "sealed"
                 \/ Dropped(draft[t]) /\ tail = "torn" /\ tail' = "sealed"
                 \/ Spoiled(draft[t]) /\ tail' = "sealed"
         /\ WriteFails(t) =>
              /\ At(t, "write") /\ faults' = faults + 1
              /\ Added(draft[t]) \/ Dropped(draft[t]) \/ Spoiled(draft[t])
  <1> DEFINE e == draft[t]
  <1>1. ASSUME NEW end \in Ends, Lands(e, end)
        PROVE  /\ tail' = end
               /\ \/ Added(e)
                  \/ Dropped(e) /\ tail # "bare" /\ (tail = "sealed" => end = "torn")
                  \/ Spoiled(e)
    BY <1>1 DEF Lands, Ends, Files, StaysOut, SpoilsLast, Added, Dropped, Spoiled
  <1>2. ASSUME Lands(e, "sealed")
        PROVE  \/ Added(e) /\ tail' = "sealed"
               \/ Dropped(e) /\ tail = "torn" /\ tail' = "sealed"
               \/ Spoiled(e) /\ tail' = "sealed"
    BY <1>2 DEF Lands, Files, StaysOut, SpoilsLast, Added, Dropped, Spoiled
  <1>3. ASSUME StaysOut(e), UNCHANGED tail PROVE Dropped(e)
    BY <1>3 DEF StaysOut, Dropped
  <1> HIDE DEF e
  <1>4. ASSUME WriteLine(t) PROVE At(t, "write") /\ faults' = faults /\ Lands(e, "sealed")
    BY <1>4, Zenon DEF WriteLine, e
  <1>5. ASSUME WriteFails(t)
        PROVE  /\ At(t, "write") /\ faults' = faults + 1
               /\ (StaysOut(e) /\ UNCHANGED tail) \/ \E end \in Ends : Lands(e, end)
    BY <1>5, Zenon DEF WriteFails, e
  <1> QED
    BY <1>1, <1>2, <1>3, <1>4, <1>5, Zenon DEF e

\* The lines without the last one.
LEMMA WithoutLast ==
  ASSUME lines \in Seq(Event), lines # <<>>, lines' = SubSeq(lines, 1, Len(lines) - 1)
  PROVE  /\ lines' \in Seq(Event) /\ Len(lines) \in Nat \ {0} /\ Len(lines') = Len(lines) - 1
         /\ \A i \in 1 .. Len(lines) - 1 : lines'[i] = lines[i]
         /\ LastLine \in Event /\ LastLine = lines[Len(lines)]
  <1>1. Len(lines) \in Nat /\ Len(lines) # 0
    BY LenProperties, EmptySeq
  <1>2. \A i \in 1 .. Len(lines) : lines[i] \in Event
    BY ElementOfSeq
  <1>3. \A i \in 1 .. Len(lines) - 1 : lines[i] \in Event
    BY <1>1, <1>2
  <1> DEFINE n == Len(lines) - 1
  <1>4. n \in Nat /\ n + 1 = Len(lines) /\ n \in 0 .. Len(lines)
    BY <1>1
  <1>5. lines' \in Seq(Event) /\ Len(lines') = n /\ \A i \in 1 .. n : lines'[i] = lines[i]
    BY <1>3, <1>4, SubSeqProperties
  <1>6. LastLine \in Event
    BY <1>1, <1>2 DEF LastLine
  <1> QED
    BY <1>1, <1>5, <1>6 DEF LastLine

\* The log after a write.
LEMMA OutcomeTypes ==
  ASSUME LogTypes, NEW e \in Event, Added(e) \/ Dropped(e) \/ Spoiled(e),
         UNCHANGED <<lastHash, made>>
  PROVE  LogTypes'
  <1>1. e.hash \in Nat /\ OnContent(e) \in Nat
    BY DEF Event, OnContent
  <1>2. lines \in Seq(Event) /\ unwritten \in Nat /\ missing \subseteq Nat /\ tail \in Ends
    BY DEF LogTypes
  <1>3. CASE Added(e)
    <2>1. lines' \in Seq(Event) /\ Len(lines') = Len(lines) + 1 /\ Len(lines) \in Nat
      BY <1>2, <1>3, AppendProperties, LenProperties DEF Added
    <2>2. lines' # <<>>
      BY <2>1, EmptySeq
    <2> QED
      BY <1>2, <1>3, <2>1, <2>2 DEF Added, LogTypes, Ends
  <1>4. CASE Dropped(e)
    <2>1. /\ lines' = lines /\ missing' = missing \union {e.hash}
          /\ unwritten' = unwritten + OnContent(e)
      BY <1>4 DEF Dropped
    <2>3. missing' \subseteq Nat
      BY <1>1, <1>2, <2>1
    <2>4. unwritten' \in Nat
      BY <1>1, <1>2, <2>1
    <2>2. tail' \in Ends /\ (tail' = "bare" => tail = "bare")
      BY <1>2, <1>4 DEF Dropped, Ends
    <2> QED
      BY <2>1, <2>2, <2>3, <2>4 DEF LogTypes
  <1>5. CASE Spoiled(e)
    <2>1. lines' \in Seq(Event) /\ LastLine \in Event
      BY <1>2, <1>5, WithoutLast DEF Spoiled, LogTypes
    <2>2. LastLine.hash \in Nat /\ OnContent(LastLine) \in Nat
      BY <2>1 DEF Event, OnContent
    <2>3. unwritten' \in Nat
      BY <1>1, <1>2, <1>5, <2>2 DEF Spoiled
    <2>4. missing' \subseteq Nat
      BY <1>1, <1>2, <1>5, <2>2 DEF Spoiled
    <2>5. tail' \in Ends /\ tail' # "bare"
      BY <1>5 DEF Spoiled, Ends
    <2> QED
      BY <2>1, <2>3, <2>4, <2>5 DEF LogTypes
  <1> QED
    BY <1>3, <1>4, <1>5

\* An event, what is remembered of it, and its line.
LEMMA EventStep ==
  ASSUME EngineTypes, EngineAssumption, NEW t \in Threads,
         HashEvent(t) \/ LinkEvent(t) \/ WriteLine(t) \/ WriteFails(t)
  PROVE  LocalTypes' /\ LogTypes' /\ CountTypes'
  <1> USE DEF EngineTypes
  <1>1. /\ draft[t] \in Event /\ draft[t].hash \in Nat \ {0} /\ draft[t].prev \in Nat
    BY EventType
  <1>2. CASE HashEvent(t)
    <2>1. Busy(t) /\ Current(t).op = "hash"
      BY <1>2 DEF HashEvent, At
    <2>2. Current(t).kind \in {"note", "finding", "content"}
      BY <2>1, CurrentIs, StmtParts
    <2>3. made' = made + 1 /\ made' \in Nat \ {0}
      BY <1>2 DEF HashEvent, LogTypes
    <2>4. draft' \in [Threads -> Event]
      BY <1>2, <2>2, <2>3 DEF HashEvent, LogTypes, LocalTypes, Event
    <2>5. found' = [found EXCEPT ![t] = found[t] \/ Current(t).kind # "note"]
      BY <1>2 DEF HashEvent
    <2>6. found' \in [Threads -> BOOLEAN]
      BY <2>5, Zenon DEF LocalTypes
    <2>7. UNCHANGED <<held, call>>
      BY <1>2 DEF HashEvent
    <2>8. LocalTypes'
      BY <2>4, <2>6, <2>7 DEF LocalTypes
    <2>9. LogTypes'
      BY <1>2, <2>3 DEF HashEvent, LogTypes
    <2>10. CountTypes'
      BY <1>2 DEF HashEvent, CountTypes, marks, counting
    <2> QED
      BY <2>8, <2>9, <2>10
  <1>3. CASE LinkEvent(t)
    <2>1. LocalTypes' /\ LogTypes'
      BY <1>1, <1>3 DEF LinkEvent, LocalTypes, LogTypes
    <2>2. CountTypes'
      BY <1>3 DEF LinkEvent, CountTypes, marks, counting
    <2> QED
      BY <2>1, <2>2
  <1>4. CASE WriteLine(t)
    <2>1. UNCHANGED <<lastHash, made, draft, held, call, found>>
      BY <1>4 DEF WriteLine
    <2>2. LocalTypes' /\ LogTypes'
      BY <1>1, <1>4, <2>1, WriteOutcomes, OutcomeTypes DEF LocalTypes
    <2>3. CountTypes'
      BY <1>4 DEF WriteLine, CountTypes, marks, counting
    <2> QED
      BY <2>2, <2>3
  <1>5. CASE WriteFails(t)
    <2>5. UNCHANGED <<lastHash, made, draft, held, call, found>>
      BY <1>5 DEF WriteFails
    <2>1. LocalTypes' /\ LogTypes'
      BY <1>1, <1>5, <2>5, WriteOutcomes, OutcomeTypes DEF LocalTypes
    <2>2. faults' \in 0 .. MaxFaults /\ leaked' \in Nat
      BY <1>5 DEF WriteFails, CountTypes, EngineAssumption
    <2>3. CountTypes'
      BY <1>5, <2>2 DEF WriteFails, CountTypes, marks, counting
    <2> QED
      BY <2>1, <2>3
  <1> QED
    BY <1>2, <1>3, <1>4, <1>5

\* The other statements leave the log alone.
LEMMA OtherStep ==
  ASSUME EngineTypes, ScoreInv, EngineAssumption, NEW t \in Threads, Statement(t),
         ~(HashEvent(t) \/ LinkEvent(t) \/ WriteLine(t) \/ WriteFails(t))
  PROVE  LocalTypes' /\ CountTypes' /\ LogTypes' /\ UNCHANGED <<ledger, draft, found>>
  <1> USE DEF EngineTypes
  <1>1. UNCHANGED <<ledger, draft, found>>
    BY DEF Statement, FindViolation, ReadScore, StoreScore, ReadCount, StoreCount, CompareCount,
           NoteFrequency, TakeSnapshot, RaiseException, RunWrapped, GoInto, AssignCount,
           GiveVerdict, AdmitOne
  <1>2. LogTypes'
    BY <1>1 DEF LogTypes, ledger
  <1>3. held[t] \in Int /\ score \in Int
    BY EventType DEF ScoreInv
  <1>4. ASSUME UNCHANGED <<held, call>> PROVE LocalTypes'
    BY <1>1, <1>4 DEF LocalTypes
  <1>5. ASSUME UNCHANGED <<marks, counting, tier, faults, calls, leaked>> PROVE CountTypes'
    BY <1>5 DEF CountTypes, marks, counting
  <1>6. CASE FindViolation(t)
    <2>1. LocalTypes'
      BY <1>4, <1>6 DEF FindViolation
    <2>2. CountTypes'
      BY <1>6 DEF FindViolation, CountTypes, counting
    <2> QED
      BY <1>1, <1>2, <2>1, <2>2
  <1>7. CASE ReadScore(t)
    <2>1. CountTypes'
      BY <1>5, <1>7 DEF ReadScore
    <2>2. LocalTypes'
      BY <1>1, <1>3, <1>7 DEF ReadScore, LocalTypes
    <2> QED
      BY <1>1, <1>2, <2>1, <2>2
  <1>8. CASE StoreScore(t)
    <2>1. Current(t).points \in Nat
      BY <1>8, CurrentIs, StmtParts DEF StoreScore, At
    <2>2. LocalTypes'
      BY <1>4, <1>8 DEF StoreScore
    <2>3. CountTypes'
      BY <1>8, <2>1 DEF StoreScore, CountTypes, counting
    <2> QED
      BY <1>1, <1>2, <2>2, <2>3
  <1>9. CASE ReadCount(t)
    <2>1. Current(t).of \in Counters
      BY <1>9, CurrentIs, StmtParts DEF ReadCount, At
    <2>2. CountTypes'
      BY <1>5, <1>9 DEF ReadCount
    <2>3. LocalTypes'
      BY <1>1, <1>9, <2>1 DEF ReadCount, LocalTypes, CountTypes
    <2> QED
      BY <1>1, <1>2, <2>2, <2>3
  <1>10. CASE StoreCount(t)
    <2>1. /\ Current(t).of \in Counters /\ Current(t).by \in Int
          /\ count[Current(t).of] \in Int /\ lost[Current(t).of] \in Nat
      BY <1>10, CurrentIs, StmtParts DEF StoreCount, At, CountTypes
    <2> DEFINE s == Current(t)
               c == s.of
               sum == held[t] + s.by
               value == IF s.floor THEN AtLeast(0, sum) ELSE sum
               undone == lost[c] + Distance(count[c], held[t])
    <2>2. c \in Counters /\ value \in Int /\ undone \in Nat
      BY <1>3, <2>1 DEF AtLeast, Distance
    <2>3. count' = [count EXCEPT ![c] = value] /\ lost' = [lost EXCEPT ![c] = undone]
      BY <1>10 DEF StoreCount
    <2>5. count' \in [Counters -> Int] /\ lost' \in [Counters -> Nat]
      <3> HIDE DEF value, undone, c
      <3> QED
        BY <2>2, <2>3 DEF CountTypes
    <2>6. LocalTypes'
      BY <1>4, <1>10 DEF StoreCount
    <2>7. CountTypes'
      BY <1>10, <2>5 DEF StoreCount, CountTypes, marks
    <2> QED
      BY <1>1, <1>2, <2>6, <2>7
  <1>11. CASE CompareCount(t) \/ NoteFrequency(t) \/ RaiseException(t) \/ GiveVerdict(t)
    <2>1. UNCHANGED <<marks, counting, tier, faults, calls, leaked>> /\ UNCHANGED <<held, call>>
      BY <1>11 DEF CompareCount, NoteFrequency, RaiseException, GiveVerdict
    <2> QED
      BY <1>1, <1>2, <1>4, <1>5, <2>1
  <1>12. CASE TakeSnapshot(t)
    <2>1. LocalTypes'
      BY <1>4, <1>12 DEF TakeSnapshot
    <2>2. CountTypes'
      BY <1>12 DEF TakeSnapshot, CountTypes, marks
    <2> QED
      BY <1>1, <1>2, <2>1, <2>2
  <1>13. CASE RunWrapped(t)
    <2>1. Current(t).of \in Counters
      BY <1>13, CurrentIs, StmtParts DEF RunWrapped, At
    <2>2. LocalTypes'
      BY <1>4, <1>13 DEF RunWrapped
    <2>3. faults' \in 0 .. MaxFaults
      BY <1>13 DEF RunWrapped, CountTypes, EngineAssumption
    <2>4. CountTypes'
      BY <1>13, <2>1, <2>3 DEF RunWrapped, CountTypes, marks
    <2> QED
      BY <1>1, <1>2, <2>2, <2>4
  <1>14. CASE GoInto(t)
    <2>1. call' = [u \in Threads |-> [name |-> call'[u].name, gate |-> call'[u].gate]]
      <3>1. call' = [call EXCEPT ![t].name = "entered"]
        BY <1>14 DEF GoInto
      <3> QED
        BY <3>1 DEF LocalTypes
    <2>2. UNCHANGED <<held, draft, found>>
      BY <1>14 DEF GoInto
    <2>3. LocalTypes'
      BY <2>1, <2>2 DEF LocalTypes
    <2>4. CountTypes'
      BY <1>14 DEF GoInto, CountTypes, marks
    <2> QED
      BY <1>1, <1>2, <2>3, <2>4
  <1>15. CASE AssignCount(t)
    <2>1. Current(t).of \in Counters /\ Current(t).value \in Nat
      BY <1>15, CurrentIs, StmtParts DEF AssignCount, At
    <2>2. LocalTypes'
      BY <1>4, <1>15 DEF AssignCount
    <2>3. CountTypes'
      BY <1>15, <2>1 DEF AssignCount, CountTypes, marks
    <2> QED
      BY <1>1, <1>2, <2>2, <2>3
  <1>16. CASE AdmitOne(t)
    <2>1. Current(t).of \in Counters
      BY <1>16, CurrentIs, StmtParts DEF AdmitOne, At
    <2>2. LocalTypes'
      BY <1>4, <1>16 DEF AdmitOne
    <2>3. CountTypes'
      BY <1>16, <2>1 DEF AdmitOne, CountTypes, marks
    <2> QED
      BY <1>1, <1>2, <2>2, <2>3
  <1> QED
    BY <1>6, <1>7, <1>8, <1>9, <1>10, <1>11, <1>12, <1>13, <1>14, <1>15, <1>16 DEF Statement

-----------------------------------------------------------------------------
(* The score, and the way out of a subgraph *)

\* Who is at which statement, of the others, does not change.
LEMMA OthersStay ==
  ASSUME NEW t \in Threads, NEW u \in Threads, todo'[u] = todo[u], NEW op
  PROVE  (At(u, op)' <=> At(u, op)) /\ (Busy(u)' <=> Busy(u))
  BY DEF At, Busy, Current

LEMMA ScoreStep ==
  ASSUME EngineTypes, ScoreInv, EngineAssumption, NEW t \in Threads, Statement(t)
  PROVE  ScoreInv'
  <1> DEFINE Half(u, c) == held[u] \in 0 .. MaxScore /\ held[u] >= MaxScore - c
  <1>1. /\ MaxScore \in Nat /\ charged \in Nat /\ score \in 0 .. MaxScore
        /\ \A u \in Threads : At(u, "storeScore") => Half(u, charged)
        /\ held = [u \in Threads |-> held[u]]
    BY DEF EngineTypes, CountTypes, LocalTypes, EngineAssumption, ScoreInv
  <1>2. CASE GoInto(t)
    <2>1. UNCHANGED <<score, charged, forgiven, held, todo>>
      BY <1>2 DEF GoInto, marks
    <2>2. \A u \in Threads : At(u, "storeScore")' <=> At(u, "storeScore")
      BY <2>1, OthersStay
    <2> QED
      BY <2>1, <2>2 DEF ScoreInv
  <1>3. CASE ~GoInto(t)
    <2>1. Moves(t) /\ todo \in [Threads -> Remainder]
      BY <1>3, StatementMoves DEF EngineTypes, TodoTypes
    <2>2. /\ At(t, "storeScore")' <=> At(t, "readScore")
          /\ \A u \in Threads \ {t} : At(u, "storeScore")' <=> At(u, "storeScore")
      BY <2>1, MovesOnto, OthersStay
    <2>3. CASE ReadScore(t)
      <3>1. held' = [held EXCEPT ![t] = score] /\ UNCHANGED <<score, charged, forgiven>>
        BY <2>3 DEF ReadScore, marks
      <3>2. ASSUME NEW u \in Threads, At(u, "storeScore")'
            PROVE  held'[u] \in 0 .. MaxScore /\ held'[u] >= MaxScore - charged
        <4>1. CASE u = t
          BY <1>1, <3>1, <4>1 DEF ScoreInv
        <4>2. CASE u # t
          BY <1>1, <2>2, <3>1, <3>2, <4>2
        <4> QED
          BY <4>1, <4>2
      <3> QED
        BY <3>1, <3>2 DEF ScoreInv
    <2>4. CASE StoreScore(t)
      <3> DEFINE p == Current(t).points
      <3>1. /\ p \in Nat /\ At(t, "storeScore") /\ held' = held
            /\ score' = AtLeast(0, held[t] - p) /\ charged' = charged + p
            /\ forgiven' <=> (forgiven \/ score # held[t])
        <4>1. At(t, "storeScore") /\ held' = held /\ score' = AtLeast(0, held[t] - p)
              /\ charged' = charged + p
          BY <2>4 DEF StoreScore
        <4>2. p \in Nat
          BY <4>1, CurrentIs, StmtParts DEF At, EngineTypes
        <4>3. forgiven' <=> (forgiven \/ score # held[t])
          BY <2>4, Zenon DEF StoreScore
        <4> QED
          BY <4>1, <4>2, <4>3
      <3> HIDE DEF p
      <3>2. held[t] \in 0 .. MaxScore /\ held[t] >= MaxScore - charged
        BY <1>1, <3>1
      <3>3. score' \in 0 .. MaxScore /\ score' >= MaxScore - charged'
        BY <1>1, <3>1, <3>2 DEF AtLeast
      <3>4. ASSUME ~forgiven' PROVE score' = AtLeast(0, MaxScore - charged')
        <4>1. score = held[t] /\ score = AtLeast(0, MaxScore - charged)
          BY <3>1, <3>4 DEF ScoreInv
        <4> QED
          BY <1>1, <3>1, <4>1 DEF AtLeast
      <3>5. ~At(t, "readScore")
        BY <3>1 DEF At
      <3>6. ASSUME NEW u \in Threads, At(u, "storeScore")'
            PROVE  held[u] \in 0 .. MaxScore /\ held[u] >= MaxScore - charged'
        <4>1. u # t
          BY <2>2, <3>5, <3>6
        <4>2. held[u] \in 0 .. MaxScore /\ held[u] >= MaxScore - charged
          BY <1>1, <2>2, <3>6, <4>1
        <4> QED
          BY <1>1, <3>1, <4>2
      <3> QED
        BY <3>1, <3>3, <3>4, <3>6 DEF ScoreInv
    <2>5. CASE ~ReadScore(t) /\ ~StoreScore(t)
      <3>5. UNCHANGED <<score, charged, forgiven>>
        BY <2>5, <1>3 DEF Statement, HashEvent, LinkEvent, WriteLine, WriteFails, FindViolation,
               ReadCount, StoreCount, CompareCount, NoteFrequency, TakeSnapshot, RaiseException,
               RunWrapped, AssignCount, GiveVerdict, AdmitOne, marks
      <3>6. ~At(t, "readScore")
        BY <2>5, <1>3 DEF Statement, HashEvent, LinkEvent, WriteLine, WriteFails, FindViolation,
               ReadCount, StoreCount, CompareCount, NoteFrequency, TakeSnapshot, RaiseException,
               RunWrapped, AssignCount, GiveVerdict, AdmitOne, At
      <3>1. UNCHANGED <<score, charged, forgiven>> /\ ~At(t, "readScore")
        BY <3>5, <3>6
      <3>2. held' = held \/ ReadCount(t)
        BY <2>5 DEF Statement, HashEvent, LinkEvent, WriteLine, WriteFails, FindViolation,
               StoreCount, CompareCount, NoteFrequency, TakeSnapshot, RaiseException,
               RunWrapped, GoInto, AssignCount, GiveVerdict, AdmitOne
      <3>3. \A u \in Threads \ {t} : held'[u] = held[u]
        BY <1>1, <3>2 DEF ReadCount
      <3>4. ASSUME NEW u \in Threads, At(u, "storeScore")'
            PROVE  held'[u] \in 0 .. MaxScore /\ held'[u] >= MaxScore - charged
        <4>1. u # t
          BY <2>2, <3>1, <3>4
        <4> QED
          BY <1>1, <2>2, <3>3, <3>4, <4>1
      <3> QED
        BY <3>1, <3>4 DEF ScoreInv
    <2> QED
      BY <2>3, <2>4, <2>5
  <1> QED
    BY <1>2, <1>3

LEMMA ExitIs ==
  /\ ExitSubgraph[1].op = "read" /\ ExitSubgraph # <<>> /\ Head(ExitSubgraph).op = "read"
  /\ Tail(ExitSubgraph) # <<>> /\ Tail(ExitSubgraph)[1].op = "store"
  /\ Head(Tail(ExitSubgraph)).op = "store" /\ Tail(Tail(ExitSubgraph)) = <<>>
  BY DEF ExitSubgraph, Adjust

LEMMA ExitStep ==
  ASSUME EngineTypes, ExitInv, NEW t \in Threads, Statement(t)
  PROVE  ExitInv'
  <1>1. CASE GoInto(t)
    <2>1. /\ todo' = todo /\ call' = [call EXCEPT ![t].name = "entered"]
          /\ opened' = [opened EXCEPT ![t] = @ + 1]
      BY <1>1 DEF GoInto
    <2>2. opened' \in [Threads -> Nat] /\ \A u \in Threads : opened'[u] >= opened[u]
      BY <2>1 DEF ExitInv
    <2>3. ASSUME NEW u \in Threads, Leaving(u)' PROVE Leaving(u)
      <3>1. Busy(u) /\ call'[u].name = "exit"
        BY <2>1, <2>3 DEF Leaving, Busy
      <3>2. call'[u].name = IF u = t THEN "entered" ELSE call[u].name
        BY <2>1 DEF EngineTypes, LocalTypes
      <3> QED
        BY <3>1, <3>2 DEF Leaving
    <2>4. ASSUME NEW u \in Threads, Leaving(u)'
          PROVE  opened'[u] > 0 /\ todo'[u] \in {ExitSubgraph, Tail(ExitSubgraph)}
      <3>1. opened[u] > 0 /\ opened[u] \in Nat /\ todo[u] \in {ExitSubgraph, Tail(ExitSubgraph)}
        BY <2>3, <2>4 DEF ExitInv
      <3> QED
        BY <2>1, <2>2, <3>1
    <2> QED
      BY <2>2, <2>4 DEF ExitInv
  <1>2. CASE ~GoInto(t)
    <2>1. Busy(t) /\ Moves(t) /\ todo \in [Threads -> Remainder]
      BY <1>2, StatementMoves DEF EngineTypes, TodoTypes
    <2>2. \A u \in Threads \ {t} : todo'[u] = todo[u]
      BY <2>1, MovesOnto
    <2>3. call' = call
      BY <1>2 DEF Statement, HashEvent, LinkEvent, WriteLine, WriteFails, FindViolation,
             ReadScore, StoreScore, ReadCount, StoreCount, CompareCount, NoteFrequency,
             TakeSnapshot, RaiseException, RunWrapped, AssignCount, GiveVerdict, AdmitOne
    <2>4. CASE Leaving(t)
      <3>1. opened[t] > 0 /\ opened[t] \in Nat /\ todo[t] \in {ExitSubgraph, Tail(ExitSubgraph)}
        BY <2>4 DEF ExitInv
      <3>2. call[t].name = "exit"
        BY <2>4 DEF Leaving
      <3>3. CASE todo[t] = ExitSubgraph
        <4>1. Current(t).op = "read"
          BY <3>3, ExitIs DEF Current
        <4>2. ReadCount(t)
          BY <1>2, <4>1 DEF Statement, HashEvent, LinkEvent, WriteLine, WriteFails, FindViolation,
                 ReadScore, StoreScore, StoreCount, CompareCount, NoteFrequency,
                 TakeSnapshot, RaiseException, RunWrapped, AssignCount, GiveVerdict, AdmitOne, At
        <4>3. Advances(t) /\ opened' = opened
          BY <4>2 DEF ReadCount, counting
        <4>4. todo'[t] = PastHandlers(Tail(ExitSubgraph)) /\ Tail(ExitSubgraph) \in Remainder
          BY <2>1, <3>3, <4>3, AdvanceMoves, BusyIs
        <4>5. todo'[t] = Tail(ExitSubgraph)
          BY <4>4, ExitIs, PastHandlersJoined
        <4> QED
          BY <2>2, <2>3, <3>1, <4>3, <4>5 DEF ExitInv, Leaving, Busy
      <3>4. CASE todo[t] = Tail(ExitSubgraph)
        <4>1. Current(t).op = "store"
          BY <3>4, ExitIs DEF Current
        <4>2. StoreCount(t)
          BY <1>2, <4>1 DEF Statement, HashEvent, LinkEvent, WriteLine, WriteFails, FindViolation,
                 ReadScore, StoreScore, ReadCount, CompareCount, NoteFrequency,
                 TakeSnapshot, RaiseException, RunWrapped, AssignCount, GiveVerdict, AdmitOne, At
        <4>3. Advances(t) /\ opened' = [opened EXCEPT ![t] = @ - 1]
          <5>1. opened' = [opened EXCEPT ![t] = @ + IF call[t].name = "exit" THEN -1 ELSE 0]
            BY <4>2 DEF StoreCount
          <5>2. Advances(t)
            BY <4>2 DEF StoreCount
          <5> QED
            BY <3>1, <3>2, <5>1, <5>2 DEF ExitInv
        <4>4. todo'[t] = PastHandlers(<<>>) /\ <<>> \in Remainder
          BY <2>1, <3>4, <4>3, AdvanceMoves, ExitIs, EmptyProgram, Programs
        <4>5. todo'[t] = <<>>
          BY <4>4, PastHandlersJoined
        <4>6. opened' \in [Threads -> Nat] /\ \A u \in Threads \ {t} : opened'[u] = opened[u]
          BY <3>1, <4>3 DEF ExitInv
        <4> QED
          BY <2>2, <2>3, <4>5, <4>6 DEF ExitInv, Leaving, Busy
      <3> QED
        BY <3>1, <3>3, <3>4
    <2>5. CASE ~Leaving(t)
      <3>1. call[t].name # "exit"
        BY <2>1, <2>5 DEF Leaving
      <3>2. opened' = opened
        <4>1. CASE StoreCount(t)
          <5>1. opened' = [opened EXCEPT ![t] = @ + IF call[t].name = "exit" THEN -1 ELSE 0]
            BY <4>1 DEF StoreCount
          <5> QED
            BY <3>1, <5>1 DEF ExitInv
        <4>2. CASE ~StoreCount(t)
          BY <1>2, <4>2 DEF Statement, HashEvent, LinkEvent, WriteLine, WriteFails, FindViolation,
                 ReadScore, StoreScore, ReadCount, CompareCount, NoteFrequency, counting,
                 TakeSnapshot, RaiseException, RunWrapped, AssignCount, GiveVerdict, AdmitOne
        <4> QED
          BY <4>1, <4>2
      <3> QED
        BY <2>2, <2>3, <3>1, <3>2 DEF ExitInv, Leaving, Busy
    <2> QED
      BY <2>4, <2>5
  <1> QED
    BY <1>1, <1>2

-----------------------------------------------------------------------------
(* The chain *)

\* In the middle of an event; and the hash that the file ends with.
Mid(t) == At(t, "link") \/ At(t, "write")
LastFiled == IF lines = <<>> THEN Genesis ELSE lines[Len(lines)].hash
Known(h) == h \in missing \union {LastFiled}

\* One event at a time: it is chained to what is remembered until it is
\* remembered itself, and to the end of the file until it is there.
AloneInv == \A t, u \in Threads : Mid(t) /\ Mid(u) => t = u
MidInv ==
    \A t \in Threads :
        /\ At(t, "link") => draft[t].prev = lastHash
        /\ At(t, "write") => lastHash = draft[t].hash /\ Known(draft[t].prev)
RestInv == (\A t \in Threads : ~At(t, "write")) => Known(lastHash)
LinkedInv ==
    \A i \in 1 .. Len(lines) :
        lines[i].prev \in missing \union {IF i = 1 THEN Genesis ELSE lines[i - 1].hash}

ChainInv == ~overlapped => AloneInv /\ MidInv /\ RestInv /\ LinkedInv

\* Nobody begins or ends an event.
LEMMA ChainFrame ==
  ASSUME ChainInv, UNCHANGED <<ledger, draft>>,
         \A u \in Threads : /\ At(u, "link")' <=> At(u, "link")
                            /\ At(u, "write")' <=> At(u, "write")
  PROVE  ChainInv'
  <1>1. UNCHANGED <<lines, lastHash, overlapped, missing>>
    BY DEF ledger
  <1>2. \A u \in Threads : Mid(u)' <=> Mid(u)
    BY DEF Mid
  <1>3. LastFiled' = LastFiled
    BY <1>1 DEF LastFiled
  <1> SUFFICES ASSUME ~overlapped' PROVE AloneInv' /\ MidInv' /\ RestInv' /\ LinkedInv'
    BY DEF ChainInv
  <1>4. AloneInv /\ MidInv /\ RestInv /\ LinkedInv
    BY <1>1 DEF ChainInv
  <1>5. AloneInv'
    BY <1>2, <1>4 DEF AloneInv
  <1>6. MidInv'
    BY <1>1, <1>3, <1>4 DEF MidInv, Known
  <1>7. RestInv'
    BY <1>1, <1>3, <1>4 DEF RestInv, Known
  <1>8. LinkedInv'
    BY <1>1, <1>4 DEF LinkedInv
  <1> QED
    BY <1>5, <1>6, <1>7, <1>8

\* What a write makes of the lines is linked, and ends with the event last
\* remembered or has lost it.
LEMMA LinesLink ==
  ASSUME LogTypes, LinkedInv, NEW e \in Event, lastHash = e.hash, lastHash' = lastHash,
         Known(e.prev), Added(e) \/ Dropped(e) \/ Spoiled(e)
  PROVE  Known(lastHash)' /\ LinkedInv'
  <1>1. lines \in Seq(Event) /\ Len(lines) \in Nat /\ (lines = <<>> <=> Len(lines) = 0)
    BY LenProperties, EmptySeq DEF LogTypes
  <1>2. CASE Added(e)
    <2>1. /\ Len(lines') = Len(lines) + 1 /\ lines'[Len(lines) + 1] = e
          /\ \A i \in 1 .. Len(lines) : lines'[i] = lines[i]
          /\ lines' \in Seq(Event) /\ missing' = missing
      BY <1>1, <1>2, AppendProperties DEF Added
    <2>2. lines' # <<>>
      BY <1>1, <2>1, EmptySeq
    <2>3. Known(lastHash)'
      <3>1. LastFiled' = e.hash
        BY <2>1, <2>2 DEF LastFiled
      <3> QED
        BY <3>1 DEF Known
    <2>4. ASSUME NEW i \in 1 .. Len(lines) + 1
          PROVE  lines'[i].prev \in missing \union {IF i = 1 THEN Genesis ELSE lines'[i - 1].hash}
      <3>1. CASE i \in 1 .. Len(lines)
        <4>1. i = 1 \/ i - 1 \in 1 .. Len(lines)
          BY <1>1, <3>1
        <4>2. lines[i].prev \in missing \union {IF i = 1 THEN Genesis ELSE lines[i - 1].hash}
          BY <3>1 DEF LinkedInv
        <4> QED
          BY <2>1, <3>1, <4>1, <4>2
      <3>2. CASE i = Len(lines) + 1
        <4>1. e.prev \in missing \union {LastFiled}
          BY DEF Known
        <4>2. LastFiled = IF i = 1 THEN Genesis ELSE lines[i - 1].hash
          BY <1>1, <3>2 DEF LastFiled
        <4>3. i # 1 => i - 1 \in 1 .. Len(lines)
          BY <1>1, <3>2
        <4> QED
          BY <2>1, <3>2, <4>1, <4>2, <4>3
      <3> QED
        BY <1>1, <2>4, <3>1, <3>2
    <2>5. LinkedInv'
      BY <2>1, <2>4 DEF LinkedInv
    <2> QED
      BY <2>3, <2>5
  <1>3. CASE Dropped(e)
    <2>1. lines' = lines /\ missing' = missing \union {e.hash}
      BY <1>3 DEF Dropped
    <2> QED
      BY <2>1 DEF Known, LinkedInv
  <1>4. CASE Spoiled(e)
    <2>1. lines # <<>> /\ missing' = missing \union {e.hash, LastLine.hash}
          /\ lines' = SubSeq(lines, 1, Len(lines) - 1)
      BY <1>4 DEF Spoiled, LogTypes
    <2>2. /\ Len(lines) \in Nat \ {0} /\ Len(lines') = Len(lines) - 1
          /\ \A i \in 1 .. Len(lines) - 1 : lines'[i] = lines[i]
      BY <1>1, <2>1, WithoutLast
    <2>3. ASSUME NEW i \in 1 .. Len(lines')
          PROVE  lines'[i].prev \in missing' \union {IF i = 1 THEN Genesis ELSE lines'[i - 1].hash}
      <3>1. i \in 1 .. Len(lines) /\ i \in 1 .. Len(lines) - 1
            /\ (i = 1 \/ i - 1 \in 1 .. Len(lines) - 1)
        BY <2>2
      <3>2. lines[i].prev \in missing \union {IF i = 1 THEN Genesis ELSE lines[i - 1].hash}
        BY <3>1 DEF LinkedInv
      <3>3. lines'[i] = lines[i] /\ (i # 1 => lines'[i - 1] = lines[i - 1])
        BY <2>2, <3>1
      <3> QED
        BY <2>1, <3>2, <3>3
    <2>4. LinkedInv'
      BY <2>3 DEF LinkedInv
    <2> QED
      BY <2>1, <2>4 DEF Known
  <1> QED
    BY <1>2, <1>3, <1>4

LEMMA ChainStep ==
  ASSUME EngineTypes, ChainInv, NEW t \in Threads, Statement(t)
  PROVE  ChainInv'
  <1> DEFINE Eventful == HashEvent(t) \/ LinkEvent(t) \/ WriteLine(t) \/ WriteFails(t)
  <1>1. CASE GoInto(t)
    <2>1. UNCHANGED <<ledger, draft, todo>>
      BY <1>1 DEF GoInto
    <2> QED
      BY <2>1, ChainFrame, OthersStay
  <1>2. ASSUME ~GoInto(t)
        PROVE  /\ \A u \in Threads \ {t} : /\ At(u, "link")' <=> At(u, "link")
                                           /\ At(u, "write")' <=> At(u, "write")
               /\ At(t, "link")' <=> At(t, "hash")
               /\ At(t, "write")' <=> At(t, "link")
    <2>1. Moves(t) /\ todo \in [Threads -> Remainder]
      BY <1>2, StatementMoves DEF EngineTypes, TodoTypes
    <2> QED
      BY <2>1, MovesOnto, OthersStay
  <1>3. CASE ~GoInto(t) /\ ~Eventful
    <2>1. UNCHANGED <<ledger, draft>>
      BY <1>3 DEF Statement, FindViolation, ReadScore, StoreScore, ReadCount, StoreCount,
             CompareCount, NoteFrequency, TakeSnapshot, RaiseException, RunWrapped, AssignCount,
             GiveVerdict, AdmitOne
    <2>2. ~At(t, "hash") /\ ~At(t, "link") /\ ~At(t, "write")
      BY <1>3 DEF Statement, FindViolation, ReadScore, StoreScore, ReadCount, StoreCount,
             CompareCount, NoteFrequency, TakeSnapshot, RaiseException, RunWrapped, AssignCount,
             GiveVerdict, AdmitOne, At
    <2> QED
      BY <1>2, <1>3, <2>1, <2>2, ChainFrame
  <1>4. CASE ~GoInto(t) /\ Eventful
    <2> SUFFICES ASSUME ~overlapped' PROVE AloneInv' /\ MidInv' /\ RestInv' /\ LinkedInv'
      BY DEF ChainInv
    <2>1. ~overlapped
      BY <1>4, Zenon DEF HashEvent, LinkEvent, WriteLine, WriteFails
    <2>2. AloneInv /\ MidInv /\ RestInv /\ LinkedInv
      BY <2>1 DEF ChainInv
    <2>3. /\ lines \in Seq(Event) /\ Len(lines) \in Nat /\ (lines = <<>> <=> Len(lines) = 0)
          /\ draft = [u \in Threads |-> draft[u]]
      BY LenProperties, EmptySeq DEF EngineTypes, LogTypes, LocalTypes
    <2>4. /\ \A u \in Threads \ {t} : /\ At(u, "link")' <=> At(u, "link")
                                      /\ At(u, "write")' <=> At(u, "write")
          /\ At(t, "link")' <=> At(t, "hash")
          /\ At(t, "write")' <=> At(t, "link")
      BY <1>2, <1>4
    <2>5. CASE HashEvent(t)
      <3>1. /\ At(t, "hash") /\ ~At(t, "link") /\ ~At(t, "write")
            /\ UNCHANGED <<lines, lastHash, missing>>
        BY <2>5 DEF HashEvent, At
      <3>2. \A u \in Threads \ {t} : ~At(u, "link") /\ ~At(u, "write")
        BY <2>5 DEF HashEvent
      <3>3. \A u \in Threads : ~At(u, "write")
        BY <3>1, <3>2
      <3>4. draft'[t].prev = lastHash
        BY <2>3, <2>5 DEF HashEvent
      <3>5. Known(lastHash) /\ Known(lastHash)'
        BY <2>2, <3>1, <3>3 DEF RestInv, Known, LastFiled
      <3>6. AloneInv'
        BY <2>4, <3>1, <3>2 DEF AloneInv, Mid
      <3>7. MidInv'
        BY <2>4, <3>1, <3>2, <3>4 DEF MidInv
      <3>8. RestInv'
        BY <3>5 DEF RestInv
      <3>9. LinkedInv'
        BY <2>2, <3>1 DEF LinkedInv
      <3> QED
        BY <3>6, <3>7, <3>8, <3>9
    <2>6. CASE LinkEvent(t)
      <3>1. /\ At(t, "link") /\ ~At(t, "write") /\ ~At(t, "hash") /\ lastHash' = draft[t].hash
            /\ UNCHANGED <<lines, missing, draft>>
        BY <2>6 DEF LinkEvent, At
      <3>2. \A u \in Threads \ {t} : ~At(u, "link") /\ ~At(u, "write")
        BY <2>2, <3>1 DEF AloneInv, Mid
      <3>3. \A u \in Threads : ~At(u, "write")
        BY <3>1, <3>2
      <3>4. draft[t].prev = lastHash
        BY <2>2, <3>1 DEF MidInv
      <3>5. Known(draft[t].prev) /\ Known(draft[t].prev)'
        BY <2>2, <3>1, <3>3, <3>4 DEF RestInv, Known, LastFiled
      <3>6. AloneInv'
        BY <2>4, <3>1, <3>2 DEF AloneInv, Mid
      <3>7. MidInv'
        BY <2>4, <3>1, <3>2, <3>5 DEF MidInv
      <3>8. RestInv'
        BY <2>4, <3>1 DEF RestInv
      <3>9. LinkedInv'
        BY <2>2, <3>1 DEF LinkedInv
      <3> QED
        BY <3>6, <3>7, <3>8, <3>9
    <2>7. CASE WriteLine(t) \/ WriteFails(t)
      <3>1. /\ At(t, "write") /\ ~At(t, "link") /\ ~At(t, "hash")
            /\ UNCHANGED <<lastHash, draft>>
        BY <2>7 DEF WriteLine, WriteFails, At
      <3>2. \A u \in Threads \ {t} : ~At(u, "link") /\ ~At(u, "write")
        BY <2>2, <3>1 DEF AloneInv, Mid
      <3>3. lastHash = draft[t].hash /\ Known(draft[t].prev)
        BY <2>2, <3>1 DEF MidInv
      <3>4. draft[t] \in Event
        BY EventType
      <3>5. Added(draft[t]) \/ Dropped(draft[t]) \/ Spoiled(draft[t])
        BY <2>7, WriteOutcomes
      <3>6. Known(lastHash)' /\ LinkedInv'
        BY <2>2, <3>1, <3>3, <3>4, <3>5, LinesLink DEF EngineTypes
      <3>7. AloneInv'
        BY <2>4, <3>1, <3>2 DEF AloneInv, Mid
      <3>8. MidInv'
        BY <2>4, <3>1, <3>2 DEF MidInv
      <3>9. RestInv'
        BY <3>6 DEF RestInv
      <3> QED
        BY <3>6, <3>7, <3>8, <3>9
    <2> QED
      BY <1>4, <2>5, <2>6, <2>7
  <1> QED
    BY <1>1, <1>3, <1>4

-----------------------------------------------------------------------------
(* The ledger *)

\* A violation is counted, and its line is not written yet.
Owing(s, kind) ==
    \/ Len(s) >= 1 /\ Content(s[1])
    \/ Len(s) >= 2 /\ s[1].op = "storeScore" /\ Content(s[2])
    \/ Len(s) >= 3 /\ s[1].op = "readScore" /\ Content(s[3])
    \/ Len(s) >= 1 /\ s[1].op \in {"link", "write"} /\ kind = "content"

Owes(t) == Owing(todo[t], draft[t].kind)
Owers == {t \in Threads : Owes(t)}

LedgerInv == violations = Filed("content") + unwritten + Cardinality(Owers)

LEMMA OwnsNothing ==
  ASSUME NEW s \in Program, NEW kind
  PROVE  ~Owing(s, kind)
  <1>1. s \in Seq(Stmt) /\ Len(s) \in Nat /\ Fresh(s)
    BY LenProperties DEF Program, Whole
  <1>2. /\ Len(s) >= 1 => ~Content(s[1]) /\ s[1].op \notin {"link", "write", "storeScore"}
        /\ Len(s) >= 3 => ~Content(s[3])
    BY <1>1 DEF Fresh
  <1> QED
    BY <1>2 DEF Owing

\* Finding a violation makes a debt, writing pays it; other statements pass
\* it on.
LEMMA OwingMoves ==
  ASSUME todo \in [Threads -> Remainder], NEW t \in Threads, Moves(t), NEW k, NEW m
  PROVE  /\ Current(t).op = "find" => ~Owing(todo[t], k) /\ Owing(todo'[t], m)
         /\ Current(t).op \in {"readScore", "storeScore", "link"} /\ m = k =>
                (Owing(todo'[t], m) <=> Owing(todo[t], k))
         /\ Current(t).op = "hash" /\ m = Current(t).kind =>
                (Owing(todo'[t], m) <=> Owing(todo[t], k))
         /\ Current(t).op = "write" => ~Owing(todo'[t], m) /\ (Owing(todo[t], k) <=> k = "content")
         /\ Current(t).op \notin {"find", "readScore", "storeScore", "hash", "link", "write"} =>
                ~Owing(todo'[t], m) /\ ~Owing(todo[t], k)
  <1> DEFINE s == todo[t]
             d == todo'[t]
  <1>1. s \in Remainder /\ s # <<>> /\ Current(t) = s[1] /\ Len(s) \in Nat /\ Len(s) >= 1
    BY BusyIs DEF Moves
  <1>2. CASE Steps(t)
    <2>1. /\ d = Tail(s) /\ Len(s) >= 2 /\ Len(d) = Len(s) - 1
          /\ \A i \in 1 .. Len(s) - 1 : d[i] = s[i + 1]
      <3>1. d = Tail(s) /\ Len(s) >= 2
        BY <1>1, <1>2, StepsOnto DEF Steps
      <3>2. Suffix(Tail(s), s, 1)
        BY <1>1, TailSuffix
      <3>3. Len(Tail(s)) = Len(s) - 1 /\ \A i \in 1 .. Len(s) - 1 : Tail(s)[i] = s[1 + i]
        BY <3>2 DEF Suffix
      <3>4. \A i \in 1 .. Len(s) - 1 : 1 + i = i + 1
        OBVIOUS
      <3> QED
        BY <3>1, <3>3, <3>4
    <2>2. /\ d[1] = s[2]
          /\ Len(s) >= 3 => d[2] = s[3]
          /\ Len(s) >= 4 => d[3] = s[4]
      BY <1>1, <2>1
    <2>3. /\ s[1].op = "hash" => s[2].op = "link"
          /\ s[1].op = "link" => s[2].op = "write"
          /\ s[1].op = "readScore" => s[2].op = "storeScore"
          /\ s[1].op = "find" => s[2].op = "readScore" /\ s[3].op = "storeScore"
                                 /\ Content(s[4]) /\ Len(s) >= 4
          /\ s[1].op = "storeScore" => Content(s[2])
          /\ s[1].op \in {"hash", "link", "readScore", "find", "storeScore"}
      BY <1>1, <1>2, StepsOnto DEF Steps
    <2> HIDE DEF s, d
    <2>4. s[1].op = "find" => ~Owing(s, k) /\ Owing(d, m)
      BY <1>1, <2>1, <2>2, <2>3 DEF Owing, Content
    <2>5. s[1].op = "readScore" /\ m = k => (Owing(d, m) <=> Owing(s, k))
      BY <1>1, <2>1, <2>2, <2>3 DEF Owing, Content
    <2>6. s[1].op = "storeScore" /\ m = k => (Owing(d, m) <=> Owing(s, k))
      BY <1>1, <2>1, <2>2, <2>3 DEF Owing, Content
    <2>7. s[1].op = "link" /\ m = k => (Owing(d, m) <=> Owing(s, k))
      BY <1>1, <2>1, <2>2, <2>3 DEF Owing, Content
    <2>8. s[1].op = "hash" /\ m = s[1].kind => (Owing(d, m) <=> Owing(s, k))
      BY <1>1, <2>1, <2>2, <2>3 DEF Owing, Content
    <2> QED
      BY <1>1, <2>3, <2>4, <2>5, <2>6, <2>7, <2>8 DEF s, d
  <1>3. CASE Leaps(t)
    <2>1. ~Owing(d, m)
      BY <1>3, OwnsNothing DEF Leaps
    <2>2. /\ s[1].op \notin {"hash", "link", "find", "readScore"}
          /\ s[1].op = "storeScore" /\ 2 <= Len(s) => ~Content(s[2])
      BY <1>3 DEF Leaps, CutsNothing
    <2> HIDE DEF s, d
    <2>3. s[1].op = "write" => (Owing(s, k) <=> k = "content")
      BY <1>1 DEF Owing, Content
    <2>4. s[1].op # "write" => ~Owing(s, k)
      BY <1>1, <2>2 DEF Owing, Content
    <2> QED
      BY <1>1, <2>1, <2>2, <2>3, <2>4 DEF s, d
  <1> QED
    BY <1>2, <1>3 DEF Moves

\* The debts of the other threads stay.
LEMMA OwersChange ==
  ASSUME IsFiniteSet(Threads), NEW t \in Threads,
         \A u \in Threads \ {t} : Owes(u)' <=> Owes(u)
  PROVE  /\ Cardinality(Owers) \in Nat
         /\ (Owes(t)' <=> Owes(t)) => Cardinality(Owers)' = Cardinality(Owers)
         /\ Owes(t)' /\ ~Owes(t) => Cardinality(Owers)' = Cardinality(Owers) + 1
         /\ ~Owes(t)' /\ Owes(t) => Cardinality(Owers)' = Cardinality(Owers) - 1
  <1>1. IsFiniteSet(Owers) /\ Owers \subseteq Threads
    BY FS_Subset DEF Owers
  <1>2. Cardinality(Owers) \in Nat
    BY <1>1, FS_CardinalityType
  <1>3. ASSUME Owes(t)' <=> Owes(t) PROVE Owers' = Owers
    BY <1>3 DEF Owers
  <1>4. ASSUME Owes(t)', ~Owes(t) PROVE Owers' = Owers \union {t} /\ t \notin Owers
    BY <1>4 DEF Owers
  <1>5. ASSUME ~Owes(t)', Owes(t) PROVE Owers' = Owers \ {t} /\ t \in Owers
    BY <1>5 DEF Owers
  <1>6. ASSUME Owes(t)', ~Owes(t) PROVE Cardinality(Owers)' = Cardinality(Owers) + 1
    BY <1>1, <1>4, <1>6, FS_AddElement
  <1>7. ASSUME ~Owes(t)', Owes(t) PROVE Cardinality(Owers)' = Cardinality(Owers) - 1
    BY <1>1, <1>5, <1>7, FS_RemoveElement
  <1> QED
    BY <1>2, <1>3, <1>6, <1>7

LEMMA SegmentFinite ==
  ASSUME NEW n \in Nat
  PROVE  IsFiniteSet(1 .. n)
  <1>1. 1 \in Int /\ n \in Int
    OBVIOUS
  <1> QED
    BY <1>1, FS_Interval

LEMMA FiledAppend ==
  ASSUME lines \in Seq(Event), NEW e \in Event, lines' = Append(lines, e), NEW k
  PROVE  /\ Filed(k) \in Nat
         /\ Filed(k)' = Filed(k) + (IF e.kind = k THEN 1 ELSE 0)
  <1> DEFINE n == Len(lines)
             F == {i \in 1 .. n : lines[i].kind = k}
             G == {i \in 1 .. Len(lines') : lines'[i].kind = k}
  <1>1. n \in Nat
    BY LenProperties
  <1>2. /\ Len(lines') = n + 1 /\ lines'[n + 1] = e
        /\ \A i \in 1 .. n : lines'[i] = lines[i]
    BY AppendProperties
  <1>3. IsFiniteSet(1 .. n)
    BY <1>1, FS_Interval
  <1>4. IsFiniteSet(F) /\ n + 1 \notin F
    BY <1>1, <1>3, FS_Subset
  <1>5. G = IF e.kind = k THEN F \union {n + 1} ELSE F
    BY <1>1, <1>2
  <1>6. Cardinality(F) \in Nat
    BY <1>4, FS_CardinalityType
  <1>7. Cardinality(F \union {n + 1}) = Cardinality(F) + 1
    BY <1>4, FS_AddElement
  <1> HIDE DEF F, G
  <1>8. Cardinality(G) = Cardinality(F) + (IF e.kind = k THEN 1 ELSE 0)
    BY <1>5, <1>6, <1>7
  <1> QED
    BY <1>6, <1>8 DEF Filed, F, G

LEMMA FiledDrop ==
  ASSUME lines \in Seq(Event), lines # <<>>, lines' = SubSeq(lines, 1, Len(lines) - 1)
  PROVE  /\ Filed("content") = Filed("content")' + OnContent(LastLine)
         /\ OnContent(LastLine) \in Nat
  <1> DEFINE n == Len(lines) - 1
             F == {i \in 1 .. Len(lines) : lines[i].kind = "content"}
             G == {i \in 1 .. Len(lines') : lines'[i].kind = "content"}
  <1>1. /\ n \in Nat /\ Len(lines) = n + 1 /\ Len(lines') = n
        /\ \A i \in 1 .. n : lines'[i] = lines[i]
        /\ LastLine = lines[n + 1]
    BY WithoutLast
  <1>2. IsFiniteSet(1 .. n)
    BY <1>1, FS_Interval
  <1>3. IsFiniteSet(G) /\ n + 1 \notin G
    BY <1>1, <1>2, FS_Subset
  <1>4. F = IF LastLine.kind = "content" THEN G \union {n + 1} ELSE G
    BY <1>1
  <1>5. Cardinality(G) \in Nat
    BY <1>3, FS_CardinalityType
  <1>6. Cardinality(G \union {n + 1}) = Cardinality(G) + 1
    BY <1>3, FS_AddElement
  <1> HIDE DEF F, G
  <1>7. Cardinality(F) = Cardinality(G) + OnContent(LastLine)
    BY <1>4, <1>5, <1>6 DEF OnContent
  <1> QED
    BY <1>7 DEF Filed, F, G, OnContent

LEMMA FiledType ==
  ASSUME lines \in Seq(Event), NEW k
  PROVE  Filed(k) \in Nat
  <1>1. IsFiniteSet(1 .. Len(lines))
    BY LenProperties, FS_Interval
  <1>2. IsFiniteSet({i \in 1 .. Len(lines) : lines[i].kind = k})
    BY <1>1, FS_Subset
  <1> QED
    BY <1>2, FS_CardinalityType DEF Filed

LEMMA LedgerStep ==
  ASSUME EngineTypes, LedgerInv, EngineAssumption, NEW t \in Threads, Statement(t)
  PROVE  LedgerInv'
  <1>1. /\ lines \in Seq(Event) /\ unwritten \in Nat /\ violations \in Nat
        /\ todo \in [Threads -> Remainder] /\ draft = [u \in Threads |-> draft[u]]
    BY DEF EngineTypes, TodoTypes, LogTypes, CountTypes, LocalTypes
  <1>2. IsFiniteSet(Threads)
    BY DEF EngineAssumption
  <1> DEFINE owed == Cardinality(Owers)
             filed == Filed("content")
  <1>3. filed \in Nat
    BY <1>1, FiledType
  <1>4. CASE GoInto(t)
    <2>1. UNCHANGED <<violations, lines, unwritten, todo, draft>>
      BY <1>4 DEF GoInto, ledger, marks
    <2> QED
      BY <2>1 DEF LedgerInv, Filed, Owers, Owes
  <1>5. CASE ~GoInto(t)
    <2>1. Moves(t) /\ Busy(t)
      BY <1>5, StatementMoves
    <2>2. draft' = draft \/ HashEvent(t)
      BY <1>5 DEF Statement, LinkEvent, WriteLine, WriteFails, FindViolation,
             ReadScore, StoreScore, ReadCount, StoreCount, CompareCount, NoteFrequency,
             TakeSnapshot, RaiseException, RunWrapped, AssignCount, GiveVerdict, AdmitOne
    <2>3. \A u \in Threads \ {t} : draft'[u] = draft[u]
      BY <1>1, <2>2 DEF HashEvent
    <2>4. \A u \in Threads \ {t} : Owes(u)' <=> Owes(u)
      BY <1>1, <2>1, <2>3, MovesOnto DEF Owes
    <2>5. /\ owed \in Nat
          /\ (Owes(t)' <=> Owes(t)) => owed' = owed
          /\ Owes(t)' /\ ~Owes(t) => owed' = owed + 1
          /\ ~Owes(t)' /\ Owes(t) => owed' = owed - 1
      BY <1>2, <2>4, OwersChange
    <2> HIDE DEF owed, filed
    <2>6. violations = filed + unwritten + owed
      BY DEF LedgerInv, owed, filed
    <2>16. unwritten \in Nat /\ filed \in Nat /\ owed \in Nat
      BY <1>1, <1>3, <2>5
    <2>7. ASSUME violations' = filed' + unwritten' + owed' PROVE LedgerInv'
      BY <2>7 DEF LedgerInv, owed, filed
    <2>8. ASSUME lines' = lines PROVE filed' = filed
      BY <2>8 DEF filed, Filed
    <2>9. /\ Current(t).op = "find" => ~Owes(t) /\ Owes(t)'
          /\ Current(t).op \in {"readScore", "storeScore", "link"} /\ draft' = draft =>
                 (Owes(t)' <=> Owes(t))
          /\ Current(t).op = "hash" /\ draft'[t].kind = Current(t).kind =>
                 (Owes(t)' <=> Owes(t))
          /\ Current(t).op = "write" => ~Owes(t)' /\ (Owes(t) <=> draft[t].kind = "content")
          /\ Current(t).op \notin {"find", "readScore", "storeScore", "hash", "link", "write"} =>
                 ~Owes(t)' /\ ~Owes(t)
      <3> DEFINE k == draft[t].kind
                 m == draft'[t].kind
      <3>1. /\ Current(t).op = "find" => ~Owing(todo[t], k) /\ Owing(todo'[t], m)
            /\ Current(t).op \in {"readScore", "storeScore", "link"} /\ m = k =>
                   (Owing(todo'[t], m) <=> Owing(todo[t], k))
            /\ Current(t).op = "hash" /\ m = Current(t).kind =>
                   (Owing(todo'[t], m) <=> Owing(todo[t], k))
            /\ Current(t).op = "write" => ~Owing(todo'[t], m) /\ (Owing(todo[t], k) <=> k = "content")
            /\ Current(t).op \notin {"find", "readScore", "storeScore", "hash", "link", "write"} =>
                   ~Owing(todo'[t], m) /\ ~Owing(todo[t], k)
        BY <1>1, <2>1, OwingMoves
      <3>2. (Owes(t)' <=> Owing(todo'[t], m)) /\ (Owes(t) <=> Owing(todo[t], k))
        BY DEF Owes
      <3> QED
        BY <3>1, <3>2
    <2>10. CASE FindViolation(t)
      <3>1. /\ Current(t).op = "find" /\ violations' = violations + 1
            /\ UNCHANGED <<lines, unwritten>>
        BY <2>10 DEF FindViolation, ledger, At
      <3>2. owed' = owed + 1 /\ filed' = filed
        BY <2>5, <2>8, <2>9, <3>1
      <3>3. violations' = filed' + unwritten' + owed'
        BY <2>6, <2>16, <3>1, <3>2
      <3> QED
        BY <2>7, <3>3
    <2>11. CASE HashEvent(t)
      <3>1. /\ Current(t).op = "hash" /\ draft'[t].kind = Current(t).kind
            /\ UNCHANGED <<violations, lines, unwritten>>
        BY <1>1, <2>11 DEF HashEvent, marks, At
      <3> QED
        BY <2>5, <2>6, <2>7, <2>8, <2>9, <3>1
    <2>12. CASE LinkEvent(t) \/ ReadScore(t) \/ StoreScore(t)
      <3>1. /\ Current(t).op \in {"readScore", "storeScore", "link"} /\ draft' = draft
            /\ UNCHANGED <<violations, lines, unwritten>>
        BY <2>12 DEF LinkEvent, ReadScore, StoreScore, ledger, marks, At
      <3> QED
        BY <2>5, <2>6, <2>7, <2>8, <2>9, <3>1
    <2>13. CASE WriteLine(t) \/ WriteFails(t)
      <3>1. Current(t).op = "write" /\ violations' = violations
        BY <2>13 DEF WriteLine, WriteFails, marks, At
      <3>2. draft[t] \in Event
        BY EventType
      <3>3. Added(draft[t]) \/ Dropped(draft[t]) \/ Spoiled(draft[t])
        BY <2>13, WriteOutcomes
      <3> DEFINE n == OnContent(draft[t])
      <3>4. owed' = owed - n /\ n \in Nat
        BY <2>5, <2>9, <3>1 DEF OnContent
      <3>5. filed' \in Nat /\ filed' + unwritten' = filed + unwritten + n
        <4> DEFINE m == OnContent(LastLine)
        <4>1. CASE Added(draft[t])
          <5>1. filed' = filed + n /\ unwritten' = unwritten
            BY <1>1, <3>2, <4>1, FiledAppend DEF Added, filed, OnContent
          <5> QED
            BY <2>16, <3>4, <5>1
        <4>2. CASE Dropped(draft[t])
          <5>1. filed' = filed /\ unwritten' = unwritten + n
            BY <2>8, <4>2 DEF Dropped
          <5> QED
            BY <2>16, <3>4, <5>1
        <4>3. CASE Spoiled(draft[t])
          <5>1. lines # <<>>
            BY <4>3 DEF Spoiled, EngineTypes, LogTypes
          <5>2. filed = filed' + m /\ m \in Nat
            BY <1>1, <4>3, <5>1, FiledDrop DEF Spoiled, filed
          <5>3. unwritten' = unwritten + n + m
            BY <4>3 DEF Spoiled
          <5>4. filed' \in Nat
            <6> DEFINE K == {i \in 1 .. Len(lines') : lines'[i].kind = "content"}
            <6>1. lines' \in Seq(Event)
              BY <1>1, <4>3, <5>1, WithoutLast DEF Spoiled
            <6>2. Len(lines') \in Nat /\ K \subseteq 1 .. Len(lines')
              BY <6>1, LenProperties
            <6>3. IsFiniteSet(1 .. Len(lines'))
              BY <6>2, SegmentFinite, Zenon
            <6>4. IsFiniteSet(K)
              BY <6>2, <6>3, FS_Subset
            <6>5. Cardinality(K) \in Nat
              BY <6>4, FS_CardinalityType
            <6> QED
              BY <6>5 DEF filed, Filed
          <5> HIDE DEF n, m
          <5> QED
            BY <2>16, <3>4, <5>2, <5>3, <5>4
        <4> QED
          BY <3>3, <4>1, <4>2, <4>3
      <3>6. unwritten' \in Nat
        <4>1. LogTypes'
          BY <2>13, EventStep
        <4> QED
          BY <4>1 DEF LogTypes
      <3> HIDE DEF n
      <3>7. violations' = filed' + unwritten' + owed'
        <4> DEFINE f == filed'
                   w == unwritten'
                   o == owed'
        <4>1. f \in Nat /\ w \in Nat /\ o = owed - n /\ f + w = filed + unwritten + n
          BY <3>4, <3>5, <3>6
        <4> HIDE DEF f, w, o
        <4>2. f + w + o = filed + unwritten + owed
          BY <2>16, <3>4, <4>1
        <4> QED
          BY <2>6, <3>1, <4>2 DEF f, w, o
      <3> QED
        BY <2>7, <3>7
    <2>15. CASE ~(FindViolation(t) \/ HashEvent(t) \/ LinkEvent(t) \/ ReadScore(t)
                  \/ StoreScore(t) \/ WriteLine(t) \/ WriteFails(t))
      <3>1. UNCHANGED <<violations, lines, unwritten>>
        BY <1>5, <2>15 DEF Statement, ReadCount, StoreCount, CompareCount, NoteFrequency,
             TakeSnapshot, RaiseException, RunWrapped, AssignCount, GiveVerdict, AdmitOne,
             ledger, marks
      <3>2. Current(t).op \notin {"find", "readScore", "storeScore", "hash", "link", "write"}
        BY <1>5, <2>15 DEF Statement, ReadCount, StoreCount, CompareCount, NoteFrequency,
             TakeSnapshot, RaiseException, RunWrapped, AssignCount, GiveVerdict, AdmitOne, At
      <3> QED
        BY <2>5, <2>6, <2>7, <2>8, <2>9, <3>1, <3>2
    <2> QED
      BY <2>10, <2>11, <2>12, <2>13, <2>15
  <1> QED
    BY <1>4, <1>5

\* What the file's unfinished end may still cost: itself or the next line, or
\* both; and what has been lost so far, against the faults.
Pending == IF tail = "sealed" THEN 0 ELSE IF tail = "torn" THEN 1 ELSE 2
CostInv ==
    /\ unwritten + Pending <= 2 * faults
    /\ faults = 0 => missing = {}

LEMMA TwoEach ==
  ASSUME NEW u \in Nat, NEW v \in Nat, NEW p \in Nat, NEW q \in Nat, NEW f \in Nat,
         u + p <= 2 * f, v + q <= (u + p) + 2
  PROVE  v + q <= 2 * (f + 1)
  OBVIOUS

LEMMA CostFrame ==
  ASSUME EngineTypes, CostInv, UNCHANGED ledger, faults' = faults \/ faults' = faults + 1
  PROVE  CostInv'
  <1>1. UNCHANGED <<tail, unwritten, missing>>
    BY DEF ledger
  <1>2. unwritten \in Nat /\ faults \in Nat /\ Pending \in Nat /\ Pending' = Pending
    BY <1>1 DEF EngineTypes, LogTypes, CountTypes, Pending
  <1> HIDE DEF Pending
  <1>3. unwritten' + Pending' <= 2 * faults'
    BY <1>1, <1>2 DEF CostInv
  <1>4. faults' = 0 => missing' = {}
    BY <1>1, <1>2 DEF CostInv
  <1> QED
    BY <1>3, <1>4 DEF CostInv

LEMMA StepLog ==
  ASSUME EngineTypes, NEW t \in Threads, WriteLine(t) \/ WriteFails(t)
  PROVE  LogTypes'
  <1>1. UNCHANGED <<lastHash, made>>
    BY DEF WriteLine, WriteFails
  <1> QED
    BY <1>1, EventType, WriteOutcomes, OutcomeTypes DEF EngineTypes

LEMMA CostStep ==
  ASSUME EngineTypes, CostInv, NEW t \in Threads, Statement(t)
  PROVE  CostInv'
  <1>1. /\ unwritten \in Nat /\ faults \in Nat /\ tail \in Ends
        /\ unwritten + Pending <= 2 * faults
    BY DEF EngineTypes, LogTypes, CountTypes, CostInv
  <1>2. \A e : OnContent(e) \in 0 .. 1
    BY DEF OnContent
  <1>3. CASE WriteLine(t)
    <2>1. /\ faults' = faults /\ tail' = "sealed"
          /\ \/ Added(draft[t])
             \/ Dropped(draft[t]) /\ tail = "torn"
             \/ Spoiled(draft[t])
      BY <1>3, WriteOutcomes
    <2>2. unwritten' <= 2 * faults
      <3>1. CASE Added(draft[t])
        BY <1>1, <3>1 DEF Added, Pending, Ends
      <3>2. CASE Dropped(draft[t]) /\ tail = "torn"
        BY <1>1, <1>2, <3>2 DEF Dropped, Pending
      <3>3. CASE Spoiled(draft[t])
        <4>1. unwritten' = unwritten + OnContent(draft[t]) + OnContent(LastLine) /\ tail = "bare"
          BY <3>3 DEF Spoiled
        <4> QED
          BY <1>1, <1>2, <4>1 DEF Pending
      <3> QED
        BY <2>1, <3>1, <3>2, <3>3
    <2>3. unwritten' \in Nat
      BY <1>3, StepLog DEF LogTypes
    <2>4. Pending' = 0
      BY <2>1 DEF Pending
    <2>5. faults' = 0 => missing' = {}
      <3>1. CASE Added(draft[t])
        BY <2>1, <3>1 DEF Added, CostInv
      <3>2. CASE tail # "sealed"
        <4>1. Pending >= 1 /\ Pending \in Nat
          BY <3>2 DEF Pending
        <4> HIDE DEF Pending
        <4>2. faults # 0
          BY <1>1, <4>1
        <4> QED
          BY <2>1, <4>2
      <3> QED
        BY <2>1, <3>1, <3>2 DEF Spoiled
    <2> QED
      BY <2>1, <2>2, <2>3, <2>4, <2>5 DEF CostInv
  <1>4. CASE WriteFails(t)
    <2>1. faults' = faults + 1 /\ (Added(draft[t]) \/ Dropped(draft[t]) \/ Spoiled(draft[t]))
      BY <1>4, WriteOutcomes
    <2>2. unwritten' + Pending' <= (unwritten + Pending) + 2
      <3>1. CASE Added(draft[t])
        <4>1. /\ unwritten' = unwritten /\ Pending = 0
              /\ Pending' = 0 \/ Pending' = 2
          BY <3>1 DEF Added, Pending
        <4> QED
          BY <1>1, <4>1
      <3>2. CASE Dropped(draft[t])
        <4>1. unwritten' = unwritten + OnContent(draft[t])
          BY <3>2 DEF Dropped
        <4>2. Pending \in Nat /\ Pending' \in Nat /\ Pending' <= Pending + 1
          BY <1>1, <3>2 DEF Dropped, Pending, Ends
        <4> QED
          BY <1>1, <1>2, <4>1, <4>2
      <3>3. CASE Spoiled(draft[t])
        <4>1. /\ unwritten' = unwritten + OnContent(draft[t]) + OnContent(LastLine)
              /\ Pending = 2 /\ Pending' \in {0, 1}
          BY <3>3 DEF Spoiled, Pending
        <4> QED
          BY <1>1, <1>2, <4>1
      <3> QED
        BY <2>1, <3>1, <3>2, <3>3
    <2>3. unwritten' \in Nat
      BY <1>4, StepLog DEF LogTypes
    <2>4. Pending \in Nat /\ Pending' \in Nat
      BY DEF Pending
    <2>5. unwritten' + Pending' <= 2 * faults'
      BY <1>1, <2>1, <2>2, <2>3, <2>4, TwoEach
    <2> QED
      BY <1>1, <2>1, <2>5 DEF CostInv
  <1>5. CASE ~WriteLine(t) /\ ~WriteFails(t)
    <2>1. /\ UNCHANGED <<tail, missing, unwritten>>
          /\ faults' = faults \/ faults' = faults + 1
      BY <1>5, Zenon DEF Statement, HashEvent, LinkEvent, FindViolation, ReadScore, StoreScore,
         ReadCount, StoreCount, CompareCount, NoteFrequency, TakeSnapshot, RaiseException,
         RunWrapped, GoInto, AssignCount, GiveVerdict, AdmitOne, ledger
    <2>2. Pending' = Pending /\ Pending \in Nat
      BY <2>1 DEF Pending
    <2>3. unwritten' + Pending' <= 2 * faults'
      BY <1>1, <2>1, <2>2
    <2>4. faults' = 0 => missing' = {}
      BY <1>1, <2>1 DEF CostInv
    <2> QED
      BY <2>3, <2>4 DEF CostInv
  <1> QED
    BY <1>3, <1>4, <1>5

-----------------------------------------------------------------------------
(* Gates: from tier 3 on, what may report something is followed by a         *)
(* statement that raises an exception, and by no handler that takes it.      *)

\* A statement that files a finding, or branches to one, or handles an
\* exception with one; and one that raises if there was one.
Reports(x) == x.op = "hash" /\ x.kind # "note"
Tells(s) == \E i \in 1 .. Len(s) : Reports(s[i])
Branches(x) == x.op = "compare" /\ (Tells(x.over) \/ Tells(x.within))
Handles(x) ==
    x.op = "except" /\ \E i \in 1 .. Len(x.body) : Reports(x.body[i]) \/ Branches(x.body[i])
MayReport(x) == Reports(x) \/ Branches(x) \/ Handles(x)
Stops(x) == x.op \in {"raise", "verdict"}

\* Without a report; without a handler; bound to raise; and with no report
\* that is not bound to raise.
Quiet(s) == \A i \in 1 .. Len(s) : ~MayReport(s[i])
Straight(s) == \A i \in 1 .. Len(s) : s[i].op # "except"
Doomed(s) == Straight(s) /\ \E i \in 1 .. Len(s) : Stops(s[i])
Gated(s) ==
    \A i \in 1 .. Len(s) : MayReport(s[i]) =>
        /\ s[i].op # "except"
        /\ \E j \in 1 .. Len(s) : j > i /\ Stops(s[j])
        /\ \A j \in 1 .. Len(s) : j > i => s[j].op # "except"

LEMMA ConcatParts ==
  ASSUME NEW a \in Seq(Stmt), NEW b \in Seq(Stmt), NEW i \in 1 .. Len(a \o b)
  PROVE  \/ i \in 1 .. Len(a) /\ (a \o b)[i] = a[i]
         \/ i - Len(a) \in 1 .. Len(b) /\ i > Len(a) /\ (a \o b)[i] = b[i - Len(a)]
  <1>1. /\ Len(a) \in Nat /\ Len(b) \in Nat /\ Len(a \o b) = Len(a) + Len(b)
        /\ \A k \in 1 .. Len(a) : (a \o b)[k] = a[k]
        /\ \A k \in 1 .. Len(b) : (a \o b)[Len(a) + k] = b[k]
    BY ConcatAt
  <1>2. CASE i <= Len(a)
    BY <1>1, <1>2
  <1>3. CASE i > Len(a)
    <2>1. i - Len(a) \in 1 .. Len(b) /\ Len(a) + (i - Len(a)) = i
      BY <1>1, <1>3
    <2> QED
      BY <1>1, <1>3, <2>1
  <1> QED
    BY <1>1, <1>2, <1>3

LEMMA QuietConcat ==
  ASSUME NEW a \in Seq(Stmt), NEW b \in Seq(Stmt)
  PROVE  /\ Quiet(a) /\ Quiet(b) => Quiet(a \o b)
         /\ Straight(a) /\ Straight(b) => Straight(a \o b)
  BY ConcatParts DEF Quiet, Straight

LEMMA DoomedConcat ==
  ASSUME NEW a \in Seq(Stmt), NEW b \in Seq(Stmt), Straight(a), Straight(b), Doomed(a) \/ Doomed(b)
  PROVE  Doomed(a \o b)
  <1>1. Straight(a \o b)
    BY QuietConcat
  <1>2. /\ Len(a) \in Nat /\ Len(b) \in Nat /\ Len(a \o b) = Len(a) + Len(b)
        /\ \A k \in 1 .. Len(a) : (a \o b)[k] = a[k]
        /\ \A k \in 1 .. Len(b) : (a \o b)[Len(a) + k] = b[k]
    BY ConcatAt
  <1>3. CASE Doomed(a)
    <2>1. PICK i \in 1 .. Len(a) : Stops(a[i])
      BY <1>3 DEF Doomed
    <2>2. i \in 1 .. Len(a \o b) /\ Stops((a \o b)[i])
      BY <1>2, <2>1
    <2> QED
      BY <1>1, <2>2 DEF Doomed
  <1>4. CASE Doomed(b)
    <2>1. PICK i \in 1 .. Len(b) : Stops(b[i])
      BY <1>4 DEF Doomed
    <2>2. Len(a) + i \in 1 .. Len(a \o b) /\ Stops((a \o b)[Len(a) + i])
      BY <1>2, <2>1
    <2> QED
      BY <1>1, <2>2 DEF Doomed
  <1> QED
    BY <1>3, <1>4

\* Before a gate may stand what reports nothing, and what reports when the
\* gate raises anyway; behind it what has no handler.
LEMMA GatedConcat ==
  ASSUME NEW a \in Seq(Stmt), NEW b \in Seq(Stmt), Gated(b),
         \/ Quiet(a)
         \/ Straight(a) /\ Doomed(b)
         \/ Gated(a) /\ Straight(b)
  PROVE  Gated(a \o b)
  <1> DEFINE s == a \o b
             m == Len(a)
             n == Len(b)
  <1>1. /\ m \in Nat /\ n \in Nat /\ Len(s) = m + n
        /\ \A k \in 1 .. m : s[k] = a[k]
        /\ \A k \in 1 .. n : s[m + k] = b[k]
    BY ConcatAt
  <1>2. \A i \in 1 .. m + n : \/ i \in 1 .. m /\ s[i] = a[i]
                              \/ i - m \in 1 .. n /\ i > m /\ s[i] = b[i - m]
    BY <1>1, ConcatParts
  <1> HIDE DEF s
  <1>3. ASSUME NEW i \in 1 .. m + n, MayReport(s[i])
        PROVE  /\ s[i].op # "except"
               /\ \E j \in 1 .. m + n : j > i /\ Stops(s[j])
               /\ \A j \in 1 .. m + n : j > i => s[j].op # "except"
    <2>1. CASE i - m \in 1 .. n /\ i > m /\ s[i] = b[i - m]
      <3>1. /\ b[i - m].op # "except"
            /\ \E j \in 1 .. n : j > i - m /\ Stops(b[j])
            /\ \A j \in 1 .. n : j > i - m => b[j].op # "except"
        BY <1>3, <2>1 DEF Gated
      <3>2. PICK j \in 1 .. n : j > i - m /\ Stops(b[j])
        BY <3>1
      <3>3. m + j \in 1 .. m + n /\ m + j > i /\ Stops(s[m + j])
        BY <1>1, <3>2
      <3>4. ASSUME NEW k \in 1 .. m + n, k > i PROVE s[k].op # "except"
        <4>1. k - m \in 1 .. n /\ k - m > i - m /\ s[k] = b[k - m]
          BY <1>1, <1>2, <2>1, <3>4
        <4> QED
          BY <3>1, <4>1
      <3> QED
        BY <2>1, <3>1, <3>3, <3>4
    <2>2. CASE i \in 1 .. m /\ s[i] = a[i]
      <3>1. ~Quiet(a)
        BY <1>3, <2>2 DEF Quiet
      <3>2. CASE Straight(a) /\ Doomed(b)
        <4>1. PICK j \in 1 .. n : Stops(b[j])
          BY <3>2 DEF Doomed
        <4>2. m + j \in 1 .. m + n /\ m + j > i /\ Stops(s[m + j])
          BY <1>1, <2>2, <4>1
        <4>3. \A k \in 1 .. m + n : s[k].op # "except"
          BY <1>2, <3>2 DEF Straight, Doomed
        <4> QED
          BY <4>2, <4>3
      <3>3. CASE Gated(a) /\ Straight(b)
        <4>1. /\ a[i].op # "except"
              /\ \E j \in 1 .. m : j > i /\ Stops(a[j])
              /\ \A j \in 1 .. m : j > i => a[j].op # "except"
          BY <1>3, <2>2, <3>3 DEF Gated
        <4>2. PICK j \in 1 .. m : j > i /\ Stops(a[j])
          BY <4>1
        <4>3. j \in 1 .. m + n /\ j > i /\ Stops(s[j])
          BY <1>1, <4>2
        <4>4. \A k \in 1 .. m + n : k > i => s[k].op # "except"
          BY <1>2, <3>3, <4>1 DEF Straight
        <4> QED
          BY <2>2, <4>1, <4>3, <4>4
      <3> QED
        BY <3>1, <3>2, <3>3
    <2> QED
      BY <1>2, <2>1, <2>2
  <1>4. Gated(s)
    BY <1>1, <1>3 DEF Gated
  <1> QED
    BY <1>4 DEF s

LEMMA SuffixGated ==
  ASSUME NEW s \in Remainder, NEW k, NEW d, Suffix(d, s, k), Gated(s)
  PROVE  Gated(d)
  <1> DEFINE m == Len(s)
  <1>1. /\ d \in Seq(Stmt) /\ k \in Nat /\ m \in Nat /\ k <= m /\ Len(d) = m - k
        /\ \A i \in 1 .. m - k : d[i] = s[k + i]
    BY LenProperties DEF Suffix, Remainder
  <1>2. ASSUME NEW i \in 1 .. m - k, MayReport(d[i])
        PROVE  /\ d[i].op # "except"
               /\ \E j \in 1 .. m - k : j > i /\ Stops(d[j])
               /\ \A j \in 1 .. m - k : j > i => d[j].op # "except"
    <2>1. k + i \in 1 .. m /\ d[i] = s[k + i]
      BY <1>1
    <2>2. /\ s[k + i].op # "except"
          /\ \E j \in 1 .. m : j > k + i /\ Stops(s[j])
          /\ \A j \in 1 .. m : j > k + i => s[j].op # "except"
      BY <1>2, <2>1 DEF Gated
    <2>3. PICK j \in 1 .. m : j > k + i /\ Stops(s[j])
      BY <2>2
    <2>4. j - k \in 1 .. m - k /\ j - k > i /\ k + (j - k) = j
      BY <1>1, <2>3
    <2>5. Stops(d[j - k])
      BY <1>1, <2>3, <2>4
    <2>6. ASSUME NEW l \in 1 .. m - k, l > i PROVE d[l].op # "except"
      <3>1. k + l \in 1 .. m /\ k + l > k + i
        BY <1>1, <2>6
      <3> QED
        BY <1>1, <2>2, <3>1
    <2> QED
      BY <2>1, <2>2, <2>4, <2>5, <2>6
  <1> QED
    BY <1>1, <1>2 DEF Gated

\* A statement that is not a stop leaves a call that has to stop, a gate that
\* it stops.
LEMMA TailGated ==
  ASSUME NEW s \in Remainder, s # <<>>
  PROVE  /\ Gated(s) => Gated(Tail(s))
         /\ Straight(s) => Straight(Tail(s))
         /\ Doomed(s) /\ ~Stops(s[1]) => Doomed(Tail(s))
         /\ Gated(s) /\ MayReport(s[1]) => Doomed(Tail(s))
  <1> DEFINE d == Tail(s)
             m == Len(s)
  <1>1. /\ Suffix(d, s, 1) /\ m \in Nat /\ m >= 1
    BY TailSuffix
  <1>2. /\ Len(d) = m - 1 /\ \A i \in 1 .. m - 1 : d[i] = s[1 + i]
    BY <1>1 DEF Suffix
  <1>3. Gated(s) => Gated(d)
    BY <1>1, SuffixGated
  <1> HIDE DEF d
  <1>4. \A i \in 1 .. m - 1 : 1 + i \in 1 .. m /\ 1 + i > 1
    BY <1>1
  <1>5. Straight(s) => Straight(d)
    BY <1>2, <1>4 DEF Straight
  <1>6. ASSUME NEW j \in 1 .. m, j > 1, Stops(s[j]) PROVE \E i \in 1 .. m - 1 : Stops(d[i])
    <2>1. j - 1 \in 1 .. m - 1 /\ 1 + (j - 1) = j
      BY <1>1, <1>6
    <2>2. Stops(d[j - 1])
      BY <1>2, <1>6, <2>1
    <2> QED
      BY <2>1, <2>2
  <1>7. ASSUME Doomed(s), ~Stops(s[1]) PROVE Doomed(d)
    <2>1. PICK j \in 1 .. m : Stops(s[j])
      BY <1>7 DEF Doomed
    <2>2. j > 1
      BY <1>1, <1>7, <2>1
    <2> QED
      BY <1>2, <1>5, <1>6, <1>7, <2>1, <2>2 DEF Doomed
  <1>8. ASSUME Gated(s), MayReport(s[1]) PROVE Doomed(d)
    <2>1. 1 \in 1 .. m
      BY <1>1
    <2>2. /\ \E j \in 1 .. m : j > 1 /\ Stops(s[j])
          /\ \A j \in 1 .. m : j > 1 => s[j].op # "except"
      BY <1>8, <2>1 DEF Gated
    <2>3. Straight(d)
      BY <1>2, <1>4, <2>2 DEF Straight
    <2> QED
      BY <1>2, <1>6, <2>2, <2>3 DEF Doomed
  <1> QED
    BY <1>3, <1>5, <1>7, <1>8 DEF d

LEMMA PastGated ==
  ASSUME NEW s \in Remainder
  PROVE  /\ Straight(s) => PastHandlers(s) = s
         /\ Doomed(s) => Doomed(PastHandlers(s)) /\ PastHandlers(s) # <<>>
         /\ Gated(s) => Gated(PastHandlers(s))
  <1>1. ASSUME Straight(s) PROVE PastHandlers(s) = s
    <2>1. s = <<>> \/ s[1].op # "except"
      <3>1. s # <<>> => 1 \in 1 .. Len(s)
        BY TailSuffix
      <3> QED
        BY <1>1, <3>1 DEF Straight
    <2> QED
      BY <2>1, PastHandlersJoined
  <1>2. ASSUME Doomed(s) PROVE s # <<>>
    <2>1. 1 .. Len(<<>>) = {}
      OBVIOUS
    <2> QED
      BY <1>2, <2>1 DEF Doomed
  <1>3. ASSUME Gated(s) PROVE Gated(PastHandlers(s))
    <2>1. PICK n \in 0 .. Len(s) : Suffix(PastHandlers(s), s, n)
      BY PastHandlersIs
    <2> QED
      BY <1>3, <2>1, SuffixGated
  <1> QED
    BY <1>1, <1>2, <1>3 DEF Doomed

\* The bodies of handlers and branches.
LEMMA BodyParts ==
  ASSUME NEW b \in Branching
  PROVE  /\ b \in Seq(Stmt) /\ Straight(b)
         /\ \A i \in 1 .. Len(b) : MayReport(b[i]) => Reports(b[i]) \/ Branches(b[i])
  <1>1. b \in Seq(Plain \union Branch) /\ b \in Seq(Stmt)
    BY Programs DEF Branching, Program
  <1>2. \A i \in 1 .. Len(b) : b[i] \in Plain \union Branch
    BY <1>1, ElementOfSeq
  <1>3. \A x \in Plain \union Branch : x.op # "except"
    BY DEF Plain, Branch
  <1>4. \A i \in 1 .. Len(b) : b[i].op # "except"
    BY <1>2, <1>3
  <1> QED
    BY <1>1, <1>4 DEF Straight, MayReport, Handles

LEMMA FlatParts ==
  ASSUME NEW b \in Flat
  PROVE  /\ b \in Seq(Stmt) /\ Straight(b)
         /\ ~Tells(b) => Quiet(b)
  <1>1. b \in Seq(Plain) /\ b \in Seq(Stmt)
    BY Programs DEF Flat, Program
  <1>2. \A i \in 1 .. Len(b) : b[i] \in Plain
    BY <1>1, ElementOfSeq
  <1>3. \A x \in Plain : x.op # "except" /\ x.op # "compare"
    BY DEF Plain
  <1>4. \A i \in 1 .. Len(b) : b[i].op # "except" /\ b[i].op # "compare"
    BY <1>2, <1>3
  <1>5. \A i \in 1 .. Len(b) : MayReport(b[i]) => Reports(b[i])
    BY <1>4 DEF MayReport, Handles, Branches
  <1> QED
    BY <1>1, <1>4, <1>5 DEF Straight, Tells, Quiet

\* Either branch of a comparison keeps gated what is gated, and doomed what
\* is doomed.
LEMMA BranchGated ==
  ASSUME NEW s \in Remainder, s # <<>>, s[1].op = "compare",
         NEW b \in {s[1].over, s[1].within}
  PROVE  /\ Gated(s) => Gated(b \o Tail(s))
         /\ Doomed(s) => Doomed(b \o Tail(s))
  <1>1. s[1] \in Stmt /\ Tail(s) \in Seq(Stmt)
    BY TailSuffix DEF Suffix
  <1>2. b \in Flat
    BY <1>1, StmtParts
  <1>3. b \in Seq(Stmt) /\ Straight(b) /\ (~Tells(b) => Quiet(b))
    BY <1>2, FlatParts
  <1>4. ASSUME Gated(s) PROVE Gated(b \o Tail(s))
    <2>1. Gated(Tail(s))
      BY <1>4, TailGated
    <2>2. CASE Tells(b)
      <3>1. MayReport(s[1])
        BY <2>2 DEF MayReport, Branches
      <3>2. Doomed(Tail(s))
        BY <1>4, <3>1, TailGated
      <3> QED
        BY <1>1, <1>3, <2>1, <3>2, GatedConcat
    <2>3. CASE ~Tells(b)
      BY <1>1, <1>3, <2>1, <2>3, GatedConcat
    <2> QED
      BY <2>2, <2>3
  <1>5. ASSUME Doomed(s) PROVE Doomed(b \o Tail(s))
    <2>1. ~Stops(s[1])
      BY DEF Stops
    <2>2. Doomed(Tail(s))
      BY <1>5, <2>1, TailGated
    <2> QED
      BY <1>1, <1>3, <2>2, DoomedConcat DEF Doomed
  <1> QED
    BY <1>4, <1>5

\* The handler that takes an exception reports nothing.
LEMMA CaughtGated ==
  ASSUME todo \in [Threads -> Remainder], NEW t \in Threads, Busy(t), NEW i \in Nat, Caught(t, i)
  PROVE  /\ ~Doomed(todo[t])
         /\ Gated(todo[t]) => Gated(todo'[t])
  <1> DEFINE s == todo[t]
             r == Tail(s)
             b == r[i].body
             e == SubSeq(r, i + 1, Len(r))
  <1>1. s \in Remainder /\ s # <<>> /\ r \in Remainder
    BY BusyIs
  <1>2. i \in 1 .. Len(r) /\ r[i].op = "except" /\ todo'[t] = PastHandlers(b \o e)
    BY DEF Caught
  <1>3. ~Straight(r)
    BY <1>2 DEF Straight
  <1>4. ~Doomed(s)
    BY <1>1, <1>3, TailGated DEF Doomed
  <1>5. ASSUME Gated(s) PROVE Gated(todo'[t])
    <2>1. Gated(r)
      BY <1>1, <1>5, TailGated
    <2>2. r \in Seq(Stmt) /\ Len(r) \in Nat
      BY <1>1, LenProperties DEF Remainder
    <2>3. r[i] \in Stmt
      BY <1>2, <2>2, ElementOfSeq
    <2>4. b \in Branching
      BY <1>2, <2>3, StmtParts
    <2>5. ~MayReport(r[i])
      BY <1>2, <2>1 DEF Gated
    <2>6. b \in Seq(Stmt) /\ Quiet(b)
      <3>1. \A k \in 1 .. Len(b) : ~Reports(b[k]) /\ ~Branches(b[k])
        BY <1>2, <2>5 DEF MayReport, Handles
      <3> QED
        BY <2>4, <3>1, BodyParts DEF Quiet
    <2>7. i \in 0 .. Len(r) /\ Suffix(e, r, i)
      <3>1. i \in 0 .. Len(r)
        BY <1>2, <2>2
      <3> QED
        BY <1>1, <3>1, SubSeqSuffix
    <2>8. Gated(e) /\ e \in Seq(Stmt)
      BY <1>1, <2>1, <2>7, SuffixGated DEF Suffix
    <2> HIDE DEF b, e
    <2>9. Gated(b \o e)
      BY <2>6, <2>8, GatedConcat
    <2>10. b \o e \in Remainder
      <3>1. CutsNothing(r, i) /\ i >= 1
        BY <1>2 DEF CutsNothing
      <3>2. e \in Program
        BY <1>1, <2>7, <3>1, SuffixWhole
      <3> QED
        BY <2>4, <3>2, Programs, JoinedConcat DEF b
    <2> QED
      BY <1>2, <2>9, <2>10, PastGated DEF b, e
  <1> QED
    BY <1>4, <1>5

Gating(t) == call[t].gate /\ tier >= 3

\* A gate that has found something is going to raise, or has.
GateInv ==
    \A t \in Threads : Gating(t) =>
        /\ found[t] => Doomed(todo[t]) \/ (todo[t] = <<>> /\ raised[t] # "nothing")
        /\ ~found[t] => Gated(todo[t])

LEMMA AdvanceGated ==
  ASSUME EngineTypes, NEW t \in Threads, Busy(t), Advances(t)
  PROVE  /\ Gated(todo[t]) => Gated(todo'[t])
         /\ Doomed(todo[t]) /\ ~Stops(Current(t)) => Doomed(todo'[t])
         /\ Gated(todo[t]) /\ MayReport(Current(t)) => Doomed(todo'[t])
  <1>1. /\ todo[t] \in Remainder /\ todo[t] # <<>> /\ Tail(todo[t]) \in Remainder
        /\ Current(t) = todo[t][1] /\ todo'[t] = PastHandlers(Tail(todo[t]))
    BY BusyIs, AdvanceMoves DEF EngineTypes, TodoTypes
  <1>2. /\ Gated(todo[t]) => Gated(Tail(todo[t]))
        /\ Doomed(todo[t]) /\ ~Stops(Current(t)) => Doomed(Tail(todo[t]))
        /\ Gated(todo[t]) /\ MayReport(Current(t)) => Doomed(Tail(todo[t]))
    BY <1>1, TailGated
  <1> QED
    BY <1>1, <1>2, PastGated

LEMMA ThrowGated ==
  ASSUME EngineTypes, NEW t \in Threads, Busy(t), CutsNothing(todo[t], 1),
         NEW kind \in Raisable, Throws(t, kind)
  PROVE  /\ Gated(todo[t]) => Gated(todo'[t])
         /\ Doomed(todo[t]) => todo'[t] = <<>> /\ raised'[t] # "nothing"
  <1>1. todo \in [Threads -> Remainder] /\ raised = [u \in Threads |-> raised[u]]
    BY DEF EngineTypes, TodoTypes
  <1>2. Escapes(t, kind) \/ \E i \in Nat : Caught(t, i)
    BY <1>1, ThrowMoves
  <1>3. CASE Escapes(t, kind)
    <2>1. Gated(<<>>)
      BY DEF Gated
    <2> QED
      BY <1>1, <1>3, <2>1 DEF Escapes, Raisable
  <1>4. ASSUME NEW i \in Nat, Caught(t, i)
        PROVE  ~Doomed(todo[t]) /\ (Gated(todo[t]) => Gated(todo'[t]))
    BY <1>1, <1>4, CaughtGated
  <1> QED
    BY <1>2, <1>3, <1>4

LEMMA EmitQuiet ==
  /\ Quiet(Emit("note")) /\ \A k \in {"note", "finding", "content"} : Straight(Emit(k))
  <1> SUFFICES ASSUME NEW k \in {"note", "finding", "content"}
               PROVE  (k = "note" => Quiet(Emit(k))) /\ Straight(Emit(k))
    OBVIOUS
  <1> DEFINE s == Emit(k)
  <1>1. /\ Len(s) = 3 /\ s[1].op = "hash" /\ s[1].kind = k /\ s[2].op = "link" /\ s[3].op = "write"
    BY DEF Emit
  <1> HIDE DEF s
  <1>2. \A i \in 1 .. 3 : i = 1 \/ i = 2 \/ i = 3
    OBVIOUS
  <1>3. Straight(s)
    BY <1>1, <1>2 DEF Straight
  <1>4. \A x : x.op \in {"link", "write"} => ~MayReport(x)
    BY DEF MayReport, Reports, Branches, Handles
  <1>5. k = "note" => ~MayReport(s[1])
    BY <1>1 DEF MayReport, Reports, Branches, Handles
  <1>6. k = "note" => Quiet(s)
    BY <1>1, <1>2, <1>4, <1>5 DEF Quiet
  <1> QED
    BY <1>3, <1>6 DEF s

LEMMA GateStep ==
  ASSUME EngineTypes, GateInv, NEW t \in Threads, Statement(t)
  PROVE  GateInv'
  <1> DEFINE s == todo[t]
             Kept(u, f) == /\ f => Doomed(todo'[u]) \/ (todo'[u] = <<>> /\ raised'[u] # "nothing")
                           /\ ~f => Gated(todo'[u])
  <1>1. tier' = tier
    BY DEF Statement, HashEvent, LinkEvent, WriteLine, WriteFails, FindViolation, ReadScore,
           StoreScore, ReadCount, StoreCount, CompareCount, NoteFrequency, TakeSnapshot,
           RaiseException, RunWrapped, GoInto, AssignCount, GiveVerdict, AdmitOne
  <1>2. CASE GoInto(t)
    <2>1. UNCHANGED <<todo, raised, found>> /\ call' = [call EXCEPT ![t].name = "entered"]
      BY <1>2 DEF GoInto
    <2>2. \A u \in Threads : call'[u].gate = call[u].gate
      BY <2>1 DEF EngineTypes, LocalTypes
    <2>3. \A u \in Threads : Gating(u)' => Gating(u)
      BY <1>1, <2>2 DEF Gating
    <2> QED
      BY <2>1, <2>3 DEF GateInv
  <1>3. CASE ~GoInto(t)
    <2>1. /\ Busy(t) /\ Moves(t) /\ s \in Remainder /\ s # <<>> /\ Current(t) = s[1]
          /\ s \in Seq(Stmt)
      BY <1>3, StatementMoves, BusyIs DEF EngineTypes, TodoTypes
    <2>2. \A u \in Threads \ {t} : todo'[u] = todo[u]
      BY <2>1, MovesOnto DEF EngineTypes, TodoTypes
    <2>3. call' = call
      BY <1>3 DEF Statement, HashEvent, LinkEvent, WriteLine, WriteFails, FindViolation, ReadScore,
             StoreScore, ReadCount, StoreCount, CompareCount, NoteFrequency, TakeSnapshot,
             RaiseException, RunWrapped, AssignCount, GiveVerdict, AdmitOne
    <2>4. found' = found \/ HashEvent(t)
      BY <1>3 DEF Statement, LinkEvent, WriteLine, WriteFails, FindViolation, ReadScore,
             StoreScore, ReadCount, StoreCount, CompareCount, NoteFrequency, TakeSnapshot,
             RaiseException, RunWrapped, AssignCount, GiveVerdict, AdmitOne
    <2>5. \A u \in Threads \ {t} : found'[u] <=> found[u]
      BY <2>4 DEF HashEvent, EngineTypes, LocalTypes
    <2>6. \A u \in Threads \ {t} : raised'[u] = raised[u]
      <3>1. ASSUME NEW kind, Throws(t, kind) PROVE \A u \in Threads \ {t} : raised'[u] = raised[u]
        BY <3>1 DEF Throws, Goes, EngineTypes, TodoTypes
      <3>2. ASSUME Advances(t) PROVE raised' = raised
        BY <3>2 DEF Advances, Goes
      <3>3. CASE WriteFails(t) \/ RaiseException(t)
        BY <3>1, <3>3 DEF WriteFails, RaiseException
      <3>4. CASE RunWrapped(t) \/ GiveVerdict(t)
        BY <3>1, <3>2, <3>4 DEF RunWrapped, GiveVerdict
      <3>5. CASE CompareCount(t) \/ NoteFrequency(t)
        BY <3>2, <3>5 DEF CompareCount, NoteFrequency, Goes
      <3> QED
        BY <1>3, <3>2, <3>3, <3>4, <3>5 DEF Statement, HashEvent, LinkEvent, WriteLine,
           FindViolation, ReadScore, StoreScore, ReadCount, StoreCount, TakeSnapshot,
           AssignCount, AdmitOne
    <2>7. ASSUME Gating(t) => Kept(t, found'[t]) PROVE GateInv'
      <3>1. ASSUME NEW u \in Threads, Gating(u)' PROVE Kept(u, found'[u])
        <4>1. Gating(u)
          BY <1>1, <2>3, <3>1 DEF Gating
        <4>2. CASE u = t
          BY <2>7, <4>1, <4>2
        <4>3. CASE u # t
          BY <2>2, <2>5, <2>6, <4>1, <4>3 DEF GateInv
        <4> QED
          BY <4>2, <4>3
      <3> QED
        BY <3>1 DEF GateInv
    <2> SUFFICES ASSUME Gating(t) PROVE Kept(t, found'[t])
      BY <2>7
    <2>8. /\ found[t] => Doomed(s)
          /\ ~found[t] => Gated(s)
      BY <2>1 DEF GateInv
    <2>9. ASSUME Advances(t), ~Stops(Current(t)), found' = found PROVE Kept(t, found'[t])
      BY <2>1, <2>8, <2>9, AdvanceGated
    <2>10. ASSUME CutsNothing(s, 1), NEW kind \in Raisable, Throws(t, kind), found' = found
           PROVE  Kept(t, found'[t])
      BY <2>1, <2>8, <2>10, ThrowGated
    <2>11. ASSUME Current(t).op \in {"write", "raise", "run", "verdict", "compare", "frequency"}
           PROVE  CutsNothing(s, 1)
      BY <2>1, <2>11, CurrentIs DEF EngineTypes
    <2>12. CASE HashEvent(t)
      <3>1. /\ Advances(t) /\ Current(t).op = "hash" /\ ~Stops(Current(t))
        BY <2>12 DEF HashEvent, At, Stops
      <3>2. found'[t] <=> found[t] \/ Current(t).kind # "note"
        <4>1. found' = [found EXCEPT ![t] = found[t] \/ Current(t).kind # "note"]
          BY <2>12 DEF HashEvent
        <4> QED
          BY <4>1, Zenon DEF EngineTypes, LocalTypes
      <3>3. found'[t] <=> found[t] \/ MayReport(Current(t))
        BY <3>1, <3>2 DEF MayReport, Reports, Branches, Handles
      <3> QED
        BY <2>1, <2>8, <3>1, <3>3, AdvanceGated
    <2>13. CASE LinkEvent(t) \/ WriteLine(t) \/ FindViolation(t) \/ ReadScore(t)
                \/ StoreScore(t) \/ ReadCount(t) \/ StoreCount(t) \/ TakeSnapshot(t)
                \/ AssignCount(t) \/ AdmitOne(t)
      <3>1. Advances(t) /\ found' = found
        BY <2>13 DEF LinkEvent, WriteLine, FindViolation, ReadScore, StoreScore, ReadCount,
               StoreCount, TakeSnapshot, AssignCount, AdmitOne
      <3>2. ~Stops(Current(t))
        BY <2>13 DEF LinkEvent, WriteLine, FindViolation, ReadScore, StoreScore, ReadCount,
               StoreCount, TakeSnapshot, AssignCount, AdmitOne, At, Stops
      <3> QED
        BY <2>9, <3>1, <3>2
    <2>14. CASE WriteFails(t)
      <3>1. Current(t).op = "write" /\ Throws(t, "os") /\ found' = found /\ "os" \in Raisable
        BY <2>14 DEF WriteFails, At, Raisable
      <3> QED
        BY <2>10, <2>11, <3>1
    <2>15. CASE RaiseException(t)
      <3>1. Current(t).op = "raise" /\ Throws(t, Current(t).kind) /\ found' = found
        BY <2>15 DEF RaiseException, At
      <3>2. Current(t).kind \in Raisable
        BY <2>1, <3>1, CurrentIs, StmtParts DEF Raisable, EngineTypes
      <3> QED
        BY <2>10, <2>11, <3>1, <3>2
    <2>16. CASE RunWrapped(t)
      <3>1. /\ Current(t).op = "run" /\ found' = found /\ "other" \in Raisable
            /\ Advances(t) \/ Throws(t, "other")
        BY <2>16 DEF RunWrapped, At, Raisable
      <3>2. ~Stops(Current(t))
        BY <3>1 DEF Stops
      <3> QED
        BY <2>9, <2>10, <2>11, <3>1, <3>2
    <2>17. CASE GiveVerdict(t)
      <3>1. /\ Current(t).op = "verdict" /\ found' = found /\ "violation" \in Raisable
        BY <2>17 DEF GiveVerdict, At, Raisable
      <3>2. IF found[t] THEN Throws(t, "violation") ELSE Advances(t)
        BY <2>17 DEF GiveVerdict
      <3>3. CASE found[t]
        BY <2>10, <2>11, <3>1, <3>2, <3>3
      <3>4. CASE ~found[t]
        <4>1. Advances(t)
          BY <3>2, <3>4
        <4> QED
          BY <2>1, <2>8, <3>1, <3>4, <4>1, AdvanceGated
      <3> QED
        BY <3>3, <3>4
    <2>18. ASSUME NEW b \in Program, CutsNothing(s, 1), Goes(t, b \o Tail(s)), found' = found,
                  Gated(s) => Gated(b \o Tail(s)), Doomed(s) => Doomed(b \o Tail(s))
           PROVE  Kept(t, found'[t])
      <3>1. todo'[t] = PastHandlers(b \o Tail(s))
        BY <2>1, <2>18, GoesMoves DEF EngineTypes, TodoTypes
      <3>2. b \o Tail(s) \in Remainder
        <4>1. Tail(s) \in Program
          BY <2>1, <2>18, BusyIs DEF EngineTypes, TodoTypes
        <4> QED
          BY <4>1, WholeConcat, Programs
      <3> QED
        BY <2>8, <2>18, <3>1, <3>2, PastGated
    <2>19. CASE CompareCount(t)
      <3>1. Current(t).op = "compare" /\ found' = found
        BY <2>19 DEF CompareCount, At
      <3>2. PICK b \in {s[1].over, s[1].within} : Goes(t, b \o Tail(s))
        <4>1. Goes(t, (IF count[s[1].of] > s[1].limit THEN s[1].over ELSE s[1].within) \o Tail(s))
          BY <2>1, <2>19 DEF CompareCount
        <4> QED
          BY <4>1
      <3>3. b \in Program
        BY <2>1, <3>1, CurrentIs, StmtParts, Programs DEF EngineTypes
      <3>4. /\ Gated(s) => Gated(b \o Tail(s))
            /\ Doomed(s) => Doomed(b \o Tail(s))
        BY <2>1, <3>1, BranchGated
      <3> QED
        BY <2>11, <2>18, <3>1, <3>2, <3>3, <3>4
    <2>20. CASE NoteFrequency(t)
      <3>1. /\ Current(t).op = "frequency" /\ found' = found /\ ~Stops(Current(t))
            /\ Advances(t) \/ Goes(t, Emit("note") \o Tail(s))
        BY <2>20 DEF NoteFrequency, At, Stops
      <3>2. Emit("note") \in Program /\ Emit("note") \in Seq(Stmt)
        BY EmitFits DEF Program
      <3>3. Quiet(Emit("note")) /\ Straight(Emit("note"))
        BY EmitQuiet
      <3>4. Tail(s) \in Seq(Stmt)
        BY <2>1, TailSuffix DEF Suffix
      <3>5. Gated(s) => Gated(Emit("note") \o Tail(s))
        BY <2>1, <3>2, <3>3, <3>4, TailGated, GatedConcat
      <3>6. Doomed(s) => Doomed(Emit("note") \o Tail(s))
        <4>1. Doomed(s) => Doomed(Tail(s))
          BY <2>1, <3>1, TailGated
        <4> QED
          BY <3>2, <3>3, <3>4, <4>1, DoomedConcat DEF Doomed
      <3> QED
        BY <2>9, <2>11, <2>18, <3>1, <3>2, <3>5, <3>6
    <2> QED
      BY <1>3, <2>12, <2>13, <2>14, <2>15, <2>16, <2>17, <2>19, <2>20 DEF Statement
  <1> QED
    BY <1>2, <1>3

-----------------------------------------------------------------------------
(* The engine's invariant: the parts above, which need each other only for *)
(* the types.                                                             *)

EngineInv ==
    EngineTypes /\ ExitInv /\ ScoreInv /\ ChainInv /\ LedgerInv /\ CostInv /\ GateInv

LEMMA StatementKeeps ==
  ASSUME EngineInv, EngineAssumption, NEW t \in Threads, Statement(t)
  PROVE  EngineInv'
  <1>1. EngineTypes /\ ExitInv /\ ScoreInv /\ ChainInv /\ LedgerInv /\ CostInv /\ GateInv
    BY DEF EngineInv
  <1>2. LocalTypes' /\ LogTypes' /\ CountTypes'
    BY <1>1, EventStep, OtherStep
  <1>3. TodoTypes'
    <2>1. CASE GoInto(t)
      <3>1. UNCHANGED <<todo, raised>>
        BY <2>1 DEF GoInto
      <3> QED
        BY <1>1, <3>1 DEF EngineTypes, TodoTypes
    <2>2. CASE ~GoInto(t)
      BY <1>1, <2>2, StatementMoves
    <2> QED
      BY <2>1, <2>2
  <1>4. EngineTypes'
    BY <1>2, <1>3 DEF EngineTypes
  <1>5. ExitInv' /\ ScoreInv' /\ ChainInv' /\ LedgerInv' /\ CostInv' /\ GateInv'
    BY <1>1, ExitStep, ScoreStep, ChainStep, LedgerStep, CostStep, GateStep
  <1> QED
    BY <1>4, <1>5 DEF EngineInv

\* A program, gated if it is a gate's; and the one way out of a subgraph.
Fits(t, name, gate, body) ==
    /\ body \in Program
    /\ gate /\ tier >= 3 => Gated(body)
    /\ name = "exit" => body = ExitSubgraph /\ opened[t] > 0

LEMMA BeginKeeps ==
  ASSUME EngineInv, EngineAssumption, NEW t \in Threads, NEW name, NEW gate, NEW body,
         Begin(t, name, gate, body), Fits(t, name, gate, body)
  PROVE  EngineInv'
  <1> DEFINE p == PastHandlers(body)
  <1>1. EngineTypes /\ ExitInv /\ ScoreInv /\ ChainInv /\ LedgerInv /\ CostInv /\ GateInv
    BY DEF EngineInv
  <1>2. /\ p \in Program /\ p \in Remainder
        /\ gate /\ tier >= 3 => Gated(p)
        /\ name = "exit" => p = ExitSubgraph
    <2>1. body \in Program /\ body \in Remainder
      BY Programs DEF Fits
    <2>2. p \in Program /\ p \in Remainder
      BY <2>1, PastHandlersJoined, Programs
    <2>3. gate /\ tier >= 3 => Gated(p)
      BY <2>1, PastGated DEF Fits
    <2>4. name = "exit" => p = ExitSubgraph
      BY <2>1, ExitIs, PastHandlersJoined DEF Fits
    <2> QED
      BY <2>2, <2>3, <2>4
  <1>3. /\ calls < MaxCalls /\ calls' = calls + 1 /\ todo[t] = <<>>
        /\ call' = [call EXCEPT ![t] = [name |-> name, gate |-> gate]]
        /\ todo' = [todo EXCEPT ![t] = p]
        /\ raised' = [raised EXCEPT ![t] = "nothing"]
        /\ found' = [found EXCEPT ![t] = FALSE]
    BY DEF Begin, Ready, Busy
  <1>4. UNCHANGED <<tier, ledger, marks, counting, draft, held, faults, leaked>>
    BY DEF Begin
  <1> HIDE DEF p
  <1>5. /\ todo \in [Threads -> Remainder] /\ raised \in [Threads -> {"nothing"} \union Raisable]
        /\ call = [u \in Threads |-> [name |-> call[u].name, gate |-> call[u].gate]]
        /\ found \in [Threads -> BOOLEAN]
    BY <1>1 DEF EngineTypes, TodoTypes, LocalTypes
  <1>6. TodoTypes'
    BY <1>2, <1>3, <1>5 DEF TodoTypes
  <1>7. LocalTypes'
    <2>1. UNCHANGED <<draft, held>>
      BY <1>4
    <2>2. found' \in [Threads -> BOOLEAN]
      BY <1>3, <1>5
    <2>3. call' = [u \in Threads |-> [name |-> call'[u].name, gate |-> call'[u].gate]]
      BY <1>3, <1>5
    <2> QED
      BY <1>1, <2>1, <2>2, <2>3 DEF EngineTypes, LocalTypes
  <1>8. LogTypes'
    BY <1>1, <1>4 DEF EngineTypes, LogTypes, ledger
  <1>9. CountTypes'
    <2>1. UNCHANGED <<tier, violations, charged, count, lost, ran, snapshots, leaked, faults, score, opened>>
      BY <1>4 DEF marks, counting
    <2>2. calls' \in 0 .. MaxCalls
      <3>1. calls \in 0 .. MaxCalls /\ MaxCalls \in Nat
        BY <1>1 DEF EngineTypes, CountTypes, EngineAssumption
      <3> QED
        BY <1>3, <3>1
    <2> QED
      BY <1>1, <2>1, <2>2 DEF EngineTypes, CountTypes
  <1>10. /\ todo'[t] = p /\ p \in Program
         /\ \A u \in Threads \ {t} : todo'[u] = todo[u]
    BY <1>2, <1>3, <1>5
  <1>11. \A op : /\ ~At(t, op)
                 /\ \A u \in Threads \ {t} : At(u, op)' <=> At(u, op)
    BY <1>3, <1>10, OthersStay DEF At, Busy
  <1>12. ~At(t, "link")' /\ ~At(t, "write")' /\ ~At(t, "storeScore")'
    <2>1. p = <<>> \/ Head(p).op \notin {"link", "write", "storeScore"}
      <3>1. p \in Seq(Stmt) /\ Fresh(p)
        BY <1>2 DEF Program, Whole
      <3>2. p # <<>> => Len(p) \in Nat /\ Len(p) >= 1 /\ Head(p) = p[1]
        BY <1>2, TailSuffix
      <3> QED
        BY <3>1, <3>2 DEF Fresh
    <2> QED
      BY <1>10, <2>1 DEF At, Busy, Current
  <1>13. ChainInv'
    <2>1. UNCHANGED <<ledger, draft>>
      BY <1>4
    <2> QED
      BY <1>1, <1>11, <1>12, <2>1, ChainFrame
  <1>14. ScoreInv'
    <2>1. UNCHANGED <<score, charged, forgiven, held>>
      BY <1>4 DEF marks
    <2> QED
      BY <1>1, <1>11, <1>12, <2>1 DEF ScoreInv
  <1>15. LedgerInv'
    <2>1. UNCHANGED <<violations, lines, unwritten, draft>>
      BY <1>4 DEF ledger, marks
    <2>2. ~Owes(t) /\ ~Owes(t)'
      <3>1. ~Owing(<<>>, draft[t].kind) /\ ~Owing(p, draft'[t].kind)
        BY <1>2, EmptyProgram, OwnsNothing
      <3> QED
        BY <1>3, <1>10, <3>1 DEF Owes
    <2>3. \A u \in Threads \ {t} : Owes(u)' <=> Owes(u)
      BY <1>10, <2>1 DEF Owes
    <2>4. Cardinality(Owers)' = Cardinality(Owers)
      BY <2>2, <2>3, OwersChange DEF EngineAssumption
    <2>5. Filed("content")' = Filed("content")
      BY <2>1 DEF Filed
    <2> QED
      BY <1>1, <2>1, <2>4, <2>5 DEF LedgerInv
  <1>16. ExitInv'
    <2>1. opened' = opened
      BY <1>4 DEF counting
    <2>2. ASSUME NEW u \in Threads, Leaving(u)'
          PROVE  opened[u] > 0 /\ todo'[u] \in {ExitSubgraph, Tail(ExitSubgraph)}
      <3>1. CASE u = t
        <4>1. call'[u].name = name
          BY <1>3, <1>5, <3>1
        <4>2. name = "exit"
          BY <2>2, <4>1 DEF Leaving
        <4> QED
          BY <1>2, <1>10, <3>1, <4>2 DEF Fits
      <3>2. CASE u # t
        <4>1. call'[u].name = call[u].name /\ todo'[u] = todo[u]
          BY <1>3, <1>5, <1>10, <3>2
        <4>2. Leaving(u)
          BY <2>2, <4>1 DEF Leaving, Busy
        <4> QED
          BY <1>1, <4>1, <4>2 DEF ExitInv
      <3> QED
        BY <3>1, <3>2
    <2> QED
      BY <1>1, <2>1, <2>2 DEF ExitInv
  <1>17. GateInv'
    <2>1. ASSUME NEW u \in Threads, Gating(u)'
          PROVE  /\ found'[u] => Doomed(todo'[u]) \/ (todo'[u] = <<>> /\ raised'[u] # "nothing")
                 /\ ~found'[u] => Gated(todo'[u])
      <3>1. CASE u = t
        <4>1. call'[u].gate = gate /\ tier' = tier
          BY <1>3, <1>4, <1>5, <3>1
        <4>2. gate /\ tier >= 3
          BY <2>1, <4>1 DEF Gating
        <4>3. Gated(todo'[u])
          BY <1>2, <1>10, <3>1, <4>2
        <4>4. ~found'[u]
          BY <1>3, <1>5, <3>1
        <4> QED
          BY <4>3, <4>4
      <3>2. CASE u # t
        <4>1. /\ call'[u].gate = call[u].gate /\ tier' = tier /\ todo'[u] = todo[u]
              /\ raised'[u] = raised[u]
          BY <1>3, <1>4, <1>5, <1>10, <3>2
        <4>2. found'[u] = found[u]
          BY <1>3, <1>5, <3>2
        <4>3. Gating(u)
          BY <2>1, <4>1 DEF Gating
        <4> QED
          BY <1>1, <4>1, <4>2, <4>3 DEF GateInv
      <3> QED
        BY <3>1, <3>2
    <2> QED
      BY <2>1 DEF GateInv
  <1>18. CostInv'
    BY <1>1, <1>4, CostFrame
  <1> QED
    BY <1>6, <1>7, <1>8, <1>9, <1>13, <1>14, <1>15, <1>16, <1>17, <1>18 DEF EngineInv, EngineTypes

LEMMA InitHolds ==
  ASSUME EngineAssumption, tier \in 1 .. 4,
         NEW first \in {<<>>, <<Announcement>>}, InitialState(first)
  PROVE  EngineInv
  <1>1. Announcement \in Event /\ Announcement.kind = "note" /\ Announcement.hash = 1
        /\ Announcement.prev = Genesis
    BY DEF Announcement, Event, Genesis
  <1>2. /\ lines = first /\ made = Len(first) /\ score = MaxScore /\ violations = 0
        /\ lastHash = IF first = <<>> THEN Genesis ELSE first[1].hash
        /\ count = [c \in Counters |-> 0] /\ snapshots = 0
        /\ todo = [t \in Threads |-> <<>>] /\ draft = [t \in Threads |-> Announcement]
        /\ held = [t \in Threads |-> 0]
        /\ call = [t \in Threads |-> [name |-> "none", gate |-> FALSE]]
        /\ raised = [t \in Threads |-> "nothing"] /\ found = [t \in Threads |-> FALSE]
        /\ faults = 0 /\ calls = 0 /\ missing = {} /\ unwritten = 0 /\ charged = 0
        /\ tail = "sealed"
        /\ lost = [c \in Counters |-> 0] /\ ran = [c \in Counters |-> 0]
        /\ opened = [t \in Threads |-> 0] /\ leaked = 0
    BY DEF InitialState
  <1>3. /\ lines \in Seq(Event) /\ Len(lines) \in {0, 1}
        /\ lines = <<>> <=> Len(lines) = 0
        /\ \A i \in 1 .. Len(lines) : i = 1 /\ lines[i] = Announcement
    <2>1. CASE first = <<>>
      BY <1>2, <2>1, EmptySeq
    <2>2. CASE first = <<Announcement>>
      BY <1>1, <1>2, <2>2
    <2> QED
      BY <2>1, <2>2
  <1>4. TodoTypes
    BY <1>2, EmptyProgram, Programs DEF TodoTypes
  <1>5. LocalTypes
    BY <1>1, <1>2 DEF LocalTypes
  <1>6. LogTypes
    BY <1>1, <1>2, <1>3 DEF LogTypes, Genesis, Ends
  <1>7. CountTypes
    BY <1>2 DEF CountTypes, EngineAssumption
  <1>8. \A t \in Threads : ~Busy(t) /\ \A op : ~At(t, op)
    BY <1>2 DEF At, Busy
  <1>9. ExitInv
    BY <1>2, <1>8 DEF ExitInv, Leaving
  <1>10. ScoreInv
    BY <1>2, <1>8 DEF ScoreInv, AtLeast, EngineAssumption
  <1>11. ChainInv
    <2>1. AloneInv /\ MidInv
      BY <1>8 DEF AloneInv, MidInv, Mid
    <2>2. lastHash = LastFiled
      BY <1>2, <1>3 DEF LastFiled
    <2>3. RestInv
      BY <2>2 DEF RestInv, Known
    <2>4. LinkedInv
      BY <1>1, <1>3 DEF LinkedInv
    <2> QED
      BY <2>1, <2>3, <2>4 DEF ChainInv
  <1>12. LedgerInv
    <2>1. {i \in 1 .. Len(lines) : lines[i].kind = "content"} = {}
      BY <1>1, <1>3
    <2>2. Owers = {}
      BY <1>2, EmptyProgram, OwnsNothing DEF Owers, Owes
    <2>3. Filed("content") = 0
      BY <2>1, FS_EmptySet DEF Filed
    <2>4. Cardinality(Owers) = 0
      BY <2>2, FS_EmptySet
    <2>5. violations = 0 /\ unwritten = 0
      BY <1>2
    <2> QED
      BY <2>3, <2>4, <2>5 DEF LedgerInv
  <1>13. GateInv
    BY <1>2 DEF GateInv, Gating
  <1>14. CostInv
    BY <1>2 DEF CostInv, Pending
  <1> QED
    BY <1>4, <1>5, <1>6, <1>7, <1>9, <1>10, <1>11, <1>12, <1>13, <1>14 DEF EngineInv, EngineTypes

\* What the invariant says of a state.
LEMMA EngineSays ==
  ASSUME EngineInv, EngineAssumption
  PROVE  EngineTypeOK /\ ChainedUnlessOverlapped /\ LedgerAgrees /\ FailsClosed
  <1>1. EngineTypes /\ ExitInv /\ ScoreInv /\ ChainInv /\ LedgerInv /\ CostInv /\ GateInv
    BY DEF EngineInv
  <1>2. EngineTypeOK
    BY <1>1 DEF EngineTypeOK, EngineTypes, TodoTypes, LocalTypes, LogTypes, CountTypes, ExitInv,
           ScoreInv, Raisable
  <1>3. ChainedUnlessOverlapped
    BY <1>1 DEF ChainedUnlessOverlapped, ChainInv, LinkedInv, CostInv
  <1>4. LedgerAgrees
    <2> SUFFICES ASSUME \A t \in Threads : ~Busy(t)
                 PROVE  /\ violations = Filed("content") + unwritten
                        /\ unwritten <= 2 * faults
                        /\ score >= MaxScore - charged
                        /\ ~forgiven => score = AtLeast(0, MaxScore - charged)
      BY DEF LedgerAgrees
    <2>1. Owers = {}
      BY EmptyProgram, OwnsNothing DEF Owers, Owes, Busy
    <2>2. Filed("content") \in Nat /\ unwritten \in Nat
      BY <1>1, FiledType DEF EngineTypes, LogTypes
    <2>3. violations = Filed("content") + unwritten
      BY <1>1, <2>1, <2>2, FS_EmptySet DEF LedgerInv
    <2>4. unwritten <= 2 * faults
      <3>1. unwritten \in Nat /\ faults \in Nat /\ Pending \in Nat
        BY <1>1 DEF EngineTypes, LogTypes, CountTypes, Pending
      <3> QED
        BY <1>1, <3>1 DEF CostInv
    <2> QED
      BY <1>1, <2>3, <2>4 DEF ScoreInv
  <1>5. FailsClosed
    <2> SUFFICES ASSUME NEW t \in Threads, tier >= 3, call[t].gate, Returned(t)
                 PROVE  ~found[t]
      BY DEF FailsClosed
    <2>1. todo[t] = <<>> /\ raised[t] = "nothing"
      BY DEF Returned, Busy
    <2>2. ~Doomed(<<>>)
      BY DEF Doomed
    <2> QED
      BY <1>1, <2>1, <2>2 DEF GateInv, Gating
  <1> QED
    BY <1>2, <1>3, <1>4, <1>5

-----------------------------------------------------------------------------
(* What the operations are put together from *)

\* Statements that belong with no other.
Loose(x) == x.op \notin {"hash", "link", "write", "find", "readScore", "storeScore"}

LEMMA LooseWhole ==
  ASSUME NEW s \in Seq(Stmt), \A i \in 1 .. Len(s) : Loose(s[i])
  PROVE  Whole(s) /\ s \in Program
  <1>1. \A i \in 1 .. Len(s) : Ahead(s, i) /\ Behind(s, i)
    BY DEF Loose, Ahead, Behind, Content
  <1>2. Fresh(s)
    BY DEF Loose, Fresh, Content
  <1> QED
    BY <1>1, <1>2 DEF Whole, Joined, Program

LEMMA FlatConcat ==
  /\ <<>> \in Flat /\ <<>> \in Branching /\ Flat \subseteq Branching
  /\ \A a, b \in Flat : a \o b \in Flat
  /\ \A a, b \in Branching : a \o b \in Branching
  <1>1. <<>> \in Flat
    <2>1. <<>> \in Seq(Plain) /\ <<>> \in Seq(Stmt) /\ \A i \in 1 .. Len(<<>>) : Loose(<<>>[i])
      OBVIOUS
    <2> QED
      BY <2>1, LooseWhole DEF Flat
  <1>2. Flat \subseteq Branching
    BY SeqMonotonic DEF Flat, Branching
  <1>3. ASSUME NEW a \in Flat, NEW b \in Flat PROVE a \o b \in Flat
    <2>1. a \in Seq(Plain) /\ b \in Seq(Plain)
      BY DEF Flat
    <2>2. a \o b \in Seq(Plain)
      BY <2>1
    <2>3. Whole(a \o b)
      BY Programs, WholeConcat DEF Program
    <2> QED
      BY <2>2, <2>3 DEF Flat
  <1>4. ASSUME NEW a \in Branching, NEW b \in Branching PROVE a \o b \in Branching
    <2>1. a \in Seq(Plain \union Branch) /\ b \in Seq(Plain \union Branch)
      BY DEF Branching
    <2>2. a \o b \in Seq(Plain \union Branch)
      BY <2>1
    <2>3. Whole(a \o b)
      BY Programs, WholeConcat DEF Program
    <2> QED
      BY <2>2, <2>3 DEF Branching
  <1> QED
    BY <1>1, <1>2, <1>3, <1>4

LEMMA Single ==
  ASSUME NEW x \in Stmt, Loose(x)
  PROVE  /\ <<x>> \in Program
         /\ x \in Plain => <<x>> \in Flat
         /\ x \in Plain \union Branch => <<x>> \in Branching
         /\ ~MayReport(x) => Quiet(<<x>>)
         /\ Stops(x) => Doomed(<<x>>)
  <1> DEFINE s == <<x>>
  <1>1. /\ s \in Seq(Stmt) /\ Len(s) = 1 /\ s[1] = x
        /\ x \in Plain => s \in Seq(Plain)
        /\ x \in Plain \union Branch => s \in Seq(Plain \union Branch)
    OBVIOUS
  <1> HIDE DEF s
  <1>2. \A i \in 1 .. 1 : i = 1
    OBVIOUS
  <1>3. Whole(s) /\ s \in Program
    BY <1>1, <1>2, LooseWhole
  <1>4. x \in Plain => s \in Flat
    BY <1>1, <1>3 DEF Flat
  <1>5. x \in Plain \union Branch => s \in Branching
    BY <1>1, <1>3 DEF Branching
  <1>6. ~MayReport(x) => Quiet(s)
    BY <1>1, <1>2 DEF Quiet
  <1>7. Stops(x) => Doomed(s)
    BY <1>1, <1>2 DEF Stops, Doomed, Straight
  <1> QED
    BY <1>3, <1>4, <1>5, <1>6, <1>7 DEF s

\* Statements in a row that report nothing, without a branch, with branches
\* and with handlers.
Notes == {s \in Flat : Quiet(s)}
Silent == {s \in Branching : Quiet(s)}
Calm == {s \in Program : Quiet(s)}

\* From tier 3: what does not let a report pass, and what surely raises.
Guards == {s \in Branching : tier >= 3 => Gated(s)}
Seals == {s \in Guards : tier >= 3 => Doomed(s)}
Gates == {s \in Program : tier >= 3 => Gated(s)}

LEMMA Inclusions ==
  /\ Notes \subseteq Silent /\ Silent \subseteq Calm /\ Calm \subseteq Gates
  /\ Notes \subseteq Flat /\ Silent \subseteq Guards /\ Seals \subseteq Guards
  /\ Guards \subseteq Branching /\ Guards \subseteq Gates /\ Gates \subseteq Program
  /\ <<>> \in Notes /\ <<>> \in Silent /\ <<>> \in Guards
  <1>1. \A s : Quiet(s) => Gated(s)
    BY DEF Quiet, Gated
  <1>2. Notes \subseteq Silent /\ Silent \subseteq Calm /\ Calm \subseteq Gates
        /\ Silent \subseteq Guards /\ Guards \subseteq Gates
    BY <1>1, FlatConcat, Programs DEF Notes, Silent, Calm, Gates, Guards
  <1>3. Quiet(<<>>)
    BY DEF Quiet
  <1>4. <<>> \in Notes /\ <<>> \in Silent
    BY <1>3, FlatConcat DEF Notes, Silent
  <1> QED
    BY <1>2, <1>4 DEF Notes, Seals, Guards, Gates

LEMMA NotesConcat ==
  /\ \A a, b \in Notes : a \o b \in Notes
  /\ \A a, b \in Silent : a \o b \in Silent
  /\ \A a, b \in Calm : a \o b \in Calm
  <1>1. Flat \subseteq Seq(Stmt) /\ Branching \subseteq Seq(Stmt) /\ Program \subseteq Seq(Stmt)
    BY Programs DEF Program
  <1>2. \A a, b \in Notes : a \o b \in Notes
    BY <1>1, FlatConcat, QuietConcat DEF Notes
  <1>3. \A a, b \in Silent : a \o b \in Silent
    BY <1>1, FlatConcat, QuietConcat DEF Silent
  <1>4. \A a, b \in Calm : a \o b \in Calm
    BY <1>1, WholeConcat, QuietConcat DEF Calm
  <1> QED
    BY <1>2, <1>3, <1>4

LEMMA GuardsConcat ==
  /\ \A a, b \in Guards : a \o b \in Guards
  /\ \A a \in Branching, b \in Seals : a \o b \in Seals
  <1>1. \A a \in Branching : a \in Seq(Stmt) /\ Straight(a)
    BY BodyParts
  <1>2. ASSUME NEW a \in Guards, NEW b \in Guards PROVE a \o b \in Guards
    <2>1. a \in Branching /\ b \in Branching /\ a \o b \in Branching
      BY FlatConcat DEF Guards
    <2>2. tier >= 3 => Gated(a \o b)
      BY <1>1, <2>1, GatedConcat DEF Guards
    <2> QED
      BY <2>1, <2>2 DEF Guards
  <1>3. ASSUME NEW a \in Branching, NEW b \in Seals PROVE a \o b \in Seals
    <2>1. b \in Branching /\ a \o b \in Branching
      BY FlatConcat DEF Guards, Seals
    <2>2. tier >= 3 => Gated(b) /\ Doomed(b)
      BY DEF Guards, Seals
    <2>3. tier >= 3 => Gated(a \o b)
      BY <1>1, <2>1, <2>2, GatedConcat
    <2>4. tier >= 3 => Doomed(a \o b)
      BY <1>1, <2>1, <2>2, DoomedConcat
    <2> QED
      BY <2>1, <2>3, <2>4 DEF Guards, Seals
  <1> QED
    BY <1>2, <1>3

LEMMA GatesConcat ==
  ASSUME NEW a \in Gates, NEW b \in Program, tier >= 3 => b \in Guards
  PROVE  a \o b \in Gates
  <1>1. a \in Program /\ a \o b \in Program
    BY WholeConcat DEF Gates
  <1>2. ASSUME tier >= 3 PROVE Gated(a \o b)
    <2>1. Gated(a) /\ Gated(b) /\ b \in Branching
      BY <1>2 DEF Gates, Guards
    <2>2. a \in Seq(Stmt) /\ b \in Seq(Stmt) /\ Straight(b)
      BY <1>1, <2>1, BodyParts DEF Program
    <2> QED
      BY <2>1, <2>2, GatedConcat
  <1> QED
    BY <1>1, <1>2 DEF Gates

LEMMA WhenIn ==
  ASSUME NEW S, <<>> \in S, NEW c, NEW b, c => b \in S
  PROVE  When(c, b) \in S
  BY DEF When

\* The building blocks of the operations.
LEMMA StatementsFit ==
  ASSUME tier \in 1 .. 4
  PROVE  /\ \A k \in {"violation", "tripped", "classH", "other"} :
                /\ Raise(k) \in Notes /\ Raise(k) \in Seals
                /\ \A n \in {2, 3} : FailIf(n, k) \in Notes /\ FailIf(n, k) \in Seals
         /\ Verdict \in Seals
         /\ SnapshotState \in Silent /\ << [op |-> "frequency"] >> \in Silent
         /\ \A c \in Counters : /\ Execute(c) \in Silent /\ Admit(c) \in Silent
                                /\ \A n \in Nat : Assign(c, n) \in Silent
  <1>1. ASSUME NEW x \in Plain, Loose(x)
        PROVE  /\ <<x>> \in Notes /\ <<x>> \in Silent
               /\ Stops(x) => <<x>> \in Seals
    <2>1. x \in Stmt /\ ~MayReport(x)
      BY <1>1 DEF Stmt, Plain, Loose, MayReport, Reports, Branches, Handles
    <2>2. <<x>> \in Flat /\ Quiet(<<x>>) /\ (Stops(x) => Doomed(<<x>>))
      BY <1>1, <2>1, Single
    <2>3. <<x>> \in Notes /\ <<x>> \in Guards
      BY <2>2, Inclusions DEF Notes
    <2> QED
      BY <2>2, <2>3, Inclusions DEF Seals
  <1>2. ASSUME NEW k \in {"violation", "tripped", "classH", "other"}
        PROVE  Raise(k) \in Notes /\ Raise(k) \in Seals
    <2> DEFINE x == [op |-> "raise", kind |-> k]
    <2>1. x \in Plain /\ Loose(x) /\ Stops(x)
      BY DEF Plain, Loose, Stops
    <2> HIDE DEF x
    <2>2. <<x>> \in Notes /\ <<x>> \in Seals
      BY <1>1, <2>1
    <2> QED
      BY <2>2 DEF Raise, x
  <1>3. ASSUME NEW k \in {"violation", "tripped", "classH", "other"}, NEW n \in {2, 3}
        PROVE  FailIf(n, k) \in Notes /\ FailIf(n, k) \in Seals
    <2>1. CASE tier >= n
      BY <1>2, <2>1 DEF FailIf
    <2>2. CASE ~(tier >= n)
      <3>1. FailIf(n, k) = <<>> /\ <<>> \in Notes /\ <<>> \in Guards
        BY <2>2, Inclusions DEF FailIf
      <3>2. tier >= 3 => tier >= n
        OBVIOUS
      <3> QED
        BY <2>2, <3>1, <3>2 DEF Seals
    <2> QED
      BY <2>1, <2>2
  <1>4. Verdict \in Seals /\ SnapshotState \in Silent /\ << [op |-> "frequency"] >> \in Silent
    <2>1. \A o \in {"verdict", "snapshot", "frequency"} : [op |-> o] \in Plain /\ Loose([op |-> o])
      BY DEF Plain, Loose
    <2>2. Stops([op |-> "verdict"])
      BY DEF Stops
    <2> QED
      BY <1>1, <2>1, <2>2 DEF Verdict, SnapshotState
  <1>5. ASSUME NEW c \in Counters, NEW n \in Nat
        PROVE  Execute(c) \in Silent /\ Admit(c) \in Silent /\ Assign(c, n) \in Silent
    <2> DEFINE x == [op |-> "run", of |-> c]
               y == [op |-> "admit", of |-> c]
               z == [op |-> "assign", of |-> c, value |-> n]
    <2>1. x \in Plain /\ y \in Plain /\ z \in Plain
      BY DEF Plain
    <2>2. Loose(x) /\ Loose(y) /\ Loose(z)
      BY DEF Loose
    <2> HIDE DEF x, y, z
    <2>3. <<x>> \in Silent /\ <<y>> \in Silent /\ <<z>> \in Silent
      BY <1>1, <2>1, <2>2
    <2> QED
      BY <2>3 DEF Execute, Admit, Assign, x, y, z
  <1>6. 0 \in Nat
    OBVIOUS
  <1> QED
    BY <1>2, <1>3, <1>4, <1>5, <1>6

LEMMA AdjustFits ==
  ASSUME NEW c \in Counters, NEW by \in Int, NEW floor \in BOOLEAN
  PROVE  Adjust(c, by, floor) \in Notes /\ Adjust(c, by, floor) \in Silent
  <1> DEFINE x == [op |-> "read", of |-> c]
             y == [op |-> "store", of |-> c, by |-> by, floor |-> floor]
  <1>1. x \in Plain /\ y \in Plain
    BY DEF Plain
  <1>2. Loose(x) /\ Loose(y) /\ ~MayReport(x) /\ ~MayReport(y)
    BY DEF Loose, MayReport, Reports, Branches, Handles
  <1>3. x \in Stmt /\ y \in Stmt
    BY <1>1 DEF Stmt
  <1>4. Adjust(c, by, floor) = <<x>> \o <<y>>
    BY DEF Adjust
  <1> HIDE DEF x, y
  <1>5. <<x>> \in Notes /\ <<y>> \in Notes
    BY <1>1, <1>2, <1>3, Single DEF Notes
  <1> QED
    BY <1>4, <1>5, NotesConcat, Inclusions

LEMMA CompareFits ==
  ASSUME NEW c \in Counters, NEW limit \in Int, NEW over \in Flat, NEW within \in Flat
  PROVE  /\ Compare(c, limit, over, within) \in Branching
         /\ over \in Notes /\ within \in Notes => Compare(c, limit, over, within) \in Silent
  <1> DEFINE x == [op |-> "compare", of |-> c, limit |-> limit, over |-> over, within |-> within]
  <1>1. x \in Branch
    BY DEF Branch
  <1>2. Loose(x) /\ x.op = "compare" /\ x.over = over /\ x.within = within
    BY DEF Loose
  <1>3. Compare(c, limit, over, within) = <<x>>
    BY DEF Compare
  <1> HIDE DEF x
  <1>4. <<x>> \in Branching
    BY <1>1, <1>2, Single DEF Stmt
  <1>5. ASSUME over \in Notes, within \in Notes
        PROVE  <<x>> \in Silent
    <2>1. \A s \in Notes : ~Tells(s)
      BY DEF Notes, Quiet, Tells, MayReport
    <2>2. ~MayReport(x)
      BY <1>2, <1>5, <2>1 DEF MayReport, Reports, Branches, Handles
    <2> QED
      BY <1>1, <1>2, <1>4, <2>2, Single DEF Stmt, Silent
  <1> QED
    BY <1>3, <1>4, <1>5

LEMMA TryFits ==
  ASSUME NEW body \in Branching, NEW kinds \in SUBSET Raisable, NEW handler \in Branching
  PROVE  /\ Try(body, kinds, handler) \in Program
         /\ body \in Silent /\ handler \in Silent => Try(body, kinds, handler) \in Calm
  <1> DEFINE x == [op |-> "except", kinds |-> kinds, body |-> handler]
  <1>1. x \in Handler
    BY DEF Handler
  <1>2. Loose(x) /\ x.op = "except" /\ x.body = handler
    BY DEF Loose
  <1>3. Try(body, kinds, handler) = body \o <<x>>
    BY DEF Try
  <1> HIDE DEF x
  <1>4. <<x>> \in Program /\ body \in Program
    BY <1>1, <1>2, Single, Programs DEF Stmt
  <1>5. ASSUME body \in Silent, handler \in Silent
        PROVE  body \in Calm /\ <<x>> \in Calm
    <2>1. ~MayReport(x)
      BY <1>2, <1>5 DEF Silent, Quiet, MayReport, Reports, Branches, Handles
    <2> QED
      BY <1>1, <1>2, <1>4, <1>5, <2>1, Single, Inclusions DEF Stmt, Calm
  <1> QED
    BY <1>3, <1>4, <1>5, WholeConcat, NotesConcat

LEMMA PenaltyFits ==
  ASSUME NEW n \in Nat
  PROVE  Penalty(n) \in Notes
  <1> DEFINE s == Penalty(n)
  <1>1. s \in Seq(Plain) /\ Len(s) = 2 /\ s[1].op = "readScore" /\ s[2].op = "storeScore"
    BY DEF Penalty, Plain
  <1> HIDE DEF s
  <1>2. \A i \in 1 .. 2 : i = 1 \/ i = 2
    OBVIOUS
  <1>3. Joined(s)
    <2>1. Ahead(s, 1) /\ Ahead(s, 2)
      BY <1>1 DEF Ahead
    <2>2. Behind(s, 1) /\ Behind(s, 2)
      BY <1>1 DEF Behind, Before, Content
    <2> QED
      BY <1>1, <1>2, <2>1, <2>2 DEF Joined
  <1>4. Fresh(s)
    BY <1>1, <1>2 DEF Fresh, Content
  <1>5. Quiet(s)
    BY <1>1, <1>2 DEF Quiet, MayReport, Reports, Branches, Handles
  <1> QED
    BY <1>1, <1>3, <1>4, <1>5 DEF s, Flat, Whole, Notes

LEMMA EmitsFit ==
  /\ Emit("note") \in Notes /\ Emit("note") \in Silent
  /\ Emit("finding") \in Flat /\ Emit("finding") \in Branching
  BY EmitFits, EmitQuiet, FlatConcat, Inclusions DEF Notes

\* A violation of the list: found, charged, filed.
LEMMA ContentFits ==
  ContentViolation \in Flat
  <1> DEFINE f == << [op |-> "find"] >>
             p == Penalty(2)
             e == Emit("content")
             s == (f \o p) \o e
  <1>1. ContentViolation = s
    BY DEF ContentViolation
  <1>2. /\ f \in Seq(Plain) /\ Len(f) = 1 /\ f[1].op = "find"
        /\ p \in Seq(Plain) /\ Len(p) = 2 /\ p[1].op = "readScore" /\ p[2].op = "storeScore"
        /\ e \in Seq(Plain) /\ Len(e) = 3 /\ e[1].op = "hash" /\ e[1].kind = "content"
        /\ e[2].op = "link" /\ e[3].op = "write"
    <2>1. /\ [op |-> "find"] \in Plain /\ [op |-> "readScore"] \in Plain
          /\ [op |-> "storeScore", points |-> 2] \in Plain
          /\ [op |-> "hash", kind |-> "content"] \in Plain
          /\ [op |-> "link"] \in Plain /\ [op |-> "write"] \in Plain
      BY DEF Plain
    <2> QED
      BY <2>1 DEF Penalty, Emit
  <1> HIDE DEF f, p, e
  <1>3. /\ f \o p \in Seq(Plain) /\ Len(f \o p) = 3
        /\ \A i \in 1 .. 3 : (f \o p)[i] = IF i <= 1 THEN f[i] ELSE p[i - 1]
    BY <1>2, ConcatProperties
  <1>4. /\ s \in Seq(Plain) /\ Len(s) = 6
        /\ \A i \in 1 .. 6 : s[i] = IF i <= 3 THEN (f \o p)[i] ELSE e[i - 3]
    <2> DEFINE g == f \o p
    <2>1. g \in Seq(Plain) /\ e \in Seq(Plain) /\ Len(g) = 3 /\ Len(e) = 3
      BY <1>2, <1>3
    <2> HIDE DEF g
    <2>2. /\ g \o e \in Seq(Plain) /\ Len(g \o e) = 6
          /\ \A i \in 1 .. 6 : (g \o e)[i] = IF i <= 3 THEN g[i] ELSE e[i - 3]
      <3>1. /\ g \o e \in Seq(Plain) /\ Len(g \o e) = Len(g) + Len(e)
            /\ \A i \in 1 .. Len(g) + Len(e) :
                   (g \o e)[i] = IF i <= Len(g) THEN g[i] ELSE e[i - Len(g)]
        BY <2>1, ConcatProperties
      <3>2. Len(g) + Len(e) = 6
        BY <2>1
      <3> QED
        BY <2>1, <3>1, <3>2
    <2> QED
      BY <2>2 DEF g
  <1> HIDE DEF s
  <1>5. /\ s[1].op = "find" /\ s[2].op = "readScore" /\ s[3].op = "storeScore"
        /\ s[4].op = "hash" /\ s[4].kind = "content" /\ s[5].op = "link" /\ s[6].op = "write"
    BY <1>2, <1>3, <1>4
  <1>6. \A i \in 1 .. 6 : i = 1 \/ i = 2 \/ i = 3 \/ i = 4 \/ i = 5 \/ i = 6
    OBVIOUS
  <1>7. Content(s[4]) /\ \A i \in 1 .. 6 : Content(s[i]) => i = 4
    BY <1>5, <1>6 DEF Content
  <1>8. Joined(s)
    <2>1. /\ Ahead(s, 1) /\ Ahead(s, 2) /\ Ahead(s, 3)
          /\ Ahead(s, 4) /\ Ahead(s, 5) /\ Ahead(s, 6)
      BY <1>4, <1>5, <1>7 DEF Ahead
    <2>2. Behind(s, 1) /\ Behind(s, 2) /\ Behind(s, 3)
      BY <1>5 DEF Behind, Before, Content
    <2>3. Behind(s, 4) /\ Behind(s, 5) /\ Behind(s, 6)
      BY <1>5 DEF Behind, Before, Content
    <2> QED
      BY <1>4, <1>6, <2>1, <2>2, <2>3 DEF Joined
  <1>9. Fresh(s)
    BY <1>4, <1>5, <1>6, <1>7 DEF Fresh
  <1> QED
    BY <1>1, <1>4, <1>8, <1>9 DEF Flat, Whole

-----------------------------------------------------------------------------
(* The engine's operations are programs, and its gates are gated *)

LEMMA ScanFits ==
  ASSUME NEW h \in 0 .. 3
  PROVE  Scan(h) \in Flat /\ Scan(h) \in Branching /\ (~(h > 0) => Scan(h) \in Notes)
  <1>1. When(h > 0, ContentViolation) \in Flat /\ When(h > 1, ContentViolation) \in Flat
    BY ContentFits, FlatConcat, WhenIn
  <1>2. Scan(h) \in Flat
    BY <1>1, FlatConcat DEF Scan
  <1>3. ASSUME ~(h > 0) PROVE Scan(h) \in Notes
    <2>1. ~(h > 1)
      BY <1>3
    <2>2. Scan(h) = <<>> \o <<>>
      BY <1>3, <2>1 DEF Scan, When
    <2> QED
      BY <2>2, Inclusions, NotesConcat
  <1> QED
    BY <1>2, <1>3, FlatConcat

\* A scan whose finding is followed by what surely raises.
LEMMA ScanGuards ==
  ASSUME NEW h \in 0 .. 3, NEW b \in Seals
  PROVE  /\ Scan(h) \o When(h > 0, b) \in Guards
         /\ \A a \in Guards : (a \o Scan(h)) \o When(h > 0, b) \in Guards
  <1>1. CASE h > 0
    <2>1. When(h > 0, b) = b
      BY <1>1 DEF When
    <2>2. Scan(h) \in Branching /\ \A a \in Guards : a \o Scan(h) \in Branching
      BY ScanFits, FlatConcat, Inclusions
    <2> QED
      BY <2>1, <2>2, GuardsConcat, Inclusions
  <1>2. CASE ~(h > 0)
    <2>1. When(h > 0, b) = <<>> /\ <<>> \in Guards /\ Scan(h) \in Guards
      BY <1>2, ScanFits, Inclusions DEF When
    <2> QED
      BY <2>1, GuardsConcat
  <1> QED
    BY <1>1, <1>2

LEMMA BlockSeals ==
  ASSUME tier \in 1 .. 4
  PROVE  Block("violation") \in Seals
  BY EmitsFit, StatementsFit, GuardsConcat DEF Block

LEMMA IsolateGuards ==
  ASSUME tier \in 1 .. 4, NEW u, NEW h \in ScanHits
  PROVE  IsolateContext(u, h) \in Guards
  <1>1. h \in 0 .. 3
    BY DEF ScanHits
  <1>2. Scan(h) \o When(h > 0, Block("violation")) \in Guards
    BY <1>1, ScanGuards, BlockSeals
  <1> QED
    BY <1>2, WhenIn, Inclusions DEF IsolateContext

LEMMA MemoryGuards ==
  ASSUME tier \in 1 .. 4, NEW h \in ScanHits
  PROVE  ProtectMemoryWrite(h) \in Guards
  <1>1. h \in 0 .. 3
    BY DEF ScanHits
  <1>2. Scan(h) \in Branching /\ (~(h > 0) => Scan(h) \in Guards)
    BY <1>1, ScanFits, Inclusions
  <1>3. CASE h > 0
    <2>1. ProtectMemoryWrite(h) = Scan(h) \o Block("violation")
      BY <1>3 DEF ProtectMemoryWrite
    <2> QED
      BY <1>2, <2>1, BlockSeals, GuardsConcat, Inclusions
  <1>4. CASE ~(h > 0)
    <2>1. ProtectMemoryWrite(h) = Scan(h) \o Emit("note")
      BY <1>4 DEF ProtectMemoryWrite
    <2> QED
      BY <1>2, <1>4, <2>1, EmitsFit, GuardsConcat, Inclusions
  <1> QED
    BY <1>3, <1>4

LEMMA RecordSilent ==
  ASSUME EngineAssumption, tier \in 1 .. 4, NEW same \in Counters
  PROVE  RecordToolCall(same) \in Silent
  <1>1. /\ Total \in Counters /\ MaxToolCalls \in Int /\ MaxIdentical - 1 \in Int
        /\ 1 \in Int /\ FALSE \in BOOLEAN
    BY DEF EngineAssumption, Total
  <1>2. /\ Emit("note") \o Raise("tripped") \in Notes /\ Emit("note") \o FailIf(2, "tripped") \in Notes
        /\ <<>> \in Notes
    BY EmitsFit, StatementsFit, NotesConcat, Inclusions
  <1>3. /\ Compare(Total, MaxToolCalls, Emit("note") \o Raise("tripped"), <<>>) \in Silent
        /\ Compare(same, MaxIdentical - 1, Emit("note") \o FailIf(2, "tripped"), <<>>) \in Silent
    BY <1>1, <1>2, CompareFits, Inclusions
  <1>4. Adjust(Total, 1, FALSE) \in Silent /\ Adjust(same, 1, FALSE) \in Silent
    BY <1>1, AdjustFits
  <1> QED
    BY <1>3, <1>4, StatementsFit, NotesConcat DEF RecordToolCall

LEMMA ErrorSilent ==
  ASSUME EngineAssumption, tier \in 1 .. 4, NEW chain \in Counters
  PROVE  RecordChainError(chain) \in Silent
  <1>1. CascadeAt - 1 \in Int /\ 1 \in Int /\ FALSE \in BOOLEAN /\ 5 \in Nat
    BY DEF EngineAssumption
  <1>2. Emit("note") \o Emit("note") \o Penalty(5) \o FailIf(3, "tripped") \in Notes
    BY <1>1, EmitsFit, StatementsFit, PenaltyFits, NotesConcat
  <1>3. Compare(chain, CascadeAt - 1, Emit("note") \o Emit("note") \o Penalty(5) \o FailIf(3, "tripped"),
                Emit("note")) \in Silent
    BY <1>1, <1>2, CompareFits, EmitsFit, Inclusions
  <1> QED
    BY <1>1, <1>3, AdjustFits, NotesConcat DEF RecordChainError

\* A finding with its penalty.
LEMMA ChargedBranching ==
  /\ Emit("finding") \o Penalty(5) \in Branching
  /\ EmitCp8 \in Branching
  <1>1. Penalty(5) \in Branching /\ Penalty(20) \in Branching
    BY PenaltyFits, Inclusions
  <1> QED
    BY <1>1, EmitsFit, FlatConcat DEF EmitCp8

LEMMA DomainGuards ==
  ASSUME tier \in 1 .. 4, NEW private, NEW unlisted
  PROVE  CheckDomain(private, unlisted) \in Guards
  <1> DEFINE Ssrf == Emit("finding") \o Penalty(5) \o FailIf(2, "violation")
  <1>1. Ssrf \in Guards
    BY ChargedBranching, StatementsFit, GuardsConcat, Inclusions
  <1>2. CheckDomain(private, unlisted) =
            When(private > 0, Ssrf) \o When(private > 1, Ssrf) \o When(unlisted, Block("violation"))
    BY DEF CheckDomain
  <1> HIDE DEF Ssrf
  <1>3. /\ When(private > 0, Ssrf) \in Guards /\ When(private > 1, Ssrf) \in Guards
        /\ When(unlisted, Block("violation")) \in Guards
    BY <1>1, BlockSeals, WhenIn, Inclusions
  <1> QED
    BY <1>2, <1>3, GuardsConcat

LEMMA PathGuards ==
  ASSUME tier \in 1 .. 4, NEW dangerous, NEW outside
  PROVE  CheckPathSafety(dangerous, outside) \in Guards
  <1>1. Emit("finding") \o Penalty(5) \o FailIf(2, "violation") \in Guards
    BY ChargedBranching, StatementsFit, GuardsConcat, Inclusions
  <1>2. Emit("finding") \o Raise("violation") \in Guards
    BY EmitsFit, StatementsFit, GuardsConcat, Inclusions
  <1>3. /\ When(dangerous, Emit("finding") \o Penalty(5) \o FailIf(2, "violation")) \in Guards
        /\ When(outside, Emit("finding") \o Raise("violation")) \in Guards
    BY <1>1, <1>2, WhenIn, Inclusions
  <1> QED
    BY <1>3, GuardsConcat DEF CheckPathSafety

LEMMA HearGuards ==
  ASSUME tier \in 1 .. 4, NEW classH
  PROVE  CheckHearGate(classH) \in Guards
  <1>1. Emit("finding") \o Raise("classH") \in Guards
    BY EmitsFit, StatementsFit, GuardsConcat, Inclusions
  <1> QED
    BY <1>1, WhenIn, Inclusions DEF CheckHearGate

-----------------------------------------------------------------------------
(* Whatever a runtime calls is a program, gated where it is a gate *)

Opens(t) == \E name, gate, body : Begin(t, name, gate, body) /\ Fits(t, name, gate, body)

LEMMA GateOpens ==
  ASSUME NEW t, NEW name, name # "exit", NEW body \in Gates, Begin(t, name, TRUE, body)
  PROVE  Opens(t)
  <1>1. Fits(t, name, TRUE, body)
    BY DEF Fits, Gates
  <1> QED
    BY <1>1 DEF Opens

LEMMA CallOpens ==
  ASSUME NEW t, NEW name, name # "exit", NEW body \in Program, Begin(t, name, FALSE, body)
  PROVE  Opens(t)
  <1>1. Fits(t, name, FALSE, body)
    BY DEF Fits
  <1> QED
    BY <1>1 DEF Opens

LEMMA ScanProgram ==
  ASSUME NEW h \in 0 .. 3
  PROVE  Scan(h) \in Program
  BY ScanFits, Programs

LEMMA EngineCalls ==
  ASSUME tier \in 1 .. 4, NEW t, EngineCall(t)
  PROVE  Opens(t)
  <1>1. ASSUME NEW hits \in ScanHits, Begin(t, "scan", FALSE, Scan(hits)) PROVE Opens(t)
    <2>1. hits \in 0 .. 3
      BY DEF ScanHits
    <2> QED
      BY <1>1, <2>1, ScanProgram, CallOpens
  <1>2. ASSUME NEW untrusted \in BOOLEAN, NEW hits \in ScanHits,
               Begin(t, "isolate", TRUE, IsolateContext(untrusted, hits))
        PROVE  Opens(t)
    BY <1>2, IsolateGuards, Inclusions, GateOpens
  <1>3. ASSUME NEW hits \in ScanHits, Begin(t, "memory", TRUE, ProtectMemoryWrite(hits))
        PROVE  Opens(t)
    BY <1>3, MemoryGuards, Inclusions, GateOpens
  <1>4. ASSUME NEW private \in 0 .. 2, NEW unlisted \in BOOLEAN,
               Begin(t, "domain", TRUE, CheckDomain(private, unlisted))
        PROVE  Opens(t)
    BY <1>4, DomainGuards, Inclusions, GateOpens
  <1>5. ASSUME NEW dangerous \in BOOLEAN, NEW outside \in BOOLEAN,
               Begin(t, "path", TRUE, CheckPathSafety(dangerous, outside))
        PROVE  Opens(t)
    BY <1>5, PathGuards, Inclusions, GateOpens
  <1>6. RegisterNhi \in Program /\ EmitCp8 \in Program /\ RollbackState \in Program
    <2>1. Emit("note") \in Silent /\ RollbackState \in Silent
      BY EmitsFit, WhenIn, Inclusions DEF RollbackState
    <2> QED
      BY <2>1, ChargedBranching, Programs, Inclusions DEF RegisterNhi
  <1>7. ASSUME NEW classH \in BOOLEAN, Begin(t, "hear", TRUE, CheckHearGate(classH))
        PROVE  Opens(t)
    BY <1>7, HearGuards, Inclusions, GateOpens
  <1>8. ASSUME \/ Begin(t, "register", FALSE, RegisterNhi) \/ Begin(t, "cp8", FALSE, EmitCp8)
               \/ Begin(t, "rollback", FALSE, RollbackState)
        PROVE  Opens(t)
    BY <1>6, <1>8, CallOpens
  <1> QED
    BY <1>1, <1>2, <1>3, <1>4, <1>5, <1>7, <1>8 DEF EngineCall

LEMMA FrontOf ==
  ASSUME NEW a \in Seq(Stmt), NEW b \in Seq(Stmt)
  PROVE  SubSeq(a \o b, 1, Len(a \o b) - Len(b)) = a
  <1>1. Len(a) \in Nat /\ Len(b) \in Nat /\ Len(a \o b) - Len(b) = Len(a)
    BY ConcatAt
  <1>2. SubSeq(a \o b, 1, Len(a)) = a
    BY SubSeqOfConcat1, SubSeqFull, <1>1
  <1> QED
    BY <1>1, <1>2

\* A wrapped node up to the event of its completion.
Checked(n, u) ==
    Adjust(NodeCalls(n), 1, FALSE)
        \o Compare(NodeCalls(n), MaxNodeCalls, Emit("note") \o FailIf(2, "tripped"), <<>>)
        \o RecordToolCall(SameNode(n))
        \o SnapshotState
        \o Try(Execute(SameNode(n)), {"other"}, RecordChainError(NodeErrors(n)) \o Raise("other"))
        \o GuardState(u) \o GuardRouting(u) \o GuardUrls(u) \o CheckHearGate(u.classH)

LEMMA CheckedGates ==
  ASSUME EngineAssumption, LangGraphAssumption, LangGraphCounters, tier \in 1 .. 4,
         NEW n \in Nodes, NEW u, u.hits \in ScanHits
  PROVE  Checked(n, u) \in Gates
  <1>1. /\ NodeCalls(n) \in Counters /\ SameNode(n) \in Counters /\ NodeErrors(n) \in Counters
        /\ MaxNodeCalls \in Int /\ 1 \in Int /\ FALSE \in BOOLEAN
    BY DEF LangGraphCounters, LangGraphAssumption
  <1> DEFINE a == Adjust(NodeCalls(n), 1, FALSE)
             c == Compare(NodeCalls(n), MaxNodeCalls, Emit("note") \o FailIf(2, "tripped"), <<>>)
             r == RecordToolCall(SameNode(n))
             e == Try(Execute(SameNode(n)), {"other"}, RecordChainError(NodeErrors(n)) \o Raise("other"))
             before == a \o c \o r \o SnapshotState \o e
  <1>2. Emit("note") \o FailIf(2, "tripped") \in Notes /\ <<>> \in Notes
    BY EmitsFit, StatementsFit, NotesConcat, Inclusions
  <1>3. a \in Silent /\ c \in Silent /\ r \in Silent /\ SnapshotState \in Silent
    BY <1>1, <1>2, AdjustFits, CompareFits, RecordSilent, StatementsFit, Inclusions
  <1>4. e \in Calm
    <2>1. Execute(SameNode(n)) \in Silent
      BY <1>1, StatementsFit
    <2>2. RecordChainError(NodeErrors(n)) \o Raise("other") \in Silent
      BY <1>1, ErrorSilent, StatementsFit, NotesConcat, Inclusions
    <2>3. {"other"} \in SUBSET Raisable
      BY DEF Raisable
    <2> QED
      BY <2>1, <2>2, <2>3, TryFits, Inclusions
  <1> HIDE DEF a, c, r, e
  <1>5. before \in Gates
    <2>1. a \o c \in Silent
      BY <1>3, NotesConcat
    <2>2. a \o c \o r \in Silent
      BY <1>3, <2>1, NotesConcat
    <2>3. a \o c \o r \o SnapshotState \in Silent
      BY <1>3, <2>2, NotesConcat
    <2> QED
      BY <1>4, <2>3, NotesConcat, Inclusions
  <1>6. Checked(n, u) =
            before \o GuardState(u) \o GuardRouting(u) \o GuardUrls(u) \o CheckHearGate(u.classH)
    BY DEF Checked, a, c, r, e
  <1> HIDE DEF before
  <1>7. GuardState(u) \in Guards
    <2>1. u.hits \in 0 .. 3
      BY DEF ScanHits
    <2> QED
      BY <2>1, ScanGuards, StatementsFit DEF GuardState
  <1>8. GuardRouting(u) \in Guards
    <2>1. Scan(1) \o Block("violation") \in Guards
      <3>1. 1 \in 0 .. 3
        OBVIOUS
      <3> QED
        BY <3>1, ScanFits, BlockSeals, GuardsConcat, Inclusions
    <2> QED
      BY <2>1, BlockSeals, WhenIn, GuardsConcat, Inclusions DEF GuardRouting
  <1>9. GuardUrls(u) \in Program /\ (tier >= 3 => GuardUrls(u) \in Guards)
    <2>1. CheckDomain(u.private, u.unlisted) \in Guards
      BY DomainGuards
    <2>2. Try(CheckDomain(u.private, u.unlisted), {"violation"}, <<>>) \in Program
      <3>1. {"violation"} \in SUBSET Raisable
        BY DEF Raisable
      <3> QED
        BY <2>1, <3>1, TryFits, FlatConcat, Inclusions
    <2> QED
      BY <2>1, <2>2, Inclusions DEF GuardUrls
  <1>10. CheckHearGate(u.classH) \in Guards
    BY HearGuards
  <1>11. Guards \subseteq Program
    BY Inclusions
  <1>12. before \o GuardState(u) \in Gates
    BY <1>5, <1>7, <1>11, GatesConcat
  <1>13. before \o GuardState(u) \o GuardRouting(u) \in Gates
    BY <1>8, <1>11, <1>12, GatesConcat
  <1>14. before \o GuardState(u) \o GuardRouting(u) \o GuardUrls(u) \in Gates
    BY <1>9, <1>13, GatesConcat
  <1> QED
    BY <1>6, <1>10, <1>11, <1>14, GatesConcat

LEMMA NodeGates ==
  ASSUME EngineAssumption, LangGraphAssumption, LangGraphCounters, tier \in 1 .. 4, NEW n \in Nodes
  PROVE  WrapNodeEmpty(n) \in Gates /\ \A u \in Updates : WrapNode(n, u) \in Gates
  <1>1. CleanUpdate.hits \in ScanHits /\ \A u \in Updates : u.hits \in ScanHits
    BY DEF CleanUpdate, Updates, ScanHits
  <1>2. NodeCompleted \in Guards /\ NodeCompleted \in Program
    BY EmitsFit, Inclusions DEF NodeCompleted
  <1>3. \A u : WrapNode(n, u) = Checked(n, u) \o NodeCompleted
    BY DEF WrapNode, Checked
  <1>4. \A u \in Updates : WrapNode(n, u) \in Gates
    BY <1>1, <1>2, <1>3, CheckedGates, GatesConcat
  <1>5. Checked(n, CleanUpdate) \in Gates
    BY <1>1, CheckedGates
  <1>6. WrapNodeEmpty(n) = Checked(n, CleanUpdate)
    <2>1. Checked(n, CleanUpdate) \in Seq(Stmt) /\ NodeCompleted \in Seq(Stmt)
      BY <1>2, <1>5 DEF Gates, Program
    <2> DEFINE a == Checked(n, CleanUpdate)
    <2>2. WrapNodeEmpty(n) = SubSeq(a \o NodeCompleted, 1, Len(a \o NodeCompleted) - Len(NodeCompleted))
      BY <1>3 DEF WrapNodeEmpty
    <2> HIDE DEF a
    <2> QED
      BY <2>1, <2>2, FrontOf DEF a
  <1> QED
    BY <1>4, <1>5, <1>6

LEMMA SubgraphCalls ==
  ASSUME LangGraphAssumption, LangGraphCounters, tier \in 1 .. 4, NEW t, CallSubgraph(t)
  PROVE  Opens(t)
  <1>1. Depth \in Counters /\ MaxDepth[tier] \in Int /\ 1 \in Int /\ -1 \in Int
        /\ TRUE \in BOOLEAN /\ FALSE \in BOOLEAN
    BY DEF LangGraphCounters, LangGraphAssumption
  <1>2. CASE Begin(t, "enter", FALSE, EnterSubgraph)
    <2>1. Emit("note") \o Adjust(Depth, -1, FALSE) \o Raise("tripped") \in Notes
      BY <1>1, EmitsFit, AdjustFits, StatementsFit, NotesConcat
    <2>2. Compare(Depth, MaxDepth[tier], Emit("note") \o Adjust(Depth, -1, FALSE) \o Raise("tripped"),
                  Emit("note")) \in Silent
      BY <1>1, <2>1, EmitsFit, CompareFits, Inclusions
    <2>3. EnterSubgraph \in Silent
      BY <1>1, <2>2, AdjustFits, NotesConcat DEF EnterSubgraph
    <2> QED
      BY <1>2, <2>3, CallOpens, Inclusions
  <1>3. CASE opened[t] > 0 /\ Begin(t, "exit", FALSE, ExitSubgraph)
    <2>1. ExitSubgraph \in Program
      BY <1>1, AdjustFits, Inclusions DEF ExitSubgraph
    <2>2. Fits(t, "exit", FALSE, ExitSubgraph)
      BY <1>3, <2>1 DEF Fits
    <2> QED
      BY <1>3, <2>2 DEF Opens
  <1> QED
    BY <1>2, <1>3 DEF CallSubgraph

LEMMA LangGraphCalls ==
  ASSUME EngineAssumption, LangGraphAssumption, LangGraphCounters, tier \in 1 .. 4,
         NEW t, LangGraphCall(t)
  PROVE  Opens(t)
  <1>1. ASSUME CallNode(t) PROVE Opens(t)
    <2>1. PICK n \in Nodes : \/ \E u \in Updates : Begin(t, "node", TRUE, WrapNode(n, u))
                             \/ Begin(t, "node", TRUE, WrapNodeEmpty(n))
      BY <1>1 DEF CallNode
    <2> QED
      BY <2>1, NodeGates, GateOpens
  <1>2. ASSUME CallStateWrite(t) PROVE Opens(t)
    <2>1. PICK hits \in ScanHits : Begin(t, "state", TRUE, ProtectStateWrite(hits))
      BY <1>2 DEF CallStateWrite
    <2> QED
      BY <2>1, MemoryGuards, GateOpens, Inclusions DEF ProtectStateWrite
  <1> QED
    BY <1>1, <1>2, SubgraphCalls DEF LangGraphCall

\* A scan, and an exception from tier 3 if it found anything.
LEMMA CheckedScan ==
  ASSUME tier \in 1 .. 4, NEW h \in 0 .. 3
  PROVE  /\ Scan(h) \o When(h > 0, FailIf(3, "violation")) \in Guards
         /\ \A a \in Guards : a \o Scan(h) \o When(h > 0, FailIf(3, "violation")) \in Guards
  BY ScanGuards, StatementsFit

LEMMA LangChainCalls ==
  ASSUME EngineAssumption, LangChainCounters, tier \in 1 .. 4, NEW t, LangChainCall(t)
  PROVE  Opens(t)
  <1>1. OneHit \subseteq 0 .. 3 /\ ScanHits \subseteq 0 .. 3 /\ 0 \in 0 .. 3
    BY DEF OneHit, ScanHits
  <1>2. Tool \in Counters /\ Memory \in Counters /\ ChainErrors \in Counters
        /\ \A i \in Inputs : SameInput(i) \in Counters
    BY DEF LangChainCounters
  <1>3. ASSUME NEW hits \in OneHit,
               \/ Begin(t, "on_llm_start", TRUE, OnLlmStart(hits))
               \/ Begin(t, "on_chat_model_start", TRUE, OnChatModelStart(hits))
               \/ Begin(t, "check_input", TRUE, CheckInput(hits))
        PROVE  Opens(t)
    <2>1. /\ OnLlmStart(hits) \in Gates /\ OnChatModelStart(hits) \in Gates
          /\ CheckInput(hits) \in Gates
      BY <1>1, CheckedScan, Inclusions DEF OnLlmStart, OnChatModelStart, CheckInput
    <2> QED
      BY <1>3, <2>1, GateOpens
  <1>4. ASSUME NEW hits \in OneHit,
               \/ Begin(t, "on_llm_end", FALSE, OnLlmEnd(hits))
               \/ Begin(t, "on_chain_end", FALSE, OnChainEnd(hits))
        PROVE  Opens(t)
    <2>1. {"os"} \in SUBSET Raisable
      BY DEF Raisable
    <2>2. OnLlmEnd(hits) \in Program /\ OnChainEnd(hits) \in Program
      BY <1>1, <2>1, ScanFits, TryFits, FlatConcat, Programs DEF OnLlmEnd, OnChainEnd
    <2> QED
      BY <1>4, <2>2, CallOpens
  <1>5. ASSUME NEW i \in Inputs, NEW classH \in BOOLEAN,
               Begin(t, "on_tool_start", TRUE, OnToolStart(i, classH))
        PROVE  Opens(t)
    <2>1. OnToolStart(i, classH) \in Gates
      BY <1>2, RecordSilent, HearGuards, GuardsConcat, Inclusions DEF OnToolStart
    <2> QED
      BY <1>5, <2>1, GateOpens
  <1>6. ASSUME NEW hits \in ScanHits, Begin(t, "on_tool_end", TRUE, OnToolEnd(hits))
        PROVE  Opens(t)
    <2>1. OnToolEnd(hits) \in Gates
      BY <1>1, CheckedScan, Inclusions DEF OnToolEnd
    <2> QED
      BY <1>6, <2>1, GateOpens
  <1>7. ASSUME \/ Begin(t, "on_chain_error", FALSE, OnChainError)
               \/ Begin(t, "on_agent_action", FALSE, OnAgentAction)
        PROVE  Opens(t)
    <2>1. OnChainError \in Program /\ OnAgentAction \in Program
      BY <1>2, ErrorSilent, EmitsFit, Inclusions DEF OnChainError, OnAgentAction
    <2> QED
      BY <1>7, <2>1, CallOpens
  <1>8. \A h \in 0 .. 3 : SafeRun(h) \in Guards
    BY <1>2, StatementsFit, CheckedScan, Inclusions DEF SafeRun
  <1>9. ASSUME NEW hits \in ScanHits,
               \/ Begin(t, "tool", TRUE, SafeRun(hits)) \/ Begin(t, "memory", TRUE, SafeSaveContext(hits))
        PROVE  Opens(t)
    <2>1. SafeRun(hits) \in Gates
      BY <1>1, <1>8, Inclusions
    <2>2. SafeSaveContext(hits) \in Gates
      BY <1>2, MemoryGuards, StatementsFit, GuardsConcat, Inclusions DEF SafeSaveContext
    <2> QED
      BY <1>9, <2>1, <2>2, GateOpens
  <1>10. ASSUME NEW private \in 0 .. 2, NEW unlisted \in BOOLEAN,
                Begin(t, "tool", TRUE, SafeFunc(private, unlisted, 0))
         PROVE  Opens(t)
    <2>1. SafeFunc(private, unlisted, 0) \in Gates
      BY <1>1, <1>8, DomainGuards, GuardsConcat, Inclusions DEF SafeFunc
    <2> QED
      BY <1>10, <2>1, GateOpens
  <1>11. ASSUME CallHandler(t) PROVE Opens(t)
    BY <1>3, <1>4, <1>5, <1>6, <1>7, <1>11 DEF CallHandler
  <1>12. ASSUME CallWrapped(t) PROVE Opens(t)
    BY <1>9, <1>10, <1>12 DEF CallWrapped
  <1> QED
    BY <1>11, <1>12 DEF LangChainCall

LEMMA CrewCalls ==
  ASSUME EngineAssumption, CrewAssumption, CrewCounters, tier \in 1 .. 4, NEW t, CrewCall(t)
  PROVE  Opens(t)
  <1>1. ScanHits \subseteq 0 .. 3 /\ 0 \in ScanHits
    BY DEF ScanHits
  <1>2. \A h \in ScanHits : WrapAgent(h) \in Guards
    <2>1. \A h \in ScanHits : ValidateIdentity(h) \in Guards
      BY <1>1, ScanGuards, BlockSeals DEF ValidateIdentity
    <2> QED
      BY <2>1, EmitsFit, GuardsConcat, Inclusions DEF WrapAgent, RegisterNhi
  <1>3. \A h \in ScanHits : WrapCrew(h) \in Guards
    <2>1. Emit("note") \in Guards
      BY EmitsFit, Inclusions
    <2> QED
      BY <1>1, <1>2, <2>1, GuardsConcat DEF WrapCrew
  <1>4. \A h \in ScanHits : CrewSafeRun(h) \in Guards
    <2>1. Execute(CrewTool) \in Guards
      BY StatementsFit, Inclusions DEF CrewCounters
    <2> QED
      BY <1>1, <2>1, CheckedScan DEF CrewSafeRun
  <1>5. ASSUME NEW k \in Tasks, NEW h \in ScanHits, NEW classH
        PROVE  ProtectTaskOutput(k, h, classH) \in Guards
    <2>1. SameTask(k) \in Counters /\ TaskCalls(k) \in Counters /\ MaxTaskCalls \in Int
          /\ 1 \in Int /\ FALSE \in BOOLEAN
      BY DEF CrewCounters, CrewAssumption
    <2>2. Emit("note") \o FailIf(2, "tripped") \in Notes /\ <<>> \in Notes
      BY EmitsFit, StatementsFit, NotesConcat, Inclusions
    <2> DEFINE r == RecordToolCall(SameTask(k))
               a == Adjust(TaskCalls(k), 1, FALSE)
               c == Compare(TaskCalls(k), MaxTaskCalls, Emit("note") \o FailIf(2, "tripped"), <<>>)
    <2>3. r \in Silent /\ a \in Silent /\ c \in Silent
      BY <2>1, <2>2, RecordSilent, AdjustFits, CompareFits, Inclusions
    <2>4. ProtectTaskOutput(k, h, classH) =
              r \o a \o c \o Scan(h) \o When(h > 0, FailIf(3, "violation"))
                \o CheckHearGate(classH) \o Emit("note")
      BY DEF ProtectTaskOutput
    <2> HIDE DEF r, a, c
    <2>5. r \o a \o c \in Guards
      BY <2>3, NotesConcat, Inclusions
    <2>6. r \o a \o c \o Scan(h) \o When(h > 0, FailIf(3, "violation")) \in Guards
      BY <1>1, <2>5, CheckedScan
    <2>7. CheckHearGate(classH) \in Guards /\ Emit("note") \in Guards
      BY HearGuards, EmitsFit, Inclusions
    <2> QED
      BY <2>4, <2>6, <2>7, GuardsConcat
  <1>6. ASSUME NEW hits \in ScanHits,
               \/ Begin(t, "agent", TRUE, WrapAgent(hits)) \/ Begin(t, "crew", TRUE, WrapCrew(hits))
               \/ Begin(t, "tool", TRUE, CrewSafeRun(hits))
        PROVE  Opens(t)
    BY <1>2, <1>3, <1>4, <1>6, GateOpens, Inclusions
  <1>7. ASSUME NEW k \in Tasks, NEW hits \in ScanHits, NEW classH \in BOOLEAN,
               Begin(t, "task", TRUE, ProtectTaskOutput(k, hits, classH))
        PROVE  Opens(t)
    BY <1>5, <1>7, GateOpens, Inclusions
  <1>8. ASSUME NEW k \in Tasks, Begin(t, "callback", TRUE, TaskCallback(k, 0, FALSE))
        PROVE  Opens(t)
    <2>1. Execute(SameTask(k)) \in Guards
      BY StatementsFit, Inclusions DEF CrewCounters
    <2>2. TaskCallback(k, 0, FALSE) \in Gates
      BY <1>1, <1>5, <2>1, GuardsConcat, Inclusions DEF TaskCallback
    <2> QED
      BY <1>8, <2>2, GateOpens
  <1> QED
    BY <1>6, <1>7, <1>8 DEF CrewCall

LEMMA AutoGenCalls ==
  ASSUME EngineAssumption, AutoGenCounters, tier \in 1 .. 4, NEW t, AutoGenCall(t)
  PROVE  Opens(t)
  <1>1. ScanHits \subseteq 0 .. 3 /\ 0 \in ScanHits /\ 1 \in ScanHits /\ 0 .. 1 \subseteq 0 .. 3
    BY DEF ScanHits
  <1>2. \A h \in ScanHits : ScanMessage(h) \in Guards
    BY <1>1, CheckedScan DEF ScanMessage
  <1>3. \A block : ProtectCodeBlock(block) \in Guards
    <2> SUFFICES ASSUME NEW block PROVE ProtectCodeBlock(block) \in Guards
      OBVIOUS
    <2>1. EmitCp8 \o FailIf(2, "violation") \in Guards
      BY ChargedBranching, StatementsFit, GuardsConcat, Inclusions
    <2>2. When(block.catastrophic, EmitCp8 \o FailIf(2, "violation")) \in Guards
      BY <2>1, WhenIn, Inclusions
    <2>3. ScanCode(block) \in Guards
      <3>1. Emit("finding") \o FailIf(3, "violation") \in Guards
        BY EmitsFit, StatementsFit, GuardsConcat, Inclusions
      <3> QED
        BY <3>1, WhenIn, Inclusions DEF ScanCode
    <2>4. ScanNetwork(block) \in Guards
      <3>1. (IF AllowlistSet THEN Block("violation") ELSE Emit("note")) \in Guards
        BY BlockSeals, EmitsFit, Inclusions
      <3> QED
        BY <3>1, WhenIn, Inclusions DEF ScanNetwork
    <2>5. CheckHearGate(block.classH) \in Guards
      BY HearGuards
    <2> QED
      BY <2>2, <2>3, <2>4, <2>5, GuardsConcat DEF ProtectCodeBlock
  <1>4. \A a \in Agents : RecordToolCall(SameAgent(a)) \in Guards /\ Execute(SameAgent(a)) \in Guards
    BY RecordSilent, StatementsFit, Inclusions DEF AutoGenCounters
  <1>5. Emit("note") \in Guards
    BY EmitsFit, Inclusions
  <1>6. \A a \in Agents, h \in ScanHits : OnMessages(a, h) \in Guards
    BY <1>2, <1>4, <1>5, GuardsConcat DEF OnMessages
  <1>7. \A a \in Agents, h \in ScanHits : \A block : OnCodeMessages(a, h, block) \in Guards
    BY <1>2, <1>3, <1>4, GuardsConcat DEF OnCodeMessages
  <1>8. \A h \in 0 .. 1 : WrapAssistant(h) \in Guards
    BY <1>1, <1>5, CheckedScan, GuardsConcat DEF WrapAssistant, RegisterNhi
  <1>9. WrapCodeExecutor \in Program
    BY EmitsFit, NotesConcat, Inclusions DEF WrapCodeExecutor, RegisterNhi
  <1>10. ASSUME NEW a \in Agents, NEW hits \in ScanHits, Begin(t, "on_messages", TRUE, OnMessages(a, hits))
         PROVE  Opens(t)
    BY <1>6, <1>10, GateOpens, Inclusions
  <1>11. ASSUME NEW a \in Agents, NEW block, NEW h \in ScanHits,
                Begin(t, "on_messages", TRUE, OnCodeMessages(a, h, block))
         PROVE  Opens(t)
    BY <1>7, <1>11, GateOpens, Inclusions
  <1>12. ASSUME NEW hits \in 0 .. 1, Begin(t, "assistant", TRUE, WrapAssistant(hits))
         PROVE  Opens(t)
    BY <1>8, <1>12, GateOpens, Inclusions
  <1>13. ASSUME Begin(t, "executor", FALSE, WrapCodeExecutor) PROVE Opens(t)
    BY <1>9, <1>13, CallOpens
  <1>14. ASSUME NEW hits \in ScanHits, Begin(t, "content", FALSE, Scan(hits)) PROVE Opens(t)
    BY <1>1, <1>14, ScanProgram, CallOpens
  <1>15. ASSUME NEW block, Begin(t, "block", TRUE, ProtectCodeBlock(block)) PROVE Opens(t)
    BY <1>3, <1>15, GateOpens, Inclusions
  <1> QED
    BY <1>1, <1>10, <1>11, <1>12, <1>13, <1>14, <1>15 DEF AutoGenCall

-----------------------------------------------------------------------------
(* The light engine's scans end in a verdict *)

LEMMA LightFits ==
  /\ Record \in Flat /\ Record \in Branching
  /\ \A c : When(c, Record) \in Branching
  /\ LightCounters => \A h : ScanText(h) \in Branching
  /\ \A a, b \in Branching : a \o b \in Branching
  <1>1. Record = ContentViolation
    BY DEF Record, ContentViolation
  <1>2. Record \in Flat /\ Record \in Branching
    BY <1>1, ContentFits, FlatConcat
  <1>3. \A c : When(c, Record) \in Branching
    BY <1>2, WhenIn, FlatConcat
  <1>4. ASSUME LightCounters, NEW h PROVE ScanText(h) \in Branching
    <2>1. 1 \in Int /\ FALSE \in BOOLEAN
      OBVIOUS
    <2>2. Adjust(Scans, 1, FALSE) \in Branching
      BY <1>4, <2>1, AdjustFits, Inclusions DEF LightCounters
    <2> QED
      BY <1>3, <2>2, FlatConcat DEF ScanText
  <1> QED
    BY <1>2, <1>3, <1>4, FlatConcat

\* Statements that end in a verdict.
LEMMA VerdictGates ==
  ASSUME tier \in 1 .. 4, NEW a \in Branching
  PROVE  a \o Verdict \in Gates
  BY StatementsFit, GuardsConcat, Inclusions

\* A counter taken up by one, and a finding if it is over its limit.
LEMMA BudgetFits ==
  ASSUME NEW c \in Counters, NEW n \in Nat
  PROVE  Adjust(c, 1, FALSE) \in Branching /\ Compare(c, n, Record, <<>>) \in Branching
  <1>1. 1 \in Int /\ FALSE \in BOOLEAN /\ n \in Int
    OBVIOUS
  <1> QED
    BY <1>1, AdjustFits, CompareFits, LightFits, FlatConcat, Inclusions

LEMMA GrokCalls ==
  ASSUME GrokAssumption, GrokCounters, LightCounters, tier \in 1 .. 4, NEW t, GrokCall(t)
  PROVE  Opens(t)
  <1>1. Turns \in Counters /\ Ops \in Counters /\ MaxTurns \in Nat /\ MaxOps \in Nat /\ 0 \in Nat
    BY DEF GrokCounters, GrokAssumption
  <1>2. StartSession \in Program /\ EndSession \in Program
    <2>1. Assign(Turns, 0) \in Silent /\ Assign(Ops, 0) \in Silent
      BY <1>1, StatementsFit
    <2> QED
      BY <2>1, NotesConcat, Inclusions DEF StartSession, EndSession
  <1>3. \A h : /\ ScanSkillFile(h) \in Gates /\ ScanPrompt(h) \in Program
               /\ ScanResponse(h) \in Program
    <2>1. \A h : ScanSkillFile(h) \in Gates
      BY LightFits, VerdictGates DEF ScanSkillFile
    <2>2. \A h : ScanPrompt(h) \in Branching /\ ScanResponse(h) \in Branching
      BY <1>1, BudgetFits, LightFits DEF ScanPrompt, ScanResponse
    <2> QED
      BY <2>1, <2>2, Programs
  <1>4. \A d, h : ScanHookScript(d, h) \in Gates
    <2>1. \A d, h : When(d > 0, Record) \o When(d > 1, Record) \o ScanText(h) \in Branching
      BY LightFits
    <2> QED
      BY <2>1, VerdictGates DEF ScanHookScript
  <1>5. \A d : ScanConfig(d) \in Gates
    <2>1. \A d : When(d > 0, Record) \o When(d > 1, Record) \in Branching
      BY LightFits
    <2> QED
      BY <2>1, VerdictGates DEF ScanConfig
  <1>6. \A p : ScanSandboxProfile(p) \in Gates
    <2>1. Record \o Raise("violation") \in Gates /\ <<>> \in Gates
      BY LightFits, StatementsFit, GuardsConcat, Inclusions
    <2> QED
      BY <2>1, WhenIn DEF ScanSandboxProfile
  <1>7. ASSUME NEW h, NEW tool, NEW crowd
        PROVE  ScanMultiAgentRequest(h, tool, crowd) \in Gates
    <2> DEFINE a == ScanText(h) \o When(tool, Record) \o When(crowd, Record)
               b == Adjust(Turns, 1, FALSE)
               c == Compare(Turns, MaxTurns, Record, <<>>)
               d == Adjust(Ops, 1, FALSE)
               e == Compare(Ops, MaxOps, Record, <<>>)
    <2>1. a \in Branching
      BY LightFits
    <2>2. b \in Branching /\ c \in Branching /\ d \in Branching /\ e \in Branching
      BY <1>1, BudgetFits
    <2>3. ScanMultiAgentRequest(h, tool, crowd) =
              a \o b \o c \o d \o e \o Verdict \o Admit(Turns) \o Admit(Ops)
      BY DEF ScanMultiAgentRequest
    <2> HIDE DEF a, b, c, d, e
    <2>4. a \o b \o c \o d \o e \in Branching
      BY <2>1, <2>2, FlatConcat
    <2>5. a \o b \o c \o d \o e \o Verdict \in Guards
      BY <2>4, StatementsFit, GuardsConcat, Inclusions
    <2>6. Admit(Turns) \in Guards /\ Admit(Ops) \in Guards
      BY <1>1, StatementsFit, Inclusions
    <2> QED
      BY <2>3, <2>5, <2>6, GuardsConcat, Inclusions
  <1>8. \A p, q : ScanHeadlessArgs(p, q) \in Gates
    <2>1. \A p, q : When(p, Record) \o When(q, Record) \in Branching
      BY LightFits
    <2> QED
      BY <2>1, VerdictGates DEF ScanHeadlessArgs
  <1>9. ASSUME \/ Begin(t, "session", FALSE, StartSession) \/ Begin(t, "end", FALSE, EndSession)
        PROVE  Opens(t)
    BY <1>2, <1>9, CallOpens
  <1>10. ASSUME NEW h, \/ Begin(t, "skill", TRUE, ScanSkillFile(h))
                       \/ Begin(t, "prompt", FALSE, ScanPrompt(h))
                       \/ Begin(t, "response", FALSE, ScanResponse(h))
         PROVE  Opens(t)
    BY <1>3, <1>10, CallOpens, GateOpens
  <1>11. ASSUME NEW d, NEW h, \/ Begin(t, "hook", TRUE, ScanHookScript(d, h))
                              \/ Begin(t, "config", TRUE, ScanConfig(d))
                              \/ Begin(t, "sandbox", TRUE, ScanSandboxProfile(d))
         PROVE  Opens(t)
    BY <1>4, <1>5, <1>6, <1>11, GateOpens
  <1>12. ASSUME NEW h, NEW p, NEW q,
                \/ Begin(t, "agents", TRUE, ScanMultiAgentRequest(h, p, q))
                \/ Begin(t, "args", TRUE, ScanHeadlessArgs(p, q))
         PROVE  Opens(t)
    BY <1>7, <1>8, <1>12, GateOpens
  <1> QED
    BY <1>9, <1>10, <1>11, <1>12 DEF GrokCall

LEMMA MakeCalls ==
  ASSUME MakeAssumption, MakeCounters, LightCounters, tier \in 1 .. 4, NEW t, MakeCall(t)
  PROVE  Opens(t)
  <1>1. /\ ScenarioOps \in Counters /\ AgentTurns \in Counters /\ External \in Counters
        /\ MaxScenarioOps \in Nat /\ MaxAgentTurns \in Nat /\ 0 \in Nat /\ 1 \in Nat
    BY DEF MakeCounters, MakeAssumption
  <1>2. \A c \in {ScenarioOps, AgentTurns, External} : Admit(c) \in Guards
    BY <1>1, StatementsFit, Inclusions
  <1>3. ASSUME NEW h, NEW inject, NEW restricted
        PROVE  ScanWebhookPayload(h, inject, restricted) \in Gates
    <2> DEFINE a == ScanText(h) \o When(inject, Record) \o When(restricted, Record)
               b == Adjust(ScenarioOps, 1, FALSE)
               c == Compare(ScenarioOps, MaxScenarioOps, Record, <<>>)
               d == Assign(External, 1)
    <2>1. a \in Branching
      BY LightFits
    <2>2. b \in Branching /\ c \in Branching
      BY <1>1, BudgetFits
    <2>3. d \in Branching
      BY <1>1, StatementsFit, Inclusions
    <2>4. ScanWebhookPayload(h, inject, restricted) =
              a \o b \o c \o d \o Verdict \o Admit(ScenarioOps) \o Admit(External)
      BY DEF ScanWebhookPayload
    <2> HIDE DEF a, b, c, d
    <2>5. a \o b \o c \o d \in Branching
      BY <2>1, <2>2, <2>3, FlatConcat
    <2>6. a \o b \o c \o d \o Verdict \in Guards
      BY <2>5, StatementsFit, GuardsConcat, Inclusions
    <2> QED
      BY <1>2, <2>4, <2>6, GuardsConcat, Inclusions
  <1>4. ASSUME NEW h, NEW danger PROVE ScanModuleOutput(h, danger) \in Gates
    <2> DEFINE a == ScanText(h) \o When(danger, Record)
               b == Adjust(AgentTurns, 1, FALSE)
               c == Compare(AgentTurns, MaxAgentTurns, Record, <<>>)
    <2>1. a \in Branching
      BY LightFits
    <2>2. b \in Branching /\ c \in Branching
      BY <1>1, BudgetFits
    <2>3. ScanModuleOutput(h, danger) = a \o b \o c \o Verdict \o Admit(AgentTurns)
      BY DEF ScanModuleOutput
    <2> HIDE DEF a, b, c
    <2>4. a \o b \o c \o Verdict \in Guards
      BY <2>1, <2>2, FlatConcat, StatementsFit, GuardsConcat, Inclusions
    <2> QED
      BY <1>2, <2>3, <2>4, GuardsConcat, Inclusions
  <1>5. ASSUME NEW outside, NEW private, NEW destructive, NEW h
        PROVE  ScanHttpModule(outside, private, destructive, h) \in Gates
    <2>1. When(destructive, Compare(External, 0, Record, <<>>)) \in Branching
      BY <1>1, BudgetFits, WhenIn, FlatConcat
    <2>2. When(outside, Record) \o When(private, Record)
              \o When(destructive, Compare(External, 0, Record, <<>>)) \o ScanText(h) \in Branching
      BY <2>1, LightFits
    <2> QED
      BY <2>2, VerdictGates DEF ScanHttpModule
  <1>6. \A h, p : MakeInstructions(h, p) \in Gates
    <2>1. \A h, p : ScanText(h) \o When(p, Record) \in Branching
      BY LightFits
    <2> QED
      BY <2>1, VerdictGates DEF MakeInstructions
  <1>7. \A h, p, q : ScanKnowledgeFile(h, p, q) \in Gates
    <2>1. \A h, p, q : ScanText(h) \o When(p, Record) \o When(q, Record) \in Branching
      BY LightFits
    <2> QED
      BY <2>1, VerdictGates DEF ScanKnowledgeFile
  <1>8. \A p, q : ScanMcpScope(p, q) \in Gates
    <2>1. \A p, q : When(p, Record) \o When(q, Record) \in Branching
      BY LightFits
    <2> QED
      BY <2>1, VerdictGates DEF ScanMcpScope
  <1>9. \A s, h, p : ScanDataStoreWrite(s, h, p) \in Gates
    <2>1. \A s, h, p : When(s, Record) \o ScanText(h) \o When(p, Record) \in Branching
      BY LightFits
    <2> QED
      BY <2>1, VerdictGates DEF ScanDataStoreWrite
  <1>10. ClearExternalContext \in Program
    BY <1>1, StatementsFit, Inclusions DEF ClearExternalContext
  <1>11. ASSUME NEW p, NEW q, NEW h,
                \/ Begin(t, "webhook", TRUE, ScanWebhookPayload(0, p, q))
                \/ Begin(t, "module", TRUE, ScanModuleOutput(0, p))
                \/ Begin(t, "instructions", TRUE, MakeInstructions(h, p))
                \/ Begin(t, "knowledge", TRUE, ScanKnowledgeFile(0, p, q))
                \/ Begin(t, "store", TRUE, ScanDataStoreWrite(q, 0, p))
                \/ Begin(t, "scope", TRUE, ScanMcpScope(p, q))
         PROVE  Opens(t)
    BY <1>3, <1>4, <1>6, <1>7, <1>8, <1>9, <1>11, GateOpens
  <1>12. ASSUME NEW outside, NEW private, NEW destructive,
                Begin(t, IF destructive THEN "destroy" ELSE "http", TRUE,
                      ScanHttpModule(outside, private, destructive, 0))
         PROVE  Opens(t)
    <2>1. (IF destructive THEN "destroy" ELSE "http") # "exit"
      OBVIOUS
    <2> QED
      BY <1>5, <1>12, <2>1, GateOpens
  <1>13. ASSUME Begin(t, "clear", FALSE, ClearExternalContext) PROVE Opens(t)
    BY <1>10, <1>13, CallOpens
  <1> QED
    BY <1>11, <1>12, <1>13 DEF MakeCall

LEMMA LangflowCalls ==
  ASSUME LangflowCounters, LightCounters, tier \in 1 .. 4, NEW t, LangflowCall(t)
  PROVE  Opens(t)
  <1>1. \A c : When(c, Record) \in Branching /\ \A h : ScanText(h) \in Branching
    BY LightFits
  <1>2. \A u, h, p : FlowWebhook(u, h, p) \in Gates
    <2>1. \A u, h, p : When(u, Record) \o ScanText(h) \o When(p, Record) \in Branching
      BY LightFits
    <2> QED
      BY <2>1, VerdictGates DEF FlowWebhook
  <1>3. \A s, h, w : ScanRunRequest(s, h, w) \in Gates
    <2>1. \A w : When(w > 0, Record \o ScanText(w - 1)) \in Branching
      BY LightFits, WhenIn, FlatConcat
    <2>2. \A s, h, w : When(s, Record) \o ScanText(h) \o When(w > 0, Record \o ScanText(w - 1))
                           \in Branching
      BY <2>1, LightFits
    <2> QED
      BY <2>2, VerdictGates DEF ScanRunRequest
  <1>4. \A d, u, h : ScanGlobalVarHeaders(d, u, h) \in Gates
    <2>1. \A d, u, h : (IF d \/ u THEN Record ELSE ScanText(h)) \in Branching
      BY LightFits
    <2> QED
      BY <2>1, VerdictGates DEF ScanGlobalVarHeaders
  <1>5. \A h, p, q : ScanKnowledgeDocument(h, p, q) \in Gates
    <2>1. \A h, p, q : ScanText(h) \o When(p, Record) \o When(q, Record) \in Branching
      BY LightFits
    <2> QED
      BY <2>1, VerdictGates DEF ScanKnowledgeDocument
  <1>6. \A e, l, o : ScanMcpConfig(e, l, o) \in Program
    <2>1. \A c : When(c, Raise("violation")) \in Branching
      BY StatementsFit, WhenIn, Inclusions
    <2> QED
      BY <1>1, <2>1, FlatConcat, Programs DEF ScanMcpConfig
  <1>7. \A s, c, d, h : ScanFlowJson(s, c, d, h) \in Gates
    <2>1. \A c, d, h : When(c, Record) \o When(d /\ ~c, Record) \o ScanText(h) \in Branching
      BY LightFits
    <2>2. Record \o Raise("violation") \in Gates
      BY LightFits, StatementsFit, GuardsConcat, Inclusions
    <2> QED
      BY <2>1, <2>2, VerdictGates DEF ScanFlowJson
  <1>8. \A h, p : FlowInstructions(h, p) \in Gates
    <2>1. \A h, p : ScanText(h) \o When(p, Record) \in Branching
      BY LightFits
    <2> QED
      BY <2>1, VerdictGates DEF FlowInstructions
  <1>9. \A h, p : ScanComponentOutput(h, p) \in Gates
    <2>1. 1 \in Int /\ FALSE \in BOOLEAN /\ Hops \in Counters
      BY DEF LangflowCounters
    <2>2. Adjust(Hops, 1, FALSE) \in Branching
      BY <2>1, AdjustFits, Inclusions
    <2>3. \A h, p : Adjust(Hops, 1, FALSE) \o ScanText(h) \o When(p, Record) \in Branching
      BY <2>2, LightFits
    <2> QED
      BY <2>3, VerdictGates DEF ScanComponentOutput
  <1>10. ResetDagState \in Program
    <2>1. 0 \in Nat /\ Hops \in Counters
      BY DEF LangflowCounters
    <2> QED
      BY <2>1, StatementsFit, Inclusions DEF ResetDagState
  <1>11. ASSUME NEW p, NEW q, NEW h,
                \/ Begin(t, "webhook", TRUE, FlowWebhook(p, 0, q))
                \/ Begin(t, "run", TRUE, ScanRunRequest(p, 0, h))
                \/ Begin(t, "headers", TRUE, ScanGlobalVarHeaders(p, q, h))
                \/ Begin(t, "knowledge", TRUE, ScanKnowledgeDocument(0, p, q))
                \/ Begin(t, "instructions", TRUE, FlowInstructions(h, p))
                \/ Begin(t, "output", TRUE, ScanComponentOutput(h, p))
         PROVE  Opens(t)
    BY <1>2, <1>3, <1>4, <1>5, <1>8, <1>9, <1>11, GateOpens
  <1>12. ASSUME NEW p, NEW q, NEW r, Begin(t, "mcp", FALSE, ScanMcpConfig(p, q, r))
         PROVE  Opens(t)
    BY <1>6, <1>12, CallOpens
  <1>13. ASSUME NEW p, NEW q, NEW r, Begin(t, "flow", TRUE, ScanFlowJson(p, q, r, 0))
         PROVE  Opens(t)
    BY <1>7, <1>13, GateOpens
  <1>14. ASSUME Begin(t, "reset", FALSE, ResetDagState) PROVE Opens(t)
    BY <1>10, <1>14, CallOpens
  <1> QED
    BY <1>11, <1>12, <1>13, <1>14 DEF LangflowCall

-----------------------------------------------------------------------------
(* Every thread calls any operation of any runtime, directly or wrapped *)

RuntimeCall(t) ==
    \/ EngineCall(t) \/ LangGraphCall(t) \/ LangChainCall(t) \/ CrewCall(t) \/ AutoGenCall(t)
    \/ GrokCall(t) \/ MakeCall(t) \/ LangflowCall(t)

EngineNext == \E t \in Threads : RuntimeCall(t) \/ Statement(t)

EngineSpec == (EngineInit \/ LightInit) /\ [][EngineNext]_engineVars

LEMMA RuntimeCalls ==
  ASSUME tier \in 1 .. 4, NEW t, RuntimeCall(t)
  PROVE  Opens(t)
  BY EngineCalls, LangGraphCalls, LangChainCalls, CrewCalls, AutoGenCalls, GrokCalls, MakeCalls,
     LangflowCalls, EngineAssumption, LangGraphAssumption, LangGraphCounters, LangChainCounters,
     CrewAssumption, CrewCounters, AutoGenCounters, GrokAssumption, GrokCounters, MakeAssumption,
     MakeCounters, LangflowCounters, LightCounters
     DEF RuntimeCall

LEMMA EngineStutters ==
  ASSUME EngineInv, UNCHANGED engineVars
  PROVE  EngineInv'
  <1>1. UNCHANGED <<tier, lines, tail, lastHash, made, overlapped, missing, unwritten, score, violations,
                    charged, forgiven, count, lost, snapshots, ran, opened>>
    BY DEF engineVars, ledger, marks, counting, threads
  <1>2. UNCHANGED <<todo, draft, held, call, raised, found, faults, calls, leaked>>
    BY DEF engineVars, ledger, marks, counting, threads
  <1>3. EngineTypes'
    BY <1>1, <1>2 DEF EngineInv, EngineTypes, TodoTypes, LocalTypes, LogTypes, CountTypes
  <1>4. ExitInv'
    BY <1>1, <1>2 DEF EngineInv, ExitInv, Leaving, Busy
  <1>5. ScoreInv'
    BY <1>1, <1>2 DEF EngineInv, ScoreInv, At, Busy, Current
  <1>6. ChainInv'
    BY <1>1, <1>2 DEF EngineInv, ChainInv, AloneInv, MidInv, RestInv, LinkedInv, Mid, Known,
       LastFiled, At, Busy, Current
  <1>7. LedgerInv'
    BY <1>1, <1>2 DEF EngineInv, LedgerInv, Filed, Owers, Owes
  <1>8. GateInv'
    BY <1>1, <1>2 DEF EngineInv, GateInv, Gating
  <1>9. CostInv'
    BY <1>1, <1>2 DEF EngineInv, CostInv, Pending
  <1> QED
    BY <1>3, <1>4, <1>5, <1>6, <1>7, <1>8, <1>9 DEF EngineInv

LEMMA EngineInvariant == EngineSpec => []EngineInv
  <1>1. EngineInit \/ LightInit => EngineInv
    <2>1. ASSUME EngineInit PROVE EngineInv
      BY <2>1, InitHolds, EngineAssumption DEF EngineInit
    <2>2. ASSUME LightInit PROVE EngineInv
      <3>1. tier \in 1 .. 4
        BY <2>2 DEF LightInit
      <3> QED
        BY <2>2, <3>1, InitHolds, EngineAssumption DEF LightInit
    <2> QED
      BY <2>1, <2>2
  <1>2. EngineInv /\ [EngineNext]_engineVars => EngineInv'
    <2> SUFFICES ASSUME EngineInv, [EngineNext]_engineVars PROVE EngineInv'
      OBVIOUS
    <2>1. tier \in 1 .. 4
      BY DEF EngineInv, EngineTypes, CountTypes
    <2>2. ASSUME NEW t \in Threads, RuntimeCall(t) PROVE EngineInv'
      <3>1. Opens(t)
        BY <2>1, <2>2, RuntimeCalls
      <3> QED
        BY <3>1, BeginKeeps, EngineAssumption DEF Opens
    <2>3. ASSUME NEW t \in Threads, Statement(t) PROVE EngineInv'
      BY <2>3, StatementKeeps, EngineAssumption
    <2>4. CASE UNCHANGED engineVars
      BY <2>4, EngineStutters
    <2> QED
      BY <2>2, <2>3, <2>4 DEF EngineNext
  <1> QED
    BY <1>1, <1>2, PTL DEF EngineSpec

LEMMA SharedCallIs ==
  ASSUME NEW t, SharedCall(t)
  PROVE  EngineCall(t) \/ LangGraphCall(t)
  <1>1. node1 \in Nodes /\ CleanUpdate \in Updates
    BY RuntimesAssumption DEF RuntimesAssumption, Updates
  <1>2. ASSUME Begin(t, "node", TRUE, WrapNode(node1, CleanUpdate)) PROVE LangGraphCall(t)
    BY <1>1, <1>2 DEF LangGraphCall, CallNode
  <1>3. ASSUME Begin(t, "path", TRUE, CheckPathSafety(TRUE, FALSE)) PROVE EngineCall(t)
    <2>1. TRUE \in BOOLEAN /\ FALSE \in BOOLEAN
      OBVIOUS
    <2> QED
      BY <1>3, <2>1 DEF EngineCall
  <1> QED
    BY <1>2, <1>3 DEF SharedCall, LangGraphCall

\* What TLC runs, each runtime by one thread and a few calls by several, is
\* part of what is proved about, any calls by any threads.
THEOREM RunsAreRuntimes == MCSpec => EngineSpec
  <1>1. MCInit => EngineInit \/ LightInit
    BY DEF MCInit
  <1>2. [MCNext]_mcVars => [EngineNext]_engineVars
    <2>1. ASSUME PartCall(t1) PROVE EngineNext
      <3>1. RuntimeCall(t1)
        BY <2>1 DEF PartCall, RuntimeCall
      <3> QED
        BY <3>1, RuntimesAssumption DEF RuntimesAssumption, EngineNext
    <2>2. ASSUME NEW t \in Threads, SharedCall(t) PROVE EngineNext
      BY <2>2, SharedCallIs DEF RuntimeCall, EngineNext
    <2>3. ASSUME NEW t \in Threads, Statement(t) PROVE EngineNext
      BY <2>3 DEF EngineNext
    <2>4. ASSUME UNCHANGED mcVars PROVE UNCHANGED engineVars
      BY <2>4 DEF mcVars
    <2> QED
      BY <2>1, <2>2, <2>3, <2>4 DEF MCNext
  <1> QED
    BY <1>1, <1>2, PTL DEF MCSpec, EngineSpec

\* The variables hold what the code can put there: in particular the score
\* stays between 0 and its maximum whatever the threads do to each other, and
\* nobody leaves a subgraph that nobody entered.
THEOREM EngineTyped == EngineSpec => []EngineTypeOK
  <1>1. EngineInv => EngineTypeOK
    BY EngineSays, EngineAssumption
  <1> QED
    BY <1>1, EngineInvariant, PTL

\* _emit_event: the hash chain of the audit log is whole unless two threads
\* emitted at once, up to the events a failed write has cost: its own, the one
\* whose line went onto what it left unfinished, or the two together.
THEOREM EngineChained == EngineSpec => []ChainedUnlessOverlapped
  <1>1. EngineInv => ChainedUnlessOverlapped
    BY EngineSays, EngineAssumption
  <1> QED
    BY <1>1, EngineInvariant, PTL

\* Between calls the violations counted are the lines of the log and those
\* that failed writes have cost, two a write at most, and the score has lost what the penalties say, or less
\* where threads undid each other's.
THEOREM EngineLedger == EngineSpec => []LedgerAgrees
  <1>1. EngineInv => LedgerAgrees
    BY EngineSays, EngineAssumption
  <1> QED
    BY <1>1, EngineInvariant, PTL

\* From tier 3 no gate of the engine, of the runtimes or of the light engine
\* returns when it has found something, whatever the other threads do and
\* whichever writes fail.
THEOREM EngineFailsClosed == EngineSpec => []FailsClosed
  <1>1. EngineInv => FailsClosed
    BY EngineSays, EngineAssumption
  <1> QED
    BY <1>1, EngineInvariant, PTL
-----------------------------------------------------------------------------
(* Sums over threads and counters, and sets of threads *)

LEMMA SumOfIs ==
  ASSUME NEW f, IsFiniteSet(DOMAIN f), \A x \in DOMAIN f : f[x] \in Nat
  PROVE  SumOf(f) = SumFcn(f)[DOMAIN f] /\ SumOf(f) \in Nat
  <1>1. SumOf(f) = SumFcn(f)[DOMAIN f]
    BY Zenon DEF SumOf, MapThenSumSet, MapThenFoldSet, SumFcn, IsSum, SumStep, AllBut, Chosen
  <1>2. SumFcn(f)[DOMAIN f] \in Nat
    BY SumNatural
  <1> QED
    BY <1>1, <1>2

\* A sum changes by what one of its summands does.
LEMMA SumOfMoves ==
  ASSUME NEW S, IsFiniteSet(S), NEW f \in [S -> Nat], NEW g \in [S -> Nat],
         NEW t \in S, \A x \in S : x # t => g[x] = f[x]
  PROVE  /\ SumOf(f) \in Nat /\ SumOf(g) \in Nat
         /\ SumOf(g) = SumOf(f) + (g[t] - f[t])
         /\ f[t] <= SumOf(f)
  <1>1. DOMAIN f = S /\ DOMAIN g = S /\ (\A x \in S : f[x] \in Nat /\ g[x] \in Nat)
    OBVIOUS
  <1>2. SumOf(f) = SumFcn(f)[S] /\ SumOf(f) \in Nat /\ SumOf(g) = SumFcn(g)[S] /\ SumOf(g) \in Nat
    BY <1>1, SumOfIs
  <1>3. SumFcn(g)[S] = SumFcn(f)[S] + IF t \in S THEN g[t] - f[t] ELSE 0
    <2>1. \A x \in DOMAIN f : f[x] \in Int /\ g[x] \in Int
      BY <1>1
    <2>2. S \in SUBSET DOMAIN f
      BY <1>1
    <2> QED
      BY <1>1, <2>1, <2>2, SumChanges
  <1>4. SumFcn(f)[S] = f[t] + SumFcn(f)[S \ {t}] /\ SumFcn(f)[S \ {t}] \in Nat
    <2>1. \A x \in DOMAIN f : f[x] \in Int
      BY <1>1
    <2>2. S \in SUBSET DOMAIN f /\ S \ {t} \in SUBSET DOMAIN f
      BY <1>1
    <2>3. SumFcn(f)[S] = f[t] + SumFcn(f)[S \ {t}]
      BY <1>1, <2>1, <2>2, SumSplits
    <2>4. SumFcn(f)[S \ {t}] \in Nat
      BY <1>1, <2>2, SumNatural
    <2> QED
      BY <2>3, <2>4
  <1>5. f[t] \in Nat /\ g[t] \in Nat
    OBVIOUS
  <1> QED
    BY <1>2, <1>3, <1>4, <1>5

LEMMA SumOfNone ==
  ASSUME NEW S, IsFiniteSet(S), NEW f, f = [x \in S |-> 0]
  PROVE  SumOf(f) = 0
  <1>1. DOMAIN f = S /\ (\A x \in DOMAIN f : f[x] \in Nat /\ f[x] = 0)
    OBVIOUS
  <1>2. SumOf(f) = SumFcn(f)[DOMAIN f]
    BY <1>1, SumOfIs
  <1>3. DOMAIN f \in SUBSET DOMAIN f
    OBVIOUS
  <1> QED
    BY <1>1, <1>2, <1>3, SumOfZeros

\* Two finite sets that differ in one element at most.
LEMMA OneDiffers ==
  ASSUME NEW A, IsFiniteSet(A), NEW B, NEW t, \A u : u # t => (u \in B <=> u \in A)
  PROVE  /\ IsFiniteSet(B) /\ Cardinality(A) \in Nat /\ Cardinality(B) \in Nat
         /\ (t \in B <=> t \in A) => Cardinality(B) = Cardinality(A)
         /\ t \in B /\ t \notin A => Cardinality(B) = Cardinality(A) + 1
         /\ t \notin B /\ t \in A => Cardinality(B) = Cardinality(A) - 1
  <1>1. CASE t \in B <=> t \in A
    <2>1. A = B
      BY <1>1
    <2> QED
      BY <1>1, <2>1, FS_CardinalityType
  <1>2. CASE t \in B /\ t \notin A
    <2>1. B = A \union {t}
      BY <1>2
    <2> QED
      BY <1>2, <2>1, FS_AddElement, FS_CardinalityType
  <1>3. CASE t \notin B /\ t \in A
    <2>1. B = A \ {t}
      BY <1>3
    <2> QED
      BY <1>3, <2>1, FS_RemoveElement, FS_CardinalityType
  <1> QED
    BY <1>1, <1>2, <1>3

-----------------------------------------------------------------------------
(* Programs that leave some counters alone *)

Touches(x, D) == x.op \in {"store", "assign", "compare", "run", "admit"} /\ x.of \in D
Reaches(s, D) == \E i \in 1 .. Len(s) : Touches(s[i], D)
BranchReaches(x, D) == x.op = "compare" /\ (Reaches(x.over, D) \/ Reaches(x.within, D))
HandlerReaches(x, D) ==
    x.op = "except" /\ \E i \in 1 .. Len(x.body) : Touches(x.body[i], D) \/ BranchReaches(x.body[i], D)

\* What a statement branches to, or handles an exception with, leaves them
\* alone; and the statement itself.
Inside(x, D) == ~BranchReaches(x, D) /\ ~HandlerReaches(x, D)
Apart(x, D) == Inside(x, D) /\ ~Touches(x, D)
Aside(s, D) == \A i \in 1 .. Len(s) : Apart(s[i], D)

LEMMA AsideConcat ==
  ASSUME NEW a \in Seq(Stmt), NEW b \in Seq(Stmt), NEW D, Aside(a, D), Aside(b, D)
  PROVE  Aside(a \o b, D)
  BY ConcatParts DEF Aside

LEMMA AsideSuffix ==
  ASSUME NEW s \in Seq(Stmt), NEW k, NEW d, Suffix(d, s, k), NEW D, Aside(s, D)
  PROVE  Aside(d, D)
  <1>1. Len(s) \in Nat /\ k \in 0 .. Len(s) /\ Len(d) = Len(s) - k
        /\ \A i \in 1 .. Len(s) - k : d[i] = s[k + i]
    BY LenProperties DEF Suffix
  <1>2. \A i \in 1 .. Len(s) - k : k + i \in 1 .. Len(s)
    BY <1>1
  <1> QED
    BY <1>1, <1>2 DEF Aside

\* The bodies of what stays inside.
LEMMA BodiesAside ==
  ASSUME NEW x \in Stmt, NEW D, Inside(x, D)
  PROVE  /\ x.op = "compare" => Aside(x.over, D) /\ Aside(x.within, D)
         /\ x.op = "except" => Aside(x.body, D)
  <1>1. ASSUME NEW b \in Flat, ~Reaches(b, D) PROVE Aside(b, D)
    <2>1. \A i \in 1 .. Len(b) : b[i] \in Plain
      BY ElementOfSeq DEF Flat
    <2>2. \A y \in Plain : y.op # "except" /\ y.op # "compare"
      BY DEF Plain
    <2> QED
      BY <1>1, <2>1, <2>2 DEF Aside, Apart, Inside, Reaches, BranchReaches, HandlerReaches
  <1>2. ASSUME x.op = "compare" PROVE Aside(x.over, D) /\ Aside(x.within, D)
    <2>1. x.over \in Flat /\ x.within \in Flat
      BY <1>2, StmtParts
    <2>2. ~Reaches(x.over, D) /\ ~Reaches(x.within, D)
      BY <1>2 DEF Inside, BranchReaches
    <2> QED
      BY <1>1, <2>1, <2>2
  <1>3. ASSUME x.op = "except" PROVE Aside(x.body, D)
    <2>1. x.body \in Branching
      BY <1>3, StmtParts
    <2>2. \A i \in 1 .. Len(x.body) : x.body[i].op # "except"
      BY <2>1, BodyParts DEF Straight
    <2>3. \A i \in 1 .. Len(x.body) : ~Touches(x.body[i], D) /\ ~BranchReaches(x.body[i], D)
      BY <1>3 DEF Inside, HandlerReaches
    <2> QED
      BY <2>2, <2>3 DEF Aside, Apart, Inside, HandlerReaches
  <1> QED
    BY <1>2, <1>3

-----------------------------------------------------------------------------
(* What follows a statement: its branch or handler and the rest *)

Rest(t) == Tail(todo[t])

Goes1(t, b) == todo'[t] = PastHandlers(b \o Rest(t)) /\ raised' = raised

LEMMA Motions ==
  ASSUME EngineTypes, NEW t \in Threads, Statement(t), ~GoInto(t)
  PROVE  /\ todo[t] \in Remainder /\ todo[t] # <<>> /\ todo[t] \in Seq(Stmt)
         /\ Current(t) = todo[t][1] /\ Current(t) \in Stmt /\ Rest(t) \in Remainder
         /\ \A u \in Threads \ {t} : todo'[u] = todo[u] /\ raised'[u] = raised[u]
         /\ \/ todo'[t] = PastHandlers(Rest(t)) /\ raised' = raised
            \/ /\ Current(t).op = "compare" /\ Goes1(t, Current(t).over)
               /\ count[Current(t).of] > Current(t).limit
            \/ /\ Current(t).op = "compare" /\ Goes1(t, Current(t).within)
               /\ ~(count[Current(t).of] > Current(t).limit)
            \/ Current(t).op = "frequency" /\ Goes1(t, Emit("note"))
            \/ /\ Current(t).op \in {"write", "raise", "run", "verdict"}
               /\ \E kind \in Raisable : Escapes(t, kind) \/ \E i \in Nat : Caught(t, i)
  <1>1. todo \in [Threads -> Remainder] /\ raised \in [Threads -> {"nothing"} \union Raisable]
    BY DEF EngineTypes, TodoTypes
  <1>2. Busy(t) /\ Moves(t)
    BY StatementMoves
  <1>3. /\ todo[t] \in Remainder /\ todo[t] # <<>> /\ todo[t] \in Seq(Stmt)
        /\ Current(t) = todo[t][1] /\ Current(t) \in Stmt /\ Rest(t) \in Remainder
    BY <1>1, <1>2, BusyIs DEF Rest
  <1>4. \A u \in Threads \ {t} : todo'[u] = todo[u]
    BY <1>1, <1>2, MovesOnto
  <1> DEFINE Ways ==
            \/ todo'[t] = PastHandlers(Rest(t)) /\ raised' = raised
            \/ /\ Current(t).op = "compare" /\ Goes1(t, Current(t).over)
               /\ count[Current(t).of] > Current(t).limit
            \/ /\ Current(t).op = "compare" /\ Goes1(t, Current(t).within)
               /\ ~(count[Current(t).of] > Current(t).limit)
            \/ Current(t).op = "frequency" /\ Goes1(t, Emit("note"))
            \/ /\ Current(t).op \in {"write", "raise", "run", "verdict"}
               /\ \E kind \in Raisable : Escapes(t, kind) \/ \E i \in Nat : Caught(t, i)
             Same == \A u \in Threads \ {t} : raised'[u] = raised[u]
  <1>5. ASSUME Advances(t) PROVE Ways /\ Same
    BY <1>1, <1>2, <1>5, AdvanceMoves DEF Rest
  <1>6. ASSUME NEW kind \in Raisable, Throws(t, kind), Current(t).op \in {"write", "raise", "run", "verdict"}
        PROVE  Ways /\ Same
    <2>1. CutsNothing(todo[t], 1)
      BY <1>2, <1>6, CurrentIs DEF EngineTypes
    <2>2. Escapes(t, kind) \/ \E i \in Nat : Caught(t, i)
      BY <1>1, <1>2, <1>6, <2>1, ThrowMoves
    <2>3. raised' = raised \/ raised' = [raised EXCEPT ![t] = kind]
      BY <2>2 DEF Escapes, Caught
    <2>4. Same
      BY <1>1, <2>3
    <2>5. Ways
      BY <1>6, <2>2
    <2> QED
      BY <2>4, <2>5
  <1>7. ASSUME NEW b, Goes(t, b \o Rest(t)) PROVE Goes1(t, b)
    BY <1>1, <1>7 DEF Goes, Goes1
  <1>8. Ways /\ Same
    <2>1. CASE HashEvent(t) \/ LinkEvent(t) \/ WriteLine(t) \/ FindViolation(t)
      BY <1>5, <2>1 DEF HashEvent, LinkEvent, WriteLine, FindViolation
    <2>2. CASE ReadScore(t) \/ StoreScore(t) \/ ReadCount(t) \/ StoreCount(t)
      BY <1>5, <2>2 DEF ReadScore, StoreScore, ReadCount, StoreCount
    <2>3. CASE TakeSnapshot(t) \/ AssignCount(t) \/ AdmitOne(t)
      BY <1>5, <2>3 DEF TakeSnapshot, AssignCount, AdmitOne
    <2>4. CASE WriteFails(t)
      BY <1>6, <2>4 DEF WriteFails, At, Raisable
    <2>5. CASE CompareCount(t)
      <3>1. Current(t).op = "compare"
        BY <2>5 DEF CompareCount, At
      <3>2. CASE count[Current(t).of] > Current(t).limit
        <4>1. Goes(t, Current(t).over \o Rest(t))
          BY <2>5, <3>2 DEF CompareCount, Rest
        <4>2. raised' = raised
          BY <4>1 DEF Goes
        <4> QED
          BY <1>7, <3>1, <3>2, <4>1, <4>2
      <3>3. CASE ~(count[Current(t).of] > Current(t).limit)
        <4>1. Goes(t, Current(t).within \o Rest(t))
          BY <2>5, <3>3 DEF CompareCount, Rest
        <4>2. raised' = raised
          BY <4>1 DEF Goes
        <4> QED
          BY <1>7, <3>1, <3>3, <4>1, <4>2
      <3> QED
        BY <3>2, <3>3
    <2>6. CASE NoteFrequency(t)
      <3>1. Current(t).op = "frequency" /\ (Advances(t) \/ Goes(t, Emit("note") \o Rest(t)))
        BY <2>6 DEF NoteFrequency, At, Rest
      <3>2. CASE Goes(t, Emit("note") \o Rest(t))
        <4>1. raised' = raised
          BY <3>2 DEF Goes
        <4> QED
          BY <1>7, <3>1, <3>2, <4>1
      <3> QED
        BY <1>5, <3>1, <3>2
    <2>7. CASE RaiseException(t)
      <3>1. Current(t).op = "raise" /\ Throws(t, Current(t).kind)
        BY <2>7 DEF RaiseException, At
      <3>2. Current(t).kind \in Raisable
        BY <1>3, <3>1, StmtParts DEF Raisable
      <3> QED
        BY <1>6, <3>1, <3>2
    <2>8. CASE RunWrapped(t)
      BY <1>5, <1>6, <2>8 DEF RunWrapped, At, Raisable
    <2>9. CASE GiveVerdict(t)
      BY <1>5, <1>6, <2>9 DEF GiveVerdict, At, Raisable
    <2> QED
      BY <2>1, <2>2, <2>3, <2>4, <2>5, <2>6, <2>7, <2>8, <2>9 DEF Statement
  <1> QED
    BY <1>3, <1>4, <1>8

LEMMA PastAside ==
  ASSUME NEW s \in Remainder, NEW D, Aside(s, D)
  PROVE  Aside(PastHandlers(s), D)
  <1>1. PICK n \in 0 .. Len(s) : Suffix(PastHandlers(s), s, n)
    BY PastHandlersIs
  <1>2. s \in Seq(Stmt)
    BY DEF Remainder
  <1> QED
    BY <1>1, <1>2, AsideSuffix

LEMMA EmitAside ==
  ASSUME NEW D, NEW k
  PROVE  Aside(Emit(k), D)
  <1> DEFINE s == Emit(k)
  <1>1. Len(s) = 3 /\ s[1].op = "hash" /\ s[2].op = "link" /\ s[3].op = "write"
    BY DEF Emit
  <1> HIDE DEF s
  <1>2. \A i \in 1 .. 3 : i = 1 \/ i = 2 \/ i = 3
    OBVIOUS
  <1>3. \A x : x.op \in {"hash", "link", "write"} => Apart(x, D)
    BY DEF Apart, Inside, BranchReaches, HandlerReaches, Touches
  <1> QED
    BY <1>1, <1>2, <1>3 DEF Aside, s

\* The rest of a program, and what it branches to before that.
LEMMA RestAside ==
  ASSUME NEW s \in Remainder, s # <<>>, NEW D, Aside(s, D)
  PROVE  Aside(Tail(s), D) /\ Apart(s[1], D)
  <1>1. Suffix(Tail(s), s, 1) /\ Len(s) \in Nat /\ Len(s) >= 1 /\ s \in Seq(Stmt)
    BY TailSuffix
  <1> QED
    BY <1>1, AsideSuffix DEF Aside

\* What the handler of an exception leaves to do.
LEMMA CaughtIs ==
  ASSUME todo \in [Threads -> Remainder], NEW t \in Threads, Busy(t), NEW i \in Nat, Caught(t, i)
  PROVE  /\ i \in 1 .. Len(Rest(t)) /\ Rest(t)[i].op = "except" /\ Rest(t)[i] \in Stmt
         /\ Rest(t)[i].body \in Branching /\ Rest(t)[i].body \in Seq(Stmt)
         /\ \E e \in Program : /\ Suffix(e, Rest(t), i)
                               /\ Rest(t)[i].body \o e \in Remainder
                               /\ todo'[t] = PastHandlers(Rest(t)[i].body \o e)
  <1> DEFINE r == Rest(t)
             b == r[i].body
             e == SubSeq(r, i + 1, Len(r))
  <1>1. r \in Remainder /\ r \in Seq(Stmt) /\ Len(r) \in Nat
    BY BusyIs, LenProperties DEF Rest, Remainder
  <1>2. i \in 1 .. Len(r) /\ r[i].op = "except" /\ todo'[t] = PastHandlers(b \o e)
    BY DEF Caught, Rest
  <1>3. r[i] \in Stmt
    BY <1>1, <1>2, ElementOfSeq
  <1>4. b \in Branching
    BY <1>2, <1>3, StmtParts
  <1>5. i \in 0 .. Len(r) /\ Suffix(e, r, i)
    <2>1. i \in 0 .. Len(r)
      BY <1>1, <1>2
    <2> QED
      BY <1>1, <2>1, SubSeqSuffix
  <1>6. e \in Program
    <2>1. CutsNothing(r, i) /\ i >= 1
      BY <1>2 DEF CutsNothing
    <2> QED
      BY <1>1, <1>5, <2>1, SuffixWhole
  <1> HIDE DEF b, e, r
  <1>7. b \o e \in Remainder /\ b \in Seq(Stmt)
    BY <1>4, <1>6, Programs, JoinedConcat, BodyParts
  <1> QED
    BY <1>2, <1>3, <1>4, <1>5, <1>6, <1>7 DEF b, r

\* What a branch has chosen goes in front of the rest.
LEMMA BranchOn ==
  ASSUME todo \in [Threads -> Remainder], NEW t \in Threads, Busy(t),
         Current(t).op \in {"compare", "frequency"}, NEW b \in Flat
  PROVE  /\ Rest(t) \in Program /\ b \o Rest(t) \in Remainder
         /\ b \in Seq(Stmt) /\ Rest(t) \in Seq(Stmt)
  <1>1. Rest(t) \in Program
    <2>1. Current(t) = todo[t][1]
      BY BusyIs
    <2>2. CutsNothing(todo[t], 1)
      BY <2>1, HandlersCut
    <2> QED
      BY <2>2, BusyIs DEF Rest
  <1>2. b \in Program /\ b \in Remainder
    BY Programs
  <1> QED
    BY <1>1, <1>2, JoinedConcat DEF Program

LEMMA AsideMoves ==
  ASSUME EngineTypes, NEW t \in Threads, Statement(t), ~GoInto(t), NEW D, Aside(todo[t], D)
  PROVE  Aside(todo'[t], D)
  <1>1. /\ todo[t] \in Remainder /\ todo[t] # <<>> /\ Current(t) = todo[t][1] /\ Current(t) \in Stmt
        /\ Rest(t) \in Remainder /\ Rest(t) \in Seq(Stmt)
    BY Motions DEF Remainder
  <1>2. Aside(Rest(t), D) /\ Apart(Current(t), D)
    BY <1>1, RestAside DEF Rest
  <1>3. todo \in [Threads -> Remainder] /\ Busy(t)
    BY StatementMoves DEF EngineTypes, TodoTypes
  <1>4. ASSUME NEW b \in Flat, Aside(b, D), Goes1(t, b), Current(t).op \in {"compare", "frequency"}
        PROVE  Aside(todo'[t], D)
    <2>1. b \o Rest(t) \in Remainder /\ b \in Seq(Stmt)
      BY <1>3, <1>4, BranchOn
    <2>2. Aside(b \o Rest(t), D)
      BY <1>1, <1>2, <1>4, <2>1, AsideConcat
    <2> QED
      BY <1>4, <2>1, <2>2, PastAside DEF Goes1
  <1>5. CASE todo'[t] = PastHandlers(Rest(t))
    BY <1>1, <1>2, <1>5, PastAside
  <1>6. CASE Current(t).op = "compare" /\ (Goes1(t, Current(t).over) \/ Goes1(t, Current(t).within))
    <2>1. Aside(Current(t).over, D) /\ Aside(Current(t).within, D)
      BY <1>1, <1>2, <1>6, BodiesAside DEF Apart
    <2>2. Current(t).over \in Flat /\ Current(t).within \in Flat
      BY <1>1, <1>6, StmtParts
    <2> QED
      BY <1>4, <1>6, <2>1, <2>2
  <1>7. CASE Current(t).op = "frequency" /\ Goes1(t, Emit("note"))
    <2>1. Emit("note") \in Flat /\ Aside(Emit("note"), D)
      BY EmitFits, EmitAside
    <2> QED
      BY <1>4, <1>7, <2>1
  <1>8. CASE todo'[t] = <<>>
    BY <1>8 DEF Aside
  <1>9. ASSUME NEW i \in Nat, Caught(t, i) PROVE Aside(todo'[t], D)
    <2> DEFINE b == Rest(t)[i].body
    <2>1. /\ i \in 1 .. Len(Rest(t)) /\ Rest(t)[i].op = "except" /\ Rest(t)[i] \in Stmt
          /\ b \in Seq(Stmt)
          /\ \E e \in Program : /\ Suffix(e, Rest(t), i) /\ b \o e \in Remainder
                                /\ todo'[t] = PastHandlers(b \o e)
      BY <1>3, <1>9, CaughtIs
    <2>2. Aside(b, D)
      BY <1>2, <2>1, BodiesAside DEF Aside, Apart
    <2> HIDE DEF b
    <2>3. PICK e \in Program : /\ Suffix(e, Rest(t), i) /\ b \o e \in Remainder
                               /\ todo'[t] = PastHandlers(b \o e)
      BY <2>1
    <2>4. Aside(e, D) /\ e \in Seq(Stmt)
      BY <1>1, <1>2, <2>3, AsideSuffix DEF Program
    <2>5. Aside(b \o e, D)
      BY <2>1, <2>2, <2>4, AsideConcat
    <2> QED
      BY <2>3, <2>5, PastAside
  <1> QED
    BY <1>5, <1>6, <1>7, <1>8, <1>9, Motions DEF Escapes, Goes1
-----------------------------------------------------------------------------
(* Programs by the statements that matter next *)

\* Statements of Q, then one of Y, then what is in T.
Lead(Q, Y, T) ==
    {s \in Seq(Stmt) :
        \E k \in 1 .. Len(s) : /\ s[k] \in Y /\ \A i \in 1 .. k - 1 : s[i] \in Q
                               /\ \E d \in T : Suffix(d, s, k)}

LEMMA SameSuffix ==
  ASSUME NEW s, NEW k, NEW d, NEW e, Suffix(d, s, k), Suffix(e, s, k)
  PROVE  d = e
  BY SeqEqual DEF Suffix

LEMMA LeadHead ==
  ASSUME NEW Q, NEW Y, NEW T, NEW s \in Lead(Q, Y, T), s \in Remainder
  PROVE  /\ s # <<>> /\ Len(s) \in Nat /\ Len(s) >= 1 /\ s[1] \in Stmt
         /\ \/ s[1] \in Y /\ Tail(s) \in T
            \/ s[1] \in Q /\ Tail(s) \in Lead(Q, Y, T)
  <1>1. PICK k \in 1 .. Len(s) : /\ s[k] \in Y /\ \A i \in 1 .. k - 1 : s[i] \in Q
                                 /\ \E d \in T : Suffix(d, s, k)
    BY DEF Lead
  <1>2. PICK d \in T : Suffix(d, s, k)
    BY <1>1
  <1>3. s # <<>> /\ Len(s) \in Nat /\ Len(s) >= 1
    <2>1. s \in Seq(Stmt) /\ Len(s) \in Nat
      BY LenProperties DEF Remainder
    <2>2. Len(s) >= 1
      BY <1>1, <2>1
    <2>3. s # <<>>
      BY <2>1, <2>2, EmptySeq
    <2> QED
      BY <2>1, <2>2, <2>3
  <1>4. /\ Suffix(Tail(s), s, 1) /\ s[1] \in Stmt /\ Tail(s) \in Seq(Stmt)
        /\ Len(Tail(s)) = Len(s) - 1 /\ \A i \in 1 .. Len(s) - 1 : Tail(s)[i] = s[1 + i]
    BY <1>3, TailSuffix DEF Suffix
  <1>5. CASE k = 1
    <2>1. Tail(s) = d
      BY <1>2, <1>4, <1>5, SameSuffix
    <2> QED
      BY <1>1, <1>3, <1>4, <1>5, <2>1
  <1>6. CASE k > 1
    <2> DEFINE j == k - 1
               r == Tail(s)
    <2>1. j \in 1 .. Len(r) /\ k = 1 + j /\ 1 \in 1 .. k - 1
      BY <1>1, <1>3, <1>4, <1>6
    <2>2. r[j] \in Y
      BY <1>1, <1>4, <2>1
    <2>3. \A i \in 1 .. j - 1 : r[i] \in Q
      <3>1. \A i \in 1 .. j - 1 : 1 + i \in 1 .. k - 1 /\ i \in 1 .. Len(s) - 1
        BY <1>3, <1>4, <2>1
      <3> QED
        BY <1>1, <1>4, <3>1
    <2>4. Suffix(d, r, j)
      <3>1. d \in Seq(Stmt) /\ Len(d) = Len(s) - k /\ \A i \in 1 .. Len(s) - k : d[i] = s[k + i]
        BY <1>2 DEF Suffix
      <3>2. \A i \in 1 .. Len(s) - k : j + i \in 1 .. Len(s) - 1 /\ 1 + (j + i) = k + i
        BY <1>1, <1>3, <2>1
      <3>3. Len(r) - j = Len(s) - k /\ j \in 0 .. Len(r)
        BY <1>3, <1>4, <2>1
      <3> HIDE DEF j, r
      <3>4. \A i \in 1 .. Len(r) - j : d[i] = r[j + i]
        <4> SUFFICES ASSUME NEW i \in 1 .. Len(s) - k PROVE d[i] = r[j + i]
          BY <3>3
        <4>1. r[j + i] = s[1 + (j + i)]
          BY <1>4, <3>2 DEF r
        <4> QED
          BY <3>1, <3>2, <4>1
      <3> QED
        BY <3>1, <3>3, <3>4 DEF Suffix
    <2>5. r \in Lead(Q, Y, T)
      <3> HIDE DEF j, r
      <3> QED
        BY <1>4, <2>1, <2>2, <2>3, <2>4 DEF Lead, r
    <2> QED
      BY <1>1, <1>3, <1>4, <2>1, <2>5
  <1> QED
    BY <1>1, <1>3, <1>5, <1>6

\* Statements of Q in front change nothing.
LEMMA LeadOn ==
  ASSUME NEW Q, NEW Y, NEW T, NEW s \in Lead(Q, Y, T), NEW b \in Seq(Stmt),
         \A i \in 1 .. Len(b) : b[i] \in Q
  PROVE  b \o s \in Lead(Q, Y, T)
  <1> DEFINE c == b \o s
             m == Len(b)
  <1>1. s \in Seq(Stmt)
    BY DEF Lead
  <1>2. PICK k \in 1 .. Len(s) : /\ s[k] \in Y /\ \A i \in 1 .. k - 1 : s[i] \in Q
                                 /\ \E d \in T : Suffix(d, s, k)
    BY DEF Lead
  <1>3. PICK d \in T : Suffix(d, s, k)
    BY <1>2
  <1>4. /\ c \in Seq(Stmt) /\ m \in Nat /\ Len(s) \in Nat /\ Len(c) = m + Len(s)
        /\ \A i \in 1 .. m : c[i] = b[i]
        /\ \A i \in 1 .. Len(s) : c[m + i] = s[i]
    BY <1>1, ConcatAt
  <1> HIDE DEF c, m
  <1>5. m + k \in 1 .. Len(c) /\ c[m + k] \in Y
    BY <1>2, <1>4
  <1>6. ASSUME NEW i \in 1 .. (m + k) - 1 PROVE c[i] \in Q
    <2>1. CASE i <= m
      <3>1. i \in 1 .. m
        BY <1>4, <2>1
      <3> QED
        BY <1>4, <3>1 DEF m
    <2>2. CASE i > m
      <3>1. i - m \in 1 .. k - 1 /\ i - m \in 1 .. Len(s) /\ m + (i - m) = i
        BY <1>2, <1>4, <2>2
      <3>2. c[m + (i - m)] = s[i - m]
        BY <1>4, <3>1
      <3> QED
        BY <1>2, <3>1, <3>2
    <2> QED
      BY <1>4, <2>1, <2>2
  <1>7. Suffix(d, c, m + k)
    <2>1. d \in Seq(Stmt) /\ Len(d) = Len(s) - k /\ \A i \in 1 .. Len(s) - k : d[i] = s[k + i]
      BY <1>3 DEF Suffix
    <2>2. Len(c) - (m + k) = Len(s) - k /\ m + k \in 0 .. Len(c)
      BY <1>2, <1>4
    <2>3. ASSUME NEW i \in 1 .. Len(s) - k PROVE d[i] = c[(m + k) + i]
      <3>1. k + i \in 1 .. Len(s) /\ (m + k) + i = m + (k + i)
        BY <1>2, <1>4
      <3>2. c[m + (k + i)] = s[k + i]
        BY <1>4, <3>1
      <3> QED
        BY <2>1, <3>1, <3>2
    <2> QED
      BY <2>1, <2>2, <2>3 DEF Suffix
  <1> QED
    BY <1>4, <1>5, <1>6, <1>7 DEF Lead, c

LEMMA LeadAt ==
  ASSUME NEW Q, NEW Y, NEW T, NEW y \in Y, y \in Stmt, NEW d \in T, d \in Seq(Stmt)
  PROVE  <<y>> \o d \in Lead(Q, Y, T)
  <1> DEFINE a == <<y>>
             c == a \o d
  <1>1. a \in Seq(Stmt) /\ Len(a) = 1 /\ a[1] = y
    OBVIOUS
  <1> HIDE DEF a
  <1>2. /\ c \in Seq(Stmt) /\ Len(d) \in Nat /\ Len(c) = 1 + Len(d)
        /\ \A i \in 1 .. 1 : c[i] = a[i]
        /\ \A i \in 1 .. Len(d) : c[1 + i] = d[i]
    <2>1. /\ c \in Seq(Stmt) /\ Len(d) \in Nat /\ Len(c) = Len(a) + Len(d)
          /\ \A i \in 1 .. Len(a) : c[i] = a[i]
          /\ \A i \in 1 .. Len(d) : c[Len(a) + i] = d[i]
      BY <1>1, ConcatAt, Zenon
    <2>2. Len(a) = 1
      BY <1>1
    <2> QED
      BY <2>1, <2>2, Zenon
  <1> HIDE DEF c
  <1>3. c[1] = y /\ 1 \in 1 .. Len(c) /\ 1 \in 0 .. Len(c) /\ Len(c) - 1 = Len(d)
    BY <1>1, <1>2
  <1>4. Suffix(d, c, 1)
    BY <1>2, <1>3 DEF Suffix
  <1>5. c[1] \in Y /\ (\A i \in 1 .. 1 - 1 : c[i] \in Q) /\ \E e \in T : Suffix(e, c, 1)
    BY <1>3, <1>4
  <1>6. c \in Lead(Q, Y, T)
    BY <1>2, <1>3, <1>5 DEF Lead
  <1> QED
    BY <1>6 DEF a, c

\* The statement that matters next is one only.
LEMMA LeadOnce ==
  ASSUME NEW Q, NEW Y, NEW T, NEW s \in Lead(Q, Y, T),
         NEW R, NEW Z, NEW U, s \in Lead(R, Z, U), Y \intersect R = {}, Z \intersect Q = {}
  PROVE  Y \intersect Z # {}
  <1>1. Len(s) \in Nat
    BY LenProperties DEF Lead
  <1>2. PICK k \in 1 .. Len(s) : s[k] \in Y /\ \A i \in 1 .. k - 1 : s[i] \in Q
    BY DEF Lead
  <1>3. PICK j \in 1 .. Len(s) : s[j] \in Z /\ \A i \in 1 .. j - 1 : s[i] \in R
    BY DEF Lead
  <1>4. CASE k < j
    <2>1. k \in 1 .. j - 1
      BY <1>1, <1>4
    <2> QED
      BY <1>2, <1>3, <2>1
  <1>5. CASE j < k
    <2>1. j \in 1 .. k - 1
      BY <1>1, <1>5
    <2> QED
      BY <1>2, <1>3, <2>1
  <1>6. CASE k = j
    BY <1>2, <1>3, <1>6
  <1> QED
    BY <1>1, <1>4, <1>5, <1>6

LEMMA LeadSome ==
  ASSUME NEW Q, NEW Y, NEW T, NEW s \in Lead(Q, Y, T)
  PROVE  s \in Seq(Stmt) /\ \E k \in 1 .. Len(s) : s[k] \in Y
  BY DEF Lead
-----------------------------------------------------------------------------
(* The depth of delegation *)

\* What enter_subgraph consists of: the step is taken, the depth compared; a
\* refusal takes the step back and raises, an admission is noted.
ReadParts == {x \in Plain : x.op = "read"}
NoteParts == {x \in Plain : x.op \in {"hash", "link", "write"}}
Up == {[op |-> "store", of |-> Depth, by |-> 1, floor |-> FALSE]}
Down == {[op |-> "store", of |-> Depth, by |-> -1, floor |-> FALSE]}
Refusal == Emit("note") \o Adjust(Depth, -1, FALSE) \o Raise("tripped")
Decide == {x \in Branch : x.of = Depth /\ x.over = Refusal /\ x.within = Emit("note")}

Noting == {s \in Seq(Stmt) : \A i \in 1 .. Len(s) : s[i] \in NoteParts}
Raising == {s \in Seq(Stmt) : /\ Len(s) >= 1 /\ s[1].op = "raise"
                              /\ \A i \in 1 .. Len(s) : s[i].op # "except"}
Deciding == Lead(ReadParts, Decide, Noting)
Entering == Lead(ReadParts, Up, Deciding)
Refusing == Lead(ReadParts \union NoteParts, Down, Raising)

LEMMA DepthParts ==
  ASSUME LangGraphCounters
  PROVE  /\ ReadParts \subseteq Stmt /\ NoteParts \subseteq Stmt /\ Up \subseteq Stmt
         /\ Down \subseteq Stmt /\ Decide \subseteq Stmt
         /\ Depth \in Counters
         /\ \A x \in ReadParts : x.op = "read"
         /\ \A x \in NoteParts : x.op \in {"hash", "link", "write"}
         /\ \A x \in Up : x.op = "store" /\ x.of = Depth /\ x.by = 1 /\ x.floor = FALSE
         /\ \A x \in Down : x.op = "store" /\ x.of = Depth /\ x.by = -1 /\ x.floor = FALSE
         /\ \A x \in Decide : x.op = "compare" /\ x.of = Depth
  <1>1. Depth \in Counters /\ 1 \in Int /\ -1 \in Int /\ FALSE \in BOOLEAN
    BY DEF LangGraphCounters
  <1>2. \A x \in Up : x.op = "store" /\ x.of = Depth /\ x.by = 1 /\ x.floor = FALSE
    BY DEF Up
  <1>3. \A x \in Down : x.op = "store" /\ x.of = Depth /\ x.by = -1 /\ x.floor = FALSE
    BY DEF Down
  <1>4. Up \subseteq Plain /\ Down \subseteq Plain
    BY <1>1 DEF Up, Down, Plain
  <1>5. Decide \subseteq Branch /\ \A x \in Decide : x.op = "compare" /\ x.of = Depth
    BY DEF Decide, Branch
  <1> QED
    BY <1>1, <1>2, <1>3, <1>4, <1>5 DEF ReadParts, NoteParts, Stmt

LEMMA NoteIs ==
  /\ Emit("note") \in Seq(Stmt) /\ Emit("note") \in Flat /\ Emit("note") \in Noting
  <1> DEFINE h == [op |-> "hash", kind |-> "note"]
             l == [op |-> "link"]
             w == [op |-> "write"]
             s == Emit("note")
  <1>1. h \in NoteParts /\ l \in NoteParts /\ w \in NoteParts
    BY DEF NoteParts, Plain
  <1>2. s \in Flat /\ s \in Seq(Stmt)
    BY EmitFits DEF Program
  <1>3. s = <<h, l, w>>
    BY DEF Emit
  <1> HIDE DEF h, l, w
  <1>4. Len(s) = 3 /\ s[1] \in NoteParts /\ s[2] \in NoteParts /\ s[3] \in NoteParts
    BY <1>1, <1>3
  <1> HIDE DEF s
  <1>5. \A i \in 1 .. 3 : i = 1 \/ i = 2 \/ i = 3
    OBVIOUS
  <1>6. s \in Noting
    BY <1>2, <1>4, <1>5 DEF Noting
  <1> QED
    BY <1>2, <1>6 DEF s

LEMMA AdjustIs ==
  ASSUME NEW c, NEW by, NEW floor
  PROVE  Adjust(c, by, floor) = << [op |-> "read", of |-> c] >>
                                \o << [op |-> "store", of |-> c, by |-> by, floor |-> floor] >>
  BY DEF Adjust

LEMMA NotingConcat ==
  ASSUME NEW a \in Noting, NEW b \in Noting
  PROVE  a \o b \in Noting
  <1>1. /\ a \in Seq(Stmt) /\ \A i \in 1 .. Len(a) : a[i] \in NoteParts
        /\ b \in Seq(Stmt) /\ \A i \in 1 .. Len(b) : b[i] \in NoteParts
    BY DEF Noting
  <1>2. /\ a \o b \in Seq(Stmt)
        /\ \A i \in 1 .. Len(a \o b) : (a \o b)[i] \in NoteParts
    BY <1>1, ConcatParts
  <1> QED
    BY <1>2 DEF Noting

LEMMA RefusalLeads ==
  ASSUME LangGraphCounters, NEW r \in Noting
  PROVE  Refusal \o r \in Refusing
  <1> DEFINE rd == [op |-> "read", of |-> Depth]
             dn == [op |-> "store", of |-> Depth, by |-> -1, floor |-> FALSE]
             ra == [op |-> "raise", kind |-> "tripped"]
             n == Emit("note")
             Q == ReadParts \union NoteParts
  <1>1. Depth \in Counters
    BY DEF LangGraphCounters
  <1>2. rd \in ReadParts /\ dn \in Down
    BY <1>1 DEF ReadParts, Plain, Down
  <1>3. ra \in Plain /\ ra \in Stmt /\ ra.op = "raise"
    BY DEF Plain, Stmt
  <1>4. Adjust(Depth, -1, FALSE) = <<rd>> \o <<dn>> /\ Raise("tripped") = <<ra>>
    <2>1. Adjust(Depth, -1, FALSE) = <<rd>> \o <<dn>>
      BY AdjustIs, Zenon
    <2>2. Raise("tripped") = <<ra>>
      BY DEF Raise
    <2> QED
      BY <2>1, <2>2
  <1>5. rd \in Stmt /\ dn \in Stmt
    BY <1>2, DepthParts
  <1>6. n \in Seq(Stmt) /\ n \in Noting
    BY NoteIs
  <1>7. Refusal = (n \o (<<rd>> \o <<dn>>)) \o <<ra>>
    BY <1>4 DEF Refusal
  <1> HIDE DEF rd, dn, ra, n
  <1>8. r \in Seq(Stmt) /\ \A i \in 1 .. Len(r) : r[i].op # "except"
    BY DepthParts DEF Noting
  <1>9. <<rd>> \in Seq(Stmt) /\ <<dn>> \in Seq(Stmt) /\ <<ra>> \in Seq(Stmt)
    BY <1>3, <1>5
  <1> DEFINE r1 == <<ra>> \o r
             r2 == <<dn>> \o r1
             r3 == <<rd>> \o r2
  <1>10. r1 \in Raising /\ r1 \in Seq(Stmt)
    <2>1. /\ r1 \in Seq(Stmt) /\ Len(r) \in Nat /\ Len(r1) = Len(<<ra>>) + Len(r)
          /\ \A i \in 1 .. Len(<<ra>>) : r1[i] = <<ra>>[i]
      BY <1>8, <1>9, ConcatAt
    <2>2. Len(<<ra>>) = 1 /\ <<ra>>[1] = ra
      OBVIOUS
    <2>3. Len(r1) >= 1 /\ r1[1] = ra
      BY <2>1, <2>2
    <2>4. \A i \in 1 .. Len(<<ra>>) : <<ra>>[i].op # "except"
      BY <1>3, <2>2
    <2>5. \A i \in 1 .. Len(r1) : r1[i].op # "except"
      BY <1>8, <1>9, <2>4, ConcatParts
    <2> QED
      BY <1>3, <2>1, <2>3, <2>5 DEF Raising
  <1>11. r2 \in Refusing /\ r2 \in Seq(Stmt)
    <2>1. r2 \in Lead(Q, Down, Raising)
      BY <1>2, <1>5, <1>10, LeadAt
    <2> QED
      BY <2>1, LeadSome DEF Refusing
  <1>12. r3 \in Refusing /\ r3 \in Seq(Stmt)
    <2>1. \A i \in 1 .. Len(<<rd>>) : <<rd>>[i] \in Q
      BY <1>2
    <2>2. r3 \in Lead(Q, Down, Raising)
      BY <1>9, <1>11, <2>1, LeadOn DEF Refusing
    <2> QED
      BY <2>2, LeadSome DEF Refusing
  <1>13. n \o r3 \in Refusing
    <2>1. \A i \in 1 .. Len(n) : n[i] \in Q
      BY <1>6 DEF Noting
    <2> QED
      BY <1>6, <1>12, <2>1, LeadOn DEF Refusing
  <1>14. Refusal \o r = n \o r3
    <2>1. <<rd>> \o <<dn>> \in Seq(Stmt)
      BY <1>9, ConcatProperties
    <2>2. n \o (<<rd>> \o <<dn>>) \in Seq(Stmt)
      BY <1>6, <2>1, ConcatProperties
    <2>3. Refusal \o r = (n \o (<<rd>> \o <<dn>>)) \o r1
      BY <1>7, <1>8, <1>9, <2>2, ConcatAssociative
    <2>4. (n \o (<<rd>> \o <<dn>>)) \o r1 = n \o ((<<rd>> \o <<dn>>) \o r1)
      BY <1>6, <1>10, <2>1, ConcatAssociative
    <2>5. (<<rd>> \o <<dn>>) \o r1 = r3
      BY <1>9, <1>10, ConcatAssociative
    <2> QED
      BY <2>3, <2>4, <2>5
  <1> QED
    BY <1>13, <1>14

LEMMA EnterIs ==
  ASSUME LangGraphAssumption, LangGraphCounters, tier \in 1 .. 4
  PROVE  EnterSubgraph \in Entering /\ EnterSubgraph \in Remainder
  <1> DEFINE rd == [op |-> "read", of |-> Depth]
             up == [op |-> "store", of |-> Depth, by |-> 1, floor |-> FALSE]
             cmp == [op |-> "compare", of |-> Depth, limit |-> MaxDepth[tier], over |-> Refusal,
                     within |-> Emit("note")]
  <1>1. Depth \in Counters /\ MaxDepth[tier] \in Int /\ 1 \in Int /\ -1 \in Int
        /\ TRUE \in BOOLEAN /\ FALSE \in BOOLEAN
    BY DEF LangGraphCounters, LangGraphAssumption
  <1>2. Refusal \in Notes
    BY <1>1, EmitsFit, AdjustFits, StatementsFit, NotesConcat DEF Refusal
  <1>3. EnterSubgraph \in Silent
    <2>1. Compare(Depth, MaxDepth[tier], Refusal, Emit("note")) \in Silent
      BY <1>1, <1>2, EmitsFit, CompareFits, Inclusions
    <2> QED
      BY <1>1, <2>1, AdjustFits, NotesConcat DEF EnterSubgraph, Refusal
  <1>4. rd \in ReadParts /\ up \in Up /\ cmp \in Decide
    <2>1. Refusal \in Flat /\ Emit("note") \in Flat
      BY <1>2, NoteIs DEF Notes
    <2>2. cmp \in Decide
      BY <1>1, <2>1 DEF Decide, Branch
    <2> QED
      BY <1>1, <2>2 DEF ReadParts, Plain, Up
  <1>5. rd \in Stmt /\ up \in Stmt /\ cmp \in Stmt
    BY <1>4, DepthParts
  <1>6. EnterSubgraph = (<<rd>> \o <<up>>) \o <<cmp>>
    <2>1. Adjust(Depth, 1, FALSE) = <<rd>> \o <<up>>
      BY AdjustIs, Zenon
    <2>2. Compare(Depth, MaxDepth[tier], Refusal, Emit("note")) = <<cmp>>
      BY DEF Compare
    <2> QED
      BY <2>1, <2>2, Zenon DEF EnterSubgraph, Refusal
  <1> HIDE DEF rd, up, cmp
  <1>7. <<rd>> \in Seq(Stmt) /\ <<up>> \in Seq(Stmt) /\ <<cmp>> \in Seq(Stmt)
    BY <1>5
  <1>8. <<cmp>> \in Deciding
    <2>1. <<>> \in Noting /\ <<>> \in Seq(Stmt)
      BY EmptySeq DEF Noting
    <2>2. <<cmp>> \o <<>> \in Deciding
      BY <1>4, <1>5, <2>1, LeadAt DEF Deciding
    <2>3. <<cmp>> \o <<>> = <<cmp>>
      BY <1>7, ConcatEmptySeq
    <2> QED
      BY <2>2, <2>3
  <1>9. <<up>> \o <<cmp>> \in Entering
    BY <1>4, <1>5, <1>7, <1>8, LeadAt DEF Entering
  <1>10. <<rd>> \o (<<up>> \o <<cmp>>) \in Entering
    <2>1. \A i \in 1 .. Len(<<rd>>) : <<rd>>[i] \in ReadParts
      BY <1>4
    <2> QED
      BY <1>7, <1>9, <2>1, LeadOn DEF Entering
  <1>11. <<rd>> \o (<<up>> \o <<cmp>>) = EnterSubgraph
    BY <1>6, <1>7, ConcatAssociative
  <1> QED
    BY <1>3, <1>10, <1>11, Inclusions, Programs DEF Gates

LEMMA LeadEvery ==
  ASSUME NEW Q, NEW Y, NEW T, NEW s \in Lead(Q, Y, T), NEW Z,
         Q \subseteq Z, Y \subseteq Z, \A d \in T : \A i \in 1 .. Len(d) : d[i] \in Z
  PROVE  \A i \in 1 .. Len(s) : s[i] \in Z
  <1>1. PICK k \in 1 .. Len(s) : /\ s[k] \in Y /\ \A i \in 1 .. k - 1 : s[i] \in Q
                                 /\ \E d \in T : Suffix(d, s, k)
    BY DEF Lead
  <1>2. PICK d \in T : Suffix(d, s, k)
    BY <1>1
  <1>3. s \in Seq(Stmt) /\ Len(s) \in Nat
    BY LenProperties DEF Lead
  <1>4. Len(d) = Len(s) - k /\ \A i \in 1 .. Len(s) - k : d[i] = s[k + i]
    BY <1>2 DEF Suffix
  <1> SUFFICES ASSUME NEW i \in 1 .. Len(s) PROVE s[i] \in Z
    OBVIOUS
  <1>5. CASE i < k
    <2>1. i \in 1 .. k - 1
      BY <1>3, <1>5
    <2> QED
      BY <1>1, <2>1
  <1>6. CASE i = k
    BY <1>1, <1>6
  <1>7. CASE i > k
    <2>1. i - k \in 1 .. Len(s) - k /\ k + (i - k) = i
      BY <1>3, <1>7
    <2>2. d[i - k] = s[k + (i - k)] /\ i - k \in 1 .. Len(d)
      BY <1>4, <2>1
    <2> QED
      BY <1>2, <2>1, <2>2
  <1> QED
    BY <1>3, <1>5, <1>6, <1>7

LEMMA DepthStraight ==
  ASSUME LangGraphCounters, NEW s \in Entering \union Deciding \union Refusing \union Raising \union Noting
  PROVE  \A i \in 1 .. Len(s) : s[i].op # "except"
  <1> DEFINE Z == {x \in Stmt : x.op # "except"}
  <1>1. /\ ReadParts \subseteq Z /\ NoteParts \subseteq Z /\ Up \subseteq Z /\ Down \subseteq Z
        /\ Decide \subseteq Z
    BY DepthParts
  <1>2. \A d \in Noting : \A i \in 1 .. Len(d) : d[i] \in Z
    BY <1>1 DEF Noting
  <1>3. \A d \in Raising : \A i \in 1 .. Len(d) : d[i] \in Z
    BY ElementOfSeq DEF Raising
  <1>4. \A z \in Z : z.op # "except"
    OBVIOUS
  <1> HIDE DEF Z
  <1>5. \A d \in Deciding : \A i \in 1 .. Len(d) : d[i] \in Z
    <2> SUFFICES ASSUME NEW d \in Deciding PROVE \A i \in 1 .. Len(d) : d[i] \in Z
      OBVIOUS
    <2>1. d \in Lead(ReadParts, Decide, Noting)
      BY DEF Deciding
    <2> QED
      BY <1>1, <1>2, <2>1, LeadEvery
  <1>6. ASSUME s \in Entering PROVE \A i \in 1 .. Len(s) : s[i] \in Z
    <2>1. s \in Lead(ReadParts, Up, Deciding)
      BY <1>6 DEF Entering
    <2> QED
      BY <1>1, <1>5, <2>1, LeadEvery
  <1>7. ASSUME s \in Refusing PROVE \A i \in 1 .. Len(s) : s[i] \in Z
    <2>1. s \in Lead(ReadParts \union NoteParts, Down, Raising)
      BY <1>7 DEF Refusing
    <2>2. ReadParts \union NoteParts \subseteq Z
      BY <1>1
    <2> QED
      BY <1>1, <1>3, <2>1, <2>2, LeadEvery
  <1>8. \A i \in 1 .. Len(s) : s[i] \in Z
    BY <1>2, <1>3, <1>5, <1>6, <1>7
  <1> QED
    BY <1>4, <1>8

\* A thread that has taken its step, and one that has not or no longer has.
Stepped == Deciding \union Refusing \union Noting

LEMMA DepthOnce ==
  ASSUME LangGraphCounters, NEW s \in Entering \union Raising
  PROVE  s \notin Stepped
  <1>1. /\ \A x \in Up : x \notin ReadParts /\ x \notin NoteParts /\ x \notin Decide /\ x \notin Down
        /\ \A x \in Down \union Decide : x \notin ReadParts
    <2>1. /\ \A x \in ReadParts : x.op = "read"
          /\ \A x \in NoteParts : x.op \in {"hash", "link", "write"}
          /\ \A x \in Up : x.op = "store" /\ x.by = 1
          /\ \A x \in Down : x.op = "store" /\ x.by = -1
          /\ \A x \in Decide : x.op = "compare"
      BY DepthParts
    <2>2. \A x \in Up : x \notin Down
      BY <2>1
    <2>3. \A x \in Up : x \notin ReadParts /\ x \notin NoteParts /\ x \notin Decide
      BY <2>1
    <2>4. \A x \in Down \union Decide : x \notin ReadParts
      BY <2>1
    <2> QED
      BY <2>2, <2>3, <2>4
  <1>2. ASSUME s \in Entering, s \in Deciding PROVE FALSE
    <2>1. s \in Lead(ReadParts, Up, Deciding) /\ s \in Lead(ReadParts, Decide, Noting)
      BY <1>2 DEF Entering, Deciding
    <2>2. Up \intersect ReadParts = {} /\ Decide \intersect ReadParts = {} /\ Up \intersect Decide = {}
      BY <1>1
    <2> QED
      BY <2>1, <2>2, LeadOnce
  <1>3. ASSUME s \in Entering, s \in Refusing PROVE FALSE
    <2>1. s \in Lead(ReadParts, Up, Deciding) /\ s \in Lead(ReadParts \union NoteParts, Down, Raising)
      BY <1>3 DEF Entering, Refusing
    <2>2. /\ Up \intersect (ReadParts \union NoteParts) = {} /\ Down \intersect ReadParts = {}
          /\ Up \intersect Down = {}
      BY <1>1
    <2> QED
      BY <2>1, <2>2, LeadOnce
  <1>4. ASSUME s \in Entering, s \in Noting PROVE FALSE
    <2>1. \E k \in 1 .. Len(s) : s[k] \in Up
      BY <1>4, LeadSome DEF Entering
    <2> QED
      BY <1>1, <1>4, <2>1 DEF Noting
  <1>5. ASSUME s \in Raising, s \in Stepped PROVE FALSE
    <2>1. s \in Seq(Stmt) /\ Len(s) \in Nat /\ Len(s) >= 1 /\ s[1].op = "raise"
      BY <1>5, LenProperties DEF Raising
    <2>2. CASE s \in Noting
      <3>1. s[1] \in NoteParts
        BY <2>1, <2>2 DEF Noting
      <3> QED
        BY <2>1, <3>1, DepthParts
    <2>3. ASSUME NEW Q, NEW Y, NEW T, s \in Lead(Q, Y, T), \A x \in Q \union Y : x.op # "raise"
          PROVE  FALSE
      <3>1. PICK k \in 1 .. Len(s) : s[k] \in Y /\ \A i \in 1 .. k - 1 : s[i] \in Q
        BY <2>3 DEF Lead
      <3>2. 1 = k \/ 1 \in 1 .. k - 1
        BY <2>1
      <3>3. s[1] \in Q \union Y
        BY <3>1, <3>2
      <3> QED
        BY <2>1, <2>3, <3>3
    <2>4. CASE s \in Deciding
      <3>1. s \in Lead(ReadParts, Decide, Noting)
        BY <2>4 DEF Deciding
      <3>2. \A x \in ReadParts \union Decide : x.op # "raise"
        BY DepthParts
      <3> QED
        BY <2>3, <3>1, <3>2
    <2>5. CASE s \in Refusing
      <3>1. s \in Lead(ReadParts \union NoteParts, Down, Raising)
        BY <2>5 DEF Refusing
      <3>2. \A x \in (ReadParts \union NoteParts) \union Down : x.op # "raise"
        BY DepthParts
      <3> QED
        BY <2>3, <3>1, <3>2
    <2> QED
      BY <1>5, <2>2, <2>4, <2>5 DEF Stepped
  <1> QED
    BY <1>2, <1>3, <1>4, <1>5 DEF Stepped

\* What a statement leaves of the depth and of who is in what.
LEMMA DepthFrame ==
  ASSUME EngineTypes, ExitInv, NEW t \in Threads, Statement(t), ~GoInto(t)
  PROVE  /\ call' = call
         /\ Current(t).op # "store" => opened' = opened
         /\ Current(t).op \notin {"store", "assign"} \/ Current(t).of # Depth
                => count'[Depth] = count[Depth] /\ lost'[Depth] = lost[Depth]
         /\ Current(t).op = "store" => StoreCount(t)
         /\ Current(t).op = "raise" => RaiseException(t)
         /\ ~WriteFails(t) => leaked' = leaked
  <1>1. count \in [Counters -> Int] /\ lost \in [Counters -> Nat]
    BY DEF EngineTypes, CountTypes
  <1> DEFINE op == Current(t).op
             Same == count'[Depth] = count[Depth] /\ lost'[Depth] = lost[Depth]
             All == /\ call' = call
                    /\ op # "store" => opened' = opened
                    /\ op \notin {"store", "assign"} \/ Current(t).of # Depth => Same
                    /\ op = "store" => StoreCount(t)
                    /\ op = "raise" => RaiseException(t)
                    /\ ~WriteFails(t) => leaked' = leaked
  <1>2. ASSUME NEW o, o \notin {"store", "raise"}, op = o, UNCHANGED <<call, opened, count, lost>>,
               ~WriteFails(t) => leaked' = leaked
        PROVE  All
    BY <1>2
  <1>3. CASE HashEvent(t) \/ LinkEvent(t) \/ WriteLine(t) \/ WriteFails(t) \/ FindViolation(t)
    BY <1>2, <1>3 DEF HashEvent, LinkEvent, WriteLine, WriteFails, FindViolation, At, counting
  <1>4. CASE ReadScore(t) \/ StoreScore(t) \/ ReadCount(t) \/ CompareCount(t) \/ NoteFrequency(t)
    BY <1>2, <1>4 DEF ReadScore, StoreScore, ReadCount, CompareCount, NoteFrequency, At, counting
  <1>5. CASE TakeSnapshot(t) \/ RunWrapped(t) \/ GiveVerdict(t) \/ AdmitOne(t)
    BY <1>2, <1>5 DEF TakeSnapshot, RunWrapped, GiveVerdict, AdmitOne, At, counting
  <1>6. CASE RaiseException(t)
    <2>1. op = "raise" /\ UNCHANGED <<call, opened, count, lost, leaked>>
      BY <1>6 DEF RaiseException, At, counting
    <2> QED
      BY <1>6, <2>1
  <1>7. CASE StoreCount(t)
    <2>1. op = "store" /\ UNCHANGED <<call, leaked>>
      BY <1>7 DEF StoreCount, At
    <2>2. /\ count' = [count EXCEPT ![Current(t).of] = IF Current(t).floor
                                                       THEN AtLeast(0, held[t] + Current(t).by)
                                                       ELSE held[t] + Current(t).by]
          /\ lost' = [lost EXCEPT ![Current(t).of] = @ + Distance(count[Current(t).of], held[t])]
      BY <1>7 DEF StoreCount
    <2>3. Current(t).of # Depth => Same
      BY <1>1, <2>2
    <2> QED
      BY <1>7, <2>1, <2>3
  <1>8. CASE AssignCount(t)
    <2>1. op = "assign" /\ UNCHANGED <<call, opened, leaked>>
      BY <1>8 DEF AssignCount, At
    <2>2. /\ count' = [count EXCEPT ![Current(t).of] = Current(t).value]
          /\ lost' = [lost EXCEPT ![Current(t).of] = 0]
      BY <1>8 DEF AssignCount
    <2>3. Current(t).of # Depth => Same
      BY <1>1, <2>2
    <2> QED
      BY <2>1, <2>3
  <1>9. All
    BY <1>3, <1>4, <1>5, <1>6, <1>7, <1>8 DEF Statement
  <1> QED
    BY <1>9

LEMMA DepthHead ==
  ASSUME LangGraphCounters, NEW s \in Remainder, s # <<>>
  PROVE  /\ s \in Entering => \/ s[1] \in ReadParts /\ Tail(s) \in Entering
                              \/ s[1] \in Up /\ Tail(s) \in Deciding
         /\ s \in Deciding => \/ s[1] \in ReadParts /\ Tail(s) \in Deciding
                              \/ s[1] \in Decide /\ Tail(s) \in Noting
         /\ s \in Refusing => \/ s[1] \in ReadParts \union NoteParts /\ Tail(s) \in Refusing
                              \/ s[1] \in Down /\ Tail(s) \in Raising
         /\ s \in Raising => s[1].op = "raise"
         /\ s \in Noting => s[1] \in NoteParts /\ Tail(s) \in Noting
  <1>1. ASSUME s \in Noting PROVE s[1] \in NoteParts /\ Tail(s) \in Noting
    <2>1. /\ Len(s) \in Nat /\ Len(s) >= 1 /\ Tail(s) \in Seq(Stmt) /\ Len(Tail(s)) = Len(s) - 1
          /\ \A i \in 1 .. Len(s) - 1 : Tail(s)[i] = s[1 + i]
      BY TailSuffix DEF Suffix
    <2>2. \A i \in 1 .. Len(s) - 1 : 1 + i \in 1 .. Len(s)
      BY <2>1
    <2>3. 1 \in 1 .. Len(s) /\ \A i \in 1 .. Len(s) : s[i] \in NoteParts
      BY <1>1, <2>1 DEF Noting
    <2>4. \A i \in 1 .. Len(Tail(s)) : Tail(s)[i] \in NoteParts
      BY <2>1, <2>2, <2>3
    <2> QED
      BY <2>1, <2>3, <2>4 DEF Noting
  <1> QED
    BY <1>1, LeadHead DEF Entering, Deciding, Refusing, Raising

LEMMA DepthStays ==
  ASSUME LangGraphCounters, NEW s \in Remainder,
         s \in Entering \union Deciding \union Refusing \union Raising \union Noting
  PROVE  PastHandlers(s) = s
  <1>1. s # <<>> => 1 \in 1 .. Len(s)
    BY TailSuffix
  <1>2. s = <<>> \/ s[1].op # "except"
    BY <1>1, DepthStraight
  <1> QED
    BY <1>2, PastHandlersJoined

LEMMA EnterTurns ==
  ASSUME LangGraphCounters, EngineTypes, ExitInv, NEW t \in Threads, Statement(t), ~GoInto(t),
         todo[t] \in Entering \union Raising \union Stepped
  PROVE  \/ /\ StoreCount(t) /\ Current(t) \in Up /\ raised' = raised
            /\ todo[t] \in Entering /\ todo'[t] \in Deciding
         \/ /\ StoreCount(t) /\ Current(t) \in Down /\ raised' = raised
            /\ todo[t] \in Refusing /\ todo'[t] \in Raising
         \/ WriteFails(t) /\ Escapes(t, "os") /\ Current(t).op = "write" /\ todo[t] \in Stepped
         \/ /\ RaiseException(t) /\ Current(t).op = "raise" /\ todo[t] \in Raising
            /\ \E kind \in Raisable : Escapes(t, kind)
         \/ /\ Current(t).op \notin {"store", "assign"} /\ raised' = raised /\ ~WriteFails(t)
            /\ \/ todo[t] \in Entering /\ todo'[t] \in Entering
               \/ todo[t] \in Stepped /\ todo'[t] \in Stepped
  <1> DEFINE s == todo[t]
             r == Rest(t)
             x == Current(t)
  <1>1. /\ s \in Remainder /\ s # <<>> /\ x = s[1] /\ x \in Stmt /\ r = Tail(s) /\ r \in Remainder
    BY Motions DEF Rest
  <1>2. todo \in [Threads -> Remainder] /\ raised \in [Threads -> {"nothing"} \union Raisable] /\ Busy(t)
    BY StatementMoves DEF EngineTypes, TodoTypes
  <1>3. ~ \E i \in Nat : Caught(t, i)
    <2>1. \A i \in 1 .. Len(s) : s[i].op # "except"
      BY DepthStraight DEF Stepped
    <2>2. Suffix(r, s, 1) /\ Len(s) \in Nat
      BY <1>1, TailSuffix
    <2> HIDE DEF r, s
    <2>4. Len(r) = Len(s) - 1 /\ \A i \in 1 .. Len(s) - 1 : r[i] = s[1 + i]
      BY <2>2 DEF Suffix
    <2>5. \A i \in 1 .. Len(s) - 1 : 1 + i \in 1 .. Len(s)
      BY <2>2
    <2>3. \A i \in 1 .. Len(r) : r[i].op # "except"
      BY <2>1, <2>4, <2>5
    <2> QED
      BY <2>3 DEF Caught, Rest, r
  <1>4. \/ s \in Entering /\ \/ x \in ReadParts /\ r \in Entering
                             \/ x \in Up /\ r \in Deciding
        \/ s \in Deciding /\ \/ x \in ReadParts /\ r \in Deciding
                             \/ x \in Decide /\ r \in Noting
        \/ s \in Refusing /\ \/ x \in ReadParts \union NoteParts /\ r \in Refusing
                             \/ x \in Down /\ r \in Raising
        \/ s \in Raising /\ x.op = "raise"
        \/ s \in Noting /\ x \in NoteParts /\ r \in Noting
    BY <1>1, DepthHead DEF Stepped
  <1>5. /\ x \in ReadParts => x.op = "read"
        /\ x \in NoteParts => x.op \in {"hash", "link", "write"}
        /\ x \in Up \union Down => x.op = "store"
        /\ x \in Decide => x.op = "compare"
    BY DepthParts
  <1> HIDE DEF s, r, x
  <1>6. ASSUME x.op \notin {"compare", "frequency", "write", "raise", "run", "verdict"}
        PROVE  todo'[t] = PastHandlers(r) /\ raised' = raised /\ ~WriteFails(t)
    <2>1. ~WriteFails(t)
      BY <1>6 DEF WriteFails, At, x
    <2> QED
      BY <1>6, <2>1, Motions DEF r, x
  <1>7. r \in Entering \union Raising \union Stepped => PastHandlers(r) = r
    BY <1>1, DepthStays DEF Stepped
  <1>8. CASE x \in ReadParts /\ r \in Entering /\ s \in Entering
    BY <1>5, <1>6, <1>7, <1>8 DEF s, x
  <1>9. CASE x \in ReadParts /\ r \in Deciding /\ s \in Deciding
    BY <1>5, <1>6, <1>7, <1>9 DEF s, x, Stepped
  <1>10. CASE x \in ReadParts /\ r \in Refusing /\ s \in Refusing
    BY <1>5, <1>6, <1>7, <1>10 DEF s, x, Stepped
  <1>11. CASE x \in Up /\ r \in Deciding /\ s \in Entering
    <2>1. x.op = "store"
      BY <1>5, <1>11
    <2>2. StoreCount(t)
      BY <2>1, DepthFrame DEF x
    <2> QED
      BY <1>6, <1>7, <1>11, <2>1, <2>2 DEF s, x, Stepped
  <1>12. CASE x \in Down /\ r \in Raising /\ s \in Refusing
    <2>1. x.op = "store"
      BY <1>5, <1>12
    <2>2. StoreCount(t)
      BY <2>1, DepthFrame DEF x
    <2> QED
      BY <1>6, <1>7, <1>12, <2>1, <2>2 DEF s, x, Stepped
  <1>13. CASE x \in Decide /\ r \in Noting /\ s \in Deciding
    <2>1. x.op = "compare" /\ x.over = Refusal /\ x.within = Emit("note") /\ x.over \in Flat
      BY <1>1, <1>5, <1>13, StmtParts DEF Decide
    <2>2. Refusal \o r \in Remainder /\ Emit("note") \o r \in Remainder
      BY <1>2, <2>1, NoteIs, BranchOn DEF r, x
    <2>3. Refusal \o r \in Refusing /\ Emit("note") \o r \in Noting
      BY <1>13, NoteIs, NotingConcat, RefusalLeads
    <2>4. PastHandlers(Refusal \o r) = Refusal \o r /\ PastHandlers(Emit("note") \o r) = Emit("note") \o r
      BY <2>2, <2>3, DepthStays
    <2>5. r \in Stepped /\ PastHandlers(r) = r
      BY <1>7, <1>13 DEF Stepped
    <2>6. todo'[t] \in Stepped /\ raised' = raised
      <3>1. \/ todo'[t] = PastHandlers(r) /\ raised' = raised
            \/ Goes1(t, Refusal) \/ Goes1(t, Emit("note"))
        BY <2>1, Motions DEF r, x
      <3> QED
        BY <2>3, <2>4, <2>5, <3>1 DEF Goes1, r, Stepped
    <2>7. ~WriteFails(t)
      BY <2>1 DEF WriteFails, At, x
    <2> QED
      BY <1>13, <2>1, <2>6, <2>7 DEF s, x, Stepped
  <1>14. CASE s \in Raising /\ x.op = "raise"
    <2>1. RaiseException(t)
      BY <1>14, DepthFrame DEF x
    <2>2. Throws(t, x.kind) /\ x.kind \in Raisable
      BY <1>1, <1>14, <2>1, StmtParts DEF RaiseException, x, Raisable
    <2>3. CutsNothing(todo[t], 1)
      BY <1>1, <1>14, HandlersCut DEF s
    <2>4. Escapes(t, x.kind)
      BY <1>2, <1>3, <2>2, <2>3, ThrowMoves
    <2> QED
      BY <1>14, <2>1, <2>2, <2>4 DEF s, x
  <1>15. CASE x \in NoteParts /\ \/ s \in Refusing /\ r \in Refusing
                                 \/ s \in Noting /\ r \in Noting
    <2>1. s \in Stepped /\ r \in Stepped /\ x.op \in {"hash", "link", "write"}
      BY <1>5, <1>15 DEF Stepped
    <2>2. CASE WriteFails(t)
      <3>1. x.op = "write" /\ Throws(t, "os")
        BY <2>2 DEF WriteFails, At, x
      <3>2. CutsNothing(todo[t], 1)
        BY <1>1, <3>1, HandlersCut DEF s
      <3>3. Escapes(t, "os")
        BY <1>2, <1>3, <3>1, <3>2, ThrowMoves
      <3> QED
        BY <2>1, <2>2, <3>1, <3>3 DEF s, x
    <2>3. CASE ~WriteFails(t)
      <3>1. todo'[t] = PastHandlers(r) /\ raised' = raised
        <4>1. CASE x.op = "write"
          <5>1. WriteLine(t)
            BY <2>3, <4>1 DEF Statement, HashEvent, LinkEvent, FindViolation, GoInto,
                 ReadScore, StoreScore, ReadCount, StoreCount, CompareCount, NoteFrequency,
                 TakeSnapshot, RaiseException, RunWrapped, AssignCount, GiveVerdict, AdmitOne, At, x
          <5>2. Advances(t)
            BY <5>1 DEF WriteLine
          <5> QED
            BY <1>2, <5>2, AdvanceMoves DEF r, Rest
        <4>2. CASE x.op # "write"
          BY <1>6, <2>1, <4>2
        <4> QED
          BY <4>1, <4>2
      <3> QED
        BY <1>7, <2>1, <2>3, <3>1 DEF s, x
    <2> QED
      BY <2>2, <2>3
  <1> QED
    BY <1>4, <1>8, <1>9, <1>10, <1>11, <1>12, <1>13, <1>14, <1>15

\* Who holds a step of the depth without being in the subgraph yet.
Holds(t) == call[t].name = "enter" /\ raised[t] = "nothing" /\ todo[t] \in Stepped
Holders == {t \in Threads : Holds(t)}

\* Nobody else touches the depth.
DepthShape(t) ==
    /\ call[t].name = "enter" /\ raised[t] = "nothing" =>
           todo[t] \in Entering \union Raising \union Stepped
    /\ call[t].name = "enter" /\ raised[t] # "nothing" => todo[t] = <<>>
    /\ call[t].name \notin {"enter", "exit"} => Aside(todo[t], {Depth})

Balanced == count[Depth] = SumOf(opened) + leaked + Cardinality(Holders)

DepthInv ==
    /\ \A t \in Threads : DepthShape(t)
    /\ lost[Depth] = 0 => Balanced

\* Both sides change by what one thread does.
LEMMA BooksMove ==
  ASSUME EngineAssumption, NEW t \in Threads, opened \in [Threads -> Nat], opened' \in [Threads -> Nat],
         leaked \in Nat, leaked' \in Nat,
         \A u \in Threads \ {t} : (Holds(u)' <=> Holds(u)) /\ opened'[u] = opened[u],
         Balanced, NEW d, d \in Int, count'[Depth] = count[Depth] + d,
         d = (opened'[t] - opened[t]) + (leaked' - leaked)
                 + ((IF Holds(t)' THEN 1 ELSE 0) - (IF Holds(t) THEN 1 ELSE 0))
  PROVE  Balanced'
  <1> DEFINE A == Holders
             B == {u \in Threads : Holds(u)'}
  <1>1. IsFiniteSet(Threads)
    BY DEF EngineAssumption
  <1>2. /\ SumOf(opened) \in Nat /\ SumOf(opened') \in Nat
        /\ SumOf(opened') = SumOf(opened) + (opened'[t] - opened[t])
    <2>1. \A u \in Threads : u # t => opened'[u] = opened[u]
      OBVIOUS
    <2> QED
      BY <1>1, <2>1, SumOfMoves
  <1>3. IsFiniteSet(A)
    BY <1>1, FS_Subset DEF Holders
  <1>4. \A u : u # t => (u \in B <=> u \in A)
    BY DEF Holders
  <1>5. (t \in A <=> Holds(t)) /\ (t \in B <=> Holds(t)')
    BY DEF Holders
  <1>6. Holders' = B
    BY DEF Holders
  <1> HIDE DEF A, B
  <1>7. /\ Cardinality(A) \in Nat /\ Cardinality(B) \in Nat
        /\ Cardinality(B) = Cardinality(A)
               + ((IF Holds(t)' THEN 1 ELSE 0) - (IF Holds(t) THEN 1 ELSE 0))
    BY <1>3, <1>4, <1>5, OneDiffers
  <1>8. count[Depth] = SumOf(opened) + leaked + Cardinality(A)
    BY DEF Balanced, A
  <1>9. opened[t] \in Nat /\ opened'[t] \in Nat
    OBVIOUS
  <1>10. (IF Holds(t)' THEN 1 ELSE 0) \in Int /\ (IF Holds(t) THEN 1 ELSE 0) \in Int
    OBVIOUS
  <1> DEFINE p == IF Holds(t)' THEN 1 ELSE 0
             q == IF Holds(t) THEN 1 ELSE 0
             cb == Cardinality(B)
             ca == Cardinality(A)
  <1>11. d = (opened'[t] - opened[t]) + (leaked' - leaked) + (p - q) /\ p \in Int /\ q \in Int
         /\ cb = ca + (p - q) /\ ca \in Nat /\ count[Depth] = SumOf(opened) + leaked + ca
    BY <1>7, <1>8, <1>10
  <1> HIDE DEF p, q, ca, cb
  <1>12. count'[Depth] = SumOf(opened') + leaked' + cb
    BY <1>2, <1>9, <1>11
  <1>13. Balanced' <=> count'[Depth] = SumOf(opened') + leaked' + Cardinality(Holders')
    BY DEF Balanced
  <1> QED
    BY <1>6, <1>12, <1>13 DEF cb

LEMMA ExitIsStore ==
  /\ Head(ExitSubgraph).op = "read"
  /\ Head(Tail(ExitSubgraph)) = [op |-> "store", of |-> Depth, by |-> -1, floor |-> TRUE]
  BY DEF ExitSubgraph, Adjust

\* What a store makes of the depth when nothing has been lost by it.
LEMMA DepthStores ==
  ASSUME EngineTypes, NEW t \in Threads, StoreCount(t), Depth \in Counters, Current(t).of = Depth,
         Current(t).by \in Int, lost'[Depth] = 0
  PROVE  /\ lost[Depth] = 0 /\ count[Depth] \in Int
         /\ count'[Depth] = IF Current(t).floor THEN AtLeast(0, count[Depth] + Current(t).by)
                            ELSE count[Depth] + Current(t).by
  <1>1. count \in [Counters -> Int] /\ lost \in [Counters -> Nat] /\ held[t] \in Int
    BY DEF EngineTypes, CountTypes, LocalTypes
  <1>2. /\ count' = [count EXCEPT ![Depth] = IF Current(t).floor
                                              THEN AtLeast(0, held[t] + Current(t).by)
                                              ELSE held[t] + Current(t).by]
        /\ lost' = [lost EXCEPT ![Depth] = @ + Distance(count[Depth], held[t])]
    BY DEF StoreCount
  <1>3. lost[Depth] + Distance(count[Depth], held[t]) = 0
    BY <1>1, <1>2
  <1>4. Distance(count[Depth], held[t]) \in Nat
        /\ (Distance(count[Depth], held[t]) = 0 => held[t] = count[Depth])
    BY <1>1 DEF Distance
  <1>5. lost[Depth] = 0 /\ held[t] = count[Depth]
    BY <1>1, <1>3, <1>4
  <1>6. count'[Depth] = IF Current(t).floor THEN AtLeast(0, held[t] + Current(t).by)
                        ELSE held[t] + Current(t).by
    BY <1>1, <1>2
  <1> QED
    BY <1>1, <1>5, <1>6

\* Threads that do not move keep their shape.
LEMMA OthersShape ==
  ASSUME NEW t \in Threads, call' = call, \A u \in Threads \ {t} : todo'[u] = todo[u] /\ raised'[u] = raised[u],
         \A u \in Threads : DepthShape(u)
  PROVE  \A u \in Threads \ {t} : DepthShape(u)' /\ (Holds(u)' <=> Holds(u))
  BY DEF DepthShape, Holds

LEMMA EnterStep ==
  ASSUME EngineAssumption, LangGraphCounters, EngineTypes, ExitInv, ExitInv', leaked' \in Nat, DepthInv,
         NEW t \in Threads, Statement(t), ~GoInto(t), call[t].name = "enter"
  PROVE  DepthInv'
  <1>1. /\ todo[t] # <<>> /\ call' = call
        /\ \A u \in Threads \ {t} : todo'[u] = todo[u] /\ raised'[u] = raised[u]
    BY Motions, DepthFrame
  <1>2. raised[t] = "nothing" /\ todo[t] \in Entering \union Raising \union Stepped
    BY <1>1 DEF DepthInv, DepthShape
  <1>3. \A u \in Threads \ {t} : DepthShape(u)' /\ (Holds(u)' <=> Holds(u))
    BY <1>1, OthersShape DEF DepthInv
  <1>4. /\ opened \in [Threads -> Nat] /\ opened' \in [Threads -> Nat] /\ leaked \in Nat
        /\ count \in [Counters -> Int] /\ lost \in [Counters -> Nat]
        /\ raised \in [Threads -> {"nothing"} \union Raisable]
    BY DEF ExitInv, EngineTypes, CountTypes, TodoTypes
  <1>5. opened' = opened
    <2>1. CASE StoreCount(t)
      <3>1. opened' = [opened EXCEPT ![t] = @ + IF call[t].name = "exit" THEN -1 ELSE 0]
        BY <2>1 DEF StoreCount
      <3> QED
        BY <1>4, <3>1
    <2>2. CASE ~StoreCount(t)
      BY <2>2, DepthFrame
    <2> QED
      BY <2>1, <2>2
  <1>6. Depth \in Counters
    BY DEF LangGraphCounters
  <1> DEFINE q == IF Holds(t) THEN 1 ELSE 0
             p == IF Holds(t)' THEN 1 ELSE 0
  <1>7. ASSUME DepthShape(t)', NEW d \in Int, d = (leaked' - leaked) + (p - q),
               lost'[Depth] = 0 => lost[Depth] = 0 /\ count'[Depth] = count[Depth] + d
        PROVE  DepthInv'
    <2>1. \A u \in Threads : DepthShape(u)'
      BY <1>3, <1>7
    <2>2. ASSUME lost'[Depth] = 0 PROVE Balanced'
      <3>1. Balanced /\ count'[Depth] = count[Depth] + d
        BY <1>7, <2>2 DEF DepthInv
      <3>2. opened'[t] - opened[t] = 0
        BY <1>4, <1>5
      <3>3. d = (opened'[t] - opened[t]) + (leaked' - leaked) + (p - q)
        BY <1>4, <1>7, <3>2
      <3>4. \A u \in Threads \ {t} : (Holds(u)' <=> Holds(u)) /\ opened'[u] = opened[u]
        BY <1>3, <1>5
      <3> QED
        BY <1>4, <3>1, <3>3, <3>4, BooksMove
    <2> QED
      BY <2>1, <2>2 DEF DepthInv
  <1>8. Holds(t) <=> todo[t] \in Stepped
    BY <1>2 DEF Holds
  <1>9. Holds(t)' <=> raised'[t] = "nothing" /\ todo'[t] \in Stepped
    BY <1>1 DEF Holds
  <1>10. ASSUME raised' = raised, todo'[t] \in Entering \union Raising \union Stepped
         PROVE  DepthShape(t)'
    BY <1>1, <1>2, <1>10 DEF DepthShape
  <1>11. ASSUME NEW kind \in Raisable, Escapes(t, kind)
         PROVE  DepthShape(t)' /\ ~Holds(t)'
    <2>1. raised'[t] = kind /\ todo'[t] = <<>>
      BY <1>4, <1>11 DEF Escapes
    <2>2. raised'[t] # "nothing"
      BY <2>1 DEF Raisable
    <2> QED
      BY <1>1, <2>1, <2>2, <1>9 DEF DepthShape
  <1>12. CASE /\ StoreCount(t) /\ Current(t) \in Up /\ raised' = raised
              /\ todo[t] \in Entering /\ todo'[t] \in Deciding
    <2>1. Current(t).of = Depth /\ Current(t).by = 1 /\ Current(t).floor = FALSE /\ 1 \in Int
      <3>1. \A x \in Up : x.of = Depth /\ x.by = 1 /\ x.floor = FALSE
        BY DEF Up
      <3>2. 1 \in Int
        OBVIOUS
      <3> QED
        BY <1>12, <3>1, <3>2
    <2>2. leaked' = leaked
      BY <1>12 DEF StoreCount
    <2>3. q = 0 /\ p = 1
      BY <1>2, <1>8, <1>9, <1>12, DepthOnce DEF Stepped
    <2>4. lost'[Depth] = 0 => lost[Depth] = 0 /\ count'[Depth] = count[Depth] + 1
      BY <1>6, <1>12, <2>1, DepthStores
    <2>5. DepthShape(t)'
      BY <1>10, <1>12 DEF Stepped
    <2>6. 1 = (leaked' - leaked) + (p - q)
      BY <1>4, <2>2, <2>3
    <2> QED
      BY <1>7, <2>1, <2>4, <2>5, <2>6
  <1>13. CASE /\ StoreCount(t) /\ Current(t) \in Down /\ raised' = raised
              /\ todo[t] \in Refusing /\ todo'[t] \in Raising
    <2>1. Current(t).of = Depth /\ Current(t).by = -1 /\ Current(t).floor = FALSE /\ -1 \in Int
      <3>1. \A x \in Down : x.of = Depth /\ x.by = -1 /\ x.floor = FALSE
        BY DEF Down
      <3>2. -1 \in Int
        OBVIOUS
      <3> QED
        BY <1>13, <3>1, <3>2
    <2>2. leaked' = leaked
      BY <1>13 DEF StoreCount
    <2>3. q = 1 /\ p = 0
      BY <1>8, <1>9, <1>13, DepthOnce DEF Stepped
    <2>4. lost'[Depth] = 0 => lost[Depth] = 0 /\ count'[Depth] = count[Depth] + (-1)
      BY <1>6, <1>13, <2>1, DepthStores
    <2>5. DepthShape(t)'
      BY <1>10, <1>13
    <2>6. -1 = (leaked' - leaked) + (p - q)
      BY <1>4, <2>2, <2>3
    <2> QED
      BY <1>7, <2>1, <2>4, <2>5, <2>6
  <1>14. CASE WriteFails(t) /\ Escapes(t, "os") /\ Current(t).op = "write" /\ todo[t] \in Stepped
    <2>1. leaked' = leaked + 1
      BY <1>14 DEF WriteFails
    <2>2. DepthShape(t)' /\ ~Holds(t)'
      BY <1>11, <1>14 DEF Raisable
    <2>3. q = 1 /\ p = 0
      BY <1>8, <1>14, <2>2
    <2>4. lost'[Depth] = lost[Depth] /\ count'[Depth] = count[Depth] + 0
      BY <1>4, <1>6, <1>14, DepthFrame
    <2>5. 0 = (leaked' - leaked) + (p - q) /\ 0 \in Int
      BY <1>4, <2>1, <2>3
    <2> QED
      BY <1>7, <2>2, <2>4, <2>5
  <1>15. CASE /\ RaiseException(t) /\ Current(t).op = "raise" /\ todo[t] \in Raising
              /\ \E kind \in Raisable : Escapes(t, kind)
    <2>1. leaked' = leaked
      BY <1>15 DEF RaiseException
    <2>2. DepthShape(t)' /\ ~Holds(t)'
      BY <1>11, <1>15
    <2>3. q = 0 /\ p = 0
      BY <1>8, <1>15, <2>2, DepthOnce
    <2>4. lost'[Depth] = lost[Depth] /\ count'[Depth] = count[Depth] + 0
      BY <1>4, <1>6, <1>15, DepthFrame
    <2>5. 0 = (leaked' - leaked) + (p - q) /\ 0 \in Int
      BY <1>4, <2>1, <2>3
    <2> QED
      BY <1>7, <2>2, <2>4, <2>5
  <1>16. CASE /\ Current(t).op \notin {"store", "assign"} /\ raised' = raised /\ ~WriteFails(t)
              /\ \/ todo[t] \in Entering /\ todo'[t] \in Entering
                 \/ todo[t] \in Stepped /\ todo'[t] \in Stepped
    <2>1. leaked' = leaked
      BY <1>16, DepthFrame
    <2>2. DepthShape(t)'
      BY <1>10, <1>16
    <2>3. p = q
      BY <1>2, <1>8, <1>9, <1>16, DepthOnce
    <2>4. lost'[Depth] = lost[Depth] /\ count'[Depth] = count[Depth] + 0
      BY <1>4, <1>6, <1>16, DepthFrame
    <2>5. 0 = (leaked' - leaked) + (p - q) /\ 0 \in Int
      BY <1>4, <2>1, <2>3
    <2> QED
      BY <1>7, <2>2, <2>4, <2>5
  <1> QED
    BY <1>2, <1>12, <1>13, <1>14, <1>15, <1>16, EnterTurns

LEMMA ExitBalances ==
  ASSUME EngineAssumption, LangGraphCounters, EngineTypes, ExitInv, ExitInv', leaked' \in Nat, DepthInv,
         NEW t \in Threads, Statement(t), ~GoInto(t), call[t].name = "exit"
  PROVE  DepthInv'
  <1>1. /\ todo[t] # <<>> /\ call' = call /\ Current(t) = Head(todo[t])
        /\ \A u \in Threads \ {t} : todo'[u] = todo[u] /\ raised'[u] = raised[u]
    BY Motions, DepthFrame DEF Current
  <1>2. opened[t] > 0 /\ todo[t] \in {ExitSubgraph, Tail(ExitSubgraph)}
    BY <1>1 DEF ExitInv, Leaving, Busy
  <1>3. \A u \in Threads \ {t} : DepthShape(u)' /\ (Holds(u)' <=> Holds(u))
    BY <1>1, OthersShape DEF DepthInv
  <1>4. DepthShape(t)' /\ ~Holds(t) /\ ~Holds(t)'
    BY <1>1 DEF DepthShape, Holds
  <1>5. /\ opened \in [Threads -> Nat] /\ opened' \in [Threads -> Nat] /\ leaked \in Nat
        /\ count \in [Counters -> Int] /\ lost \in [Counters -> Nat] /\ Depth \in Counters
    BY DEF ExitInv, EngineTypes, CountTypes, LangGraphCounters
  <1>6. CASE todo[t] = ExitSubgraph
    <2>1. Current(t).op = "read"
      BY <1>1, <1>6, ExitIsStore
    <2>2. /\ opened' = opened /\ lost'[Depth] = lost[Depth] /\ count'[Depth] = count[Depth]
          /\ ~WriteFails(t)
      BY <2>1, DepthFrame DEF WriteFails, At
    <2>3. leaked' = leaked
      BY <2>2, DepthFrame
    <2>4. ASSUME lost'[Depth] = 0 PROVE Balanced'
      <3>1. Balanced /\ count'[Depth] = count[Depth] + 0 /\ 0 \in Int
        BY <1>5, <2>2, <2>4 DEF DepthInv
      <3>2. \A u \in Threads \ {t} : (Holds(u)' <=> Holds(u)) /\ opened'[u] = opened[u]
        BY <1>3, <2>2
      <3>3. 0 = (opened'[t] - opened[t]) + (leaked' - leaked)
                    + ((IF Holds(t)' THEN 1 ELSE 0) - (IF Holds(t) THEN 1 ELSE 0))
        BY <1>4, <1>5, <2>2, <2>3
      <3> QED
        BY <1>5, <3>1, <3>2, <3>3, BooksMove
    <2> QED
      BY <1>3, <1>4, <2>4 DEF DepthInv
  <1>7. CASE todo[t] = Tail(ExitSubgraph)
    <2>1. Current(t) = [op |-> "store", of |-> Depth, by |-> -1, floor |-> TRUE]
      BY <1>1, <1>7, ExitIsStore, Zenon
    <2>2. /\ Current(t).op = "store" /\ Current(t).of = Depth /\ Current(t).by = -1
          /\ Current(t).floor = TRUE /\ -1 \in Int
      BY <2>1
    <2>3. StoreCount(t)
      BY <2>2, DepthFrame
    <2>4. leaked' = leaked /\ opened' = [opened EXCEPT ![t] = @ + -1]
      <3>1. opened' = [opened EXCEPT ![t] = @ + IF call[t].name = "exit" THEN -1 ELSE 0]
        BY <2>3 DEF StoreCount
      <3>2. leaked' = leaked
        BY <2>3 DEF StoreCount
      <3> QED
        BY <3>1, <3>2
    <2>5. opened'[t] = opened[t] - 1 /\ \A u \in Threads \ {t} : opened'[u] = opened[u]
      BY <1>5, <2>4
    <2>6. ASSUME lost'[Depth] = 0 PROVE Balanced'
      <3>1. /\ lost[Depth] = 0
            /\ count'[Depth] = AtLeast(0, count[Depth] + (-1))
        BY <1>5, <2>2, <2>3, <2>6, DepthStores
      <3>2. Balanced
        BY <3>1 DEF DepthInv
      <3>3. count[Depth] >= 1
        <4>1. SumOf(opened) \in Nat /\ opened[t] <= SumOf(opened)
          <5>1. \A u \in Threads : u # t => opened'[u] = opened[u]
            BY <2>5
          <5> QED
            BY <1>5, <5>1, SumOfMoves DEF EngineAssumption
        <4>2. Cardinality(Holders) \in Nat
          <5>1. IsFiniteSet(Holders)
            BY FS_Subset DEF Holders, EngineAssumption
          <5> QED
            BY <5>1, FS_CardinalityType
        <4>3. count[Depth] = SumOf(opened) + leaked + Cardinality(Holders)
          BY <3>2 DEF Balanced
        <4>4. opened[t] \in Nat /\ opened[t] > 0 /\ leaked \in Nat
          BY <1>2, <1>5
        <4>5. \A x, y, l, o \in Nat : o > 0 /\ o <= x => x + l + y >= 1
          OBVIOUS
        <4> QED
          BY <4>1, <4>2, <4>3, <4>4, <4>5, Zenon
      <3>4. count'[Depth] = count[Depth] + (-1) /\ -1 \in Int
        BY <1>5, <3>1, <3>3 DEF AtLeast
      <3>5. \A u \in Threads \ {t} : (Holds(u)' <=> Holds(u)) /\ opened'[u] = opened[u]
        BY <1>3, <2>5
      <3>6. -1 = (opened'[t] - opened[t]) + (leaked' - leaked)
                     + ((IF Holds(t)' THEN 1 ELSE 0) - (IF Holds(t) THEN 1 ELSE 0))
        BY <1>4, <1>5, <2>4, <2>5
      <3> QED
        BY <1>5, <3>2, <3>4, <3>5, <3>6, BooksMove
    <2> QED
      BY <1>3, <1>4, <2>6 DEF DepthInv
  <1> QED
    BY <1>2, <1>6, <1>7

LEMMA AsideBalances ==
  ASSUME EngineAssumption, LangGraphCounters, EngineTypes, ExitInv, ExitInv', leaked' \in Nat, DepthInv,
         NEW t \in Threads, Statement(t), ~GoInto(t), call[t].name \notin {"enter", "exit"}
  PROVE  DepthInv'
  <1>1. /\ todo[t] # <<>> /\ call' = call /\ todo[t] \in Remainder /\ Current(t) = todo[t][1]
        /\ \A u \in Threads \ {t} : todo'[u] = todo[u] /\ raised'[u] = raised[u]
    BY Motions, DepthFrame
  <1>2. Aside(todo[t], {Depth})
    BY DEF DepthInv, DepthShape
  <1>3. \A u \in Threads \ {t} : DepthShape(u)' /\ (Holds(u)' <=> Holds(u))
    BY <1>1, OthersShape DEF DepthInv
  <1>4. DepthShape(t)' /\ ~Holds(t) /\ ~Holds(t)'
    <2>1. Aside(todo'[t], {Depth})
      BY <1>2, AsideMoves
    <2> QED
      BY <1>1, <2>1 DEF DepthShape, Holds
  <1>5. /\ opened \in [Threads -> Nat] /\ opened' \in [Threads -> Nat] /\ leaked \in Nat
        /\ count \in [Counters -> Int] /\ lost \in [Counters -> Nat] /\ Depth \in Counters
    BY DEF ExitInv, EngineTypes, CountTypes, LangGraphCounters
  <1>6. Current(t).op \notin {"store", "assign"} \/ Current(t).of # Depth
    BY <1>1, <1>2, RestAside DEF Apart, Touches
  <1>7. lost'[Depth] = lost[Depth] /\ count'[Depth] = count[Depth]
    BY <1>6, DepthFrame
  <1>8. opened' = opened
    <2>1. CASE StoreCount(t)
      <3>1. opened' = [opened EXCEPT ![t] = @ + IF call[t].name = "exit" THEN -1 ELSE 0]
        BY <2>1 DEF StoreCount
      <3> QED
        BY <1>5, <3>1
    <2>2. CASE ~StoreCount(t)
      BY <2>2, DepthFrame
    <2> QED
      BY <2>1, <2>2
  <1>9. leaked' = leaked
    <2>1. CASE WriteFails(t)
      <3>1. leaked' = leaked + (IF call[t].name = "enter" THEN 1 ELSE 0)
        BY <2>1 DEF WriteFails
      <3> QED
        BY <1>5, <3>1
    <2>2. CASE ~WriteFails(t)
      BY <2>2, DepthFrame
    <2> QED
      BY <2>1, <2>2
  <1>10. ASSUME lost'[Depth] = 0 PROVE Balanced'
    <2>1. Balanced /\ count'[Depth] = count[Depth] + 0 /\ 0 \in Int
      BY <1>5, <1>7, <1>10 DEF DepthInv
    <2>2. \A u \in Threads \ {t} : (Holds(u)' <=> Holds(u)) /\ opened'[u] = opened[u]
      BY <1>3, <1>8
    <2>3. 0 = (opened'[t] - opened[t]) + (leaked' - leaked)
                  + ((IF Holds(t)' THEN 1 ELSE 0) - (IF Holds(t) THEN 1 ELSE 0))
      BY <1>4, <1>5, <1>8, <1>9
    <2> QED
      BY <1>5, <2>1, <2>2, <2>3, BooksMove
  <1> QED
    BY <1>3, <1>4, <1>10 DEF DepthInv
-----------------------------------------------------------------------------
(* Which operations leave a set of counters alone *)

Tame(D) == {s \in Flat : Aside(s, D)}
Far(D) == {s \in Branching : Aside(s, D)}
Off(D) == {s \in Program : Aside(s, D)}

LEMMA OffConcat ==
  ASSUME NEW D
  PROVE  /\ Tame(D) \subseteq Far(D) /\ Far(D) \subseteq Off(D)
         /\ <<>> \in Tame(D) /\ <<>> \in Far(D) /\ <<>> \in Off(D)
         /\ \A a, b \in Tame(D) : a \o b \in Tame(D)
         /\ \A a, b \in Far(D) : a \o b \in Far(D)
         /\ \A a, b \in Off(D) : a \o b \in Off(D)
  <1>1. Flat \subseteq Seq(Stmt) /\ Branching \subseteq Seq(Stmt) /\ Program \subseteq Seq(Stmt)
    BY Programs DEF Program
  <1>2. Tame(D) \subseteq Far(D) /\ Far(D) \subseteq Off(D)
    BY FlatConcat, Programs DEF Tame, Far, Off
  <1>3. <<>> \in Tame(D)
    BY FlatConcat DEF Tame, Aside
  <1>4. \A a, b \in Tame(D) : a \o b \in Tame(D)
    BY <1>1, FlatConcat, AsideConcat DEF Tame
  <1>5. \A a, b \in Far(D) : a \o b \in Far(D)
    BY <1>1, FlatConcat, AsideConcat DEF Far
  <1>6. \A a, b \in Off(D) : a \o b \in Off(D)
    BY <1>1, WholeConcat, AsideConcat DEF Off
  <1> QED
    BY <1>2, <1>3, <1>4, <1>5, <1>6

\* One statement, by itself.
LEMMA OneAside ==
  ASSUME NEW x \in Stmt, NEW D, Apart(x, D)
  PROVE  Aside(<<x>>, D)
  <1>1. \A i \in 1 .. 1 : i = 1
    OBVIOUS
  <1> QED
    BY <1>1 DEF Aside

LEMMA PlainAside ==
  ASSUME NEW x \in Plain, NEW D,
         x.op \in {"store", "assign", "run", "admit"} => x.of \notin D
  PROVE  Apart(x, D)
  <1>1. x.op # "compare" /\ x.op # "except"
    BY DEF Plain
  <1> QED
    BY <1>1 DEF Apart, Inside, BranchReaches, HandlerReaches, Touches

LEMMA StatementsOff ==
  ASSUME tier \in 1 .. 4, NEW D
  PROVE  /\ \A k \in {"violation", "tripped", "classH", "other"} :
                Raise(k) \in Tame(D) /\ \A n \in {2, 3} : FailIf(n, k) \in Tame(D)
         /\ Verdict \in Far(D) /\ SnapshotState \in Far(D) /\ << [op |-> "frequency"] >> \in Far(D)
  <1>1. ASSUME NEW k \in {"violation", "tripped", "classH", "other"}
        PROVE  Raise(k) \in Tame(D) /\ \A n \in {2, 3} : FailIf(n, k) \in Tame(D)
    <2> DEFINE x == [op |-> "raise", kind |-> k]
    <2>1. x \in Plain /\ x \in Stmt /\ x.op = "raise"
      BY DEF Plain, Stmt
    <2>2. Raise(k) = <<x>>
      BY DEF Raise
    <2> HIDE DEF x
    <2>3. Aside(Raise(k), D)
      BY <2>1, <2>2, OneAside, PlainAside
    <2>4. Raise(k) \in Flat
      BY StatementsFit, Inclusions
    <2>5. Raise(k) \in Tame(D)
      BY <2>3, <2>4 DEF Tame
    <2> QED
      BY <2>5, OffConcat DEF FailIf
  <1>2. ASSUME NEW o \in {"verdict", "snapshot", "frequency"} PROVE Aside(<< [op |-> o] >>, D)
    <2> DEFINE x == [op |-> o]
    <2>1. x \in Plain /\ x \in Stmt /\ x.op = o
      BY DEF Plain, Stmt
    <2> HIDE DEF x
    <2>2. Aside(<<x>>, D)
      BY <2>1, OneAside, PlainAside
    <2> QED
      BY <2>2 DEF x
  <1>3. Verdict \in Branching /\ SnapshotState \in Branching /\ << [op |-> "frequency"] >> \in Branching
    BY StatementsFit, Inclusions DEF Silent
  <1> QED
    BY <1>1, <1>2, <1>3 DEF Far, Verdict, SnapshotState

LEMMA CountersOff ==
  ASSUME tier \in 1 .. 4, NEW D, NEW c \in Counters, c \notin D
  PROVE  /\ Execute(c) \in Far(D) /\ Admit(c) \in Far(D)
         /\ \A n \in Nat : Assign(c, n) \in Far(D)
  <1>1. \A n \in Nat : Execute(c) \in Branching /\ Admit(c) \in Branching /\ Assign(c, n) \in Branching
    BY StatementsFit DEF Silent
  <1>2. 0 \in Nat
    OBVIOUS
  <1>3. ASSUME NEW n \in Nat
        PROVE  Aside(Execute(c), D) /\ Aside(Admit(c), D) /\ Aside(Assign(c, n), D)
    <2> DEFINE x == [op |-> "run", of |-> c]
               y == [op |-> "admit", of |-> c]
               z == [op |-> "assign", of |-> c, value |-> n]
    <2>1. x \in Plain /\ y \in Plain /\ z \in Plain
      BY DEF Plain
    <2>2. x.of = c /\ y.of = c /\ z.of = c
      OBVIOUS
    <2>3. Execute(c) = <<x>> /\ Admit(c) = <<y>> /\ Assign(c, n) = <<z>>
      BY DEF Execute, Admit, Assign
    <2> HIDE DEF x, y, z
    <2>4. Apart(x, D) /\ Apart(y, D) /\ Apart(z, D) /\ x \in Stmt /\ y \in Stmt /\ z \in Stmt
      BY <2>1, <2>2, PlainAside DEF Stmt
    <2> QED
      BY <2>3, <2>4, OneAside
  <1> QED
    BY <1>1, <1>2, <1>3 DEF Far

LEMMA AdjustOff ==
  ASSUME NEW D, NEW c \in Counters, c \notin D
  PROVE  \A by \in Int, floor \in BOOLEAN : Adjust(c, by, floor) \in Tame(D)
  <1> SUFFICES ASSUME NEW by \in Int, NEW floor \in BOOLEAN PROVE Adjust(c, by, floor) \in Tame(D)
    OBVIOUS
  <1> DEFINE x == [op |-> "read", of |-> c]
             y == [op |-> "store", of |-> c, by |-> by, floor |-> floor]
  <1>1. x \in Plain /\ y \in Plain /\ x.op = "read"
    BY DEF Plain
  <1>2. y.of = c
    OBVIOUS
  <1>3. Adjust(c, by, floor) = <<x>> \o <<y>>
    BY AdjustIs, Zenon
  <1>4. Adjust(c, by, floor) \in Flat
    BY AdjustFits, Inclusions
  <1> HIDE DEF x, y
  <1>5. Apart(x, D) /\ Apart(y, D) /\ x \in Stmt /\ y \in Stmt
    BY <1>1, <1>2, PlainAside DEF Stmt
  <1>6. Aside(<<x>>, D) /\ Aside(<<y>>, D) /\ <<x>> \in Seq(Stmt) /\ <<y>> \in Seq(Stmt)
    BY <1>5, OneAside
  <1>7. Aside(<<x>> \o <<y>>, D)
    BY <1>6, AsideConcat
  <1> QED
    BY <1>3, <1>4, <1>7 DEF Tame

LEMMA TameReaches ==
  ASSUME NEW D, NEW s \in Tame(D)
  PROVE  ~Reaches(s, D)
  BY DEF Tame, Aside, Apart, Reaches

LEMMA CompareOff ==
  ASSUME NEW D, NEW c \in Counters, c \notin D, NEW limit \in Int,
         NEW over \in Tame(D), NEW within \in Tame(D)
  PROVE  Compare(c, limit, over, within) \in Far(D)
  <1> DEFINE x == [op |-> "compare", of |-> c, limit |-> limit, over |-> over, within |-> within]
  <1>1. over \in Flat /\ within \in Flat /\ ~Reaches(over, D) /\ ~Reaches(within, D)
    BY TameReaches DEF Tame
  <1>2. x \in Branch /\ x.of = c /\ x.op = "compare" /\ x.over = over /\ x.within = within
    BY <1>1 DEF Branch
  <1>3. Compare(c, limit, over, within) = <<x>>
    BY DEF Compare
  <1> HIDE DEF x
  <1>4. Apart(x, D) /\ x \in Stmt
    BY <1>1, <1>2 DEF Apart, Inside, BranchReaches, HandlerReaches, Touches, Stmt
  <1>5. Compare(c, limit, over, within) \in Branching
    BY <1>1, CompareFits
  <1> QED
    BY <1>3, <1>4, <1>5, OneAside DEF Far

LEMMA TryOff ==
  ASSUME NEW D, NEW body \in Far(D), NEW kinds \in SUBSET Raisable, NEW handler \in Far(D)
  PROVE  Try(body, kinds, handler) \in Off(D)
  <1> DEFINE x == [op |-> "except", kinds |-> kinds, body |-> handler]
  <1>1. handler \in Branching /\ Aside(handler, D) /\ body \in Branching /\ Aside(body, D)
    BY DEF Far
  <1>2. x \in Handler /\ x.op = "except" /\ x.body = handler
    BY <1>1 DEF Handler
  <1>3. Try(body, kinds, handler) = body \o <<x>>
    BY DEF Try
  <1> HIDE DEF x
  <1>4. Apart(x, D) /\ x \in Stmt
    <2>1. \A i \in 1 .. Len(x.body) : ~Touches(x.body[i], D) /\ ~BranchReaches(x.body[i], D)
      BY <1>1, <1>2 DEF Aside, Apart, Inside
    <2> QED
      BY <1>2, <2>1 DEF Apart, Inside, BranchReaches, HandlerReaches, Touches, Stmt
  <1>5. Try(body, kinds, handler) \in Program
    BY <1>1, TryFits
  <1>6. body \in Seq(Stmt) /\ <<x>> \in Seq(Stmt) /\ Aside(<<x>>, D)
    BY <1>1, <1>4, OneAside, Programs DEF Program
  <1>7. Aside(body \o <<x>>, D)
    BY <1>1, <1>6, AsideConcat
  <1> QED
    BY <1>3, <1>5, <1>7 DEF Off

LEMMA PenaltyOff ==
  ASSUME NEW D, NEW n \in Nat
  PROVE  Penalty(n) \in Tame(D)
  <1> DEFINE s == Penalty(n)
  <1>1. Len(s) = 2 /\ s[1].op = "readScore" /\ s[2].op = "storeScore"
    BY DEF Penalty
  <1>2. s \in Flat
    BY PenaltyFits, Inclusions
  <1> HIDE DEF s
  <1>3. \A i \in 1 .. 2 : i = 1 \/ i = 2
    OBVIOUS
  <1>4. \A x : x.op \in {"readScore", "storeScore"} => Apart(x, D)
    BY DEF Apart, Inside, BranchReaches, HandlerReaches, Touches
  <1>5. Aside(s, D)
    BY <1>1, <1>3, <1>4 DEF Aside
  <1> QED
    BY <1>2, <1>5 DEF Tame, s

LEMMA EmitOff ==
  ASSUME NEW D
  PROVE  Emit("note") \in Tame(D) /\ Emit("finding") \in Tame(D)
  BY EmitsFit, EmitAside, Inclusions DEF Tame

LEMMA ContentOff ==
  ASSUME NEW D
  PROVE  ContentViolation \in Tame(D) /\ Record \in Tame(D)
  <1> DEFINE x == [op |-> "find"]
             p == Penalty(2)
             e == Emit("content")
  <1>1. x \in Plain /\ x \in Stmt /\ x.op = "find"
    BY DEF Plain, Stmt
  <1>2. /\ ContentViolation = (<<x>> \o p) \o e
        /\ Record = ContentViolation
    BY DEF ContentViolation, Record
  <1>3. p \in Seq(Stmt) /\ e \in Seq(Stmt)
    <2>1. p \in Flat
      BY PenaltyFits, Inclusions
    <2>2. [op |-> "hash", kind |-> "content"] \in Stmt /\ [op |-> "link"] \in Stmt
          /\ [op |-> "write"] \in Stmt
      BY DEF Plain, Stmt
    <2>3. e \in Seq(Stmt)
      BY <2>2 DEF Emit
    <2> QED
      BY <2>1, <2>3, Programs DEF Program
  <1>4. Aside(p, D) /\ Aside(e, D)
    BY PenaltyOff, EmitAside DEF Tame
  <1> HIDE DEF x, p, e
  <1>5. Aside(<<x>>, D) /\ <<x>> \in Seq(Stmt)
    BY <1>1, PlainAside, OneAside
  <1>6. <<x>> \o p \in Seq(Stmt) /\ Aside(<<x>> \o p, D)
    BY <1>3, <1>4, <1>5, AsideConcat, ConcatProperties
  <1>7. Aside((<<x>> \o p) \o e, D)
    BY <1>3, <1>4, <1>6, AsideConcat
  <1> QED
    BY <1>2, <1>7, ContentFits DEF Tame

\* The engine's operations but those that count calls.
LEMMA EngineOff ==
  ASSUME tier \in 1 .. 4, NEW D
  PROVE  /\ \A h : Scan(h) \in Far(D)
         /\ Block("violation") \in Far(D)
         /\ \A u, h : IsolateContext(u, h) \in Far(D)
         /\ \A h : ProtectMemoryWrite(h) \in Far(D)
         /\ \A p, u : CheckDomain(p, u) \in Far(D)
         /\ \A d, o : CheckPathSafety(d, o) \in Far(D)
         /\ RegisterNhi \in Far(D) /\ EmitCp8 \in Far(D) /\ RollbackState \in Far(D)
         /\ \A c : CheckHearGate(c) \in Far(D)
  <1>1. \A c : \A b \in Far(D) : When(c, b) \in Far(D)
    BY OffConcat DEF When
  <1>2. /\ ContentViolation \in Far(D) /\ Emit("note") \in Far(D) /\ Emit("finding") \in Far(D)
        /\ Penalty(5) \in Far(D) /\ Penalty(20) \in Far(D)
        /\ Raise("violation") \in Far(D) /\ Raise("classH") \in Far(D)
        /\ FailIf(2, "violation") \in Far(D) /\ FailIf(3, "violation") \in Far(D)
    BY ContentOff, EmitOff, PenaltyOff, StatementsOff, OffConcat
  <1>3. \A a, b \in Far(D) : a \o b \in Far(D)
    BY OffConcat
  <1>4. \A h : Scan(h) \in Far(D)
    BY <1>1, <1>2, <1>3 DEF Scan
  <1>5. Block("violation") \in Far(D)
    BY <1>2, <1>3 DEF Block
  <1>6. \A u, h : IsolateContext(u, h) \in Far(D)
    BY <1>1, <1>3, <1>4, <1>5 DEF IsolateContext
  <1>7. \A h : ProtectMemoryWrite(h) \in Far(D)
    <2> SUFFICES ASSUME NEW h PROVE ProtectMemoryWrite(h) \in Far(D)
      OBVIOUS
    <2>1. (IF h > 0 THEN Block("violation") ELSE Emit("note")) \in Far(D)
      BY <1>2, <1>5
    <2> QED
      BY <1>3, <1>4, <2>1 DEF ProtectMemoryWrite
  <1>8. \A p, u : CheckDomain(p, u) \in Far(D)
    <2> DEFINE Ssrf == Emit("finding") \o Penalty(5) \o FailIf(2, "violation")
    <2> SUFFICES ASSUME NEW p, NEW u PROVE CheckDomain(p, u) \in Far(D)
      OBVIOUS
    <2>1. Ssrf \in Far(D)
      BY <1>2, <1>3
    <2>2. CheckDomain(p, u) = When(p > 0, Ssrf) \o When(p > 1, Ssrf) \o When(u, Block("violation"))
      BY DEF CheckDomain
    <2> HIDE DEF Ssrf
    <2> QED
      BY <1>1, <1>3, <1>5, <2>1, <2>2
  <1>9. \A d, o : CheckPathSafety(d, o) \in Far(D)
    <2>1. Emit("finding") \o Penalty(5) \o FailIf(2, "violation") \in Far(D)
      BY <1>2, <1>3
    <2>2. Emit("finding") \o Raise("violation") \in Far(D)
      BY <1>2, <1>3
    <2> QED
      BY <1>1, <1>3, <2>1, <2>2 DEF CheckPathSafety
  <1>10. RegisterNhi \in Far(D) /\ EmitCp8 \in Far(D) /\ RollbackState \in Far(D)
    BY <1>1, <1>2, <1>3 DEF RegisterNhi, EmitCp8, RollbackState
  <1>11. \A c : CheckHearGate(c) \in Far(D)
    BY <1>1, <1>2, <1>3 DEF CheckHearGate
  <1> QED
    BY <1>4, <1>5, <1>6, <1>7, <1>8, <1>9, <1>10, <1>11

LEMMA RecordOff ==
  ASSUME EngineAssumption, tier \in 1 .. 4, NEW D, Total \notin D,
         NEW same \in Counters, same \notin D
  PROVE  RecordToolCall(same) \in Far(D)
  <1>1. /\ Total \in Counters /\ MaxToolCalls \in Int /\ MaxIdentical - 1 \in Int
        /\ 1 \in Int /\ FALSE \in BOOLEAN
    BY DEF EngineAssumption, Total
  <1>2. /\ Emit("note") \o Raise("tripped") \in Tame(D) /\ Emit("note") \o FailIf(2, "tripped") \in Tame(D)
        /\ <<>> \in Tame(D)
    BY EmitOff, StatementsOff, OffConcat
  <1>3. /\ Compare(Total, MaxToolCalls, Emit("note") \o Raise("tripped"), <<>>) \in Far(D)
        /\ Compare(same, MaxIdentical - 1, Emit("note") \o FailIf(2, "tripped"), <<>>) \in Far(D)
    BY <1>1, <1>2, CompareOff
  <1>4. Adjust(Total, 1, FALSE) \in Far(D) /\ Adjust(same, 1, FALSE) \in Far(D)
    BY <1>1, AdjustOff, OffConcat
  <1> QED
    BY <1>3, <1>4, StatementsOff, OffConcat DEF RecordToolCall

LEMMA ErrorOff ==
  ASSUME EngineAssumption, tier \in 1 .. 4, NEW D, NEW chain \in Counters, chain \notin D
  PROVE  RecordChainError(chain) \in Far(D)
  <1>1. CascadeAt - 1 \in Int /\ 1 \in Int /\ FALSE \in BOOLEAN /\ 5 \in Nat
    BY DEF EngineAssumption
  <1>2. Emit("note") \o Emit("note") \o Penalty(5) \o FailIf(3, "tripped") \in Tame(D)
    BY <1>1, EmitOff, StatementsOff, PenaltyOff, OffConcat
  <1>3. Compare(chain, CascadeAt - 1, Emit("note") \o Emit("note") \o Penalty(5) \o FailIf(3, "tripped"),
                Emit("note")) \in Far(D)
    BY <1>1, <1>2, CompareOff, EmitOff
  <1> QED
    BY <1>1, <1>3, AdjustOff, OffConcat DEF RecordChainError

LEMMA LightOff ==
  ASSUME LightCounters, NEW D, Scans \notin D
  PROVE  /\ Record \in Tame(D) /\ \A h : ScanText(h) \in Far(D)
         /\ \A c : When(c, Record) \in Far(D)
         /\ \A a, b \in Far(D) : a \o b \in Far(D)
  <1>1. Record \in Far(D) /\ Record \in Tame(D)
    BY ContentOff, OffConcat
  <1>2. \A c : When(c, Record) \in Far(D)
    BY <1>1, OffConcat DEF When
  <1>3. Adjust(Scans, 1, FALSE) \in Far(D)
    <2>1. 1 \in Int /\ FALSE \in BOOLEAN
      OBVIOUS
    <2> QED
      BY <2>1, AdjustOff, OffConcat DEF LightCounters
  <1> QED
    BY <1>1, <1>2, <1>3, OffConcat DEF ScanText

LEMMA BudgetOff ==
  ASSUME NEW D, NEW c \in Counters, c \notin D, NEW n \in Nat
  PROVE  Adjust(c, 1, FALSE) \in Far(D) /\ Compare(c, n, Record, <<>>) \in Far(D)
  <1>1. 1 \in Int /\ FALSE \in BOOLEAN /\ n \in Int
    OBVIOUS
  <1> QED
    BY <1>1, AdjustOff, CompareOff, ContentOff, OffConcat

\* A call that neither enters nor leaves a subgraph, nor touches these.
Avoids(t, D) ==
    \E name, gate, body : /\ Begin(t, name, gate, body) /\ name \notin {"enter", "exit"}
                          /\ body \in Off(D)

LEMMA FarAvoids ==
  ASSUME NEW t, NEW D, NEW name, name \notin {"enter", "exit"}, NEW gate, NEW body \in Far(D) \union Off(D),
         Begin(t, name, gate, body)
  PROVE  Avoids(t, D)
  BY OffConcat DEF Avoids

LEMMA EngineAvoids ==
  ASSUME tier \in 1 .. 4, NEW t, NEW D, EngineCall(t)
  PROVE  Avoids(t, D)
  <1>1. ASSUME NEW a, NEW b, \/ Begin(t, "scan", FALSE, Scan(a))
                             \/ Begin(t, "isolate", TRUE, IsolateContext(a, b))
                             \/ Begin(t, "memory", TRUE, ProtectMemoryWrite(a))
                             \/ Begin(t, "domain", TRUE, CheckDomain(a, b))
                             \/ Begin(t, "path", TRUE, CheckPathSafety(a, b))
                             \/ Begin(t, "register", FALSE, RegisterNhi)
                             \/ Begin(t, "cp8", FALSE, EmitCp8)
                             \/ Begin(t, "hear", TRUE, CheckHearGate(a))
                             \/ Begin(t, "rollback", FALSE, RollbackState)
        PROVE  Avoids(t, D)
    BY <1>1, EngineOff, FarAvoids
  <1> QED
    BY <1>1 DEF EngineCall

LEMMA CheckedOff ==
  ASSUME EngineAssumption, LangGraphAssumption, LangGraphCounters, tier \in 1 .. 4, NEW D,
         NEW n \in Nodes, NEW u, {Total, NodeCalls(n), SameNode(n), NodeErrors(n)} \cap D = {}
  PROVE  Checked(n, u) \in Off(D)
  <1>1. /\ NodeCalls(n) \in Counters /\ SameNode(n) \in Counters /\ NodeErrors(n) \in Counters
        /\ MaxNodeCalls \in Int /\ 1 \in Int /\ FALSE \in BOOLEAN
    BY DEF LangGraphCounters, LangGraphAssumption
  <1> DEFINE a == Adjust(NodeCalls(n), 1, FALSE)
             c == Compare(NodeCalls(n), MaxNodeCalls, Emit("note") \o FailIf(2, "tripped"), <<>>)
             r == RecordToolCall(SameNode(n))
             e == Try(Execute(SameNode(n)), {"other"}, RecordChainError(NodeErrors(n)) \o Raise("other"))
             g1 == GuardState(u)
             g2 == GuardRouting(u)
             g3 == GuardUrls(u)
             g4 == CheckHearGate(u.classH)
  <1>2. Emit("note") \o FailIf(2, "tripped") \in Tame(D) /\ <<>> \in Tame(D) /\ <<>> \in Far(D)
    BY EmitOff, StatementsOff, OffConcat
  <1>3. a \in Far(D) /\ c \in Far(D) /\ r \in Far(D) /\ SnapshotState \in Far(D)
    <2>1. a \in Far(D)
      BY <1>1, AdjustOff, OffConcat
    <2>2. c \in Far(D)
      BY <1>1, <1>2, CompareOff
    <2>3. r \in Far(D)
      BY <1>1, RecordOff
    <2> QED
      BY <2>1, <2>2, <2>3, StatementsOff
  <1>4. e \in Off(D)
    <2>1. Execute(SameNode(n)) \in Far(D)
      BY <1>1, CountersOff
    <2>2. RecordChainError(NodeErrors(n)) \o Raise("other") \in Far(D)
      BY <1>1, ErrorOff, StatementsOff, OffConcat
    <2>3. {"other"} \in SUBSET Raisable
      BY DEF Raisable
    <2> QED
      BY <2>1, <2>2, <2>3, TryOff
  <1>5. FailIf(3, "violation") \in Far(D) /\ \A x : \A b \in Far(D) : When(x, b) \in Far(D)
    BY StatementsOff, OffConcat DEF When
  <1>6. g1 \in Far(D)
    BY <1>5, EngineOff, OffConcat DEF GuardState
  <1>7. g2 \in Far(D)
    <2>1. Scan(1) \o Block("violation") \in Far(D)
      BY EngineOff, OffConcat
    <2> QED
      BY <1>5, <2>1, EngineOff, OffConcat DEF GuardRouting
  <1>8. g3 \in Off(D)
    <2>1. CheckDomain(u.private, u.unlisted) \in Far(D)
      BY EngineOff
    <2>2. {"violation"} \in SUBSET Raisable
      BY DEF Raisable
    <2>3. Try(CheckDomain(u.private, u.unlisted), {"violation"}, <<>>) \in Off(D)
      BY <1>2, <2>1, <2>2, TryOff
    <2> QED
      BY <2>1, <2>3, OffConcat DEF GuardUrls
  <1>9. g4 \in Far(D)
    BY EngineOff
  <1>10. Checked(n, u) = a \o c \o r \o SnapshotState \o e \o g1 \o g2 \o g3 \o g4
    BY DEF Checked
  <1> HIDE DEF a, c, r, e, g1, g2, g3, g4
  <1>11. /\ a \in Off(D) /\ c \in Off(D) /\ r \in Off(D) /\ SnapshotState \in Off(D)
         /\ g1 \in Off(D) /\ g2 \in Off(D) /\ g4 \in Off(D)
    BY <1>3, <1>6, <1>7, <1>9, OffConcat
  <1>12. a \o c \o r \o SnapshotState \in Off(D)
    BY <1>11, OffConcat
  <1>13. a \o c \o r \o SnapshotState \o e \o g1 \o g2 \in Off(D)
    BY <1>4, <1>11, <1>12, OffConcat
  <1> QED
    BY <1>8, <1>10, <1>11, <1>13, OffConcat

LEMMA NodeOff ==
  ASSUME EngineAssumption, LangGraphAssumption, LangGraphCounters, tier \in 1 .. 4, NEW D,
         NEW n \in Nodes, {Total, NodeCalls(n), SameNode(n), NodeErrors(n)} \cap D = {}
  PROVE  WrapNodeEmpty(n) \in Off(D) /\ \A u \in Updates : WrapNode(n, u) \in Off(D)
  <1>1. \A u : Checked(n, u) \in Off(D)
    BY CheckedOff
  <1>2. NodeCompleted \in Off(D)
    BY EmitOff, OffConcat DEF NodeCompleted
  <1>3. \A u : WrapNode(n, u) = Checked(n, u) \o NodeCompleted
    BY DEF WrapNode, Checked
  <1>4. \A u \in Updates : WrapNode(n, u) \in Off(D)
    BY <1>1, <1>2, <1>3, OffConcat
  <1>5. WrapNodeEmpty(n) = Checked(n, CleanUpdate)
    <2>1. Checked(n, CleanUpdate) \in Seq(Stmt) /\ NodeCompleted \in Seq(Stmt)
      BY <1>1, <1>2 DEF Off, Program
    <2> DEFINE a == Checked(n, CleanUpdate)
    <2>2. WrapNodeEmpty(n) = SubSeq(a \o NodeCompleted, 1, Len(a \o NodeCompleted) - Len(NodeCompleted))
      BY <1>3 DEF WrapNodeEmpty
    <2> HIDE DEF a
    <2> QED
      BY <2>1, <2>2, FrontOf DEF a
  <1> QED
    BY <1>1, <1>4, <1>5

LEMMA LangGraphAvoids ==
  ASSUME EngineAssumption, LangGraphAssumption, LangGraphCounters, tier \in 1 .. 4, NEW D,
         \A n \in Nodes : {Total, NodeCalls(n), SameNode(n), NodeErrors(n)} \cap D = {},
         NEW t, CallNode(t) \/ CallStateWrite(t)
  PROVE  Avoids(t, D)
  <1>1. ASSUME NEW n \in Nodes, \/ \E u \in Updates : Begin(t, "node", TRUE, WrapNode(n, u))
                                \/ Begin(t, "node", TRUE, WrapNodeEmpty(n))
        PROVE  Avoids(t, D)
    <2>1. WrapNodeEmpty(n) \in Off(D) /\ \A u \in Updates : WrapNode(n, u) \in Off(D)
      BY NodeOff
    <2> QED
      BY <1>1, <2>1, FarAvoids
  <1>2. ASSUME NEW hits, Begin(t, "state", TRUE, ProtectStateWrite(hits)) PROVE Avoids(t, D)
    BY <1>2, EngineOff, FarAvoids DEF ProtectStateWrite
  <1> QED
    BY <1>1, <1>2 DEF CallNode, CallStateWrite

LEMMA LangChainAvoids ==
  ASSUME EngineAssumption, LangChainCounters, tier \in 1 .. 4, NEW D,
         {Total, ChainErrors, Tool, Memory} \cap D = {}, \A i \in Inputs : SameInput(i) \notin D,
         NEW t, LangChainCall(t)
  PROVE  Avoids(t, D)
  <1>1. Tool \in Counters /\ Memory \in Counters /\ ChainErrors \in Counters
        /\ \A i \in Inputs : SameInput(i) \in Counters
    BY DEF LangChainCounters
  <1>2. FailIf(3, "violation") \in Far(D) /\ \A x : \A b \in Far(D) : When(x, b) \in Far(D)
    BY StatementsOff, OffConcat DEF When
  <1>3. \A h : Scan(h) \o When(h > 0, FailIf(3, "violation")) \in Far(D)
    BY <1>2, EngineOff, OffConcat
  <1>4. \A h : /\ OnLlmStart(h) \in Far(D) /\ OnChatModelStart(h) \in Far(D) /\ CheckInput(h) \in Far(D)
               /\ OnToolEnd(h) \in Far(D) /\ OnChainEnd(h) \in Far(D)
    BY <1>3, EngineOff DEF OnLlmStart, OnChatModelStart, CheckInput, OnToolEnd, OnChainEnd
  <1>5. \A h : OnLlmEnd(h) \in Off(D)
    <2>1. {"os"} \in SUBSET Raisable
      BY DEF Raisable
    <2> QED
      BY <2>1, EngineOff, OffConcat, TryOff DEF OnLlmEnd
  <1>6. \A i \in Inputs : \A c : OnToolStart(i, c) \in Far(D)
    BY <1>1, RecordOff, EngineOff, OffConcat DEF OnToolStart
  <1>7. OnChainError \in Far(D) /\ OnAgentAction \in Far(D)
    <2>1. OnChainError \in Far(D)
      BY <1>1, ErrorOff DEF OnChainError
    <2> QED
      BY <2>1, EmitOff, OffConcat DEF OnAgentAction
  <1>8. Execute(Tool) \in Far(D) /\ Execute(Memory) \in Far(D)
    BY <1>1, CountersOff
  <1>9. \A h : SafeRun(h) \in Far(D) /\ SafeSaveContext(h) \in Far(D)
    BY <1>2, <1>8, EngineOff, OffConcat DEF SafeRun, SafeSaveContext
  <1>10. \A p, u, h : SafeFunc(p, u, h) \in Far(D)
    BY <1>9, EngineOff, OffConcat DEF SafeFunc
  <1>11. ASSUME NEW h, \/ Begin(t, "on_llm_start", TRUE, OnLlmStart(h))
                       \/ Begin(t, "on_chat_model_start", TRUE, OnChatModelStart(h))
                       \/ Begin(t, "check_input", TRUE, CheckInput(h))
                       \/ Begin(t, "on_llm_end", FALSE, OnLlmEnd(h))
                       \/ Begin(t, "on_chain_end", FALSE, OnChainEnd(h))
                       \/ Begin(t, "on_tool_end", TRUE, OnToolEnd(h))
         PROVE  Avoids(t, D)
    BY <1>4, <1>5, <1>11, FarAvoids
  <1>12. ASSUME NEW i \in Inputs, NEW c, Begin(t, "on_tool_start", TRUE, OnToolStart(i, c))
         PROVE  Avoids(t, D)
    BY <1>6, <1>12, FarAvoids
  <1>13. ASSUME \/ Begin(t, "on_chain_error", FALSE, OnChainError)
                \/ Begin(t, "on_agent_action", FALSE, OnAgentAction)
         PROVE  Avoids(t, D)
    BY <1>7, <1>13, FarAvoids
  <1>14. ASSUME NEW p, NEW u, \/ Begin(t, "tool", TRUE, SafeRun(p))
                              \/ Begin(t, "memory", TRUE, SafeSaveContext(p))
                              \/ Begin(t, "tool", TRUE, SafeFunc(p, u, 0))
         PROVE  Avoids(t, D)
    BY <1>9, <1>10, <1>14, FarAvoids
  <1> QED
    BY <1>11, <1>12, <1>13, <1>14 DEF LangChainCall, CallHandler, CallWrapped

LEMMA CrewAvoids ==
  ASSUME EngineAssumption, CrewAssumption, CrewCounters, tier \in 1 .. 4, NEW D,
         {Total, CrewTool} \cap D = {}, \A k \in Tasks : TaskCalls(k) \notin D /\ SameTask(k) \notin D,
         NEW t, CrewCall(t)
  PROVE  Avoids(t, D)
  <1>1. CrewTool \in Counters /\ \A k \in Tasks : TaskCalls(k) \in Counters /\ SameTask(k) \in Counters
    BY DEF CrewCounters
  <1>2. FailIf(3, "violation") \in Far(D) /\ Emit("note") \in Far(D)
        /\ \A x : \A b \in Far(D) : When(x, b) \in Far(D)
    BY StatementsOff, EmitOff, OffConcat DEF When
  <1>3. \A h : WrapAgent(h) \in Far(D)
    BY <1>2, EngineOff, OffConcat DEF WrapAgent, ValidateIdentity
  <1>4. \A h : WrapCrew(h) \in Far(D)
    BY <1>2, <1>3, OffConcat DEF WrapCrew
  <1>5. \A h : CrewSafeRun(h) \in Far(D)
    <2>1. Execute(CrewTool) \in Far(D)
      BY <1>1, CountersOff
    <2> QED
      BY <1>2, <2>1, EngineOff, OffConcat DEF CrewSafeRun
  <1>6. ASSUME NEW k \in Tasks, NEW h, NEW c PROVE ProtectTaskOutput(k, h, c) \in Far(D)
    <2> DEFINE r == RecordToolCall(SameTask(k))
               a == Adjust(TaskCalls(k), 1, FALSE)
               m == Compare(TaskCalls(k), MaxTaskCalls, Emit("note") \o FailIf(2, "tripped"), <<>>)
    <2>1. 1 \in Int /\ FALSE \in BOOLEAN /\ MaxTaskCalls \in Int
      BY DEF CrewAssumption
    <2>2. r \in Far(D)
      BY <1>1, RecordOff
    <2>3. a \in Far(D)
      BY <1>1, <2>1, AdjustOff, OffConcat
    <2>4. m \in Far(D)
      <3>1. Emit("note") \o FailIf(2, "tripped") \in Tame(D) /\ <<>> \in Tame(D)
        BY EmitOff, StatementsOff, OffConcat
      <3> QED
        BY <1>1, <2>1, <3>1, CompareOff
    <2>5. ProtectTaskOutput(k, h, c) =
              r \o a \o m \o Scan(h) \o When(h > 0, FailIf(3, "violation")) \o CheckHearGate(c) \o Emit("note")
      BY DEF ProtectTaskOutput
    <2> HIDE DEF r, a, m
    <2> QED
      BY <1>2, <2>2, <2>3, <2>4, <2>5, EngineOff, OffConcat
  <1>7. \A k \in Tasks : TaskCallback(k, 0, FALSE) \in Far(D)
    <2>1. \A k \in Tasks : Execute(SameTask(k)) \in Far(D)
      BY <1>1, CountersOff
    <2> QED
      BY <1>6, <2>1, OffConcat DEF TaskCallback
  <1>8. ASSUME NEW h, \/ Begin(t, "agent", TRUE, WrapAgent(h)) \/ Begin(t, "crew", TRUE, WrapCrew(h))
                      \/ Begin(t, "tool", TRUE, CrewSafeRun(h))
        PROVE  Avoids(t, D)
    BY <1>3, <1>4, <1>5, <1>8, FarAvoids
  <1>9. ASSUME NEW k \in Tasks, NEW h, NEW c, \/ Begin(t, "task", TRUE, ProtectTaskOutput(k, h, c))
                                              \/ Begin(t, "callback", TRUE, TaskCallback(k, 0, FALSE))
        PROVE  Avoids(t, D)
    BY <1>6, <1>7, <1>9, FarAvoids
  <1> QED
    BY <1>8, <1>9 DEF CrewCall

LEMMA AutoGenAvoids ==
  ASSUME EngineAssumption, AutoGenCounters, tier \in 1 .. 4, NEW D,
         Total \notin D, \A a \in Agents : SameAgent(a) \notin D, NEW t, AutoGenCall(t)
  PROVE  Avoids(t, D)
  <1>1. /\ FailIf(3, "violation") \in Far(D) /\ FailIf(2, "violation") \in Far(D)
        /\ Emit("note") \in Far(D) /\ Emit("finding") \in Far(D)
        /\ \A x : \A b \in Far(D) : When(x, b) \in Far(D)
    BY StatementsOff, EmitOff, OffConcat DEF When
  <1>2. \A h : ScanMessage(h) \in Far(D)
    BY <1>1, EngineOff, OffConcat DEF ScanMessage
  <1>3. \A block : ProtectCodeBlock(block) \in Far(D)
    <2> SUFFICES ASSUME NEW block PROVE ProtectCodeBlock(block) \in Far(D)
      OBVIOUS
    <2>1. When(block.catastrophic, EmitCp8 \o FailIf(2, "violation")) \in Far(D)
      BY <1>1, EngineOff, OffConcat
    <2>2. ScanCode(block) \in Far(D)
      BY <1>1, OffConcat DEF ScanCode
    <2>3. ScanNetwork(block) \in Far(D)
      <3>1. (IF AllowlistSet THEN Block("violation") ELSE Emit("note")) \in Far(D)
        BY <1>1, EngineOff
      <3> QED
        BY <1>1, <3>1 DEF ScanNetwork
    <2> QED
      BY <2>1, <2>2, <2>3, EngineOff, OffConcat DEF ProtectCodeBlock
  <1>4. \A a \in Agents : RecordToolCall(SameAgent(a)) \in Far(D) /\ Execute(SameAgent(a)) \in Far(D)
    BY RecordOff, CountersOff DEF AutoGenCounters
  <1>5. \A a \in Agents : \A h : OnMessages(a, h) \in Far(D)
    BY <1>1, <1>2, <1>4, OffConcat DEF OnMessages
  <1>6. \A a \in Agents : \A h, block : OnCodeMessages(a, h, block) \in Far(D)
    BY <1>2, <1>3, <1>4, OffConcat DEF OnCodeMessages
  <1>7. \A h : WrapAssistant(h) \in Far(D)
    BY <1>1, EngineOff, OffConcat DEF WrapAssistant
  <1>8. WrapCodeExecutor \in Far(D)
    BY <1>1, EngineOff, OffConcat DEF WrapCodeExecutor
  <1>9. ASSUME NEW a \in Agents, NEW h, NEW block,
               \/ Begin(t, "on_messages", TRUE, OnMessages(a, h))
               \/ Begin(t, "on_messages", TRUE, OnCodeMessages(a, h, block))
        PROVE  Avoids(t, D)
    BY <1>5, <1>6, <1>9, FarAvoids
  <1>10. ASSUME NEW h, \/ Begin(t, "assistant", TRUE, WrapAssistant(h))
                       \/ Begin(t, "executor", FALSE, WrapCodeExecutor)
                       \/ Begin(t, "content", FALSE, Scan(h))
                       \/ Begin(t, "block", TRUE, ProtectCodeBlock(h))
         PROVE  Avoids(t, D)
    BY <1>3, <1>7, <1>8, <1>10, EngineOff, FarAvoids
  <1> QED
    BY <1>9, <1>10 DEF AutoGenCall

LEMMA GrokAvoids ==
  ASSUME GrokAssumption, GrokCounters, LightCounters, tier \in 1 .. 4, NEW D,
         {Scans, Turns, Ops} \cap D = {}, NEW t, GrokCall(t)
  PROVE  Avoids(t, D)
  <1>1. Turns \in Counters /\ Ops \in Counters /\ MaxTurns \in Nat /\ MaxOps \in Nat /\ 0 \in Nat
    BY DEF GrokCounters, GrokAssumption
  <1>2. /\ Verdict \in Far(D) /\ Record \in Far(D) /\ Raise("violation") \in Far(D)
        /\ \A c : When(c, Record) \in Far(D) /\ \A h : ScanText(h) \in Far(D)
        /\ \A a, b \in Far(D) : a \o b \in Far(D)
    BY StatementsOff, LightOff, OffConcat
  <1>3. StartSession \in Far(D) /\ EndSession \in Far(D)
    <2>1. Assign(Turns, 0) \in Far(D) /\ Assign(Ops, 0) \in Far(D)
      BY <1>1, CountersOff
    <2> QED
      BY <1>2, <2>1, OffConcat DEF StartSession, EndSession
  <1>4. /\ Adjust(Turns, 1, FALSE) \in Far(D) /\ Adjust(Ops, 1, FALSE) \in Far(D)
        /\ Compare(Turns, MaxTurns, Record, <<>>) \in Far(D) /\ Compare(Ops, MaxOps, Record, <<>>) \in Far(D)
        /\ Admit(Turns) \in Far(D) /\ Admit(Ops) \in Far(D)
    BY <1>1, BudgetOff, CountersOff
  <1>5. \A h : ScanSkillFile(h) \in Far(D) /\ ScanPrompt(h) \in Far(D) /\ ScanResponse(h) \in Far(D)
    BY <1>2, <1>4 DEF ScanSkillFile, ScanPrompt, ScanResponse
  <1>6. \A d, h : ScanHookScript(d, h) \in Far(D)
    BY <1>2 DEF ScanHookScript
  <1>7. \A d : ScanConfig(d) \in Far(D)
    BY <1>2 DEF ScanConfig
  <1>8. \A p : ScanSandboxProfile(p) \in Far(D)
    BY <1>2, OffConcat DEF ScanSandboxProfile, When
  <1>9. \A h, a, b : ScanMultiAgentRequest(h, a, b) \in Far(D)
    <2> SUFFICES ASSUME NEW h, NEW a, NEW b PROVE ScanMultiAgentRequest(h, a, b) \in Far(D)
      OBVIOUS
    <2>1. ScanText(h) \o When(a, Record) \o When(b, Record) \in Far(D)
      BY <1>2
    <2>2. ScanText(h) \o When(a, Record) \o When(b, Record)
              \o Adjust(Turns, 1, FALSE) \o Compare(Turns, MaxTurns, Record, <<>>) \in Far(D)
      BY <1>2, <1>4, <2>1
    <2>3. ScanText(h) \o When(a, Record) \o When(b, Record)
              \o Adjust(Turns, 1, FALSE) \o Compare(Turns, MaxTurns, Record, <<>>)
              \o Adjust(Ops, 1, FALSE) \o Compare(Ops, MaxOps, Record, <<>>) \in Far(D)
      BY <1>2, <1>4, <2>2
    <2> QED
      BY <1>2, <1>4, <2>3 DEF ScanMultiAgentRequest
  <1>10. \A p, q : ScanHeadlessArgs(p, q) \in Far(D)
    BY <1>2 DEF ScanHeadlessArgs
  <1>11. ASSUME NEW h, \/ Begin(t, "session", FALSE, StartSession) \/ Begin(t, "end", FALSE, EndSession)
                       \/ Begin(t, "skill", TRUE, ScanSkillFile(h))
                       \/ Begin(t, "prompt", FALSE, ScanPrompt(h))
                       \/ Begin(t, "response", FALSE, ScanResponse(h))
         PROVE  Avoids(t, D)
    BY <1>3, <1>5, <1>11, FarAvoids
  <1>12. ASSUME NEW d, NEW h, \/ Begin(t, "hook", TRUE, ScanHookScript(d, h))
                              \/ Begin(t, "config", TRUE, ScanConfig(d))
                              \/ Begin(t, "sandbox", TRUE, ScanSandboxProfile(d))
         PROVE  Avoids(t, D)
    BY <1>6, <1>7, <1>8, <1>12, FarAvoids
  <1>13. ASSUME NEW h, NEW p, NEW q,
                \/ Begin(t, "agents", TRUE, ScanMultiAgentRequest(h, p, q))
                \/ Begin(t, "args", TRUE, ScanHeadlessArgs(p, q))
         PROVE  Avoids(t, D)
    BY <1>9, <1>10, <1>13, FarAvoids
  <1> QED
    BY <1>11, <1>12, <1>13 DEF GrokCall

LEMMA MakeAvoids ==
  ASSUME MakeAssumption, MakeCounters, LightCounters, tier \in 1 .. 4, NEW D,
         {Scans, ScenarioOps, AgentTurns, External} \cap D = {}, NEW t, MakeCall(t)
  PROVE  Avoids(t, D)
  <1>1. /\ ScenarioOps \in Counters /\ AgentTurns \in Counters /\ External \in Counters
        /\ MaxScenarioOps \in Nat /\ MaxAgentTurns \in Nat /\ 0 \in Nat /\ 1 \in Nat
    BY DEF MakeCounters, MakeAssumption
  <1>2. /\ Verdict \in Far(D) /\ Record \in Far(D)
        /\ \A c : When(c, Record) \in Far(D) /\ \A h : ScanText(h) \in Far(D)
        /\ \A a, b \in Far(D) : a \o b \in Far(D)
    BY StatementsOff, LightOff, OffConcat
  <1>3. /\ Adjust(ScenarioOps, 1, FALSE) \in Far(D) /\ Adjust(AgentTurns, 1, FALSE) \in Far(D)
        /\ Compare(ScenarioOps, MaxScenarioOps, Record, <<>>) \in Far(D)
        /\ Compare(AgentTurns, MaxAgentTurns, Record, <<>>) \in Far(D)
        /\ Compare(External, 0, Record, <<>>) \in Far(D)
    BY <1>1, BudgetOff
  <1>4. /\ Admit(ScenarioOps) \in Far(D) /\ Admit(AgentTurns) \in Far(D) /\ Admit(External) \in Far(D)
        /\ Assign(External, 1) \in Far(D) /\ Assign(External, 0) \in Far(D)
    BY <1>1, CountersOff
  <1>5. \A h, i, r : ScanWebhookPayload(h, i, r) \in Far(D)
    <2> SUFFICES ASSUME NEW h, NEW i, NEW r PROVE ScanWebhookPayload(h, i, r) \in Far(D)
      OBVIOUS
    <2>1. ScanText(h) \o When(i, Record) \o When(r, Record) \in Far(D)
      BY <1>2
    <2>2. ScanText(h) \o When(i, Record) \o When(r, Record)
              \o Adjust(ScenarioOps, 1, FALSE) \o Compare(ScenarioOps, MaxScenarioOps, Record, <<>>) \in Far(D)
      BY <1>2, <1>3, <2>1
    <2> QED
      BY <1>2, <1>4, <2>2 DEF ScanWebhookPayload
  <1>6. \A h, d : ScanModuleOutput(h, d) \in Far(D)
    <2> SUFFICES ASSUME NEW h, NEW d PROVE ScanModuleOutput(h, d) \in Far(D)
      OBVIOUS
    <2>1. ScanText(h) \o When(d, Record) \in Far(D)
      BY <1>2
    <2> QED
      BY <1>2, <1>3, <1>4, <2>1 DEF ScanModuleOutput
  <1>7. \A o, p, d, h : ScanHttpModule(o, p, d, h) \in Far(D)
    <2>1. \A d : When(d, Compare(External, 0, Record, <<>>)) \in Far(D)
      BY <1>3, OffConcat DEF When
    <2> QED
      BY <1>2, <2>1 DEF ScanHttpModule
  <1>8. \A h, p, q : /\ MakeInstructions(h, p) \in Far(D) /\ ScanKnowledgeFile(h, p, q) \in Far(D)
    BY <1>2 DEF MakeInstructions, ScanKnowledgeFile
  <1>9. \A s, h, p : ScanMcpScope(s, p) \in Far(D) /\ ScanDataStoreWrite(s, h, p) \in Far(D)
    BY <1>2 DEF ScanMcpScope, ScanDataStoreWrite
  <1>10. ASSUME NEW p, NEW q, NEW h,
                \/ Begin(t, "webhook", TRUE, ScanWebhookPayload(0, p, q))
                \/ Begin(t, "module", TRUE, ScanModuleOutput(0, p))
                \/ Begin(t, "instructions", TRUE, MakeInstructions(h, p))
                \/ Begin(t, "knowledge", TRUE, ScanKnowledgeFile(0, p, q))
                \/ Begin(t, "store", TRUE, ScanDataStoreWrite(q, 0, p))
                \/ Begin(t, "scope", TRUE, ScanMcpScope(p, q))
         PROVE  Avoids(t, D)
    BY <1>5, <1>6, <1>8, <1>9, <1>10, FarAvoids
  <1>11. ASSUME NEW outside, NEW private, NEW destructive,
                Begin(t, IF destructive THEN "destroy" ELSE "http", TRUE,
                      ScanHttpModule(outside, private, destructive, 0))
         PROVE  Avoids(t, D)
    <2>1. (IF destructive THEN "destroy" ELSE "http") \notin {"enter", "exit"}
      OBVIOUS
    <2> QED
      BY <1>7, <1>11, <2>1, FarAvoids
  <1>12. ASSUME Begin(t, "clear", FALSE, ClearExternalContext) PROVE Avoids(t, D)
    BY <1>4, <1>12, FarAvoids DEF ClearExternalContext
  <1> QED
    BY <1>10, <1>11, <1>12 DEF MakeCall

LEMMA LangflowAvoids ==
  ASSUME LangflowCounters, LightCounters, tier \in 1 .. 4, NEW D, {Scans, Hops} \cap D = {},
         NEW t, LangflowCall(t)
  PROVE  Avoids(t, D)
  <1>1. /\ Verdict \in Far(D) /\ Record \in Far(D) /\ Raise("violation") \in Far(D)
        /\ \A c : When(c, Record) \in Far(D) /\ \A h : ScanText(h) \in Far(D)
        /\ \A a, b \in Far(D) : a \o b \in Far(D)
        /\ \A c : \A b \in Far(D) : When(c, b) \in Far(D)
    BY StatementsOff, LightOff, OffConcat DEF When
  <1>2. Hops \in Counters /\ 0 \in Nat /\ 1 \in Nat
    BY DEF LangflowCounters
  <1>3. Adjust(Hops, 1, FALSE) \in Far(D) /\ Assign(Hops, 0) \in Far(D)
    BY <1>2, BudgetOff, CountersOff
  <1>4. \A u, h, p : FlowWebhook(u, h, p) \in Far(D) /\ ScanRunRequest(u, h, p) \in Far(D)
    BY <1>1 DEF FlowWebhook, ScanRunRequest
  <1>5. \A d, u, h : ScanGlobalVarHeaders(d, u, h) \in Far(D)
    <2>1. \A d, u, h : (IF d \/ u THEN Record ELSE ScanText(h)) \in Far(D)
      BY <1>1
    <2> QED
      BY <1>1, <2>1 DEF ScanGlobalVarHeaders
  <1>6. \A h, p, q : ScanKnowledgeDocument(h, p, q) \in Far(D) /\ FlowInstructions(h, p) \in Far(D)
    BY <1>1 DEF ScanKnowledgeDocument, FlowInstructions
  <1>7. \A e, l, o : ScanMcpConfig(e, l, o) \in Far(D)
    BY <1>1 DEF ScanMcpConfig
  <1>8. \A s, c, d, h : ScanFlowJson(s, c, d, h) \in Far(D)
    <2>1. \A c, d, h : When(c, Record) \o When(d /\ ~c, Record) \o ScanText(h) \o Verdict \in Far(D)
      BY <1>1
    <2>2. Record \o Raise("violation") \in Far(D)
      BY <1>1
    <2> QED
      BY <2>1, <2>2 DEF ScanFlowJson
  <1>9. \A h, p : ScanComponentOutput(h, p) \in Far(D)
    BY <1>1, <1>3 DEF ScanComponentOutput
  <1>10. ASSUME NEW p, NEW q, NEW h,
                \/ Begin(t, "webhook", TRUE, FlowWebhook(p, 0, q))
                \/ Begin(t, "run", TRUE, ScanRunRequest(p, 0, h))
                \/ Begin(t, "headers", TRUE, ScanGlobalVarHeaders(p, q, h))
                \/ Begin(t, "knowledge", TRUE, ScanKnowledgeDocument(0, p, q))
                \/ Begin(t, "instructions", TRUE, FlowInstructions(h, p))
                \/ Begin(t, "output", TRUE, ScanComponentOutput(h, p))
         PROVE  Avoids(t, D)
    BY <1>4, <1>5, <1>6, <1>9, <1>10, FarAvoids
  <1>11. ASSUME NEW p, NEW q, NEW r, \/ Begin(t, "mcp", FALSE, ScanMcpConfig(p, q, r))
                                     \/ Begin(t, "flow", TRUE, ScanFlowJson(p, q, r, 0))
                                     \/ Begin(t, "reset", FALSE, ResetDagState)
         PROVE  Avoids(t, D)
    BY <1>3, <1>7, <1>8, <1>11, FarAvoids DEF ResetDagState
  <1> QED
    BY <1>10, <1>11 DEF LangflowCall

\* What one thread does that leaves the depth and the rest of the books.
LEMMA BeginBalances ==
  ASSUME EngineAssumption, EngineTypes, ExitInv, DepthInv, NEW t \in Threads, NEW name, NEW gate, NEW body,
         Begin(t, name, gate, body),
         name = "enter" => PastHandlers(body) \in Entering,
         name \notin {"enter", "exit"} => Aside(PastHandlers(body), {Depth}),
         LangGraphCounters
  PROVE  DepthInv'
  <1>1. /\ ~Busy(t) /\ ~(Returned(t) /\ call[t].name = "enter")
        /\ call' = [call EXCEPT ![t] = [name |-> name, gate |-> gate]]
        /\ todo' = [todo EXCEPT ![t] = PastHandlers(body)]
        /\ raised' = [raised EXCEPT ![t] = "nothing"]
    BY DEF Begin, Ready
  <1>2. UNCHANGED <<count, lost, opened, leaked>>
    BY DEF Begin, counting
  <1>3. /\ todo \in [Threads -> Remainder] /\ raised \in [Threads -> {"nothing"} \union Raisable]
        /\ DOMAIN call = Threads
        /\ opened \in [Threads -> Nat] /\ leaked \in Nat /\ count \in [Counters -> Int]
        /\ Depth \in Counters
    <2>1. DOMAIN call = Threads
      <3>1. call = [u \in Threads |-> [name |-> call[u].name, gate |-> call[u].gate]]
        BY DEF EngineTypes, LocalTypes
      <3> QED
        BY <3>1
    <2> QED
      BY <2>1 DEF EngineTypes, TodoTypes, CountTypes, ExitInv, LangGraphCounters
  <1>4. /\ call'[t].name = name /\ todo'[t] = PastHandlers(body) /\ raised'[t] = "nothing"
        /\ \A u \in Threads \ {t} : call'[u] = call[u] /\ todo'[u] = todo[u] /\ raised'[u] = raised[u]
    BY <1>1, <1>3
  <1>5. ~Holds(t)
    BY <1>1 DEF Holds, Returned, Busy
  <1>6. DepthShape(t)' /\ ~Holds(t)'
    <2>1. name = "enter" => PastHandlers(body) \notin Stepped
      BY DepthOnce
    <2> QED
      BY <1>4, <2>1 DEF DepthShape, Holds
  <1>7. \A u \in Threads \ {t} : DepthShape(u)' /\ (Holds(u)' <=> Holds(u))
    BY <1>4 DEF DepthInv, DepthShape, Holds
  <1>8. ASSUME lost'[Depth] = 0 PROVE Balanced'
    <2>1. Balanced /\ count'[Depth] = count[Depth] + 0 /\ 0 \in Int
      BY <1>2, <1>3, <1>8 DEF DepthInv
    <2>2. \A u \in Threads \ {t} : (Holds(u)' <=> Holds(u)) /\ opened'[u] = opened[u]
      BY <1>2, <1>7
    <2>3. 0 = (opened'[t] - opened[t]) + (leaked' - leaked)
                  + ((IF Holds(t)' THEN 1 ELSE 0) - (IF Holds(t) THEN 1 ELSE 0))
      BY <1>2, <1>3, <1>5, <1>6
    <2>4. opened' \in [Threads -> Nat] /\ leaked' \in Nat
      BY <1>2, <1>3
    <2> QED
      BY <1>3, <2>1, <2>2, <2>3, <2>4, BooksMove
  <1> QED
    BY <1>6, <1>7, <1>8 DEF DepthInv

LEMMA GoIntoBalances ==
  ASSUME EngineAssumption, LangGraphCounters, EngineTypes, ExitInv, DepthInv, NEW t \in Threads, GoInto(t)
  PROVE  DepthInv'
  <1>1. /\ todo[t] = <<>> /\ raised[t] = "nothing" /\ call[t].name = "enter"
        /\ opened' = [opened EXCEPT ![t] = @ + 1] /\ call' = [call EXCEPT ![t].name = "entered"]
        /\ UNCHANGED <<count, lost, todo, raised, leaked>>
    BY DEF GoInto, Returned, Busy
  <1>2. /\ opened \in [Threads -> Nat] /\ leaked \in Nat /\ count \in [Counters -> Int]
        /\ Depth \in Counters
        /\ call = [u \in Threads |-> [name |-> call[u].name, gate |-> call[u].gate]]
    BY DEF EngineTypes, LocalTypes, CountTypes, ExitInv, LangGraphCounters
  <1>3. Holds(t)
    <2>1. <<>> \in Noting
      BY EmptySeq DEF Noting
    <2> QED
      BY <1>1, <2>1 DEF Holds, Stepped
  <1>4. call'[t].name = "entered" /\ \A u \in Threads \ {t} : call'[u] = call[u]
    BY <1>1, <1>2
  <1>5. DepthShape(t)' /\ ~Holds(t)'
    <2>1. Aside(todo'[t], {Depth})
      BY <1>1 DEF Aside
    <2> QED
      BY <1>4, <2>1 DEF DepthShape, Holds
  <1>6. \A u \in Threads \ {t} : DepthShape(u)' /\ (Holds(u)' <=> Holds(u))
    BY <1>1, <1>4 DEF DepthInv, DepthShape, Holds
  <1>7. /\ opened'[t] = opened[t] + 1 /\ opened[t] \in Nat
        /\ \A u \in Threads \ {t} : opened'[u] = opened[u]
        /\ opened' \in [Threads -> Nat]
    BY <1>1, <1>2
  <1>8. ASSUME lost'[Depth] = 0 PROVE Balanced'
    <2>1. Balanced /\ count'[Depth] = count[Depth] + 0 /\ 0 \in Int
      BY <1>1, <1>2, <1>8 DEF DepthInv
    <2>2. \A u \in Threads \ {t} : (Holds(u)' <=> Holds(u)) /\ opened'[u] = opened[u]
      BY <1>6, <1>7
    <2>3. 0 = (opened'[t] - opened[t]) + (leaked' - leaked)
                  + ((IF Holds(t)' THEN 1 ELSE 0) - (IF Holds(t) THEN 1 ELSE 0))
      BY <1>1, <1>2, <1>3, <1>5, <1>7
    <2>4. leaked' \in Nat
      BY <1>1, <1>2
    <2> QED
      BY <1>2, <1>7, <2>1, <2>2, <2>3, <2>4, BooksMove
  <1> QED
    BY <1>5, <1>6, <1>8 DEF DepthInv

LEMMA DepthStutters ==
  ASSUME DepthInv, UNCHANGED engineVars
  PROVE  DepthInv'
  <1>1. UNCHANGED <<count, lost, opened, leaked, todo, raised, call>>
    BY DEF engineVars, counting, threads
  <1> QED
    BY <1>1 DEF DepthInv, DepthShape, Balanced, Holders, Holds

\* Nothing else counts the depth.
LEMMA DepthAlone ==
  ASSUME NEW D, D = {Depth}
  PROVE  /\ {Total, Scans, Turns, Ops, ScenarioOps, AgentTurns, External, Hops} \cap D = {}
         /\ {ChainErrors, Tool, Memory, CrewTool} \cap D = {}
         /\ \A n : {Total, NodeCalls(n), SameNode(n), NodeErrors(n)} \cap D = {}
         /\ \A i : SameInput(i) \notin D /\ TaskCalls(i) \notin D /\ SameTask(i) \notin D /\ SameAgent(i) \notin D
  <1>1. \A x : x[1] # "depth" => x \notin D
    BY DEF Depth
  <1>2. Total \notin D /\ Scans \notin D /\ Turns \notin D /\ Ops \notin D /\ ScenarioOps \notin D
    BY <1>1 DEF Total, Scans, Turns, Ops, ScenarioOps
  <1>3. AgentTurns \notin D /\ External \notin D /\ Hops \notin D
    BY <1>1 DEF AgentTurns, External, Hops
  <1>4. ChainErrors \notin D /\ Tool \notin D /\ Memory \notin D /\ CrewTool \notin D
    BY <1>1 DEF ChainErrors, Tool, Memory, CrewTool
  <1>5. \A n : NodeCalls(n) \notin D /\ SameNode(n) \notin D /\ NodeErrors(n) \notin D
    BY <1>1 DEF NodeCalls, SameNode, NodeErrors
  <1>6. \A i : SameInput(i) \notin D /\ TaskCalls(i) \notin D /\ SameTask(i) \notin D /\ SameAgent(i) \notin D
    BY <1>1 DEF SameInput, TaskCalls, SameTask, SameAgent
  <1> QED
    BY <1>2, <1>3, <1>4, <1>5, <1>6

LEMMA CallBalances ==
  ASSUME EngineTypes, ExitInv, DepthInv, NEW t \in Threads, RuntimeCall(t)
  PROVE  DepthInv'
  <1> DEFINE D == {Depth}
  <1>1. tier \in 1 .. 4
    BY DEF EngineTypes, CountTypes
  <1>2. ASSUME Avoids(t, D) PROVE DepthInv'
    <2>1. PICK name, gate, body : /\ Begin(t, name, gate, body) /\ name \notin {"enter", "exit"}
                                  /\ body \in Off(D)
      BY <1>2 DEF Avoids
    <2>2. Aside(PastHandlers(body), D)
      BY <2>1, PastAside, Programs DEF Off
    <2> QED
      BY <2>1, <2>2, BeginBalances, EngineAssumption, LangGraphCounters
  <1>3. CASE CallSubgraph(t)
    <2>1. ASSUME Begin(t, "enter", FALSE, EnterSubgraph) PROVE DepthInv'
      <3>1. EnterSubgraph \in Entering /\ PastHandlers(EnterSubgraph) = EnterSubgraph
        BY <1>1, EnterIs, DepthStays, LangGraphCounters, LangGraphAssumption
      <3> QED
        BY <2>1, <3>1, BeginBalances, EngineAssumption, LangGraphCounters
    <2>2. ASSUME Begin(t, "exit", FALSE, ExitSubgraph) PROVE DepthInv'
      BY <2>2, BeginBalances, EngineAssumption, LangGraphCounters
    <2> QED
      BY <1>3, <2>1, <2>2 DEF CallSubgraph
  <1> HIDE DEF D
  <1>4. /\ {Total, Scans, Turns, Ops, ScenarioOps, AgentTurns, External, Hops} \cap D = {}
        /\ {ChainErrors, Tool, Memory, CrewTool} \cap D = {}
        /\ \A n : {Total, NodeCalls(n), SameNode(n), NodeErrors(n)} \cap D = {}
        /\ \A i : SameInput(i) \notin D /\ TaskCalls(i) \notin D /\ SameTask(i) \notin D /\ SameAgent(i) \notin D
    BY DepthAlone DEF D
  <1>5. CASE EngineCall(t)
    BY <1>1, <1>2, <1>5, EngineAvoids
  <1>6. CASE CallNode(t) \/ CallStateWrite(t)
    <2>1. \A n \in Nodes : {Total, NodeCalls(n), SameNode(n), NodeErrors(n)} \cap D = {}
      BY <1>4
    <2> QED
      BY <1>1, <1>2, <1>6, <2>1, LangGraphAvoids, EngineAssumption, LangGraphAssumption, LangGraphCounters
  <1>7. CASE LangChainCall(t)
    <2>1. {Total, ChainErrors, Tool, Memory} \cap D = {} /\ \A i \in Inputs : SameInput(i) \notin D
      BY <1>4
    <2> QED
      BY <1>1, <1>2, <1>7, <2>1, LangChainAvoids, EngineAssumption, LangChainCounters
  <1>8. CASE CrewCall(t)
    <2>1. /\ {Total, CrewTool} \cap D = {}
          /\ \A k \in Tasks : TaskCalls(k) \notin D /\ SameTask(k) \notin D
      BY <1>4
    <2> QED
      BY <1>1, <1>2, <1>8, <2>1, CrewAvoids, EngineAssumption, CrewAssumption, CrewCounters
  <1>9. CASE AutoGenCall(t)
    <2>1. Total \notin D /\ \A a \in Agents : SameAgent(a) \notin D
      BY <1>4
    <2> QED
      BY <1>1, <1>2, <1>9, <2>1, AutoGenAvoids, EngineAssumption, AutoGenCounters
  <1>10. CASE GrokCall(t)
    <2>1. {Scans, Turns, Ops} \cap D = {}
      BY <1>4
    <2> QED
      BY <1>1, <1>2, <1>10, <2>1, GrokAvoids, GrokAssumption, GrokCounters, LightCounters
  <1>11. CASE MakeCall(t)
    <2>1. {Scans, ScenarioOps, AgentTurns, External} \cap D = {}
      BY <1>4
    <2> QED
      BY <1>1, <1>2, <1>11, <2>1, MakeAvoids, MakeAssumption, MakeCounters, LightCounters
  <1>12. CASE LangflowCall(t)
    <2>1. {Scans, Hops} \cap D = {}
      BY <1>4
    <2> QED
      BY <1>1, <1>2, <1>12, <2>1, LangflowAvoids, LangflowCounters, LightCounters
  <1> QED
    BY <1>3, <1>5, <1>6, <1>7, <1>8, <1>9, <1>10, <1>11, <1>12 DEF RuntimeCall, LangGraphCall

LEMMA StatementBalances ==
  ASSUME EngineTypes, EngineTypes', ExitInv, ExitInv', DepthInv, NEW t \in Threads, Statement(t)
  PROVE  DepthInv'
  <1>1. leaked' \in Nat
    BY DEF EngineTypes, CountTypes
  <1>2. CASE GoInto(t)
    BY <1>2, GoIntoBalances, EngineAssumption, LangGraphCounters
  <1>3. CASE ~GoInto(t) /\ call[t].name = "enter"
    BY <1>1, <1>3, EnterStep, EngineAssumption, LangGraphCounters
  <1>4. CASE ~GoInto(t) /\ call[t].name = "exit"
    BY <1>1, <1>4, ExitBalances, EngineAssumption, LangGraphCounters
  <1>5. CASE ~GoInto(t) /\ call[t].name \notin {"enter", "exit"}
    BY <1>1, <1>5, AsideBalances, EngineAssumption, LangGraphCounters
  <1> QED
    BY <1>2, <1>3, <1>4, <1>5

LEMMA DepthBegins ==
  ASSUME NEW first, InitialState(first)
  PROVE  DepthInv
  <1>1. /\ count = [c \in Counters |-> 0] /\ opened = [t \in Threads |-> 0] /\ leaked = 0
        /\ todo = [t \in Threads |-> <<>>]
        /\ call = [t \in Threads |-> [name |-> "none", gate |-> FALSE]]
    BY DEF InitialState
  <1>2. \A t \in Threads : call[t].name = "none" /\ todo[t] = <<>>
    BY <1>1
  <1>3. \A t \in Threads : DepthShape(t) /\ ~Holds(t)
    <2>1. Aside(<<>>, {Depth})
      BY DEF Aside
    <2> QED
      BY <1>2, <2>1 DEF DepthShape, Holds
  <1>4. Holders = {}
    BY <1>3 DEF Holders
  <1>5. SumOf(opened) = 0
    BY <1>1, SumOfNone, EngineAssumption DEF EngineAssumption
  <1>6. count[Depth] = 0
    BY <1>1, LangGraphCounters DEF LangGraphCounters
  <1>7. Balanced
    BY <1>1, <1>4, <1>5, <1>6, FS_EmptySet DEF Balanced
  <1> QED
    BY <1>3, <1>7 DEF DepthInv

LEMMA DepthInvariant == EngineSpec => [](EngineInv /\ DepthInv)
  <1>1. EngineInit \/ LightInit => DepthInv
    BY DepthBegins DEF EngineInit, LightInit
  <1>2. EngineInv /\ EngineInv' /\ DepthInv /\ [EngineNext]_engineVars => DepthInv'
    <2> SUFFICES ASSUME EngineInv, EngineInv', DepthInv, [EngineNext]_engineVars PROVE DepthInv'
      OBVIOUS
    <2>1. EngineTypes /\ ExitInv /\ EngineTypes' /\ ExitInv'
      BY DEF EngineInv
    <2>2. ASSUME NEW t \in Threads, RuntimeCall(t) PROVE DepthInv'
      BY <2>1, <2>2, CallBalances
    <2>3. ASSUME NEW t \in Threads, Statement(t) PROVE DepthInv'
      BY <2>1, <2>3, StatementBalances
    <2>4. CASE UNCHANGED engineVars
      BY <2>4, DepthStutters
    <2> QED
      BY <2>2, <2>3, <2>4 DEF EngineNext
  <1> QED
    BY <1>1, <1>2, EngineInvariant, PTL DEF EngineSpec

\* enter_subgraph, exit_subgraph: whenever no call is under way and no store
\* of the depth was stale, the depth is the number of subgraphs that are being
\* run and the steps that calls ended by a failed write never took back.
THEOREM EngineDepth == EngineSpec => []DepthTracks
  <1>1. EngineInv /\ DepthInv => DepthTracks
    <2> SUFFICES ASSUME EngineInv, DepthInv, \A t \in Threads : Ready(t), lost[Depth] = 0
                 PROVE  count[Depth] = SumOf(opened) + leaked
      BY DEF DepthTracks
    <2>1. \A t \in Threads : ~Holds(t)
      BY DEF Ready, Returned, Busy, Holds
    <2>2. Holders = {}
      BY <2>1 DEF Holders
    <2>3. count[Depth] = SumOf(opened) + leaked + Cardinality({})
      BY <2>2 DEF DepthInv, Balanced
    <2>4. SumOf(opened) \in Nat /\ leaked \in Nat
      <3>1. opened \in [Threads -> Nat] /\ leaked \in Nat
        BY DEF EngineInv, EngineTypes, CountTypes, ExitInv
      <3>2. DOMAIN opened = Threads /\ \A x \in Threads : opened[x] \in Nat
        BY <3>1
      <3> QED
        BY <3>1, <3>2, SumOfIs, EngineAssumption DEF EngineAssumption
    <2> QED
      BY <2>3, <2>4, FS_EmptySet
  <1> QED
    BY <1>1, DepthInvariant, PTL
=============================================================================
