------------------------- MODULE EngineLimitProofs -------------------------
(***************************************************************************)
(* Proofs about what the engine and its runtimes count: that what runs or  *)
(* is let in keeps within the ceilings of record_tool_call, for any        *)
(* threads, and within the budgets of a Grok session and a Make scenario,  *)
(* and that nothing destructive passes in an external context.  What a     *)
(* call still has to do to a counter is read off its program: it leads     *)
(* (Lead) to the statement that stores it, compares it or acts on it.      *)
(***************************************************************************)
EXTENDS EngineProofs

-----------------------------------------------------------------------------
(* Programs that lead to a counter *)

\* Statements that leave some counters alone, and handle nothing.
Still(D) == {x \in Plain \union Branch : Apart(x, D)}
Only(s, Q) == \A i \in 1 .. Len(s) : s[i] \in Q

\* Statements and what they branch to.
Closed(Q) ==
    /\ Q \subseteq Plain \union Branch /\ Only(Emit("note"), Q)
    /\ \A x \in Q : x.op = "compare" => Only(x.over, Q) /\ Only(x.within, Q)

LEMMA NoHandlers ==
  /\ \A x \in Plain \union Branch : x \in Stmt /\ x.op # "except"
  /\ \A x \in Plain : x.op # "compare"
  /\ \A s \in Flat : Only(s, Plain)
  <1>1. \A x \in Plain : x.op # "except" /\ x.op # "compare"
    BY DEF Plain
  <1>2. \A x \in Branch : x.op # "except"
    BY DEF Branch
  <1>3. \A s \in Flat : Only(s, Plain)
    BY ElementOfSeq DEF Flat, Only
  <1> QED
    BY <1>1, <1>2, <1>3 DEF Stmt

LEMMA StillClosed ==
  ASSUME NEW D
  PROVE  Closed(Still(D))
  <1>1. ASSUME NEW s \in Flat, Aside(s, D) PROVE Only(s, Still(D))
    BY <1>1, NoHandlers DEF Only, Aside, Still
  <1>2. Only(Emit("note"), Still(D))
    BY <1>1, NoteIs, EmitAside
  <1>3. ASSUME NEW x \in Still(D), x.op = "compare" PROVE Only(x.over, Still(D)) /\ Only(x.within, Still(D))
    <2>1. x \in Stmt /\ Inside(x, D)
      BY NoHandlers DEF Still, Apart
    <2>2. x.over \in Flat /\ x.within \in Flat
      BY <1>3, <2>1, StmtParts
    <2>3. Aside(x.over, D) /\ Aside(x.within, D)
      BY <1>3, <2>1, BodiesAside
    <2> QED
      BY <1>1, <2>2, <2>3
  <1> QED
    BY <1>2, <1>3 DEF Closed, Still

\* No handler but behind the last statement that touches a counter.
Safe(s, D) == \A i \in 1 .. Len(s) : s[i].op = "except" => \A j \in i .. Len(s) : Apart(s[j], D)

LEMMA AsideSafe ==
  ASSUME NEW s \in Seq(Stmt), NEW D, Aside(s, D)
  PROVE  Safe(s, D)
  <1>1. Len(s) \in Nat
    BY LenProperties
  <1> QED
    BY <1>1 DEF Aside, Safe

LEMMA CaughtAside ==
  ASSUME EngineTypes, NEW t \in Threads, Busy(t), NEW i \in Nat, Caught(t, i), NEW D, Safe(todo[t], D)
  PROVE  Aside(todo'[t], D)
  <1> DEFINE s == todo[t]
             r == Rest(t)
             b == r[i].body
  <1>1. todo \in [Threads -> Remainder]
    BY DEF EngineTypes, TodoTypes
  <1>2. s \in Remainder /\ s # <<>>
    BY <1>1, BusyIs
  <1>3. /\ Len(s) \in Nat /\ Len(s) >= 1 /\ r \in Seq(Stmt) /\ Len(r) = Len(s) - 1
        /\ \A k \in 1 .. Len(s) - 1 : r[k] = s[1 + k]
    BY <1>2, TailSuffix DEF Suffix, Rest
  <1>4. /\ i \in 1 .. Len(r) /\ r[i].op = "except" /\ r[i] \in Stmt /\ b \in Seq(Stmt)
        /\ \E e \in Program : /\ Suffix(e, r, i) /\ b \o e \in Remainder
                              /\ todo'[t] = PastHandlers(b \o e)
    BY <1>1, CaughtIs
  <1>5. ASSUME NEW j \in i .. Len(r) PROVE Apart(r[j], D)
    <2>1. 1 + i \in 1 .. Len(s) /\ s[1 + i] = r[i] /\ s[1 + j] = r[j] /\ 1 + j \in (1 + i) .. Len(s)
      BY <1>3, <1>4
    <2>2. \A m \in (1 + i) .. Len(s) : Apart(s[m], D)
      BY <1>4, <2>1 DEF Safe
    <2> QED
      BY <2>1, <2>2
  <1>6. Aside(b, D)
    <2>1. Apart(r[i], D)
      BY <1>3, <1>4, <1>5
    <2> QED
      BY <1>4, <2>1, BodiesAside DEF Apart
  <1> HIDE DEF b, r, s
  <1>7. PICK e \in Program : /\ Suffix(e, r, i) /\ b \o e \in Remainder
                             /\ todo'[t] = PastHandlers(b \o e)
    BY <1>4
  <1>8. Aside(e, D) /\ e \in Seq(Stmt)
    <2>1. Len(e) = Len(r) - i /\ \A k \in 1 .. Len(r) - i : e[k] = r[i + k]
      BY <1>7 DEF Suffix
    <2>2. \A k \in 1 .. Len(r) - i : i + k \in i .. Len(r)
      BY <1>3, <1>4
    <2>3. \A k \in 1 .. Len(e) : Apart(e[k], D)
      BY <1>5, <2>1, <2>2
    <2> QED
      BY <2>3 DEF Aside, Program
  <1>9. Aside(b \o e, D)
    BY <1>4, <1>6, <1>8, AsideConcat
  <1> QED
    BY <1>7, <1>9, PastAside

LEMMA LeadSafe ==
  ASSUME NEW Q, NEW Y, NEW T, NEW D, Q \subseteq Plain \union Branch, Y \subseteq Plain \union Branch,
         \A d \in T : Safe(d, D), NEW s \in Lead(Q, Y, T)
  PROVE  Safe(s, D)
  <1>1. PICK k \in 1 .. Len(s) : /\ s[k] \in Y /\ \A i \in 1 .. k - 1 : s[i] \in Q
                                 /\ \E d \in T : Suffix(d, s, k)
    BY DEF Lead
  <1>2. PICK d \in T : Suffix(d, s, k)
    BY <1>1
  <1>3. s \in Seq(Stmt) /\ Len(s) \in Nat
    BY LenProperties DEF Lead
  <1>4. Len(d) = Len(s) - k /\ \A i \in 1 .. Len(s) - k : d[i] = s[k + i]
    BY <1>2 DEF Suffix
  <1> SUFFICES ASSUME NEW i \in 1 .. Len(s), s[i].op = "except", NEW j \in i .. Len(s)
               PROVE  Apart(s[j], D)
    BY DEF Safe
  <1>5. i > k
    <2>1. CASE i < k
      <3>1. i \in 1 .. k - 1
        BY <1>3, <2>1
      <3> QED
        BY <1>1, <3>1, NoHandlers
    <2>2. CASE i = k
      BY <1>1, <2>2, NoHandlers
    <2> QED
      BY <1>3, <2>1, <2>2
  <1>6. /\ i - k \in 1 .. Len(d) /\ d[i - k] = s[i]
        /\ j - k \in (i - k) .. Len(d) /\ d[j - k] = s[j]
    <2>1. i - k \in 1 .. Len(s) - k /\ j - k \in 1 .. Len(s) - k /\ k + (i - k) = i /\ k + (j - k) = j
      BY <1>3, <1>5
    <2>2. d[i - k] = s[k + (i - k)] /\ d[j - k] = s[k + (j - k)]
      BY <1>4, <2>1
    <2>3. j - k \in (i - k) .. Len(d)
      BY <1>3, <1>4, <2>1
    <2> QED
      BY <1>4, <2>1, <2>2, <2>3
  <1>7. Safe(d, D)
    BY <1>2
  <1> QED
    BY <1>6, <1>7 DEF Safe

LEMMA PastLead ==
  ASSUME NEW Q, NEW Y, NEW T, Q \subseteq Plain \union Branch, Y \subseteq Plain \union Branch,
         NEW s \in Lead(Q, Y, T), s \in Remainder
  PROVE  PastHandlers(s) = s
  <1>1. s[1] \in Q \union Y
    BY LeadHead
  <1> QED
    BY <1>1, NoHandlers, PastHandlersJoined

\* A statement on the way to one of Y, or an exception.
LEMMA LeadSteps ==
  ASSUME EngineTypes, NEW t \in Threads, Statement(t), ~GoInto(t),
         NEW Q, Closed(Q), NEW Y, Y \subseteq Plain \union Branch, NEW T,
         todo[t] \in Lead(Q, Y, T)
  PROVE  \/ Current(t) \in Y /\ Rest(t) \in T
         \/ Current(t) \in Q /\ todo'[t] \in Lead(Q, Y, T) /\ raised' = raised
         \/ /\ Current(t) \in Q
            /\ \E kind \in Raisable : Escapes(t, kind) \/ \E i \in Nat : Caught(t, i)
  <1> DEFINE L == Lead(Q, Y, T)
  <1>1. /\ todo[t] \in Remainder /\ todo[t] # <<>> /\ Current(t) = todo[t][1] /\ Current(t) \in Stmt
        /\ Rest(t) \in Remainder /\ Rest(t) \in Seq(Stmt)
    BY Motions DEF Remainder
  <1>2. todo \in [Threads -> Remainder] /\ Busy(t)
    BY StatementMoves DEF EngineTypes, TodoTypes
  <1>3. \/ Current(t) \in Y /\ Rest(t) \in T
        \/ Current(t) \in Q /\ Rest(t) \in L
    BY <1>1, LeadHead DEF Rest
  <1> SUFFICES ASSUME Current(t) \in Q, Rest(t) \in L
               PROVE  \/ todo'[t] \in L /\ raised' = raised
                      \/ \E kind \in Raisable : Escapes(t, kind) \/ \E i \in Nat : Caught(t, i)
    BY <1>3
  <1>4. Q \subseteq Plain \union Branch
    BY DEF Closed
  <1>5. ASSUME NEW b \in Flat, Only(b, Q), Goes1(t, b), Current(t).op \in {"compare", "frequency"}
        PROVE  todo'[t] \in L /\ raised' = raised
    <2>1. b \o Rest(t) \in Remainder /\ b \in Seq(Stmt)
      BY <1>2, <1>5, BranchOn
    <2>2. b \o Rest(t) \in L
      BY <1>5, <2>1, LeadOn DEF Only
    <2> QED
      BY <1>4, <1>5, <2>1, <2>2, PastLead DEF Goes1
  <1>6. CASE todo'[t] = PastHandlers(Rest(t)) /\ raised' = raised
    BY <1>1, <1>4, <1>6, PastLead
  <1>7. CASE Current(t).op = "compare" /\ (Goes1(t, Current(t).over) \/ Goes1(t, Current(t).within))
    <2>1. Only(Current(t).over, Q) /\ Only(Current(t).within, Q)
      BY <1>7 DEF Closed
    <2>2. Current(t).over \in Flat /\ Current(t).within \in Flat
      BY <1>1, <1>7, StmtParts
    <2> QED
      BY <1>5, <1>7, <2>1, <2>2
  <1>8. CASE Current(t).op = "frequency" /\ Goes1(t, Emit("note"))
    <2>1. Emit("note") \in Flat /\ Only(Emit("note"), Q)
      BY EmitFits DEF Closed
    <2> QED
      BY <1>5, <1>8, <2>1
  <1> QED
    BY <1>6, <1>7, <1>8, Motions

\* An exception leaves nothing to do with what no handler comes before.
LEMMA LeadMoves ==
  ASSUME EngineTypes, NEW t \in Threads, Statement(t), ~GoInto(t),
         NEW Q, Closed(Q), NEW Y, Y \subseteq Plain \union Branch, NEW T,
         todo[t] \in Lead(Q, Y, T), NEW D, Safe(todo[t], D)
  PROVE  \/ Current(t) \in Y /\ Rest(t) \in T
         \/ Current(t) \in Q /\ todo'[t] \in Lead(Q, Y, T)
         \/ Current(t) \in Q /\ Aside(todo'[t], D)
  <1>1. Busy(t)
    BY StatementMoves
  <1>2. ASSUME NEW kind, Escapes(t, kind) PROVE Aside(todo'[t], D)
    BY <1>2 DEF Escapes, Aside
  <1>3. ASSUME NEW i \in Nat, Caught(t, i) PROVE Aside(todo'[t], D)
    BY <1>1, <1>3, CaughtAside
  <1> QED
    BY <1>2, <1>3, LeadSteps

-----------------------------------------------------------------------------
(* The ceilings: what a recorded call has still to do *)

\* What record_tool_call counts, and what is run once it has.
Counted == {Total} \union Recorded
Passing == Still(Counted)
Clear == {s \in Seq(Stmt) : Aside(s, Counted)}

StoreOne(c) == {[op |-> "store", of |-> c, by |-> 1, floor |-> FALSE]}
RunOf(c) == {[op |-> "run", of |-> c]}
Raises == {x \in Plain : x.op = "raise"}

\* The ceiling always refuses, the loop threshold from tier 2.
LimitAll ==
    {y \in Branch : /\ y.of = Total /\ y.limit = MaxToolCalls
                    /\ y.over = Emit("note") \o Raise("tripped") /\ y.within = <<>>}
LimitSame(n, x) ==
    {y \in Branch : /\ y.of = x /\ y.limit = MaxIdentical - 1 /\ y.within = <<>>
                    /\ y.over = Emit("note") \o (IF n >= 2 THEN Raise("tripped") ELSE <<>>)}

\* To run what was recorded; before that, to compare its counter; to store
\* it; to compare the total; to store that.
Executing(x) == Lead(Passing, RunOf(x), Clear)
Limiting(n, x) == Lead(Passing, LimitSame(n, x), Executing(x) \union Clear)
Repeating(n, x) == Lead(Passing, StoreOne(x), Limiting(n, x))
Totalling(n, x) == Lead(Passing, LimitAll, Repeating(n, x))
Recording(n, x) == Lead(Passing, StoreOne(Total), Totalling(n, x))
Refused == Lead(NoteParts, Raises, Seq(Stmt))

\* A call in the total; one that the ceiling has let pass; and likewise for
\* what is the same call.
Booked(n, s) ==
    \E x \in Recorded : s \in Totalling(n, x) \/ s \in Repeating(n, x) \/ s \in Limiting(n, x)
                            \/ s \in Executing(x)
Admitted(n, s) ==
    /\ s \notin Refused
    /\ \E x \in Recorded : s \in Repeating(n, x) \/ s \in Limiting(n, x) \/ s \in Executing(x)
BookedAs(n, x, s) == s \in Limiting(n, x) \/ s \in Executing(x)
AdmittedAs(x, s) == s \in Executing(x) /\ s \notin Refused

\* Every call is on the way through one of these, or has nothing to do there.
Placed(n, s) ==
    \/ s \in Clear
    \/ \E x \in Recorded : \/ s \in Recording(n, x) \/ s \in Totalling(n, x) \/ s \in Repeating(n, x)
                           \/ s \in Limiting(n, x) \/ s \in Executing(x)

\* What they do, and to which counter.
LEMMA StoreIs ==
  ASSUME NEW c
  PROVE  \A y \in StoreOne(c) : y.op = "store" /\ y.of = c /\ y.by = 1 /\ y.floor = FALSE
  BY DEF StoreOne

LEMMA RunIs ==
  ASSUME NEW c
  PROVE  \A y \in RunOf(c) : y.op = "run" /\ y.of = c
  BY DEF RunOf

LEMMA LimitAllIs == \A y \in LimitAll : y.op = "compare" /\ y.of = Total
  <1>1. \A y \in LimitAll : y \in Branch /\ y.of = Total
    BY Zenon DEF LimitAll
  <1>2. \A y \in Branch : y.op = "compare"
    BY DEF Branch
  <1> QED
    BY <1>1, <1>2, Zenon

LEMMA LimitSameIs ==
  ASSUME NEW c, NEW n
  PROVE  \A y \in LimitSame(n, c) : y.op = "compare" /\ y.of = c
  <1>1. \A y \in LimitSame(n, c) : y \in Branch /\ y.of = c
    BY Zenon DEF LimitSame
  <1>2. \A y \in Branch : y.op = "compare"
    BY DEF Branch
  <1> QED
    BY <1>1, <1>2, Zenon

LEMMA MarksAre ==
  ASSUME EngineAssumption, NEW x \in Recorded, NEW n
  PROVE  /\ Total \in Counters /\ x \in Counters /\ Total \notin Recorded /\ x # Total
         /\ x \in Counted /\ Total \in Counted
         /\ StoreOne(Total) \subseteq Plain /\ StoreOne(x) \subseteq Plain /\ RunOf(x) \subseteq Plain
         /\ LimitAll \subseteq Branch /\ LimitSame(n, x) \subseteq Branch
         /\ \A y \in StoreOne(Total) : y.op = "store" /\ y.of = Total /\ y.by = 1 /\ y.floor = FALSE
         /\ \A y \in StoreOne(x) : y.op = "store" /\ y.of = x /\ y.by = 1 /\ y.floor = FALSE
         /\ \A y \in RunOf(x) : y.op = "run" /\ y.of = x
         /\ \A y \in LimitAll : y.op = "compare" /\ y.of = Total
         /\ \A y \in LimitSame(n, x) : y.op = "compare" /\ y.of = x
  <1>1. Total \in Counters
    BY DEF EngineAssumption, Total
  <1>2. x \in Counters /\ Total \notin Recorded /\ x # Total
    <2>1. \A c \in Recorded : c \in Counters /\ c[1] \in {"same node", "same input", "same task", "same agent"}
      BY Zenon DEF Recorded
    <2>2. \A c \in {"same node", "same input", "same task", "same agent"} : c # "total"
      BY Zenon
    <2>3. Total[1] = "total"
      BY DEF Total
    <2>4. \A c \in Recorded : c # Total
      BY <2>1, <2>2, <2>3, Zenon
    <2> QED
      BY <2>1, <2>4, Zenon
  <1>3. x \in Counted /\ Total \in Counted
    BY DEF Counted
  <1>7. ASSUME NEW c \in Counters PROVE StoreOne(c) \subseteq Plain /\ RunOf(c) \subseteq Plain
    <2>1. 1 \in Int /\ FALSE \in BOOLEAN
      OBVIOUS
    <2> QED
      BY <1>7, <2>1 DEF StoreOne, RunOf, Plain
  <1>8. LimitAll \subseteq Branch /\ LimitSame(n, x) \subseteq Branch
    BY DEF LimitAll, LimitSame
  <1>9. /\ \A y \in StoreOne(Total) : y.op = "store" /\ y.of = Total /\ y.by = 1 /\ y.floor = FALSE
        /\ \A y \in StoreOne(x) : y.op = "store" /\ y.of = x /\ y.by = 1 /\ y.floor = FALSE
        /\ \A y \in RunOf(x) : y.op = "run" /\ y.of = x
        /\ \A y \in LimitAll : y.op = "compare" /\ y.of = Total
        /\ \A y \in LimitSame(n, x) : y.op = "compare" /\ y.of = x
    BY StoreIs, RunIs, LimitAllIs, LimitSameIs
  <1> QED
    BY <1>1, <1>2, <1>3, <1>7, <1>8, <1>9, Zenon

\* They are what the rest passes by.
LEMMA MarksTouch ==
  ASSUME EngineAssumption, NEW x \in Recorded, NEW n
  PROVE  /\ \A y \in StoreOne(Total) : Touches(y, Counted)
         /\ \A y \in StoreOne(x) : Touches(y, Counted)
         /\ \A y \in RunOf(x) : Touches(y, Counted)
         /\ \A y \in LimitAll : Touches(y, Counted)
         /\ \A y \in LimitSame(n, x) : Touches(y, Counted)
  <1>1. /\ x \in Counted /\ Total \in Counted
        /\ \A y \in StoreOne(Total) : y.op = "store" /\ y.of = Total
        /\ \A y \in StoreOne(x) : y.op = "store" /\ y.of = x
        /\ \A y \in RunOf(x) : y.op = "run" /\ y.of = x
        /\ \A y \in LimitAll : y.op = "compare" /\ y.of = Total
        /\ \A y \in LimitSame(n, x) : y.op = "compare" /\ y.of = x
    <2>1. x \in Counted /\ Total \in Counted
      BY DEF Counted
    <2> QED
      BY <2>1, StoreIs, RunIs, LimitAllIs, LimitSameIs
  <1>2. ASSUME NEW y, y.op \in {"store", "compare", "run"}, y.of = Total \/ y.of = x
        PROVE  Touches(y, Counted)
    BY <1>1, <1>2 DEF Touches
  <1> QED
    BY <1>1, <1>2

LEMMA ClearNowhere ==
  ASSUME NEW s \in Clear, NEW Q, NEW Y, NEW T, s \in Lead(Q, Y, T), \A y \in Y : Touches(y, Counted)
  PROVE  FALSE
  BY LeadSome DEF Clear, Aside, Apart

\* Where a call is in one of them, it is in no other.
LEMMA PlacesDiffer ==
  ASSUME EngineAssumption, NEW x \in Recorded, NEW y \in Recorded, NEW n, NEW s
  PROVE  /\ s \in Recording(n, x) => /\ s \notin Totalling(n, y) /\ s \notin Repeating(n, y)
                                     /\ s \notin Limiting(n, y) /\ s \notin Executing(y)
         /\ s \in Totalling(n, x) => /\ s \notin Repeating(n, y)
                                     /\ s \notin Limiting(n, y) /\ s \notin Executing(y)
         /\ s \in Repeating(n, x) => s \notin Limiting(n, y) /\ s \notin Executing(y)
         /\ s \in Limiting(n, x) => s \notin Executing(y) /\ (s \in Limiting(n, y) => x = y)
         /\ s \in Executing(x) => s \notin Limiting(n, y) /\ (s \in Executing(y) => x = y)
         /\ s \in Clear => /\ s \notin Recording(n, y) /\ s \notin Totalling(n, y)
                           /\ s \notin Repeating(n, y) /\ s \notin Limiting(n, y)
                           /\ s \notin Executing(y)
  <1> DEFINE Next(Y) == \E T : s \in Lead(Passing, Y, T)
  <1>1. ASSUME NEW Y, NEW Z, Next(Y), Next(Z), \A m \in Y : Touches(m, Counted),
               \A m \in Z : Touches(m, Counted)
        PROVE  \E m \in Y : m \in Z
    <2>1. Y \intersect Passing = {} /\ Z \intersect Passing = {}
      BY <1>1 DEF Passing, Still, Apart
    <2>2. Y \intersect Z # {}
      BY <1>1, <2>1, LeadOnce
    <2> QED
      BY <2>2
  <1> HIDE DEF Next
  <1>3. /\ \A m \in StoreOne(Total) : Touches(m, Counted) /\ m.op = "store" /\ m.of = Total
        /\ \A m \in LimitAll : Touches(m, Counted) /\ m.op = "compare" /\ m.of = Total
    BY MarksTouch, MarksAre
  <1>4. ASSUME NEW z \in Recorded
        PROVE  /\ z # Total
               /\ \A m \in StoreOne(z) : Touches(m, Counted) /\ m.op = "store" /\ m.of = z
               /\ \A m \in RunOf(z) : Touches(m, Counted) /\ m.op = "run" /\ m.of = z
               /\ \A m \in LimitSame(n, z) : Touches(m, Counted) /\ m.op = "compare" /\ m.of = z
    <2>1. /\ z # Total
          /\ \A m \in StoreOne(z) : m.op = "store" /\ m.of = z
          /\ \A m \in RunOf(z) : m.op = "run" /\ m.of = z
          /\ \A m \in LimitSame(n, z) : m.op = "compare" /\ m.of = z
      <3>1. z # Total
        BY MarksAre
      <3> QED
        BY <3>1, StoreIs, RunIs, LimitSameIs
    <2>2. /\ \A m \in StoreOne(z) : Touches(m, Counted)
          /\ \A m \in RunOf(z) : Touches(m, Counted)
          /\ \A m \in LimitSame(n, z) : Touches(m, Counted)
      BY MarksTouch
    <2> QED
      BY <2>1, <2>2
  <1>12. \A u, v \in Recorded :
          /\ ~(Next(StoreOne(Total)) /\ Next(LimitAll))
          /\ ~(Next(StoreOne(Total)) /\ Next(StoreOne(v)))
          /\ ~(Next(StoreOne(Total)) /\ Next(LimitSame(n, v)))
          /\ ~(Next(StoreOne(Total)) /\ Next(RunOf(v)))
          /\ ~(Next(LimitAll) /\ Next(StoreOne(v)))
          /\ ~(Next(LimitAll) /\ Next(LimitSame(n, v)))
          /\ ~(Next(LimitAll) /\ Next(RunOf(v)))
          /\ ~(Next(StoreOne(u)) /\ Next(LimitSame(n, v)))
          /\ ~(Next(StoreOne(u)) /\ Next(RunOf(v)))
          /\ ~(Next(LimitSame(n, u)) /\ Next(RunOf(v)))
          /\ Next(LimitSame(n, u)) /\ Next(LimitSame(n, v)) => u = v
          /\ Next(RunOf(u)) /\ Next(RunOf(v)) => u = v
    <2> TAKE u, v \in Recorded
    <2>0. /\ u # Total /\ v # Total
          /\ \A m \in StoreOne(u) : Touches(m, Counted) /\ m.op = "store" /\ m.of = u
          /\ \A m \in RunOf(u) : Touches(m, Counted) /\ m.op = "run" /\ m.of = u
          /\ \A m \in LimitSame(n, u) : Touches(m, Counted) /\ m.op = "compare" /\ m.of = u
          /\ \A m \in StoreOne(v) : Touches(m, Counted) /\ m.op = "store" /\ m.of = v
          /\ \A m \in RunOf(v) : Touches(m, Counted) /\ m.op = "run" /\ m.of = v
          /\ \A m \in LimitSame(n, v) : Touches(m, Counted) /\ m.op = "compare" /\ m.of = v
      BY <1>4
    <2>1. ~(Next(StoreOne(Total)) /\ Next(LimitAll))
      BY <1>1, <1>3, <2>0
    <2>2. ~(Next(StoreOne(Total)) /\ Next(StoreOne(v)))
      BY <1>1, <1>3, <2>0
    <2>3. ~(Next(StoreOne(Total)) /\ Next(LimitSame(n, v)))
      BY <1>1, <1>3, <2>0
    <2>4. ~(Next(StoreOne(Total)) /\ Next(RunOf(v)))
      BY <1>1, <1>3, <2>0
    <2>5. ~(Next(LimitAll) /\ Next(StoreOne(v)))
      BY <1>1, <1>3, <2>0
    <2>6. ~(Next(LimitAll) /\ Next(LimitSame(n, v)))
      BY <1>1, <1>3, <2>0
    <2>7. ~(Next(LimitAll) /\ Next(RunOf(v)))
      BY <1>1, <1>3, <2>0
    <2>8. ~(Next(StoreOne(u)) /\ Next(LimitSame(n, v)))
      BY <1>1, <1>3, <2>0
    <2>9. ~(Next(StoreOne(u)) /\ Next(RunOf(v)))
      BY <1>1, <1>3, <2>0
    <2>10. ~(Next(LimitSame(n, u)) /\ Next(RunOf(v)))
      BY <1>1, <1>3, <2>0
    <2>11. Next(LimitSame(n, u)) /\ Next(LimitSame(n, v)) => u = v
      BY <1>1, <1>3, <2>0
    <2>12. Next(RunOf(u)) /\ Next(RunOf(v)) => u = v
      BY <1>1, <1>3, <2>0
    <2> QED
      BY <2>1, <2>2, <2>3, <2>4, <2>5, <2>6, <2>7, <2>8, <2>9, <2>10, <2>11, <2>12
  <1>10. ASSUME NEW z \in Recorded, s \in Clear
         PROVE /\ s \notin Recording(n, z) /\ s \notin Totalling(n, z)
               /\ s \notin Repeating(n, z) /\ s \notin Limiting(n, z)
               /\ s \notin Executing(z)
    <2>1. ASSUME NEW Y, Next(Y), \A m \in Y : Touches(m, Counted) PROVE FALSE
      BY <1>10, <2>1, ClearNowhere DEF Next
    <2>2. ~Next(StoreOne(Total)) /\ ~Next(LimitAll)
      BY <1>3, <2>1
    <2>3. ~Next(StoreOne(z)) /\ ~Next(RunOf(z)) /\ ~Next(LimitSame(n, z))
      BY <1>4, <2>1
    <2>4. /\ s \in Recording(n, z) => Next(StoreOne(Total))
          /\ s \in Totalling(n, z) => Next(LimitAll)
          /\ s \in Repeating(n, z) => Next(StoreOne(z))
          /\ s \in Limiting(n, z) => Next(LimitSame(n, z))
          /\ s \in Executing(z) => Next(RunOf(z))
      BY DEF Next, Recording, Totalling, Repeating, Limiting, Executing
    <2> QED
      BY <2>2, <2>3, <2>4
  <1>13. /\ s \in Recording(n, x) => Next(StoreOne(Total))
         /\ s \in Totalling(n, x) => Next(LimitAll)
         /\ s \in Repeating(n, x) => Next(StoreOne(x))
         /\ s \in Limiting(n, x) => Next(LimitSame(n, x))
         /\ s \in Executing(x) => Next(RunOf(x))
    BY DEF Next, Recording, Totalling, Repeating, Limiting, Executing
  <1>14. /\ s \in Recording(n, y) => Next(StoreOne(Total))
         /\ s \in Totalling(n, y) => Next(LimitAll)
         /\ s \in Repeating(n, y) => Next(StoreOne(y))
         /\ s \in Limiting(n, y) => Next(LimitSame(n, y))
         /\ s \in Executing(y) => Next(RunOf(y))
    BY DEF Next, Recording, Totalling, Repeating, Limiting, Executing
  <1>15. ASSUME NEW u \in Recorded, NEW v \in Recorded
         PROVE  /\ ~(Next(StoreOne(Total)) /\ Next(LimitAll))
                /\ ~(Next(StoreOne(Total)) /\ Next(StoreOne(v)))
                /\ ~(Next(StoreOne(Total)) /\ Next(LimitSame(n, v)))
                /\ ~(Next(StoreOne(Total)) /\ Next(RunOf(v)))
                /\ ~(Next(LimitAll) /\ Next(StoreOne(v)))
                /\ ~(Next(LimitAll) /\ Next(LimitSame(n, v)))
                /\ ~(Next(LimitAll) /\ Next(RunOf(v)))
                /\ ~(Next(StoreOne(u)) /\ Next(LimitSame(n, v)))
                /\ ~(Next(StoreOne(u)) /\ Next(RunOf(v)))
                /\ ~(Next(LimitSame(n, u)) /\ Next(RunOf(v)))
                /\ Next(LimitSame(n, u)) /\ Next(LimitSame(n, v)) => u = v
                /\ Next(RunOf(u)) /\ Next(RunOf(v)) => u = v
    BY <1>12
  <1>16. ~(Next(RunOf(x)) /\ Next(LimitSame(n, y)))
    BY <1>15
  <1>17. s \in Clear => /\ s \notin Recording(n, y) /\ s \notin Totalling(n, y)
                         /\ s \notin Repeating(n, y) /\ s \notin Limiting(n, y)
                         /\ s \notin Executing(y)
    BY <1>10
  <1> QED
    BY <1>13, <1>14, <1>15, <1>16, <1>17

LEMMA Places ==
  ASSUME EngineAssumption, NEW n, NEW s, NEW x \in Recorded
  PROVE  /\ s \in Clear => /\ ~Booked(n, s) /\ ~Admitted(n, s)
                           /\ \A y \in Recorded : ~BookedAs(n, y, s) /\ ~AdmittedAs(y, s)
         /\ s \in Recording(n, x) => /\ ~Booked(n, s) /\ ~Admitted(n, s)
                           /\ \A y \in Recorded : ~BookedAs(n, y, s) /\ ~AdmittedAs(y, s)
         /\ s \in Totalling(n, x) => /\ Booked(n, s) /\ ~Admitted(n, s)
                           /\ \A y \in Recorded : ~BookedAs(n, y, s) /\ ~AdmittedAs(y, s)
         /\ s \in Repeating(n, x) => /\ Booked(n, s) /\ (Admitted(n, s) <=> s \notin Refused)
                           /\ \A y \in Recorded : ~BookedAs(n, y, s) /\ ~AdmittedAs(y, s)
         /\ s \in Limiting(n, x) => /\ Booked(n, s) /\ (Admitted(n, s) <=> s \notin Refused)
                           /\ \A y \in Recorded : (BookedAs(n, y, s) <=> y = x) /\ ~AdmittedAs(y, s)
         /\ s \in Executing(x) => /\ Booked(n, s) /\ (Admitted(n, s) <=> s \notin Refused)
                           /\ \A y \in Recorded : /\ BookedAs(n, y, s) <=> y = x
                                                  /\ AdmittedAs(y, s) <=> (y = x /\ s \notin Refused)
  <1>1. \A u, v \in Recorded :
         /\ s \in Recording(n, u) => /\ s \notin Totalling(n, v) /\ s \notin Repeating(n, v)
                                     /\ s \notin Limiting(n, v) /\ s \notin Executing(v)
         /\ s \in Totalling(n, u) => /\ s \notin Repeating(n, v)
                                     /\ s \notin Limiting(n, v) /\ s \notin Executing(v)
         /\ s \in Repeating(n, u) => s \notin Limiting(n, v) /\ s \notin Executing(v)
         /\ s \in Limiting(n, u) => s \notin Executing(v) /\ (s \in Limiting(n, v) => u = v)
         /\ s \in Executing(u) => s \notin Limiting(n, v) /\ (s \in Executing(v) => u = v)
         /\ s \in Clear => /\ s \notin Recording(n, v) /\ s \notin Totalling(n, v)
                           /\ s \notin Repeating(n, v) /\ s \notin Limiting(n, v)
                           /\ s \notin Executing(v)
    BY PlacesDiffer
  <1> QED
    BY <1>1 DEF Booked, Admitted, BookedAs, AdmittedAs

\* Which action a statement is, and what it leaves alone.
LEMMA ByOp ==
  ASSUME NEW t, Statement(t), ~GoInto(t)
  PROVE  /\ Busy(t) /\ tier' = tier /\ call' = call
         /\ Current(t).op = "store" => StoreCount(t)
         /\ Current(t).op = "compare" => CompareCount(t)
         /\ Current(t).op = "raise" => RaiseException(t)
         /\ Current(t).op = "run" => RunWrapped(t)
         /\ Current(t).op = "assign" => AssignCount(t)
         /\ Current(t).op = "admit" => AdmitOne(t)
         /\ Current(t).op = "verdict" => GiveVerdict(t)
         /\ Current(t).op \notin {"store", "assign"} => count' = count /\ lost' = lost
         /\ Current(t).op \notin {"run", "assign", "admit"} => ran' = ran
         /\ Current(t).op = "hash" => HashEvent(t)
         /\ Current(t).op # "hash" => found' = found
  <1> DEFINE op == Current(t).op
             Frame == /\ Busy(t) /\ tier' = tier /\ call' = call
                      /\ op \notin {"store", "assign"} => count' = count /\ lost' = lost
                      /\ op \notin {"run", "assign", "admit"} => ran' = ran
                      /\ op # "hash" => found' = found
  <1>1. CASE HashEvent(t)
    <2>1. op = "hash" /\ Frame
      BY <1>1 DEF HashEvent, At, counting
    <2> QED
      BY <1>1, <2>1
  <1>2. CASE LinkEvent(t) \/ WriteLine(t) \/ WriteFails(t) \/ FindViolation(t)
    <2>1. op \in {"link", "write", "find"} /\ Frame
      BY <1>2 DEF LinkEvent, WriteLine, WriteFails, FindViolation, At, counting
    <2> QED
      BY <2>1
  <1>3. CASE ReadScore(t) \/ StoreScore(t) \/ ReadCount(t) \/ NoteFrequency(t)
    <2>1. op \in {"readScore", "storeScore", "read", "frequency"} /\ Frame
      BY <1>3 DEF ReadScore, StoreScore, ReadCount, NoteFrequency, At, counting
    <2> QED
      BY <2>1
  <1>4. CASE TakeSnapshot(t)
    <2>1. op = "snapshot" /\ Frame
      BY <1>4 DEF TakeSnapshot, At
    <2> QED
      BY <2>1
  <1>5. CASE StoreCount(t)
    <2>1. op = "store" /\ Frame
      BY <1>5 DEF StoreCount, At
    <2> QED
      BY <1>5, <2>1
  <1>6. CASE CompareCount(t)
    <2>1. op = "compare" /\ Frame
      BY <1>6 DEF CompareCount, At, counting
    <2> QED
      BY <1>6, <2>1
  <1>7. CASE RaiseException(t)
    <2>1. op = "raise" /\ Frame
      BY <1>7 DEF RaiseException, At, counting
    <2> QED
      BY <1>7, <2>1
  <1>8. CASE RunWrapped(t)
    <2>1. op = "run" /\ Frame
      BY <1>8 DEF RunWrapped, At
    <2> QED
      BY <1>8, <2>1
  <1>9. CASE AssignCount(t)
    <2>1. op = "assign" /\ Frame
      BY <1>9 DEF AssignCount, At
    <2> QED
      BY <1>9, <2>1
  <1>10. CASE AdmitOne(t)
    <2>1. op = "admit" /\ Frame
      BY <1>10 DEF AdmitOne, At
    <2> QED
      BY <1>10, <2>1
  <1>11. CASE GiveVerdict(t)
    <2>1. op = "verdict" /\ Frame
      BY <1>11 DEF GiveVerdict, At, counting
    <2> QED
      BY <1>11, <2>1
  <1> QED
    BY <1>1, <1>2, <1>3, <1>4, <1>5, <1>6, <1>7, <1>8, <1>9, <1>10, <1>11 DEF Statement

LEMMA CountersStay ==
  ASSUME EngineTypes, NEW t \in Threads, Statement(t), ~GoInto(t), NEW D, D \subseteq Counters,
         ~Touches(Current(t), D)
  PROVE  \A c \in D : count'[c] = count[c] /\ lost'[c] = lost[c] /\ ran'[c] = ran[c]
  <1> DEFINE x == Current(t)
             Same == \A c \in D : count'[c] = count[c] /\ lost'[c] = lost[c] /\ ran'[c] = ran[c]
  <1>1. /\ count \in [Counters -> Int] /\ lost \in [Counters -> Nat] /\ ran \in [Counters -> Nat]
    BY DEF EngineTypes, CountTypes
  <1>2. x.op \in {"store", "assign", "run", "admit"} => x.of \notin D
    BY DEF Touches
  <1>3. CASE x.op = "store"
    <2>1. StoreCount(t) /\ ran' = ran
      BY <1>3, ByOp
    <2>2. /\ count' = [count EXCEPT ![x.of] = IF x.floor THEN AtLeast(0, held[t] + x.by)
                                              ELSE held[t] + x.by]
          /\ lost' = [lost EXCEPT ![x.of] = @ + Distance(count[x.of], held[t])]
      BY <2>1 DEF StoreCount
    <2> QED
      BY <1>1, <1>2, <1>3, <2>1, <2>2
  <1>4. CASE x.op = "assign"
    <2>1. AssignCount(t)
      BY <1>4, ByOp
    <2>2. /\ count' = [count EXCEPT ![x.of] = x.value]
          /\ ran' = [ran EXCEPT ![x.of] = IF x.value = 0 THEN 0 ELSE @]
          /\ lost' = [lost EXCEPT ![x.of] = 0]
      BY <2>1 DEF AssignCount
    <2> QED
      BY <1>1, <1>2, <1>4, <2>2
  <1>5. CASE x.op \in {"run", "admit"}
    <2>1. count' = count /\ lost' = lost
      BY <1>5, ByOp
    <2>2. ran' = [ran EXCEPT ![x.of] = @ + 1]
      BY <1>5, ByOp DEF RunWrapped, AdmitOne
    <2> QED
      BY <1>1, <1>2, <1>5, <2>1, <2>2
  <1>6. CASE x.op \notin {"store", "assign", "run", "admit"}
    <2>1. count' = count /\ lost' = lost /\ ran' = ran
      BY <1>6, ByOp
    <2> QED
      BY <2>1
  <1> QED
    BY <1>3, <1>4, <1>5, <1>6

\* A call that is refused neither counts nor runs any more.
LEMMA RefusedHead ==
  ASSUME NEW s \in Refused, s \in Remainder
  PROVE  s[1].op \in {"hash", "link", "write", "raise"}
  <1>1. s[1] \in Raises \/ s[1] \in NoteParts
    BY LeadHead DEF Refused
  <1> QED
    BY <1>1 DEF Raises, NoteParts

LEMMA RefusalIs ==
  ASSUME NEW r \in Seq(Stmt)
  PROVE  (Emit("note") \o Raise("tripped")) \o r \in Refused
  <1> DEFINE x == [op |-> "raise", kind |-> "tripped"]
  <1>1. x \in Raises /\ x \in Plain /\ x.op = "raise"
    BY DEF Raises, Plain
  <1>2. x \in Stmt
    BY <1>1 DEF Stmt
  <1>3. Raise("tripped") = <<x>>
    BY DEF Raise
  <1> HIDE DEF x
  <1>4. <<x>> \o r \in Refused
    BY <1>1, <1>2, LeadAt DEF Refused
  <1>5. Emit("note") \in Seq(Stmt) /\ \A i \in 1 .. Len(Emit("note")) : Emit("note")[i] \in NoteParts
    BY NoteIs DEF Noting
  <1>6. Emit("note") \o (<<x>> \o r) \in Refused
    BY <1>4, <1>5, LeadOn DEF Refused
  <1>7. <<x>> \in Seq(Stmt)
    BY <1>2
  <1>8. (Emit("note") \o <<x>>) \o r = Emit("note") \o (<<x>> \o r)
    BY <1>5, <1>7, ConcatAssociative
  <1> QED
    BY <1>3, <1>6, <1>8

LEMMA NotesClosed ==
  /\ Closed(NoteParts) /\ NoteParts \subseteq Plain \union Branch /\ Raises \subseteq Plain \union Branch
  <1>1. \A x \in NoteParts : x \in Plain /\ x.op # "compare"
    BY DEF NoteParts
  <1>2. Only(Emit("note"), NoteParts)
    BY NoteIs DEF Noting, Only
  <1> QED
    BY <1>1, <1>2 DEF Closed, Raises

LEMMA RefusedMoves ==
  ASSUME EngineTypes, NEW t \in Threads, Statement(t), ~GoInto(t), todo[t] \in Refused,
         NEW D, Safe(todo[t], D)
  PROVE  /\ Current(t).op \in {"hash", "link", "write", "raise"}
         /\ todo'[t] \in Refused \/ Aside(todo'[t], D)
  <1>1. todo[t] \in Remainder /\ Current(t) = todo[t][1] /\ Current(t) \in Stmt
    BY Motions
  <1>2. Current(t).op \in {"hash", "link", "write", "raise"}
    BY <1>1, RefusedHead
  <1>3. \/ Current(t) \in Raises
        \/ todo'[t] \in Refused
        \/ Aside(todo'[t], D)
    <2>1. todo[t] \in Lead(NoteParts, Raises, Seq(Stmt))
      BY DEF Refused
    <2>2. \/ Current(t) \in Raises /\ Rest(t) \in Seq(Stmt)
          \/ Current(t) \in NoteParts /\ todo'[t] \in Lead(NoteParts, Raises, Seq(Stmt))
          \/ Current(t) \in NoteParts /\ Aside(todo'[t], D)
      BY <2>1, NotesClosed, LeadMoves
    <2> QED
      BY <2>2 DEF Refused
  <1>4. CASE Current(t) \in Raises
    <2>1. RaiseException(t) /\ Current(t).op = "raise" /\ Busy(t)
      BY <1>4, ByOp DEF Raises
    <2>2. todo \in [Threads -> Remainder] /\ CutsNothing(todo[t], 1)
      BY <1>1, <2>1, HandlersCut DEF EngineTypes, TodoTypes
    <2>3. Escapes(t, Current(t).kind) \/ \E i \in Nat : Caught(t, i)
      BY <2>1, <2>2, ThrowMoves DEF RaiseException
    <2>4. CASE Escapes(t, Current(t).kind)
      BY <1>2, <2>4 DEF Escapes, Aside
    <2>5. ASSUME NEW i \in Nat, Caught(t, i) PROVE Aside(todo'[t], D)
      BY <2>1, <2>5, CaughtAside
    <2> QED
      BY <1>2, <2>3, <2>4, <2>5
  <1> QED
    BY <1>2, <1>3, <1>4

\* A program that comes after is in the bounds of the one before.
Eases(n, s, d) ==
    /\ Booked(n, d) => Booked(n, s)
    /\ Admitted(n, d) => Admitted(n, s)
    /\ \A x \in Recorded : /\ BookedAs(n, x, d) => BookedAs(n, x, s)
                           /\ AdmittedAs(x, d) => AdmittedAs(x, s)

\* What a statement can do to the books of the ceilings.
Passes(n, t) ==
    ~Touches(Current(t), Counted) /\ Eases(n, todo[t], todo'[t])
Totals(n, t) ==
    /\ StoreCount(t) /\ Current(t) \in StoreOne(Total)
    /\ ~Admitted(n, todo'[t])
    /\ \A y \in Recorded : ~BookedAs(n, y, todo'[t]) /\ ~AdmittedAs(y, todo'[t])
Ceils(n, t) ==
    /\ CompareCount(t) /\ Current(t) \in LimitAll
    /\ Booked(n, todo[t])
    /\ Admitted(n, todo'[t]) => ~(count[Total] > MaxToolCalls)
    /\ \A y \in Recorded : ~BookedAs(n, y, todo'[t]) /\ ~AdmittedAs(y, todo'[t])
Repeats(n, t, x) ==
    /\ StoreCount(t) /\ Current(t) \in StoreOne(x)
    /\ Booked(n, todo[t])
    /\ Admitted(n, todo'[t]) => Admitted(n, todo[t])
    /\ \A y \in Recorded : (BookedAs(n, y, todo'[t]) => y = x) /\ ~AdmittedAs(y, todo'[t])
Limits(n, t, x) ==
    /\ CompareCount(t) /\ Current(t) \in LimitSame(n, x)
    /\ Booked(n, todo[t])
    /\ Admitted(n, todo'[t]) => Admitted(n, todo[t])
    /\ BookedAs(n, x, todo[t])
    /\ n >= 2 /\ AdmittedAs(x, todo'[t]) => ~(count[x] > MaxIdentical - 1)
    /\ \A y \in Recorded : (BookedAs(n, y, todo'[t]) \/ AdmittedAs(y, todo'[t])) => y = x
Runs(n, t, x) ==
    /\ RunWrapped(t) /\ Current(t) \in RunOf(x)
    /\ Booked(n, todo[t]) /\ Admitted(n, todo[t]) /\ BookedAs(n, x, todo[t]) /\ AdmittedAs(x, todo[t])
    /\ ~Booked(n, todo'[t]) /\ ~Admitted(n, todo'[t])
    /\ \A y \in Recorded : ~BookedAs(n, y, todo'[t]) /\ ~AdmittedAs(y, todo'[t])

LEMMA ParsePlace ==
  ASSUME EngineAssumption, NEW n, NEW s, Placed(n, s)
  PROVE  Safe(s, Counted) /\ s \in Seq(Stmt)
  <1>1. Closed(Passing) /\ Passing \subseteq Plain \union Branch
    BY StillClosed DEF Passing, Still
  <1>2. \A d \in Clear : Safe(d, Counted) /\ d \in Seq(Stmt)
    BY AsideSafe DEF Clear
  <1>3. ASSUME NEW x \in Recorded
        PROVE  /\ \A d \in Executing(x) : Safe(d, Counted)
               /\ \A d \in Limiting(n, x) : Safe(d, Counted)
               /\ \A d \in Repeating(n, x) : Safe(d, Counted)
               /\ \A d \in Totalling(n, x) : Safe(d, Counted)
               /\ \A d \in Recording(n, x) : Safe(d, Counted)
    <2>0. /\ StoreOne(Total) \subseteq Plain \union Branch /\ StoreOne(x) \subseteq Plain \union Branch
          /\ RunOf(x) \subseteq Plain \union Branch /\ LimitAll \subseteq Plain \union Branch
          /\ LimitSame(n, x) \subseteq Plain \union Branch
      BY MarksAre
    <2>1. \A d \in Executing(x) : Safe(d, Counted)
      BY <1>1, <1>2, <2>0, LeadSafe DEF Executing
    <2>2. \A d \in Executing(x) \union Clear : Safe(d, Counted)
      BY <1>2, <2>1
    <2>3. \A d \in Limiting(n, x) : Safe(d, Counted)
      BY <1>1, <2>0, <2>2, LeadSafe DEF Limiting
    <2>4. \A d \in Repeating(n, x) : Safe(d, Counted)
      BY <1>1, <2>0, <2>3, LeadSafe DEF Repeating
    <2>5. \A d \in Totalling(n, x) : Safe(d, Counted)
      BY <1>1, <2>0, <2>4, LeadSafe DEF Totalling
    <2>6. \A d \in Recording(n, x) : Safe(d, Counted)
      BY <1>1, <2>0, <2>5, LeadSafe DEF Recording
    <2> QED
      BY <2>1, <2>3, <2>4, <2>5, <2>6
  <1>4. ASSUME NEW x \in Recorded
        PROVE  /\ Executing(x) \subseteq Seq(Stmt) /\ Limiting(n, x) \subseteq Seq(Stmt)
               /\ Repeating(n, x) \subseteq Seq(Stmt) /\ Totalling(n, x) \subseteq Seq(Stmt)
               /\ Recording(n, x) \subseteq Seq(Stmt)
    BY DEF Executing, Limiting, Repeating, Totalling, Recording, Lead
  <1> QED
    BY <1>2, <1>3, <1>4 DEF Placed

\* Two ways on: past a statement of no account, and over a mark.
LEMMA PlaceMoves ==
  ASSUME EngineAssumption, EngineTypes, EngineTypes', NEW t \in Threads, Statement(t), ~GoInto(t),
         NEW n, Placed(n, todo[t]), NEW Y, Y \subseteq Plain \union Branch,
         \A y \in Y : Touches(y, Counted), NEW T, todo[t] \in Lead(Passing, Y, T)
  PROVE  \/ Current(t) \in Y /\ Rest(t) \in T
         \/ ~Touches(Current(t), Counted) /\ todo'[t] \in Lead(Passing, Y, T)
         \/ ~Touches(Current(t), Counted) /\ todo'[t] \in Clear
  <1>1. Closed(Passing) /\ Safe(todo[t], Counted)
    BY StillClosed, ParsePlace DEF Passing
  <1>2. \A q \in Passing : ~Touches(q, Counted)
    BY DEF Passing, Still, Apart
  <1>3. todo'[t] \in Seq(Stmt)
    BY DEF EngineTypes, TodoTypes, Remainder
  <1>4. \/ Current(t) \in Y /\ Rest(t) \in T
        \/ Current(t) \in Passing /\ todo'[t] \in Lead(Passing, Y, T)
        \/ Current(t) \in Passing /\ Aside(todo'[t], Counted)
    BY <1>1, LeadMoves
  <1> QED
    BY <1>2, <1>3, <1>4 DEF Clear

\* A statement of no account leaves a call where it is, or nowhere.
LEMMA StayPlaced ==
  ASSUME EngineAssumption, EngineTypes, EngineTypes', NEW t \in Threads, Statement(t), ~GoInto(t),
         NEW n, Placed(n, todo[t]), ~Touches(Current(t), Counted),
         \/ todo'[t] \in Clear
         \/ \E x \in Recorded :
                \/ todo[t] \in Recording(n, x) /\ todo'[t] \in Recording(n, x)
                \/ todo[t] \in Totalling(n, x) /\ todo'[t] \in Totalling(n, x)
                \/ todo[t] \in Repeating(n, x) /\ todo'[t] \in Repeating(n, x)
                \/ todo[t] \in Limiting(n, x) /\ todo'[t] \in Limiting(n, x)
                \/ todo[t] \in Executing(x) /\ todo'[t] \in Executing(x)
  PROVE  Placed(n, todo'[t]) /\ Passes(n, t)
  <1> DEFINE s == todo[t]
             d == todo'[t]
  <1>0. Placed(n, d)
    BY DEF Placed
  <1>1. s \in Refused => d \in Refused \/ d \in Clear
    <2>1. Safe(s, Counted) /\ d \in Seq(Stmt)
      BY ParsePlace DEF EngineTypes, TodoTypes, Remainder
    <2>2. s \in Refused => d \in Refused \/ Aside(d, Counted)
      BY <2>1, RefusedMoves
    <2> QED
      BY <2>1, <2>2 DEF Clear
  <1> HIDE DEF s, d
  <1>2. CASE d \in Clear
    <2>1. Recorded # {} => ~Booked(n, d) /\ ~Admitted(n, d)
      BY <1>2, Places
    <2>2. \A y \in Recorded : ~BookedAs(n, y, d) /\ ~AdmittedAs(y, d)
      BY <1>2, Places
    <2>3. Recorded = {} => ~Booked(n, d) /\ ~Admitted(n, d)
      BY DEF Booked, Admitted
    <2>4. Eases(n, s, d)
      BY <2>1, <2>2, <2>3 DEF Eases
    <2> QED
      BY <1>0, <2>4 DEF Passes, s, d
  <1>3. ASSUME d \notin Clear,
               NEW x \in Recorded,
               \/ s \in Recording(n, x) /\ d \in Recording(n, x)
               \/ s \in Totalling(n, x) /\ d \in Totalling(n, x)
               \/ s \in Repeating(n, x) /\ d \in Repeating(n, x)
               \/ s \in Limiting(n, x) /\ d \in Limiting(n, x)
               \/ s \in Executing(x) /\ d \in Executing(x)
        PROVE  Eases(n, s, d)
    <2>1. d \notin Refused => s \notin Refused
      BY <1>1, <1>3
    <2>2. CASE s \in Recording(n, x) /\ d \in Recording(n, x)
      BY <2>2, Places DEF Eases
    <2>3. CASE s \in Totalling(n, x) /\ d \in Totalling(n, x)
      BY <2>3, Places DEF Eases
    <2>4. CASE s \in Repeating(n, x) /\ d \in Repeating(n, x)
      BY <2>1, <2>4, Places DEF Eases
    <2>5. CASE s \in Limiting(n, x) /\ d \in Limiting(n, x)
      BY <2>1, <2>5, Places DEF Eases
    <2>6. CASE s \in Executing(x) /\ d \in Executing(x)
      BY <2>1, <2>6, Places DEF Eases
    <2> QED
      BY <1>3, <2>2, <2>3, <2>4, <2>5, <2>6
  <1>4. CASE d \notin Clear
    <2>1. Eases(n, s, d)
      BY <1>3, <1>4 DEF s, d
    <2> QED
      BY <1>0, <2>1 DEF Passes, s, d
  <1> QED
    BY <1>2, <1>4

LEMMA MarkGoes ==
  ASSUME EngineTypes, NEW t \in Threads, Statement(t), ~GoInto(t)
  PROVE  /\ Current(t).op = "store" => StoreCount(t) /\ todo'[t] = PastHandlers(Rest(t))
         /\ Current(t).op = "compare" =>
                /\ CompareCount(t)
                /\ count[Current(t).of] > Current(t).limit => Goes1(t, Current(t).over)
                /\ ~(count[Current(t).of] > Current(t).limit) => Goes1(t, Current(t).within)
  <1>1. todo \in [Threads -> Remainder] /\ Busy(t)
    BY ByOp DEF EngineTypes, TodoTypes
  <1>2. ASSUME Current(t).op = "store" PROVE StoreCount(t) /\ todo'[t] = PastHandlers(Rest(t))
    <2>1. StoreCount(t)
      BY <1>2, ByOp
    <2>2. Advances(t)
      BY <2>1 DEF StoreCount
    <2> QED
      BY <1>1, <2>1, <2>2, AdvanceMoves DEF Rest
  <1>3. ASSUME Current(t).op = "compare"
        PROVE  /\ CompareCount(t)
               /\ count[Current(t).of] > Current(t).limit => Goes1(t, Current(t).over)
               /\ ~(count[Current(t).of] > Current(t).limit) => Goes1(t, Current(t).within)
    <2>1. CompareCount(t)
      BY <1>3, ByOp
    <2>2. Goes(t, (IF count[Current(t).of] > Current(t).limit THEN Current(t).over
                   ELSE Current(t).within) \o Tail(todo[t]))
      BY <2>1 DEF CompareCount
    <2>3. ASSUME NEW b, Goes(t, b \o Tail(todo[t])) PROVE Goes1(t, b)
      BY <1>1, <2>3 DEF Goes, Goes1, Rest
    <2>4. count[Current(t).of] > Current(t).limit => Goes(t, Current(t).over \o Tail(todo[t]))
      BY <2>2
    <2>5. ~(count[Current(t).of] > Current(t).limit) => Goes(t, Current(t).within \o Tail(todo[t]))
      BY <2>2
    <2> QED
      BY <2>1, <2>3, <2>4, <2>5
  <1> QED
    BY <1>2, <1>3

\* What a mark leads to is there at once: no handler ends before it.
LEMMA MarksPast ==
  ASSUME EngineAssumption, NEW n, NEW x \in Recorded, NEW s \in Remainder
  PROVE  /\ s \in Totalling(n, x) => PastHandlers(s) = s
         /\ s \in Repeating(n, x) => PastHandlers(s) = s
         /\ s \in Limiting(n, x) => PastHandlers(s) = s
         /\ s \in Executing(x) => PastHandlers(s) = s
         /\ s \in Recording(n, x) => PastHandlers(s) = s
         /\ s \in Refused => PastHandlers(s) = s
         /\ s \in Clear => PastHandlers(s) \in Clear
  <1>1. Passing \subseteq Plain \union Branch
    BY DEF Passing, Still
  <1>2. /\ StoreOne(Total) \subseteq Plain \union Branch /\ StoreOne(x) \subseteq Plain \union Branch
        /\ RunOf(x) \subseteq Plain \union Branch /\ LimitAll \subseteq Plain \union Branch
        /\ LimitSame(n, x) \subseteq Plain \union Branch
    BY MarksAre
  <1>3. s \in Totalling(n, x) => PastHandlers(s) = s
    BY <1>1, <1>2, PastLead DEF Totalling
  <1>4. s \in Repeating(n, x) => PastHandlers(s) = s
    BY <1>1, <1>2, PastLead DEF Repeating
  <1>5. s \in Limiting(n, x) => PastHandlers(s) = s
    BY <1>1, <1>2, PastLead DEF Limiting
  <1>6. s \in Executing(x) => PastHandlers(s) = s
    BY <1>1, <1>2, PastLead DEF Executing
  <1>7. s \in Recording(n, x) => PastHandlers(s) = s
    BY <1>1, <1>2, PastLead DEF Recording
  <1>8. s \in Refused => PastHandlers(s) = s
    BY NotesClosed, PastLead DEF Refused
  <1>9. s \in Clear => PastHandlers(s) \in Clear
    <2>1. PastHandlers(s) \in Remainder
      BY PastHandlersJoined
    <2> QED
      BY <2>1, PastAside DEF Clear, Remainder
  <1> QED
    BY <1>3, <1>4, <1>5, <1>6, <1>7, <1>8, <1>9

LEMMA RecordingMoves ==
  ASSUME EngineAssumption, EngineTypes, EngineTypes', NEW t \in Threads, Statement(t), ~GoInto(t),
         NEW n, NEW x \in Recorded, todo[t] \in Recording(n, x)
  PROVE  Placed(n, todo'[t]) /\ (Passes(n, t) \/ Totals(n, t))
  <1>1. Placed(n, todo[t])
    BY DEF Placed
  <1>2. \/ Current(t) \in StoreOne(Total) /\ Rest(t) \in Totalling(n, x)
        \/ ~Touches(Current(t), Counted) /\ todo'[t] \in Recording(n, x)
        \/ ~Touches(Current(t), Counted) /\ todo'[t] \in Clear
    <2>1. StoreOne(Total) \subseteq Plain \union Branch /\ \A y \in StoreOne(Total) : Touches(y, Counted)
      BY MarksAre, MarksTouch
    <2>2. todo[t] \in Lead(Passing, StoreOne(Total), Totalling(n, x))
      BY DEF Recording
    <2>3. \/ Current(t) \in StoreOne(Total) /\ Rest(t) \in Totalling(n, x)
          \/ ~Touches(Current(t), Counted) /\ todo'[t] \in Lead(Passing, StoreOne(Total), Totalling(n, x))
          \/ ~Touches(Current(t), Counted) /\ todo'[t] \in Clear
      BY <1>1, <2>1, <2>2, PlaceMoves
    <2> QED
      BY <2>3 DEF Recording
  <1>3. CASE ~Touches(Current(t), Counted) /\ (todo'[t] \in Recording(n, x) \/ todo'[t] \in Clear)
    BY <1>1, <1>3, StayPlaced
  <1>4. CASE Current(t) \in StoreOne(Total) /\ Rest(t) \in Totalling(n, x)
    <2>1. Current(t).op = "store"
      BY <1>4, MarksAre
    <2>2. StoreCount(t) /\ todo'[t] = PastHandlers(Rest(t)) /\ Rest(t) \in Remainder
      BY <2>1, MarkGoes, Motions
    <2>3. todo'[t] \in Totalling(n, x)
      BY <1>4, <2>2, MarksPast
    <2> QED
      BY <1>4, <2>2, <2>3, Places DEF Totals, Placed
  <1> QED
    BY <1>2, <1>3, <1>4

LEMMA RepeatingMoves ==
  ASSUME EngineAssumption, EngineTypes, EngineTypes', NEW t \in Threads, Statement(t), ~GoInto(t),
         NEW n, NEW x \in Recorded, todo[t] \in Repeating(n, x)
  PROVE  Placed(n, todo'[t]) /\ (Passes(n, t) \/ Repeats(n, t, x))
  <1>1. Placed(n, todo[t])
    BY DEF Placed
  <1>2. \/ Current(t) \in StoreOne(x) /\ Rest(t) \in Limiting(n, x)
        \/ ~Touches(Current(t), Counted) /\ todo'[t] \in Repeating(n, x)
        \/ ~Touches(Current(t), Counted) /\ todo'[t] \in Clear
    <2>1. StoreOne(x) \subseteq Plain \union Branch /\ \A y \in StoreOne(x) : Touches(y, Counted)
      BY MarksAre, MarksTouch
    <2>2. todo[t] \in Lead(Passing, StoreOne(x), Limiting(n, x))
      BY DEF Repeating
    <2>3. \/ Current(t) \in StoreOne(x) /\ Rest(t) \in Limiting(n, x)
          \/ ~Touches(Current(t), Counted) /\ todo'[t] \in Lead(Passing, StoreOne(x), Limiting(n, x))
          \/ ~Touches(Current(t), Counted) /\ todo'[t] \in Clear
      BY <1>1, <2>1, <2>2, PlaceMoves
    <2> QED
      BY <2>3 DEF Repeating
  <1>3. CASE ~Touches(Current(t), Counted) /\ (todo'[t] \in Repeating(n, x) \/ todo'[t] \in Clear)
    BY <1>1, <1>3, StayPlaced
  <1>4. CASE Current(t) \in StoreOne(x) /\ Rest(t) \in Limiting(n, x)
    <2>1. Current(t).op = "store"
      BY <1>4, MarksAre
    <2>2. StoreCount(t) /\ todo'[t] = PastHandlers(Rest(t)) /\ Rest(t) \in Remainder
      BY <2>1, MarkGoes, Motions
    <2>3. todo'[t] \in Limiting(n, x)
      BY <1>4, <2>2, MarksPast
    <2>4. todo[t] \notin Refused
      <3>1. todo[t] \in Remainder /\ Current(t) = todo[t][1]
        BY Motions
      <3> QED
        BY <2>1, <3>1, RefusedHead
    <2>5. Booked(n, todo[t]) /\ Admitted(n, todo[t])
      BY <2>4, Places
    <2>6. \A y \in Recorded : (BookedAs(n, y, todo'[t]) => y = x) /\ ~AdmittedAs(y, todo'[t])
      BY <2>3, Places
    <2> QED
      BY <1>4, <2>2, <2>3, <2>5, <2>6 DEF Repeats, Placed
  <1> QED
    BY <1>2, <1>3, <1>4

LEMMA ExecutingMoves ==
  ASSUME EngineAssumption, EngineTypes, EngineTypes', NEW t \in Threads, Statement(t), ~GoInto(t),
         NEW n, NEW x \in Recorded, todo[t] \in Executing(x)
  PROVE  Placed(n, todo'[t]) /\ (Passes(n, t) \/ Runs(n, t, x))
  <1>1. Placed(n, todo[t])
    BY DEF Placed
  <1>2. \/ Current(t) \in RunOf(x) /\ Rest(t) \in Clear
        \/ ~Touches(Current(t), Counted) /\ todo'[t] \in Executing(x)
        \/ ~Touches(Current(t), Counted) /\ todo'[t] \in Clear
    <2>1. RunOf(x) \subseteq Plain \union Branch /\ \A y \in RunOf(x) : Touches(y, Counted)
      BY MarksAre, MarksTouch
    <2>2. todo[t] \in Lead(Passing, RunOf(x), Clear)
      BY DEF Executing
    <2>3. \/ Current(t) \in RunOf(x) /\ Rest(t) \in Clear
          \/ ~Touches(Current(t), Counted) /\ todo'[t] \in Lead(Passing, RunOf(x), Clear)
          \/ ~Touches(Current(t), Counted) /\ todo'[t] \in Clear
      BY <1>1, <2>1, <2>2, PlaceMoves
    <2> QED
      BY <2>3 DEF Executing
  <1>3. CASE ~Touches(Current(t), Counted) /\ (todo'[t] \in Executing(x) \/ todo'[t] \in Clear)
    BY <1>1, <1>3, StayPlaced
  <1>4. CASE Current(t) \in RunOf(x) /\ Rest(t) \in Clear
    <2>1. Current(t).op = "run"
      BY <1>4, MarksAre
    <2>2. RunWrapped(t) /\ Busy(t) /\ Rest(t) \in Remainder /\ todo[t] \in Remainder
          /\ Current(t) = todo[t][1]
      BY <2>1, ByOp, Motions
    <2>3. todo'[t] \in Clear
      <3>1. Advances(t) \/ Throws(t, "other")
        BY <2>2 DEF RunWrapped
      <3>2. todo \in [Threads -> Remainder] /\ CutsNothing(todo[t], 1)
        BY <2>1, <2>2, HandlersCut DEF EngineTypes, TodoTypes
      <3>3. CASE Advances(t)
        <4>1. todo'[t] = PastHandlers(Rest(t))
          BY <2>2, <3>2, <3>3, AdvanceMoves DEF Rest
        <4> QED
          BY <1>4, <2>2, <4>1, MarksPast
      <3>4. CASE Throws(t, "other")
        <4>1. Escapes(t, "other") \/ \E i \in Nat : Caught(t, i)
          BY <2>2, <3>2, <3>4, ThrowMoves
        <4>2. todo'[t] \in Seq(Stmt)
          BY DEF EngineTypes, TodoTypes, Remainder
        <4>3. Escapes(t, "other") => Aside(todo'[t], Counted)
          BY DEF Escapes, Aside
        <4>4. Safe(todo[t], Counted)
          BY <1>1, ParsePlace
        <4>5. ASSUME NEW i \in Nat, Caught(t, i) PROVE Aside(todo'[t], Counted)
          BY <2>2, <4>4, <4>5, CaughtAside
        <4> QED
          BY <4>1, <4>2, <4>3, <4>5 DEF Clear
      <3> QED
        BY <3>1, <3>3, <3>4
    <2>4. todo[t] \notin Refused
      BY <2>1, <2>2, RefusedHead
    <2>5. /\ Booked(n, todo[t]) /\ Admitted(n, todo[t]) /\ BookedAs(n, x, todo[t])
          /\ AdmittedAs(x, todo[t])
      BY <2>4, Places
    <2>6. /\ ~Booked(n, todo'[t]) /\ ~Admitted(n, todo'[t])
          /\ \A y \in Recorded : ~BookedAs(n, y, todo'[t]) /\ ~AdmittedAs(y, todo'[t])
      BY <2>3, Places
    <2> QED
      BY <1>4, <2>2, <2>3, <2>5, <2>6 DEF Runs, Placed
  <1> QED
    BY <1>2, <1>3, <1>4

LEMMA OnlyConcat ==
  ASSUME NEW a \in Seq(Stmt), NEW b \in Seq(Stmt), NEW Q, Only(a, Q), Only(b, Q)
  PROVE  Only(a \o b, Q)
  BY ConcatParts DEF Only

LEMMA OverPasses ==
  /\ Only(Emit("note"), Passing) /\ Only(<<>>, Passing)
  /\ Only(Emit("note") \o Raise("tripped"), Passing) /\ Only(Emit("note") \o <<>>, Passing)
  <1> DEFINE x == [op |-> "raise", kind |-> "tripped"]
  <1>1. x \in Plain /\ x.op = "raise"
    BY DEF Plain
  <1>2. x \in Passing
    BY <1>1 DEF Passing, Still, Apart, Inside, Touches, BranchReaches, HandlerReaches
  <1>3. Raise("tripped") = <<x>>
    BY DEF Raise
  <1> HIDE DEF x
  <1>4. Only(<<x>>, Passing) /\ <<x>> \in Seq(Stmt)
    BY <1>1, <1>2 DEF Only, Stmt
  <1>5. Only(Emit("note"), Passing) /\ Emit("note") \in Seq(Stmt)
    BY StillClosed, NoteIs DEF Closed, Passing
  <1>6. Only(<<>>, Passing) /\ <<>> \in Seq(Stmt)
    BY EmptySeq DEF Only
  <1> QED
    BY <1>3, <1>4, <1>5, <1>6, OnlyConcat

LEMMA TotallingMoves ==
  ASSUME EngineAssumption, EngineTypes, EngineTypes', NEW t \in Threads, Statement(t), ~GoInto(t),
         NEW n, NEW x \in Recorded, todo[t] \in Totalling(n, x)
  PROVE  Placed(n, todo'[t]) /\ (Passes(n, t) \/ Ceils(n, t))
  <1>1. Placed(n, todo[t])
    BY DEF Placed
  <1>2. \/ Current(t) \in LimitAll /\ Rest(t) \in Repeating(n, x)
        \/ ~Touches(Current(t), Counted) /\ todo'[t] \in Totalling(n, x)
        \/ ~Touches(Current(t), Counted) /\ todo'[t] \in Clear
    <2>1. LimitAll \subseteq Plain \union Branch /\ \A y \in LimitAll : Touches(y, Counted)
      BY MarksAre, MarksTouch
    <2>2. todo[t] \in Lead(Passing, LimitAll, Repeating(n, x))
      BY DEF Totalling
    <2>3. \/ Current(t) \in LimitAll /\ Rest(t) \in Repeating(n, x)
          \/ ~Touches(Current(t), Counted) /\ todo'[t] \in Lead(Passing, LimitAll, Repeating(n, x))
          \/ ~Touches(Current(t), Counted) /\ todo'[t] \in Clear
      BY <1>1, <2>1, <2>2, PlaceMoves
    <2> QED
      BY <2>3 DEF Totalling
  <1>3. CASE ~Touches(Current(t), Counted) /\ (todo'[t] \in Totalling(n, x) \/ todo'[t] \in Clear)
    BY <1>1, <1>3, StayPlaced
  <1>4. CASE Current(t) \in LimitAll /\ Rest(t) \in Repeating(n, x)
    <2> DEFINE over == Emit("note") \o Raise("tripped")
    <2>1. /\ Current(t).op = "compare" /\ Current(t).of = Total /\ Current(t).limit = MaxToolCalls
          /\ Current(t).over = over /\ Current(t).within = <<>>
      BY <1>4, MarksAre DEF LimitAll
    <2>2. /\ CompareCount(t)
          /\ count[Total] > MaxToolCalls => Goes1(t, over)
          /\ ~(count[Total] > MaxToolCalls) => Goes1(t, <<>>)
      <3> HIDE DEF over
      <3> QED
        BY <2>1, MarkGoes
    <2>3. /\ over \in Flat /\ over \in Seq(Stmt) /\ Rest(t) \in Seq(Stmt)
          /\ over \o Rest(t) \in Remainder /\ <<>> \o Rest(t) \in Remainder
      <3>1. Current(t).over \in Flat /\ Current(t).within \in Flat
        BY <2>1, Motions, StmtParts
      <3>2. over \in Flat /\ <<>> \in Flat
        BY <2>1, <3>1
      <3> HIDE DEF over
      <3>3. todo \in [Threads -> Remainder] /\ Busy(t)
        BY ByOp DEF EngineTypes, TodoTypes
      <3> QED
        BY <2>1, <3>2, <3>3, BranchOn
    <2>4. over \o Rest(t) \in Refused /\ over \o Rest(t) \in Repeating(n, x)
      <3>1. over \o Rest(t) \in Refused
        BY <2>3, RefusalIs
      <3>2. Only(over, Passing)
        BY OverPasses
      <3> HIDE DEF over
      <3>3. over \o Rest(t) \in Repeating(n, x)
        BY <1>4, <2>3, <3>2, LeadOn DEF Repeating, Only
      <3> QED
        BY <3>1, <3>3
    <2>5. <<>> \o Rest(t) \in Repeating(n, x)
      BY <1>4, <2>3, OverPasses, EmptySeq, LeadOn DEF Repeating, Only
    <2> HIDE DEF over
    <2>6. CASE count[Total] > MaxToolCalls
      <3>1. todo'[t] = over \o Rest(t)
        BY <2>2, <2>3, <2>4, <2>6, MarksPast DEF Goes1
      <3>2. todo'[t] \in Repeating(n, x) /\ todo'[t] \in Refused
        BY <2>4, <3>1
      <3>3. ~Admitted(n, todo'[t]) /\ \A y \in Recorded : ~BookedAs(n, y, todo'[t]) /\ ~AdmittedAs(y, todo'[t])
        BY <3>2, Places
      <3>4. Booked(n, todo[t])
        BY Places
      <3> QED
        BY <1>4, <2>2, <3>2, <3>3, <3>4 DEF Ceils, Placed
    <2>7. CASE ~(count[Total] > MaxToolCalls)
      <3>1. todo'[t] = <<>> \o Rest(t)
        BY <2>2, <2>3, <2>5, <2>7, MarksPast DEF Goes1
      <3>2. todo'[t] \in Repeating(n, x)
        BY <2>5, <3>1
      <3>3. \A y \in Recorded : ~BookedAs(n, y, todo'[t]) /\ ~AdmittedAs(y, todo'[t])
        BY <3>2, Places
      <3>4. Booked(n, todo[t])
        BY Places
      <3> QED
        BY <1>4, <2>2, <2>7, <3>2, <3>3, <3>4 DEF Ceils, Placed
    <2> QED
      BY <2>6, <2>7
  <1> QED
    BY <1>2, <1>3, <1>4

LEMMA LimitingMoves ==
  ASSUME EngineAssumption, EngineTypes, EngineTypes', NEW t \in Threads, Statement(t), ~GoInto(t),
         NEW n, NEW x \in Recorded, todo[t] \in Limiting(n, x)
  PROVE  Placed(n, todo'[t]) /\ (Passes(n, t) \/ Limits(n, t, x))
  <1>1. Placed(n, todo[t])
    BY DEF Placed
  <1>2. \/ Current(t) \in LimitSame(n, x) /\ Rest(t) \in Executing(x) \union Clear
        \/ ~Touches(Current(t), Counted) /\ todo'[t] \in Limiting(n, x)
        \/ ~Touches(Current(t), Counted) /\ todo'[t] \in Clear
    <2>1. LimitSame(n, x) \subseteq Plain \union Branch /\ \A y \in LimitSame(n, x) : Touches(y, Counted)
      BY MarksAre, MarksTouch
    <2>2. todo[t] \in Lead(Passing, LimitSame(n, x), Executing(x) \union Clear)
      BY DEF Limiting
    <2>3. \/ Current(t) \in LimitSame(n, x) /\ Rest(t) \in Executing(x) \union Clear
          \/ ~Touches(Current(t), Counted)
             /\ todo'[t] \in Lead(Passing, LimitSame(n, x), Executing(x) \union Clear)
          \/ ~Touches(Current(t), Counted) /\ todo'[t] \in Clear
      BY <1>1, <2>1, <2>2, PlaceMoves
    <2> QED
      BY <2>3 DEF Limiting
  <1>3. CASE ~Touches(Current(t), Counted) /\ (todo'[t] \in Limiting(n, x) \/ todo'[t] \in Clear)
    BY <1>1, <1>3, StayPlaced
  <1>4. CASE Current(t) \in LimitSame(n, x) /\ Rest(t) \in Executing(x) \union Clear
    <2> DEFINE over == Emit("note") \o (IF n >= 2 THEN Raise("tripped") ELSE <<>>)
    <2>1. /\ Current(t).op = "compare" /\ Current(t).of = x /\ Current(t).limit = MaxIdentical - 1
          /\ Current(t).over = over /\ Current(t).within = <<>>
      <3>1. Current(t).op = "compare" /\ Current(t).of = x
        BY <1>4, MarksAre
      <3>2. Current(t).limit = MaxIdentical - 1
        BY <1>4, Zenon DEF LimitSame
      <3>3. Current(t).over = over /\ Current(t).within = <<>>
        BY <1>4, Zenon DEF LimitSame
      <3> HIDE DEF over
      <3> QED
        BY <3>1, <3>2, <3>3
    <2>2. /\ CompareCount(t)
          /\ count[x] > MaxIdentical - 1 => Goes1(t, over)
          /\ ~(count[x] > MaxIdentical - 1) => Goes1(t, <<>>)
      <3> HIDE DEF over
      <3> QED
        BY <2>1, MarkGoes
    <2>3. /\ over \in Flat /\ over \in Seq(Stmt) /\ Rest(t) \in Seq(Stmt)
          /\ over \o Rest(t) \in Remainder /\ <<>> \o Rest(t) \in Remainder
      <3>1. Current(t).over \in Flat /\ Current(t).within \in Flat
        BY <2>1, Motions, StmtParts
      <3>2. over \in Flat /\ <<>> \in Flat
        BY <2>1, <3>1
      <3> HIDE DEF over
      <3>3. todo \in [Threads -> Remainder] /\ Busy(t)
        BY ByOp DEF EngineTypes, TodoTypes
      <3> QED
        BY <2>1, <3>2, <3>3, BranchOn
    <2>4. n >= 2 => over \o Rest(t) \in Refused
      BY <2>3, RefusalIs
    <2>5. Only(over, Passing) /\ Only(<<>>, Passing) /\ <<>> \in Seq(Stmt)
      <3>1. CASE n >= 2
        <4>1. over = Emit("note") \o Raise("tripped")
          BY <3>1
        <4> QED
          BY <4>1, OverPasses, EmptySeq
      <3>2. CASE ~(n >= 2)
        <4>1. over = Emit("note") \o <<>>
          BY <3>2
        <4> QED
          BY <4>1, OverPasses, EmptySeq
      <3> QED
        BY <3>1, <3>2
    <2> HIDE DEF over
    <2>6. ASSUME NEW b \in Seq(Stmt), Only(b, Passing), b \o Rest(t) \in Remainder, Goes1(t, b)
          PROVE  /\ todo'[t] \in Executing(x) \/ todo'[t] \in Clear
                 /\ b \o Rest(t) \in Refused => todo'[t] \in Refused
      <3>1. CASE Rest(t) \in Executing(x)
        <4>1. b \o Rest(t) \in Executing(x)
          BY <2>6, <3>1, LeadOn DEF Executing, Only
        <4> QED
          BY <2>6, <4>1, MarksPast DEF Goes1
      <3>2. CASE Rest(t) \in Clear
        <4>1. Aside(b, Counted)
          BY <2>6 DEF Only, Aside, Passing, Still
        <4>2. b \o Rest(t) \in Clear
          <5>1. Aside(Rest(t), Counted)
            BY <3>2 DEF Clear
          <5>2. b \o Rest(t) \in Seq(Stmt)
            BY <2>6 DEF Remainder
          <5> QED
            BY <2>3, <2>6, <4>1, <5>1, <5>2, AsideConcat DEF Clear
        <4> QED
          BY <2>6, <4>2, MarksPast DEF Goes1
      <3> QED
        BY <1>4, <3>1, <3>2
    <2>7. todo'[t] \in Executing(x) \/ todo'[t] \in Clear
      BY <2>2, <2>3, <2>5, <2>6
    <2>8. n >= 2 /\ count[x] > MaxIdentical - 1 => todo'[t] \in Refused
      BY <2>2, <2>3, <2>4, <2>5, <2>6
    <2>9. Booked(n, todo[t]) /\ Admitted(n, todo[t]) /\ BookedAs(n, x, todo[t])
      <3>1. todo[t] \in Remainder /\ Current(t) = todo[t][1]
        BY Motions
      <3>2. todo[t] \notin Refused
        BY <2>1, <3>1, RefusedHead
      <3> QED
        BY <3>2, Places
    <2>10. \A y \in Recorded : (BookedAs(n, y, todo'[t]) \/ AdmittedAs(y, todo'[t])) => y = x
      BY <2>7, Places
    <2>11. n >= 2 /\ AdmittedAs(x, todo'[t]) => ~(count[x] > MaxIdentical - 1)
      BY <2>8 DEF AdmittedAs
    <2> QED
      BY <1>4, <2>2, <2>7, <2>9, <2>10, <2>11 DEF Limits, Placed
  <1> QED
    BY <1>2, <1>3, <1>4

LEMMA PlacedMoves ==
  ASSUME EngineAssumption, EngineTypes, EngineTypes', NEW t \in Threads, Statement(t), ~GoInto(t),
         NEW n, Placed(n, todo[t])
  PROVE  /\ Placed(n, todo'[t])
         /\ \/ Passes(n, t) \/ Totals(n, t) \/ Ceils(n, t)
            \/ \E x \in Recorded : Repeats(n, t, x) \/ Limits(n, t, x) \/ Runs(n, t, x)
  <1>1. CASE todo[t] \in Clear
    <2>1. Aside(todo[t], Counted)
      BY <1>1 DEF Clear
    <2>2. todo'[t] \in Clear
      <3>1. Aside(todo'[t], Counted)
        BY <2>1, AsideMoves
      <3> QED
        BY <3>1 DEF Clear, EngineTypes, TodoTypes, Remainder
    <2>3. ~Touches(Current(t), Counted)
      <3>1. todo[t] \in Remainder /\ todo[t] # <<>> /\ Current(t) = todo[t][1]
        BY Motions
      <3> QED
        BY <2>1, <3>1, RestAside DEF Apart
    <2> QED
      BY <2>2, <2>3, StayPlaced
  <1>2. ASSUME NEW x \in Recorded, todo[t] \in Recording(n, x)
        PROVE  Placed(n, todo'[t]) /\ (Passes(n, t) \/ Totals(n, t))
    BY <1>2, RecordingMoves
  <1>3. ASSUME NEW x \in Recorded, todo[t] \in Totalling(n, x)
        PROVE  Placed(n, todo'[t]) /\ (Passes(n, t) \/ Ceils(n, t))
    BY <1>3, TotallingMoves
  <1>4. ASSUME NEW x \in Recorded, todo[t] \in Repeating(n, x)
        PROVE  Placed(n, todo'[t]) /\ (Passes(n, t) \/ Repeats(n, t, x))
    BY <1>4, RepeatingMoves
  <1>5. ASSUME NEW x \in Recorded, todo[t] \in Limiting(n, x)
        PROVE  Placed(n, todo'[t]) /\ (Passes(n, t) \/ Limits(n, t, x))
    BY <1>5, LimitingMoves
  <1>6. ASSUME NEW x \in Recorded, todo[t] \in Executing(x)
        PROVE  Placed(n, todo'[t]) /\ (Passes(n, t) \/ Runs(n, t, x))
    BY <1>6, ExecutingMoves
  <1> QED
    BY <1>1, <1>2, <1>3, <1>4, <1>5, <1>6 DEF Placed

Bookers == {t \in Threads : Booked(tier, todo[t])}
Admittees == {t \in Threads : Admitted(tier, todo[t])}
BookersAs(x) == {t \in Threads : BookedAs(tier, x, todo[t])}
AdmitteesAs(x) == {t \in Threads : AdmittedAs(x, todo[t])}
RunInAll == SumOf([c \in Recorded |-> ran[c]])
SameLimit == AtLeast(0, MaxIdentical - 1)

\* What has run, and what is booked or admitted to run, is in the counters,
\* but for what stale stores have lost.
TotalBooked == RunInAll + Cardinality(Bookers) <= count[Total] + lost[Total]
TotalHeld == RunInAll + Cardinality(Admittees) <= MaxToolCalls + lost[Total]
SameBooked(x) == ran[x] + Cardinality(BookersAs(x)) <= count[x] + lost[x]
SameHeld(x) == tier >= 2 => ran[x] + Cardinality(AdmitteesAs(x)) <= SameLimit + lost[x]

CeilingInv ==
    /\ \A t \in Threads : Placed(tier, todo[t])
    /\ TotalBooked /\ TotalHeld
    /\ \A x \in Recorded : SameBooked(x) /\ SameHeld(x)

LEMMA Groups ==
  ASSUME NEW A, IsFiniteSet(A), NEW B, NEW t, \A u \in B : u # t => u \in A
  PROVE  /\ Cardinality(A) \in Nat /\ Cardinality(B) \in Nat /\ IsFiniteSet(B)
         /\ Cardinality(B) <= Cardinality(A) + 1
         /\ (t \in B => t \in A) => Cardinality(B) <= Cardinality(A)
         /\ t \in A /\ t \notin B => Cardinality(B) <= Cardinality(A) - 1
  <1>1. IsFiniteSet(A \union {t}) /\ Cardinality(A \union {t}) <= Cardinality(A) + 1
        /\ Cardinality(A) \in Nat /\ Cardinality(A \union {t}) \in Nat
    <2>1. Cardinality(A) \in Nat
      BY FS_CardinalityType
    <2>2. /\ IsFiniteSet(A \union {t})
          /\ Cardinality(A \union {t}) = IF t \in A THEN Cardinality(A) ELSE Cardinality(A) + 1
      BY FS_AddElement
    <2> QED
      BY <2>1, <2>2
  <1>2. B \subseteq A \union {t}
    OBVIOUS
  <1>3. IsFiniteSet(B) /\ Cardinality(B) <= Cardinality(A \union {t}) /\ Cardinality(B) \in Nat
    BY <1>1, <1>2, FS_Subset, FS_CardinalityType
  <1>4. ASSUME t \in B => t \in A PROVE Cardinality(B) <= Cardinality(A)
    <2>1. B \subseteq A
      BY <1>4
    <2> QED
      BY <2>1, FS_Subset
  <1>5. ASSUME t \in A, t \notin B PROVE Cardinality(B) <= Cardinality(A) - 1
    <2>1. B \subseteq A \ {t}
      BY <1>5
    <2>2. IsFiniteSet(A \ {t}) /\ Cardinality(A \ {t}) = Cardinality(A) - 1
      BY <1>5, FS_RemoveElement
    <2> QED
      BY <2>1, <2>2, FS_Subset
  <1> QED
    BY <1>1, <1>3, <1>4, <1>5

\* How many are booked and admitted, by what one thread does.
LEMMA TotalGroups ==
  ASSUME EngineAssumption, NEW t \in Threads, tier' = tier, \A u \in Threads \ {t} : todo'[u] = todo[u],
         NEW n, n = tier
  PROVE  /\ Cardinality(Bookers) \in Nat /\ Cardinality(Bookers') \in Nat
         /\ Cardinality(Admittees) \in Nat /\ Cardinality(Admittees') \in Nat
         /\ Cardinality(Bookers') <= Cardinality(Bookers) + 1
         /\ (Booked(n, todo'[t]) => Booked(n, todo[t])) => Cardinality(Bookers') <= Cardinality(Bookers)
         /\ Booked(n, todo[t]) /\ ~Booked(n, todo'[t])
                => Cardinality(Bookers') <= Cardinality(Bookers) - 1
         /\ (Admitted(n, todo'[t]) => Admitted(n, todo[t]))
                => Cardinality(Admittees') <= Cardinality(Admittees)
         /\ Admitted(n, todo[t]) /\ ~Admitted(n, todo'[t])
                => Cardinality(Admittees') <= Cardinality(Admittees) - 1
         /\ Booked(n, todo[t]) => Cardinality(Admittees') <= Cardinality(Bookers)
  <1> DEFINE b == {u \in Threads : Booked(n, todo[u])}
             c == {u \in Threads : Booked(n, todo'[u])}
             a == {u \in Threads : Admitted(n, todo[u])}
             d == {u \in Threads : Admitted(n, todo'[u])}
  <1>1. IsFiniteSet(b) /\ IsFiniteSet(a)
    BY FS_Subset DEF EngineAssumption
  <1>2. \A u \in Threads : Admitted(n, todo[u]) => Booked(n, todo[u])
    BY DEF Admitted, Booked
  <1>3. (\A u \in c : u # t => u \in b) /\ (\A u \in d : u # t => u \in a /\ u \in b)
    BY <1>2
  <1>4. /\ t \in b <=> Booked(n, todo[t])
        /\ t \in c <=> Booked(n, todo'[t])
        /\ t \in a <=> Admitted(n, todo[t])
        /\ t \in d <=> Admitted(n, todo'[t])
    OBVIOUS
  <1>5. Bookers = b /\ Bookers' = c /\ Admittees = a /\ Admittees' = d
    BY DEF Bookers, Admittees
  <1> HIDE DEF a, b, c, d
  <1>6. /\ Cardinality(b) \in Nat /\ Cardinality(c) \in Nat /\ Cardinality(c) <= Cardinality(b) + 1
        /\ (t \in c => t \in b) => Cardinality(c) <= Cardinality(b)
        /\ t \in b /\ t \notin c => Cardinality(c) <= Cardinality(b) - 1
    BY <1>1, <1>3, Groups
  <1>7. /\ Cardinality(a) \in Nat /\ Cardinality(d) \in Nat
        /\ (t \in d => t \in a) => Cardinality(d) <= Cardinality(a)
        /\ t \in a /\ t \notin d => Cardinality(d) <= Cardinality(a) - 1
    BY <1>1, <1>3, Groups
  <1>8. (t \in d => t \in b) => Cardinality(d) <= Cardinality(b)
    BY <1>1, <1>3, Groups
  <1> QED
    BY <1>4, <1>5, <1>6, <1>7, <1>8

LEMMA SameGroups ==
  ASSUME EngineAssumption, NEW t \in Threads, tier' = tier, \A u \in Threads \ {t} : todo'[u] = todo[u],
         NEW n, n = tier, NEW x
  PROVE  /\ Cardinality(BookersAs(x)) \in Nat /\ Cardinality(BookersAs(x)') \in Nat
         /\ Cardinality(AdmitteesAs(x)) \in Nat /\ Cardinality(AdmitteesAs(x)') \in Nat
         /\ Cardinality(BookersAs(x)') <= Cardinality(BookersAs(x)) + 1
         /\ (BookedAs(n, x, todo'[t]) => BookedAs(n, x, todo[t]))
                => Cardinality(BookersAs(x)') <= Cardinality(BookersAs(x))
         /\ BookedAs(n, x, todo[t]) /\ ~BookedAs(n, x, todo'[t])
                => Cardinality(BookersAs(x)') <= Cardinality(BookersAs(x)) - 1
         /\ (AdmittedAs(x, todo'[t]) => AdmittedAs(x, todo[t]))
                => Cardinality(AdmitteesAs(x)') <= Cardinality(AdmitteesAs(x))
         /\ AdmittedAs(x, todo[t]) /\ ~AdmittedAs(x, todo'[t])
                => Cardinality(AdmitteesAs(x)') <= Cardinality(AdmitteesAs(x)) - 1
         /\ BookedAs(n, x, todo[t]) => Cardinality(AdmitteesAs(x)') <= Cardinality(BookersAs(x))
  <1> DEFINE b == {u \in Threads : BookedAs(n, x, todo[u])}
             c == {u \in Threads : BookedAs(n, x, todo'[u])}
             a == {u \in Threads : AdmittedAs(x, todo[u])}
             d == {u \in Threads : AdmittedAs(x, todo'[u])}
  <1>1. IsFiniteSet(b) /\ IsFiniteSet(a)
    BY FS_Subset DEF EngineAssumption
  <1>2. \A u \in Threads : AdmittedAs(x, todo[u]) => BookedAs(n, x, todo[u])
    BY DEF AdmittedAs, BookedAs
  <1>3. (\A u \in c : u # t => u \in b) /\ (\A u \in d : u # t => u \in a /\ u \in b)
    BY <1>2
  <1>4. /\ t \in b <=> BookedAs(n, x, todo[t])
        /\ t \in c <=> BookedAs(n, x, todo'[t])
        /\ t \in a <=> AdmittedAs(x, todo[t])
        /\ t \in d <=> AdmittedAs(x, todo'[t])
    OBVIOUS
  <1>5. BookersAs(x) = b /\ BookersAs(x)' = c /\ AdmitteesAs(x) = a /\ AdmitteesAs(x)' = d
    BY DEF BookersAs, AdmitteesAs
  <1> HIDE DEF a, b, c, d
  <1>6. /\ Cardinality(b) \in Nat /\ Cardinality(c) \in Nat /\ Cardinality(c) <= Cardinality(b) + 1
        /\ (t \in c => t \in b) => Cardinality(c) <= Cardinality(b)
        /\ t \in b /\ t \notin c => Cardinality(c) <= Cardinality(b) - 1
    BY <1>1, <1>3, Groups
  <1>7. /\ Cardinality(a) \in Nat /\ Cardinality(d) \in Nat
        /\ (t \in d => t \in a) => Cardinality(d) <= Cardinality(a)
        /\ t \in a /\ t \notin d => Cardinality(d) <= Cardinality(a) - 1
    BY <1>1, <1>3, Groups
  <1>8. (t \in d => t \in b) => Cardinality(d) <= Cardinality(b)
    BY <1>1, <1>3, Groups
  <1> QED
    BY <1>4, <1>5, <1>6, <1>7, <1>8

\* A store of one more: what the counter gains or loses beside that is in
\* what was lost.
LEMMA StoreAdds ==
  ASSUME EngineTypes, NEW t \in Threads, StoreCount(t), NEW c \in Counters, Current(t) \in StoreOne(c)
  PROVE  /\ count'[c] + lost'[c] >= count[c] + lost[c] + 1 /\ lost'[c] >= lost[c]
         /\ count'[c] \in Int /\ lost'[c] \in Nat
         /\ \A d \in Counters : d # c => count'[d] = count[d] /\ lost'[d] = lost[d]
         /\ ran' = ran
  <1>1. /\ count \in [Counters -> Int] /\ lost \in [Counters -> Nat] /\ held[t] \in Int
    BY DEF EngineTypes, CountTypes, LocalTypes
  <1>2. Current(t).of = c /\ Current(t).by = 1 /\ Current(t).floor = FALSE
    BY DEF StoreOne
  <1>3. /\ count' = [count EXCEPT ![c] = held[t] + 1]
        /\ lost' = [lost EXCEPT ![c] = @ + Distance(count[c], held[t])]
        /\ ran' = ran
    BY <1>2 DEF StoreCount
  <1>4. Distance(count[c], held[t]) \in Nat /\ held[t] + Distance(count[c], held[t]) >= count[c]
    BY <1>1 DEF Distance
  <1>5. count'[c] = held[t] + 1 /\ lost'[c] = lost[c] + Distance(count[c], held[t])
    BY <1>1, <1>3
  <1>6. \A d \in Counters : d # c => count'[d] = count[d] /\ lost'[d] = lost[d]
    BY <1>1, <1>3
  <1> HIDE DEF Distance
  <1>7. count[c] \in Int /\ lost[c] \in Nat
    BY <1>1
  <1> QED
    BY <1>1, <1>3, <1>4, <1>5, <1>6, <1>7

LEMMA RunTypes ==
  ASSUME EngineAssumption, EngineTypes
  PROVE  /\ Recorded \subseteq Counters /\ IsFiniteSet(Recorded) /\ Counted \subseteq Counters
         /\ [c \in Recorded |-> ran[c]] \in [Recorded -> Nat] /\ RunInAll \in Nat
         /\ Total \in Counters /\ MaxToolCalls \in Nat /\ SameLimit \in Nat /\ MaxIdentical \in Nat
         /\ SameLimit >= MaxIdentical - 1
         /\ count[Total] \in Int /\ lost[Total] \in Nat
         /\ \A x \in Recorded : count[x] \in Int /\ lost[x] \in Nat /\ ran[x] \in Nat
  <1>1. Recorded \subseteq Counters /\ Total \in Counters
    BY DEF Recorded, EngineAssumption, Total
  <1>2. IsFiniteSet(Recorded) /\ Counted \subseteq Counters
    BY <1>1, FS_Subset DEF EngineAssumption, Counted
  <1>3. count \in [Counters -> Int] /\ lost \in [Counters -> Nat] /\ ran \in [Counters -> Nat]
    BY DEF EngineTypes, CountTypes
  <1> DEFINE f == [c \in Recorded |-> ran[c]]
  <1>4. f \in [Recorded -> Nat] /\ DOMAIN f = Recorded /\ \A x \in Recorded : f[x] \in Nat
    BY <1>1, <1>3
  <1>5. RunInAll \in Nat
    <2> HIDE DEF f
    <2>1. SumOf(f) \in Nat
      BY <1>2, <1>4, SumOfIs
    <2> QED
      BY <2>1 DEF RunInAll, f
  <1>6. MaxToolCalls \in Nat /\ MaxIdentical \in Nat
    BY DEF EngineAssumption
  <1>7. SameLimit \in Nat /\ SameLimit >= MaxIdentical - 1
    BY <1>6 DEF SameLimit, AtLeast
  <1> QED
    BY <1>1, <1>2, <1>3, <1>4, <1>5, <1>6, <1>7

\* What a statement does to the numbers that the ceilings compare.
LEMMA Numbers ==
  ASSUME EngineAssumption, EngineTypes, NEW t \in Threads, Statement(t), ~GoInto(t), NEW n
  PROVE  /\ Passes(n, t) \/ Ceils(n, t) \/ (\E x \in Recorded : Limits(n, t, x))
                => /\ RunInAll' = RunInAll
                   /\ \A c \in Counted : count'[c] = count[c] /\ lost'[c] = lost[c] /\ ran'[c] = ran[c]
         /\ Totals(n, t) => /\ RunInAll' = RunInAll /\ ran' = ran
                            /\ count'[Total] + lost'[Total] >= count[Total] + lost[Total] + 1
                            /\ lost'[Total] >= lost[Total]
                            /\ count'[Total] \in Int /\ lost'[Total] \in Nat
                            /\ \A c \in Counters : c # Total => count'[c] = count[c] /\ lost'[c] = lost[c]
         /\ \A x \in Recorded :
              /\ Repeats(n, t, x) => /\ RunInAll' = RunInAll /\ ran' = ran
                                     /\ count'[x] + lost'[x] >= count[x] + lost[x] + 1
                                     /\ lost'[x] >= lost[x]
                                     /\ count'[x] \in Int /\ lost'[x] \in Nat
                                     /\ \A c \in Counters : c # x => count'[c] = count[c] /\ lost'[c] = lost[c]
              /\ Runs(n, t, x) => /\ RunInAll' = RunInAll + 1
                                  /\ count' = count /\ lost' = lost /\ ran'[x] = ran[x] + 1
                                  /\ \A c \in Recorded : c # x => ran'[c] = ran[c]
  <1>0. /\ Recorded \subseteq Counters /\ IsFiniteSet(Recorded) /\ Counted \subseteq Counters
        /\ Total \in Counters /\ Recorded \subseteq Counted
    BY RunTypes DEF Counted
  <1>1. ran \in [Counters -> Nat]
    BY DEF EngineTypes, CountTypes
  <1>2. (\A c \in Recorded : ran'[c] = ran[c]) => RunInAll' = RunInAll
    <2>1. (\A c \in Recorded : ran'[c] = ran[c]) => [c \in Recorded |-> ran'[c]] = [c \in Recorded |-> ran[c]]
      OBVIOUS
    <2> QED
      BY <2>1, Zenon DEF RunInAll
  <1>3. ASSUME Passes(n, t) \/ Ceils(n, t) \/ \E x \in Recorded : Limits(n, t, x)
        PROVE  \A c \in Counted : count'[c] = count[c] /\ lost'[c] = lost[c] /\ ran'[c] = ran[c]
    <2>1. CASE ~Touches(Current(t), Counted)
      BY <1>0, <2>1, CountersStay
    <2>2. CASE CompareCount(t)
      <3>1. count' = count /\ lost' = lost /\ ran' = ran
        BY <2>2 DEF CompareCount, counting
      <3> QED
        BY <3>1
    <2> QED
      BY <1>3, <2>1, <2>2 DEF Passes, Ceils, Limits
  <1>4. ASSUME Totals(n, t)
        PROVE  /\ RunInAll' = RunInAll /\ ran' = ran
               /\ count'[Total] + lost'[Total] >= count[Total] + lost[Total] + 1
               /\ lost'[Total] >= lost[Total]
               /\ count'[Total] \in Int /\ lost'[Total] \in Nat
               /\ \A c \in Counters : c # Total => count'[c] = count[c] /\ lost'[c] = lost[c]
    <2>1. StoreCount(t) /\ Current(t) \in StoreOne(Total)
      BY <1>4 DEF Totals
    <2>2. ran' = ran
      BY <1>0, <2>1, StoreAdds
    <2> QED
      BY <1>0, <1>2, <2>1, <2>2, StoreAdds
  <1>5. ASSUME NEW x \in Recorded, Repeats(n, t, x)
        PROVE  /\ RunInAll' = RunInAll /\ ran' = ran
               /\ count'[x] + lost'[x] >= count[x] + lost[x] + 1
               /\ lost'[x] >= lost[x]
               /\ count'[x] \in Int /\ lost'[x] \in Nat
               /\ \A c \in Counters : c # x => count'[c] = count[c] /\ lost'[c] = lost[c]
    <2>1. StoreCount(t) /\ Current(t) \in StoreOne(x)
      BY <1>5 DEF Repeats
    <2>2. ran' = ran
      BY <1>0, <2>1, StoreAdds
    <2> QED
      BY <1>0, <1>2, <2>1, <2>2, StoreAdds
  <1>6. ASSUME NEW x \in Recorded, Runs(n, t, x)
        PROVE  /\ RunInAll' = RunInAll + 1
               /\ count' = count /\ lost' = lost /\ ran'[x] = ran[x] + 1
               /\ \A c \in Recorded : c # x => ran'[c] = ran[c]
    <2>1. RunWrapped(t) /\ Current(t) \in RunOf(x)
      BY <1>6 DEF Runs
    <2>2. Current(t).of = x
      BY <2>1 DEF RunOf
    <2>3. count' = count /\ lost' = lost /\ ran' = [ran EXCEPT ![x] = @ + 1]
      BY <2>1, <2>2 DEF RunWrapped
    <2>4. /\ ran'[x] = ran[x] + 1 /\ \A c \in Recorded : c # x => ran'[c] = ran[c]
      BY <1>0, <1>1, <2>3
    <2> DEFINE f == [c \in Recorded |-> ran[c]]
               g == [c \in Recorded |-> ran'[c]]
    <2>5. f \in [Recorded -> Nat] /\ g \in [Recorded -> Nat] /\ f[x] = ran[x] /\ g[x] = ran[x] + 1 /\ ran[x] \in Nat
      <3>1. ran' \in [Counters -> Nat]
        BY <1>0, <1>1, <2>3
      <3> QED
        BY <1>0, <1>1, <2>4, <3>1
    <2>6. \A c \in Recorded : c # x => g[c] = f[c]
      BY <2>4
    <2>7. RunInAll = SumOf(f) /\ RunInAll' = SumOf(g)
      BY Zenon DEF RunInAll
    <2> HIDE DEF f, g
    <2>8. SumOf(f) \in Nat /\ SumOf(g) \in Nat /\ SumOf(g) = SumOf(f) + (g[x] - f[x])
      BY <1>0, <2>5, <2>6, SumOfMoves
    <2>9. SumOf(g) = SumOf(f) + 1
      BY <2>5, <2>8
    <2> QED
      BY <2>3, <2>4, <2>7, <2>9
  <1>7. Passes(n, t) \/ Ceils(n, t) \/ (\E x \in Recorded : Limits(n, t, x)) => RunInAll' = RunInAll
    BY <1>0, <1>2, <1>3
  <1> QED
    BY <1>3, <1>4, <1>5, <1>6, <1>7

Effect(n, t) ==
    \/ Passes(n, t) \/ Totals(n, t) \/ Ceils(n, t)
    \/ \E x \in Recorded : Repeats(n, t, x) \/ Limits(n, t, x) \/ Runs(n, t, x)

LEMMA TotalKept ==
  ASSUME EngineAssumption, EngineTypes, EngineTypes', NEW t \in Threads, Statement(t), ~GoInto(t),
         NEW n, n = tier, Effect(n, t), TotalBooked, TotalHeld
  PROVE  TotalBooked' /\ TotalHeld'
  <1> SUFFICES ASSUME NEW r, NEW rp, NEW k, NEW kp, NEW l, NEW lp, NEW b, NEW bp, NEW a, NEW ap,
                      r = RunInAll, rp = RunInAll',
                      k = count[Total], kp = count'[Total],
                      l = lost[Total], lp = lost'[Total],
                      b = Cardinality(Bookers), bp = Cardinality(Bookers'),
                      a = Cardinality(Admittees), ap = Cardinality(Admittees')
               PROVE  TotalBooked' /\ TotalHeld'
    OBVIOUS
  <1>1. /\ r \in Nat /\ k \in Int /\ l \in Nat /\ MaxToolCalls \in Nat /\ Total \in Counted
    BY RunTypes DEF Counted
  <1>2. r + b <= k + l /\ r + a <= MaxToolCalls + l
    BY DEF TotalBooked, TotalHeld
  <1>3. tier' = tier /\ \A u \in Threads \ {t} : todo'[u] = todo[u]
    BY ByOp, Motions
  <1>4. /\ b \in Nat /\ bp \in Nat /\ a \in Nat /\ ap \in Nat /\ bp <= b + 1
        /\ (Booked(n, todo'[t]) => Booked(n, todo[t])) => bp <= b
        /\ Booked(n, todo[t]) /\ ~Booked(n, todo'[t]) => bp <= b - 1
        /\ (Admitted(n, todo'[t]) => Admitted(n, todo[t])) => ap <= a
        /\ Admitted(n, todo[t]) /\ ~Admitted(n, todo'[t]) => ap <= a - 1
        /\ Booked(n, todo[t]) => ap <= b
    BY <1>3, TotalGroups
  <1>5. \A x \in Recorded : x # Total
    BY MarksAre
  <1> SUFFICES rp + bp <= kp + lp /\ rp + ap <= MaxToolCalls + lp
    BY DEF TotalBooked, TotalHeld
  <1>6. CASE Passes(n, t)
    <2>1. rp = r /\ kp = k /\ lp = l
      BY <1>1, <1>6, Numbers
    <2>2. bp <= b /\ ap <= a
      BY <1>4, <1>6 DEF Passes, Eases
    <2> QED
      BY <1>1, <1>2, <1>4, <2>1, <2>2
  <1>7. CASE Totals(n, t)
    <2>1. rp = r /\ kp + lp >= k + l + 1 /\ lp >= l /\ kp \in Int /\ lp \in Nat
      BY <1>7, Numbers
    <2>2. ap <= a
      BY <1>4, <1>7 DEF Totals
    <2> QED
      BY <1>1, <1>2, <1>4, <2>1, <2>2
  <1>8. CASE Ceils(n, t)
    <2>1. rp = r /\ kp = k /\ lp = l
      BY <1>1, <1>8, Numbers
    <2>2. bp <= b /\ ap <= b /\ (ap <= a \/ ~(k > MaxToolCalls))
      BY <1>4, <1>8 DEF Ceils
    <2> QED
      BY <1>1, <1>2, <1>4, <2>1, <2>2
  <1>9. ASSUME NEW x \in Recorded, Repeats(n, t, x) PROVE rp + bp <= kp + lp /\ rp + ap <= MaxToolCalls + lp
    <2>1. rp = r /\ kp = k /\ lp = l
      <3>1. Total \in Counters /\ Total # x
        BY <1>5, RunTypes
      <3> QED
        BY <1>9, <3>1, Numbers
    <2>2. bp <= b /\ ap <= a
      BY <1>4, <1>9 DEF Repeats
    <2> QED
      BY <1>1, <1>2, <1>4, <2>1, <2>2
  <1>10. ASSUME NEW x \in Recorded, Limits(n, t, x) PROVE rp + bp <= kp + lp /\ rp + ap <= MaxToolCalls + lp
    <2>1. rp = r /\ kp = k /\ lp = l
      BY <1>1, <1>10, Numbers
    <2>2. bp <= b /\ ap <= a
      BY <1>4, <1>10 DEF Limits
    <2> QED
      BY <1>1, <1>2, <1>4, <2>1, <2>2
  <1>11. ASSUME NEW x \in Recorded, Runs(n, t, x) PROVE rp + bp <= kp + lp /\ rp + ap <= MaxToolCalls + lp
    <2>1. rp = r + 1 /\ kp = k /\ lp = l
      BY <1>11, Numbers
    <2>2. bp <= b - 1 /\ ap <= a - 1
      BY <1>4, <1>11 DEF Runs
    <2> QED
      BY <1>1, <1>2, <1>4, <2>1, <2>2
  <1> QED
    BY <1>6, <1>7, <1>8, <1>9, <1>10, <1>11 DEF Effect

LEMMA SameKept ==
  ASSUME EngineAssumption, EngineTypes, EngineTypes', NEW t \in Threads, Statement(t), ~GoInto(t),
         NEW n, n = tier, Effect(n, t), NEW x \in Recorded, SameBooked(x), SameHeld(x)
  PROVE  SameBooked(x)' /\ SameHeld(x)'
  <1> SUFFICES ASSUME NEW r, NEW rp, NEW k, NEW kp, NEW l, NEW lp, NEW b, NEW bp, NEW a, NEW ap,
                      r = ran[x], rp = ran'[x],
                      k = count[x], kp = count'[x],
                      l = lost[x], lp = lost'[x],
                      b = Cardinality(BookersAs(x)), bp = Cardinality(BookersAs(x)'),
                      a = Cardinality(AdmitteesAs(x)), ap = Cardinality(AdmitteesAs(x)')
               PROVE  SameBooked(x)' /\ SameHeld(x)'
    OBVIOUS
  <1> DEFINE Kept == rp + bp <= kp + lp /\ (n >= 2 => rp + ap <= SameLimit + lp)
  <1>1. /\ r \in Nat /\ k \in Int /\ l \in Nat /\ SameLimit \in Nat /\ MaxIdentical \in Nat
        /\ SameLimit >= MaxIdentical - 1 /\ x \in Counted /\ x \in Counters
    BY RunTypes DEF Counted
  <1>2. r + b <= k + l /\ (n >= 2 => r + a <= SameLimit + l)
    BY DEF SameBooked, SameHeld
  <1>3. tier' = tier /\ \A u \in Threads \ {t} : todo'[u] = todo[u]
    BY ByOp, Motions
  <1>4. /\ b \in Nat /\ bp \in Nat /\ a \in Nat /\ ap \in Nat /\ bp <= b + 1
        /\ (BookedAs(n, x, todo'[t]) => BookedAs(n, x, todo[t])) => bp <= b
        /\ BookedAs(n, x, todo[t]) /\ ~BookedAs(n, x, todo'[t]) => bp <= b - 1
        /\ (AdmittedAs(x, todo'[t]) => AdmittedAs(x, todo[t])) => ap <= a
        /\ AdmittedAs(x, todo[t]) /\ ~AdmittedAs(x, todo'[t]) => ap <= a - 1
        /\ BookedAs(n, x, todo[t]) => ap <= b
    BY <1>3, SameGroups
  <1>5. x # Total
    BY MarksAre
  <1>0. SUFFICES Kept
    <2>1. SameLimit' = SameLimit
      BY DEF SameLimit, AtLeast
    <2> QED
      BY <1>3, <2>1 DEF SameBooked, SameHeld
  <1>6. CASE Passes(n, t)
    <2>1. rp = r /\ kp = k /\ lp = l
      BY <1>1, <1>6, Numbers
    <2>2. bp <= b /\ ap <= a
      BY <1>4, <1>6 DEF Passes, Eases
    <2> QED
      BY <1>1, <1>2, <1>4, <2>1, <2>2
  <1>7. CASE Totals(n, t)
    <2>1. rp = r /\ kp = k /\ lp = l
      BY <1>1, <1>5, <1>7, Numbers
    <2>2. bp <= b /\ ap <= a
      BY <1>4, <1>7 DEF Totals
    <2> QED
      BY <1>1, <1>2, <1>4, <2>1, <2>2
  <1>8. CASE Ceils(n, t)
    <2>1. rp = r /\ kp = k /\ lp = l
      BY <1>1, <1>8, Numbers
    <2>2. bp <= b /\ ap <= a
      BY <1>4, <1>8 DEF Ceils
    <2> QED
      BY <1>1, <1>2, <1>4, <2>1, <2>2
  <1>9. ASSUME NEW y \in Recorded, Repeats(n, t, y) PROVE Kept
    <2>0. ap <= a
      BY <1>4, <1>9 DEF Repeats
    <2>1. CASE y = x
      <3>1. rp = r /\ kp + lp >= k + l + 1 /\ lp >= l /\ kp \in Int /\ lp \in Nat
        BY <1>9, <2>1, Numbers
        <3> QED
        BY <1>1, <1>2, <1>4, <2>0, <3>1
    <2>2. CASE y # x
      <3>1. rp = r /\ kp = k /\ lp = l
        BY <1>1, <1>9, <2>2, Numbers
      <3>2. bp <= b
        BY <1>4, <1>9, <2>2 DEF Repeats
        <3> QED
        BY <1>1, <1>2, <1>4, <2>0, <3>1, <3>2
    <2> QED
      BY <2>1, <2>2
  <1>10. ASSUME NEW y \in Recorded, Limits(n, t, y) PROVE Kept
    <2>1. rp = r /\ kp = k /\ lp = l
      BY <1>1, <1>10, Numbers
    <2>2. CASE y = x
      <3>1. bp <= b /\ ap <= b /\ (n >= 2 => ap <= a \/ ~(k > MaxIdentical - 1))
        BY <1>4, <1>10, <2>2 DEF Limits
        <3> QED
        BY <1>1, <1>2, <1>4, <2>1, <3>1
    <2>3. CASE y # x
      <3>1. bp <= b /\ ap <= a
        BY <1>4, <1>10, <2>3 DEF Limits
        <3> QED
        BY <1>1, <1>2, <1>4, <2>1, <3>1
    <2> QED
      BY <2>2, <2>3
  <1>11. ASSUME NEW y \in Recorded, Runs(n, t, y) PROVE Kept
    <2>1. kp = k /\ lp = l
      BY <1>11, Numbers
    <2>2. CASE y = x
      <3>1. rp = r + 1
        BY <1>11, <2>2, Numbers
      <3>2. bp <= b - 1 /\ ap <= a - 1
        BY <1>4, <1>11, <2>2 DEF Runs
        <3> QED
        BY <1>1, <1>2, <1>4, <2>1, <3>1, <3>2
    <2>3. CASE y # x
      <3>1. rp = r
        BY <1>11, <2>3, Numbers
      <3>2. bp <= b /\ ap <= a
        BY <1>4, <1>11 DEF Runs
        <3> QED
        BY <1>1, <1>2, <1>4, <2>1, <3>1, <3>2
    <2> QED
      BY <2>2, <2>3
  <1> HIDE DEF Kept
  <1> QED
    BY <1>6, <1>7, <1>8, <1>9, <1>10, <1>11 DEF Effect

LEMMA CeilingStays ==
  ASSUME CeilingInv, UNCHANGED <<tier, todo, count, lost, ran>>
  PROVE  CeilingInv'
  <1>1. tier' = tier /\ todo' = todo /\ count' = count /\ lost' = lost /\ ran' = ran
    OBVIOUS
  <1>2. SameLimit' = SameLimit
    BY DEF SameLimit, AtLeast
  <1>3. \A t \in Threads : Placed(tier', todo'[t])
    BY <1>1 DEF CeilingInv
  <1>4. TotalBooked' /\ TotalHeld'
    BY <1>1, Zenon DEF CeilingInv, TotalBooked, TotalHeld, RunInAll, Bookers, Admittees
  <1>5. \A x \in Recorded : SameBooked(x)' /\ SameHeld(x)'
    BY <1>1, <1>2, Zenon DEF CeilingInv, SameBooked, SameHeld, BookersAs, AdmitteesAs
  <1> QED
    BY <1>3, <1>4, <1>5 DEF CeilingInv

LEMMA CeilingStatement ==
  ASSUME EngineAssumption, EngineTypes, EngineTypes', CeilingInv, NEW t \in Threads, Statement(t)
  PROVE  CeilingInv'
  <1>1. CASE GoInto(t)
    BY <1>1, CeilingStays DEF GoInto
  <1>2. CASE ~GoInto(t)
    <2>1. PICK n : n = tier
      OBVIOUS
    <2>2. tier' = n /\ \A u \in Threads \ {t} : todo'[u] = todo[u]
      BY <1>2, <2>1, ByOp, Motions
    <2>3. \A u \in Threads : Placed(n, todo[u])
      BY <2>1 DEF CeilingInv
    <2>4. Placed(n, todo'[t]) /\ Effect(n, t)
      BY <1>2, <2>3, PlacedMoves DEF Effect
    <2>5. \A u \in Threads : Placed(tier', todo'[u])
      BY <2>2, <2>3, <2>4
    <2>6. TotalBooked' /\ TotalHeld'
      BY <1>2, <2>1, <2>4, TotalKept DEF CeilingInv
    <2>7. ASSUME NEW x \in Recorded PROVE SameBooked(x)' /\ SameHeld(x)'
      <3>1. SameBooked(x) /\ SameHeld(x)
        BY DEF CeilingInv
      <3> QED
        BY <1>2, <2>1, <2>4, <3>1, SameKept
    <2> QED
      BY <2>5, <2>6, <2>7 DEF CeilingInv
  <1> QED
    BY <1>1, <1>2

LEMMA CeilingStart ==
  ASSUME EngineAssumption, NEW first, InitialState(first)
  PROVE  CeilingInv
  <1>1. /\ count = [c \in Counters |-> 0] /\ lost = [c \in Counters |-> 0] /\ ran = [c \in Counters |-> 0]
        /\ todo = [t \in Threads |-> <<>>]
    BY DEF InitialState
  <1>2. <<>> \in Clear
    BY EmptySeq DEF Clear, Aside
  <1>3. \A t \in Threads : todo[t] \in Clear
    BY <1>1, <1>2
  <1>4. \A t \in Threads : /\ ~Booked(tier, todo[t]) /\ ~Admitted(tier, todo[t])
                           /\ \A x \in Recorded : ~BookedAs(tier, x, todo[t]) /\ ~AdmittedAs(x, todo[t])
    <2> TAKE t \in Threads
    <2>1. PICK s : s = todo[t] /\ s \in Clear
      BY <1>3
    <2>2. ASSUME NEW x \in Recorded
          PROVE  /\ ~Booked(tier, s) /\ ~Admitted(tier, s)
                 /\ ~BookedAs(tier, x, s) /\ ~AdmittedAs(x, s)
      BY <2>1, Places
    <2>3. Recorded = {} => ~Booked(tier, s) /\ ~Admitted(tier, s)
      BY DEF Booked, Admitted
    <2> QED
      BY <2>1, <2>2, <2>3
  <1>5. Bookers = {} /\ Admittees = {} /\ \A x \in Recorded : BookersAs(x) = {} /\ AdmitteesAs(x) = {}
    BY <1>4 DEF Bookers, Admittees, BookersAs, AdmitteesAs
  <1>6. Recorded \subseteq Counters /\ IsFiniteSet(Recorded) /\ Total \in Counters
    <2>1. Recorded \subseteq Counters
      BY DEF Recorded
    <2> QED
      BY <2>1, FS_Subset DEF EngineAssumption, Total
  <1>7. RunInAll = 0
    <2> DEFINE f == [c \in Recorded |-> ran[c]]
    <2>1. f = [c \in Recorded |-> 0]
      BY <1>1, <1>6
    <2> HIDE DEF f
    <2>2. SumOf(f) = 0
      BY <1>6, <2>1, SumOfNone
    <2> QED
      BY <2>2 DEF RunInAll, f
  <1>8. count[Total] = 0 /\ lost[Total] = 0 /\ \A x \in Recorded : ran[x] = 0 /\ count[x] = 0 /\ lost[x] = 0
    BY <1>1, <1>6
  <1>9. SameLimit >= 0 /\ SameLimit \in Int /\ MaxToolCalls \in Nat
    BY DEF EngineAssumption, SameLimit, AtLeast
  <1>10. TotalBooked /\ TotalHeld
    BY <1>5, <1>7, <1>8, <1>9, FS_EmptySet DEF TotalBooked, TotalHeld
  <1>11. ASSUME NEW x \in Recorded PROVE SameBooked(x) /\ SameHeld(x)
    <2>1. BookersAs(x) = {} /\ AdmitteesAs(x) = {} /\ ran[x] = 0 /\ count[x] = 0 /\ lost[x] = 0
      BY <1>5, <1>8
    <2>2. Cardinality(BookersAs(x)) = 0 /\ Cardinality(AdmitteesAs(x)) = 0
      BY <2>1, FS_EmptySet
    <2> QED
      BY <1>9, <2>1, <2>2 DEF SameBooked, SameHeld
  <1>12. \A t \in Threads : Placed(tier, todo[t])
    BY <1>3 DEF Placed
  <1> QED
    BY <1>10, <1>11, <1>12 DEF CeilingInv

\* A call that begins has nothing to do with the counters, or records first.
LEMMA CeilingBegins ==
  ASSUME EngineAssumption, EngineTypes, CeilingInv, NEW t \in Threads, NEW name, NEW gate, NEW body,
         Begin(t, name, gate, body), NEW n, n = tier,
         NEW s, s = PastHandlers(body), s \in Clear \/ \E x \in Recorded : s \in Recording(n, x)
  PROVE  CeilingInv'
  <1>1. /\ todo' = [todo EXCEPT ![t] = s] /\ tier' = n
        /\ count' = count /\ lost' = lost /\ ran' = ran
    BY DEF Begin, counting
  <1>2. todo'[t] = s /\ \A u \in Threads \ {t} : todo'[u] = todo[u]
    <2>1. todo \in [Threads -> Remainder]
      BY DEF EngineTypes, TodoTypes
    <2> QED
      BY <1>1, <2>1
  <1>3. ~Booked(n, s) /\ ~Admitted(n, s) /\ \A x \in Recorded : ~BookedAs(n, x, s) /\ ~AdmittedAs(x, s)
    <2>1. CASE s \in Clear
      <3>1. ASSUME NEW x \in Recorded
            PROVE  ~Booked(n, s) /\ ~Admitted(n, s) /\ ~BookedAs(n, x, s) /\ ~AdmittedAs(x, s)
        BY <2>1, Places
      <3>2. Recorded = {} => ~Booked(n, s) /\ ~Admitted(n, s)
        BY DEF Booked, Admitted
      <3> QED
        BY <3>1, <3>2
    <2>2. ASSUME NEW x \in Recorded, s \in Recording(n, x)
          PROVE  ~Booked(n, s) /\ ~Admitted(n, s) /\ \A y \in Recorded : ~BookedAs(n, y, s) /\ ~AdmittedAs(y, s)
      BY <2>2, Places
    <2> QED
      BY <2>1, <2>2
  <1>4. tier' = tier
    BY <1>1
  <1>5. /\ Cardinality(Bookers') <= Cardinality(Bookers) /\ Cardinality(Admittees') <= Cardinality(Admittees)
        /\ Cardinality(Bookers) \in Nat /\ Cardinality(Bookers') \in Nat
        /\ Cardinality(Admittees) \in Nat /\ Cardinality(Admittees') \in Nat
    BY <1>2, <1>3, <1>4, TotalGroups
  <1>6. RunInAll' = RunInAll
    BY <1>1, Zenon DEF RunInAll
  <1>7. /\ RunInAll \in Nat /\ count[Total] \in Int /\ lost[Total] \in Nat /\ MaxToolCalls \in Nat /\ SameLimit \in Nat
        /\ \A x \in Recorded : count[x] \in Int /\ lost[x] \in Nat /\ ran[x] \in Nat
    BY RunTypes
  <1>8. TotalBooked' /\ TotalHeld'
    BY <1>1, <1>5, <1>6, <1>7 DEF CeilingInv, TotalBooked, TotalHeld
  <1>9. ASSUME NEW x \in Recorded PROVE SameBooked(x)' /\ SameHeld(x)'
    <2>1. /\ Cardinality(BookersAs(x)') <= Cardinality(BookersAs(x))
          /\ Cardinality(AdmitteesAs(x)') <= Cardinality(AdmitteesAs(x))
          /\ Cardinality(BookersAs(x)) \in Nat /\ Cardinality(BookersAs(x)') \in Nat
          /\ Cardinality(AdmitteesAs(x)) \in Nat /\ Cardinality(AdmitteesAs(x)') \in Nat
      <3>1. ~BookedAs(n, x, todo'[t]) /\ ~AdmittedAs(x, todo'[t])
        BY <1>2, <1>3
      <3> QED
        BY <1>2, <1>4, <3>1, SameGroups
    <2>2. SameBooked(x) /\ SameHeld(x) /\ SameLimit' = SameLimit
      BY DEF CeilingInv, SameLimit, AtLeast
    <2> QED
      BY <1>1, <1>7, <2>1, <2>2 DEF SameBooked, SameHeld
  <1>10. \A u \in Threads : Placed(tier', todo'[u])
    <2>1. Placed(n, s)
      BY DEF Placed
    <2> QED
      BY <1>1, <1>2, <2>1 DEF CeilingInv
  <1> QED
    BY <1>8, <1>9, <1>10 DEF CeilingInv

LEMMA CeilingSays ==
  ASSUME EngineAssumption, EngineTypes, CeilingInv
  PROVE  CeilingHolds
  <1>1. IsFiniteSet(Threads)
    BY DEF EngineAssumption
  <1>2. IsFiniteSet(Admittees) /\ \A x \in Recorded : IsFiniteSet(AdmitteesAs(x))
    BY <1>1, FS_Subset DEF Admittees, AdmitteesAs
  <1>3. Cardinality(Admittees) \in Nat /\ \A x \in Recorded : Cardinality(AdmitteesAs(x)) \in Nat
    BY <1>2, FS_CardinalityType
  <1>4. /\ RunInAll \in Nat /\ lost[Total] \in Nat /\ MaxToolCalls \in Nat /\ SameLimit \in Nat
        /\ \A x \in Recorded : lost[x] \in Nat /\ ran[x] \in Nat
    BY RunTypes
  <1>5. RunInAll <= MaxToolCalls + lost[Total]
    BY <1>3, <1>4 DEF CeilingInv, TotalHeld
  <1>6. ASSUME tier >= 2, NEW x \in Recorded PROVE ran[x] <= SameLimit + lost[x]
    <2>1. ran[x] + Cardinality(AdmitteesAs(x)) <= SameLimit + lost[x]
      BY <1>6 DEF CeilingInv, SameHeld
    <2> QED
      BY <1>3, <1>4, <2>1
  <1>7. SumOf([c \in Recorded |-> ran[c]]) <= MaxToolCalls + lost[Total]
    BY <1>5 DEF RunInAll
  <1>8. tier >= 2 => \A c \in Recorded : ran[c] <= AtLeast(0, MaxIdentical - 1) + lost[c]
    BY <1>6 DEF SameLimit
  <1> QED
    BY <1>7, <1>8 DEF CeilingHolds

(* The programs that record a call *)

LEMMA LeadThen ==
  ASSUME NEW Q, NEW Y, NEW T, NEW U, NEW s \in Lead(Q, Y, T), NEW b \in Seq(Stmt),
         \A d \in T : d \o b \in U
  PROVE  s \o b \in Lead(Q, Y, U)
  <1> DEFINE c == s \o b
  <1>1. s \in Seq(Stmt)
    BY DEF Lead
  <1>2. PICK k \in 1 .. Len(s) : /\ s[k] \in Y /\ \A i \in 1 .. k - 1 : s[i] \in Q
                                 /\ \E d \in T : Suffix(d, s, k)
    BY DEF Lead
  <1>3. PICK d \in T : Suffix(d, s, k)
    BY <1>2
  <1>4. /\ c \in Seq(Stmt) /\ Len(b) \in Nat /\ Len(s) \in Nat /\ Len(c) = Len(s) + Len(b)
        /\ \A i \in 1 .. Len(s) : c[i] = s[i]
        /\ \A i \in 1 .. Len(b) : c[Len(s) + i] = b[i]
    BY <1>1, ConcatAt
  <1>5. d \in Seq(Stmt) /\ Len(d) = Len(s) - k /\ \A i \in 1 .. Len(s) - k : d[i] = s[k + i]
    BY <1>3 DEF Suffix
  <1> DEFINE e == d \o b
  <1>6. /\ e \in Seq(Stmt) /\ Len(e) = Len(d) + Len(b)
        /\ \A i \in 1 .. Len(d) : e[i] = d[i]
        /\ \A i \in 1 .. Len(b) : e[Len(d) + i] = b[i]
    BY <1>5, ConcatAt
  <1>7. e \in U
    BY <1>3
  <1> HIDE DEF c, e
  <1>8. Suffix(e, c, k)
    <2>1. Len(e) = Len(c) - k /\ k \in 0 .. Len(c)
      BY <1>2, <1>4, <1>5, <1>6
    <2>2. ASSUME NEW i \in 1 .. Len(c) - k PROVE e[i] = c[k + i]
      <3>1. CASE i <= Len(d)
        <4>1. i \in 1 .. Len(d) /\ i \in 1 .. Len(s) - k /\ k + i \in 1 .. Len(s)
          BY <1>2, <1>4, <1>5, <3>1
        <4> QED
          BY <1>4, <1>5, <1>6, <4>1
      <3>2. CASE i > Len(d)
        <4>1. i - Len(d) \in 1 .. Len(b) /\ Len(d) + (i - Len(d)) = i /\ Len(s) + (i - Len(d)) = k + i
          BY <1>2, <1>4, <1>5, <3>2
        <4>2. e[Len(d) + (i - Len(d))] = b[i - Len(d)] /\ c[Len(s) + (i - Len(d))] = b[i - Len(d)]
          BY <1>4, <1>6, <4>1
        <4> QED
          BY <4>1, <4>2
      <3>3. Len(d) \in Nat
        BY <1>2, <1>4, <1>5
      <3> QED
        BY <1>4, <3>1, <3>2, <3>3
    <2> QED
      BY <1>6, <2>1, <2>2 DEF Suffix
  <1>9. k \in 1 .. Len(c) /\ c[k] \in Y /\ \A i \in 1 .. k - 1 : c[i] \in Q
    <2>1. \A i \in 1 .. k - 1 : i \in 1 .. Len(s)
      BY <1>2, <1>4
    <2> QED
      BY <1>2, <1>4, <2>1
  <1>10. c \in Lead(Q, Y, U)
    BY <1>4, <1>7, <1>8, <1>9 DEF Lead
  <1> QED
    BY <1>10 DEF c

LEMMA LeadPast ==
  ASSUME NEW Q, NEW Y, NEW T, Q \subseteq Plain \union Branch, Y \subseteq Plain \union Branch,
         NEW s \in Lead(Q, Y, T)
  PROVE  PastHandlers(s) = s
  <1>1. s \in Seq(Stmt) /\ \E k \in 1 .. Len(s) : s[k] \in Y /\ \A i \in 1 .. k - 1 : s[i] \in Q
    BY DEF Lead
  <1>2. PICK k \in 1 .. Len(s) : s[k] \in Y /\ \A i \in 1 .. k - 1 : s[i] \in Q
    BY <1>1
  <1>3. Len(s) \in Nat
    BY <1>1, LenProperties
  <1>4. s[1] \in Q \union Y
    <2>1. k = 1 \/ 1 \in 1 .. k - 1
      BY <1>2, <1>3
    <2> QED
      BY <1>2, <2>1
  <1>5. s[1].op # "except"
    BY <1>4, NoHandlers
  <1> DEFINE m == Len(s)
             Skips(n) == /\ \A i \in 1 .. n : s[i].op = "except"
                         /\ n = m \/ s[n + 1].op # "except"
             n == CHOOSE n \in 0 .. m : Skips(n)
  <1>6. 0 \in 0 .. m /\ Skips(0)
    BY <1>3, <1>5
  <1>7. n \in 0 .. m /\ Skips(n)
    BY <1>6
  <1>8. PastHandlers(s) = SubSeq(s, n + 1, m)
    BY DEF PastHandlers
  <1> HIDE DEF n
  <1>9. n = 0
    <2>1. n >= 1 => 1 \in 1 .. n
      BY <1>3, <1>7
    <2> QED
      BY <1>3, <1>5, <1>7, <2>1
  <1>10. SubSeq(s, 1, m) = s
    BY <1>1, SubSeqFull
  <1> QED
    BY <1>8, <1>9, <1>10

LEMMA Regroup ==
  ASSUME NEW a \in Seq(Stmt), NEW b \in Seq(Stmt), NEW c \in Seq(Stmt)
  PROVE  a \o b \in Seq(Stmt) /\ (a \o b) \o c = a \o (b \o c)
  BY ConcatAssociative, ConcatProperties

Regrouped(a, b, c) == (a \o b) \o c = a \o (b \o c)

LEMMA Regroups ==
  ASSUME NEW a \in Seq(Stmt), NEW b \in Seq(Stmt), NEW c \in Seq(Stmt)
  PROVE  Regrouped(a, b, c)
  BY ConcatAssociative DEF Regrouped

\* What leads through the counts to programs of T.
RecordingTo(n, x, T) ==
    Lead(Passing, StoreOne(Total), Lead(Passing, LimitAll,
        Lead(Passing, StoreOne(x), Lead(Passing, LimitSame(n, x), T))))

LEMMA RecordingThen ==
  ASSUME NEW n, NEW x, NEW T, NEW U, NEW s \in RecordingTo(n, x, T), NEW b \in Seq(Stmt),
         \A d \in T : d \o b \in U
  PROVE  s \o b \in RecordingTo(n, x, U)
  <1>1. \A d \in Lead(Passing, LimitSame(n, x), T) : d \o b \in Lead(Passing, LimitSame(n, x), U)
    BY LeadThen
  <1> DEFINE T1 == Lead(Passing, LimitSame(n, x), T)
             U1 == Lead(Passing, LimitSame(n, x), U)
             T2 == Lead(Passing, StoreOne(x), T1)
             U2 == Lead(Passing, StoreOne(x), U1)
             T3 == Lead(Passing, LimitAll, T2)
             U3 == Lead(Passing, LimitAll, U2)
  <1> HIDE DEF T1, U1
  <1>2. \A d \in T2 : d \o b \in U2
    BY <1>1, LeadThen DEF T1, U1
  <1> HIDE DEF T2, U2
  <1>3. \A d \in T3 : d \o b \in U3
    BY <1>2, LeadThen
  <1> HIDE DEF T3, U3
  <1>4. s \in Lead(Passing, StoreOne(Total), T3)
    BY DEF RecordingTo, T1, T2, T3
  <1>5. s \o b \in Lead(Passing, StoreOne(Total), U3)
    BY <1>3, <1>4, LeadThen
  <1> QED
    BY <1>5 DEF RecordingTo, U1, U2, U3

LEMMA FarPasses ==
  ASSUME NEW s \in Far(Counted)
  PROVE  s \in Seq(Stmt) /\ (\A i \in 1 .. Len(s) : s[i] \in Passing) /\ s \in Clear
  <1>1. s \in Seq(Plain \union Branch) /\ Aside(s, Counted)
    BY DEF Far, Branching
  <1>2. s \in Seq(Stmt)
    BY Programs DEF Far, Program
  <1>3. \A i \in 1 .. Len(s) : s[i] \in Passing
    BY <1>1, ElementOfSeq DEF Aside, Passing, Still
  <1> QED
    BY <1>1, <1>2, <1>3 DEF Clear

LEMMA RecordLeads ==
  ASSUME EngineAssumption, tier \in 1 .. 4, NEW n, n = tier, NEW x \in Recorded,
         NEW T, NEW d \in T, d \in Seq(Stmt)
  PROVE  RecordToolCall(x) \in Seq(Stmt) /\ RecordToolCall(x) \o d \in RecordingTo(n, x, T)
  <1>1. Total \in Counters /\ x \in Counters /\ MaxToolCalls \in Int /\ MaxIdentical - 1 \in Int
    <2>1. MaxToolCalls \in Nat /\ MaxIdentical \in Nat
      BY DEF EngineAssumption
    <2>2. Total \in Counters /\ x \in Counters
      BY MarksAre
    <2> QED
      BY <2>1, <2>2
  <1> DEFINE o1 == Emit("note") \o Raise("tripped")
             o2 == Emit("note") \o FailIf(2, "tripped")
             rt == [op |-> "read", of |-> Total]
             st == [op |-> "store", of |-> Total, by |-> 1, floor |-> FALSE]
             ct == [op |-> "compare", of |-> Total, limit |-> MaxToolCalls, over |-> o1, within |-> <<>>]
             f == [op |-> "frequency"]
             rx == [op |-> "read", of |-> x]
             sx == [op |-> "store", of |-> x, by |-> 1, floor |-> FALSE]
             cx == [op |-> "compare", of |-> x, limit |-> MaxIdentical - 1, over |-> o2, within |-> <<>>]
  <1>2. RecordToolCall(x) = (<<rt>> \o <<st>>) \o <<ct>> \o <<f>> \o (<<rx>> \o <<sx>>) \o <<cx>>
    <2>1. Adjust(Total, 1, FALSE) = <<rt>> \o <<st>> /\ Adjust(x, 1, FALSE) = <<rx>> \o <<sx>>
      BY AdjustIs, Zenon
    <2>2. /\ Compare(Total, MaxToolCalls, Emit("note") \o Raise("tripped"), <<>>) = <<ct>>
          /\ Compare(x, MaxIdentical - 1, Emit("note") \o FailIf(2, "tripped"), <<>>) = <<cx>>
      BY Zenon DEF Compare
    <2> HIDE DEF rt, st, ct, rx, sx, cx
    <2> QED
      BY <2>1, <2>2, Zenon DEF RecordToolCall, f
  <1>3. o1 \in Flat /\ o2 \in Flat /\ <<>> \in Flat
    <2>1. /\ o1 \in Tame({}) /\ o2 \in Tame({}) /\ <<>> \in Tame({})
      BY EmitOff, StatementsOff, OffConcat
    <2> QED
      BY <2>1 DEF Tame
  <1>4. ct \in Branch /\ ct.of = Total /\ ct.limit = MaxToolCalls /\ ct.within = <<>> /\ ct.over = o1
    <2> HIDE DEF o1
    <2> QED
      BY <1>1, <1>3 DEF Branch
  <1>5. cx \in Branch /\ cx.of = x /\ cx.limit = MaxIdentical - 1 /\ cx.within = <<>> /\ cx.over = o2
    <2> HIDE DEF o2
    <2> QED
      BY <1>1, <1>3 DEF Branch
  <1>6. rt \in Plain /\ rx \in Plain /\ f \in Plain /\ st \in Plain /\ sx \in Plain
    <2>1. 1 \in Int /\ FALSE \in BOOLEAN
      OBVIOUS
    <2> QED
      BY <1>1, <2>1 DEF Plain
  <1>7. rt.op = "read" /\ rx.op = "read" /\ f.op = "frequency"
    OBVIOUS
  <1>8. st \in StoreOne(Total) /\ sx \in StoreOne(x)
    BY DEF StoreOne
  <1>9. ct \in LimitAll
    <2> HIDE DEF ct
    <2> QED
      BY <1>4 DEF LimitAll, o1
  <1>10. cx \in LimitSame(n, x)
    <2>1. o2 = Emit("note") \o (IF n >= 2 THEN Raise("tripped") ELSE <<>>)
      BY DEF FailIf
    <2> HIDE DEF cx, o2
    <2> QED
      BY <1>5, <2>1 DEF LimitSame
  <1> HIDE DEF rt, st, ct, f, rx, sx, cx
  <1>11. /\ rt \in Stmt /\ st \in Stmt /\ ct \in Stmt /\ f \in Stmt /\ rx \in Stmt /\ sx \in Stmt /\ cx \in Stmt
    BY <1>4, <1>5, <1>6 DEF Stmt
  <1>12. /\ <<rt>> \in Seq(Stmt) /\ <<st>> \in Seq(Stmt) /\ <<ct>> \in Seq(Stmt) /\ <<f>> \in Seq(Stmt)
         /\ <<rx>> \in Seq(Stmt) /\ <<sx>> \in Seq(Stmt) /\ <<cx>> \in Seq(Stmt)
    BY <1>11
  <1>13. ASSUME NEW y \in Plain, y.op \in {"read", "frequency"}
         PROVE  \A i \in 1 .. Len(<<y>>) : <<y>>[i] \in Passing
    <2>1. Apart(y, Counted)
      BY <1>13, PlainAside
    <2>2. y \in Passing
      BY <2>1 DEF Passing, Still
    <2>3. Len(<<y>>) = 1 /\ \A i \in 1 .. 1 : i = 1
      OBVIOUS
    <2> QED
      BY <2>2, <2>3
  <1> DEFINE T1 == Lead(Passing, LimitSame(n, x), T)
             T2 == Lead(Passing, StoreOne(x), T1)
             T3 == Lead(Passing, LimitAll, T2)
             T4 == Lead(Passing, StoreOne(Total), T3)
             d1 == <<cx>> \o d
             d2 == <<sx>> \o d1
             d3 == <<rx>> \o d2
             d4 == <<f>> \o d3
             d5 == <<ct>> \o d4
             d6 == <<st>> \o d5
             d7 == <<rt>> \o d6
  <1>14. d1 \in T1 /\ d1 \in Seq(Stmt)
    BY <1>10, <1>11, LeadAt DEF Lead
  <1> HIDE DEF T1, d1
  <1>15. d2 \in T2 /\ d2 \in Seq(Stmt)
    BY <1>8, <1>11, <1>14, LeadAt DEF Lead
  <1> HIDE DEF d2
  <1>16. d3 \in T2 /\ d3 \in Seq(Stmt)
    <2>1. \A i \in 1 .. Len(<<rx>>) : <<rx>>[i] \in Passing
      BY <1>6, <1>7, <1>13
    <2> QED
      BY <1>12, <1>15, <2>1, LeadOn DEF Lead
  <1> HIDE DEF d3
  <1>17. d4 \in T2 /\ d4 \in Seq(Stmt)
    <2>1. \A i \in 1 .. Len(<<f>>) : <<f>>[i] \in Passing
      BY <1>6, <1>7, <1>13
    <2> QED
      BY <1>12, <1>16, <2>1, LeadOn DEF Lead
  <1> HIDE DEF T2, d4
  <1>18. d5 \in T3 /\ d5 \in Seq(Stmt)
    BY <1>9, <1>11, <1>17, LeadAt DEF Lead
  <1> HIDE DEF T3, d5
  <1>19. d6 \in T4 /\ d6 \in Seq(Stmt)
    BY <1>8, <1>11, <1>18, LeadAt DEF Lead
  <1> HIDE DEF d6
  <1>20. d7 \in T4
    <2>1. \A i \in 1 .. Len(<<rt>>) : <<rt>>[i] \in Passing
      BY <1>6, <1>7, <1>13
    <2> QED
      BY <1>12, <1>19, <2>1, LeadOn DEF Lead
  <1> DEFINE p1 == <<rt>> \o <<st>>
             p2 == p1 \o <<ct>>
             p3 == p2 \o <<f>>
             q == <<rx>> \o <<sx>>
             p4 == p3 \o q
             p5 == p4 \o <<cx>>
  <1>21. p1 \in Seq(Stmt) /\ q \in Seq(Stmt)
    BY <1>12, ConcatProperties
  <1>22. p1 \o d5 = d7
    <2> DEFINE a == <<rt>>
               b == <<st>>
    <2>1. a \in Seq(Stmt) /\ b \in Seq(Stmt) /\ d5 \in Seq(Stmt)
      BY <1>12, <1>18
    <2> HIDE DEF a, b
    <2>2. Regrouped(a, b, d5)
      BY <2>1, Regroups
    <2> QED
      BY <2>2, Zenon DEF Regrouped, a, b, d6, d7
  <1>23. q \o d1 = d3
    <2> DEFINE a == <<rx>>
               b == <<sx>>
    <2>1. a \in Seq(Stmt) /\ b \in Seq(Stmt) /\ d1 \in Seq(Stmt)
      BY <1>12, <1>14
    <2> HIDE DEF a, b
    <2>2. Regrouped(a, b, d1)
      BY <2>1, Regroups
    <2> QED
      BY <2>2, Zenon DEF Regrouped, a, b, d2, d3
  <1> HIDE DEF p1, q
  <1>24. p2 \in Seq(Stmt) /\ p2 \o d4 = d7
    <2>1. p2 \in Seq(Stmt) /\ p2 \o d4 = p1 \o (<<ct>> \o d4)
      <3>1. <<ct>> \in Seq(Stmt) /\ d4 \in Seq(Stmt) /\ p1 \in Seq(Stmt)
        BY <1>12, <1>17, <1>21
      <3>2. (p1 \o <<ct>>) \o d4 = p1 \o (<<ct>> \o d4) /\ p1 \o <<ct>> \in Seq(Stmt)
        BY <3>1, Regroup, Zenon
      <3> QED
        BY <3>2
    <2> QED
      BY <1>22, <2>1 DEF d5
  <1> HIDE DEF p2
  <1>25. p3 \in Seq(Stmt) /\ p3 \o d3 = d7
    <2>1. p3 \in Seq(Stmt) /\ p3 \o d3 = p2 \o (<<f>> \o d3)
      <3>1. <<f>> \in Seq(Stmt) /\ d3 \in Seq(Stmt) /\ p2 \in Seq(Stmt)
        BY <1>12, <1>16, <1>24
      <3>2. (p2 \o <<f>>) \o d3 = p2 \o (<<f>> \o d3) /\ p2 \o <<f>> \in Seq(Stmt)
        BY <3>1, Regroup, Zenon
      <3> QED
        BY <3>2
    <2> QED
      BY <1>24, <2>1 DEF d4
  <1> HIDE DEF p3
  <1>26. p4 \in Seq(Stmt) /\ p4 \o d1 = d7
    <2>1. p4 \in Seq(Stmt) /\ p4 \o d1 = p3 \o (q \o d1)
      BY <1>14, <1>21, <1>25, Regroup
    <2> QED
      BY <1>23, <1>25, <2>1
  <1> HIDE DEF p4
  <1>27. p5 \in Seq(Stmt) /\ p5 \o d = d7
    <2>1. p5 \in Seq(Stmt) /\ p5 \o d = p4 \o (<<cx>> \o d)
      <3>1. <<cx>> \in Seq(Stmt) /\ d \in Seq(Stmt) /\ p4 \in Seq(Stmt)
        BY <1>12, <1>26
      <3>2. (p4 \o <<cx>>) \o d = p4 \o (<<cx>> \o d) /\ p4 \o <<cx>> \in Seq(Stmt)
        BY <3>1, Regroup, Zenon
      <3> QED
        BY <3>2
    <2> QED
      BY <1>26, <2>1 DEF d1
  <1>28. RecordToolCall(x) = p5
    BY <1>2 DEF p1, p2, p3, p4, q
  <1> HIDE DEF p5
  <1> QED
    BY <1>20, <1>27, <1>28 DEF RecordingTo, T1, T2, T3

\* What the ceilings count, and what they do not.
LEMMA CountedIs ==
  /\ {Depth, Scans, Turns, Ops, ScenarioOps, AgentTurns, External, Hops} \cap Counted = {}
  /\ ChainErrors \notin Counted /\ Tool \notin Counted /\ Memory \notin Counted /\ CrewTool \notin Counted
  /\ \A n : NodeCalls(n) \notin Counted /\ NodeErrors(n) \notin Counted /\ TaskCalls(n) \notin Counted
  /\ \A n : /\ SameNode(n) \in Counters => SameNode(n) \in Recorded
            /\ SameInput(n) \in Counters => SameInput(n) \in Recorded
            /\ SameTask(n) \in Counters => SameTask(n) \in Recorded
            /\ SameAgent(n) \in Counters => SameAgent(n) \in Recorded
  <1> DEFINE Same == {"same node", "same input", "same task", "same agent"}
  <1>1. \A c : c[1] \notin Same /\ c[1] # "total" => c \notin Counted
    <2>1. \A c \in Recorded : c[1] \in Same
      BY Zenon DEF Recorded
    <2>2. Total[1] = "total"
      BY DEF Total
    <2> HIDE DEF Same
    <2> QED
      BY <2>1, <2>2, Zenon DEF Counted
  <1>2. \A s \in {"depth", "scans", "turns", "ops", "external", "hops", "chain errors", "unrecorded",
                  "node", "node errors", "task"} : s \notin Same /\ s # "total"
    BY Zenon
  <1>3. ASSUME NEW s \in {"depth", "scans", "turns", "ops", "external", "hops", "chain errors", "unrecorded",
                          "node", "node errors", "task"}, NEW i
        PROVE  <<s, i>> \notin Counted
    <2>1. <<s, i>>[1] = s
      OBVIOUS
    <2>2. s \notin Same /\ s # "total"
      BY <1>2, <1>3, Zenon
    <2> HIDE DEF Same
    <2> QED
      BY <1>1, <2>1, <2>2, Zenon
  <1>4. ASSUME NEW s \in Same, NEW i, <<s, i>> \in Counters
        PROVE  <<s, i>> \in Recorded
    <2>1. <<s, i>>[1] = s
      OBVIOUS
    <2> QED
      BY <1>4, <2>1, Zenon DEF Recorded
  <1>5. /\ Depth \notin Counted /\ Scans \notin Counted /\ Turns \notin Counted /\ Ops \notin Counted
        /\ ScenarioOps \notin Counted /\ AgentTurns \notin Counted /\ External \notin Counted
        /\ Hops \notin Counted
    BY <1>3, Zenon DEF Depth, Scans, Turns, Ops, ScenarioOps, AgentTurns, External, Hops
  <1>6. ChainErrors \notin Counted /\ Tool \notin Counted /\ Memory \notin Counted /\ CrewTool \notin Counted
    BY <1>3, Zenon DEF ChainErrors, Tool, Memory, CrewTool
  <1>7. \A n : NodeCalls(n) \notin Counted /\ NodeErrors(n) \notin Counted /\ TaskCalls(n) \notin Counted
    BY <1>3, Zenon DEF NodeCalls, NodeErrors, TaskCalls
  <1>8. \A n : /\ SameNode(n) \in Counters => SameNode(n) \in Recorded
               /\ SameInput(n) \in Counters => SameInput(n) \in Recorded
               /\ SameTask(n) \in Counters => SameTask(n) \in Recorded
               /\ SameAgent(n) \in Counters => SameAgent(n) \in Recorded
    BY <1>4, Zenon DEF SameNode, SameInput, SameTask, SameAgent
  <1> QED
    BY <1>5, <1>6, <1>7, <1>8

\* A call that has nothing to do with the ceilings, or one that records.
Books(t) ==
    \E name, gate, body :
        /\ Begin(t, name, gate, body)
        /\ body \in Off(Counted) \/ \E x \in Recorded : body \in Recording(tier, x)

LEMMA AvoidsBooks ==
  ASSUME NEW t, Avoids(t, Counted)
  PROVE  Books(t)
  BY DEF Avoids, Books

LEMMA OffBooks ==
  ASSUME NEW t, NEW name, NEW gate, NEW body \in Far(Counted) \union Off(Counted), Begin(t, name, gate, body)
  PROVE  Books(t)
  BY OffConcat DEF Books

LEMMA RecordingBooks ==
  ASSUME NEW t, NEW name, NEW gate, NEW x \in Recorded, NEW body \in Recording(tier, x),
         Begin(t, name, gate, body)
  PROVE  Books(t)
  BY DEF Books

LEMMA BooksKeep ==
  ASSUME EngineAssumption, EngineTypes, CeilingInv, NEW t \in Threads, Books(t)
  PROVE  CeilingInv'
  <1>1. PICK name, gate, body : /\ Begin(t, name, gate, body)
                                /\ body \in Off(Counted) \/ \E x \in Recorded : body \in Recording(tier, x)
    BY DEF Books
  <1>2. PICK s : s = PastHandlers(body)
    OBVIOUS
  <1>3. CASE body \in Off(Counted)
    <2>1. body \in Remainder /\ Aside(body, Counted)
      BY <1>3, Programs DEF Off
    <2>2. s \in Remainder /\ Aside(s, Counted)
      BY <1>2, <2>1, PastAside, PastHandlersJoined
    <2>3. s \in Clear
      BY <2>2 DEF Clear, Remainder
    <2> QED
      BY <1>1, <1>2, <2>3, CeilingBegins
  <1>4. ASSUME NEW x \in Recorded, body \in Recording(tier, x) PROVE CeilingInv'
    <2>1. Passing \subseteq Plain \union Branch
      BY DEF Passing, Still
    <2>2. StoreOne(Total) \subseteq Plain \union Branch
      <3>1. StoreOne(Total) \subseteq Plain
        BY MarksAre
      <3> QED
        BY <3>1
    <2>3. PastHandlers(body) = body
      BY <1>4, <2>1, <2>2, LeadPast DEF Recording
    <2>4. s \in Recording(tier, x)
      BY <1>2, <1>4, <2>3
    <2> QED
      BY <1>1, <1>2, <2>4, CeilingBegins
  <1> QED
    BY <1>1, <1>3, <1>4

\* Pieces of the programs that record.
ThenMore(n, x) == RecordingTo(n, x, Far(Counted))
ThenRun(n, x) == RecordingTo(n, x, Executing(x))

LEMMA RecordingParts ==
  ASSUME EngineAssumption, tier \in 1 .. 4, NEW n, n = tier, NEW x \in Recorded
  PROVE  /\ RecordToolCall(x) \in ThenMore(n, x)
         /\ \A s \in ThenMore(n, x) : s \in Recording(n, x)
         /\ \A s \in ThenRun(n, x) : s \in Recording(n, x)
         /\ \A s \in ThenMore(n, x), b \in Far(Counted) : s \o b \in ThenMore(n, x)
         /\ \A s \in ThenMore(n, x), b \in Executing(x) : s \o b \in ThenRun(n, x)
         /\ \A s \in ThenRun(n, x), b \in Clear : s \o b \in ThenRun(n, x)
         /\ \A s \in ThenMore(n, x), b \in Far(Counted) : b \o s \in ThenMore(n, x)
         /\ \A b \in Clear : Execute(x) \o b \in Executing(x)
         /\ Execute(x) \in Executing(x)
  <1>1. RecordToolCall(x) \in ThenMore(n, x)
    <2>1. <<>> \in Far(Counted) /\ <<>> \in Seq(Stmt)
      BY OffConcat
    <2>2. /\ RecordToolCall(x) \in Seq(Stmt)
          /\ RecordToolCall(x) \o <<>> \in RecordingTo(n, x, Far(Counted))
      BY <2>1, RecordLeads
    <2> QED
      BY <2>2, ConcatEmptySeq DEF ThenMore
  <1>2. \A T, U : T \subseteq U => RecordingTo(n, x, T) \subseteq RecordingTo(n, x, U)
    <2>1. ASSUME NEW Q, NEW Y, NEW T, NEW U, T \subseteq U PROVE Lead(Q, Y, T) \subseteq Lead(Q, Y, U)
      BY <2>1, Zenon DEF Lead
    <2> SUFFICES ASSUME NEW T, NEW U, T \subseteq U PROVE RecordingTo(n, x, T) \subseteq RecordingTo(n, x, U)
      OBVIOUS
    <2>2. Lead(Passing, LimitSame(n, x), T) \subseteq Lead(Passing, LimitSame(n, x), U)
      BY <2>1
    <2>3. Lead(Passing, StoreOne(x), Lead(Passing, LimitSame(n, x), T))
             \subseteq Lead(Passing, StoreOne(x), Lead(Passing, LimitSame(n, x), U))
      BY <2>1, <2>2
    <2>4. Lead(Passing, LimitAll, Lead(Passing, StoreOne(x), Lead(Passing, LimitSame(n, x), T)))
             \subseteq Lead(Passing, LimitAll, Lead(Passing, StoreOne(x), Lead(Passing, LimitSame(n, x), U)))
      BY <2>1, <2>3
    <2> QED
      BY <2>1, <2>4 DEF RecordingTo
  <1>3. Recording(n, x) = RecordingTo(n, x, Executing(x) \union Clear)
    BY DEF Recording, Totalling, Repeating, Limiting, RecordingTo
  <1>4. Far(Counted) \subseteq Executing(x) \union Clear /\ Executing(x) \subseteq Executing(x) \union Clear
    BY FarPasses
  <1>5. /\ \A s \in ThenMore(n, x) : s \in Recording(n, x)
        /\ \A s \in ThenRun(n, x) : s \in Recording(n, x)
    BY <1>2, <1>3, <1>4 DEF ThenMore, ThenRun
  <1>6. \A s \in ThenMore(n, x), b \in Far(Counted) : s \o b \in ThenMore(n, x)
    <2>1. \A d, b \in Far(Counted) : d \o b \in Far(Counted) /\ b \in Seq(Stmt)
      BY OffConcat, FarPasses
    <2> QED
      BY <2>1, RecordingThen DEF ThenMore
  <1>7. \A s \in ThenMore(n, x), b \in Executing(x) : s \o b \in ThenRun(n, x)
    <2>1. \A d \in Far(Counted), b \in Executing(x) : d \o b \in Executing(x) /\ b \in Seq(Stmt)
      <3> SUFFICES ASSUME NEW d \in Far(Counted), NEW b \in Executing(x)
                   PROVE  d \o b \in Executing(x) /\ b \in Seq(Stmt)
        OBVIOUS
      <3>1. d \in Seq(Stmt) /\ \A i \in 1 .. Len(d) : d[i] \in Passing
        BY FarPasses
      <3> QED
        BY <3>1, LeadOn DEF Executing, Lead
    <2>2. ASSUME NEW s \in RecordingTo(n, x, Far(Counted)), NEW b \in Executing(x)
          PROVE  s \o b \in RecordingTo(n, x, Executing(x))
      <3>1. b \in Seq(Stmt)
        BY DEF Executing, Lead
      <3>2. \A d \in Far(Counted) : d \o b \in Executing(x)
        BY <2>1
      <3> QED
        BY <3>1, <3>2, RecordingThen
    <2> QED
      BY <2>2 DEF ThenMore, ThenRun
  <1>8. \A s \in ThenRun(n, x), b \in Clear : s \o b \in ThenRun(n, x)
    <2>1. \A d, b \in Clear : d \o b \in Clear /\ b \in Seq(Stmt)
      BY AsideConcat, ConcatProperties DEF Clear
    <2>2. \A d \in Executing(x), b \in Clear : d \o b \in Executing(x)
      BY <2>1, LeadThen DEF Executing
    <2> QED
      BY <2>1, <2>2, RecordingThen DEF ThenRun
  <1>9. \A s \in ThenMore(n, x), b \in Far(Counted) : b \o s \in ThenMore(n, x)
    <2> SUFFICES ASSUME NEW s \in ThenMore(n, x), NEW b \in Far(Counted) PROVE b \o s \in ThenMore(n, x)
      OBVIOUS
    <2>1. b \in Seq(Stmt) /\ \A i \in 1 .. Len(b) : b[i] \in Passing
      BY FarPasses
    <2> QED
      BY <2>1, LeadOn DEF ThenMore, RecordingTo
  <1>10. \A b \in Clear : Execute(x) \o b \in Executing(x)
    <2> SUFFICES ASSUME NEW b \in Clear PROVE Execute(x) \o b \in Executing(x)
      OBVIOUS
    <2> DEFINE y == [op |-> "run", of |-> x]
    <2>1. y \in RunOf(x) /\ Execute(x) = <<y>>
      BY DEF RunOf, Execute
    <2>2. RunOf(x) \subseteq Plain
      BY MarksAre
    <2> HIDE DEF y
    <2>3. y \in Stmt /\ b \in Seq(Stmt)
      BY <2>1, <2>2 DEF Stmt, Clear
    <2>4. <<y>> \o b \in Lead(Passing, RunOf(x), Clear)
      BY <2>1, <2>3, LeadAt
    <2> QED
      BY <2>1, <2>4 DEF Executing
  <1>11. Execute(x) \in Executing(x)
    <2>1. <<>> \in Clear
      BY EmptySeq DEF Clear, Aside
    <2>2. Execute(x) \in Seq(Stmt)
      <3>1. x \in Counters
        BY MarksAre
      <3>2. Execute(x) \in Branching
        BY <3>1, StatementsFit DEF Silent
      <3> QED
        BY <3>2, Programs DEF Program
    <2> QED
      BY <1>10, <2>1, <2>2, ConcatEmptySeq
  <1> QED
    BY <1>1, <1>5, <1>6, <1>7, <1>8, <1>9, <1>10, <1>11

LEMMA CheckedRecords ==
  ASSUME EngineAssumption, LangGraphAssumption, LangGraphCounters, tier \in 1 .. 4,
         NEW n \in Nodes, NEW u, NEW x, x = SameNode(n)
  PROVE  x \in Recorded /\ Checked(n, u) \in ThenRun(tier, x)
  <1>1. /\ NodeCalls(n) \in Counters /\ SameNode(n) \in Counters /\ NodeErrors(n) \in Counters
        /\ MaxNodeCalls \in Int /\ 1 \in Int /\ FALSE \in BOOLEAN
    BY DEF LangGraphCounters, LangGraphAssumption
  <1>2. x \in Recorded /\ NodeCalls(n) \notin Counted /\ NodeErrors(n) \notin Counted
    BY <1>1, CountedIs
  <1> DEFINE D == Counted
             a == Adjust(NodeCalls(n), 1, FALSE)
             c == Compare(NodeCalls(n), MaxNodeCalls, Emit("note") \o FailIf(2, "tripped"), <<>>)
             r == RecordToolCall(SameNode(n))
             h == RecordChainError(NodeErrors(n)) \o Raise("other")
             e == Try(Execute(SameNode(n)), {"other"}, h)
             g1 == GuardState(u)
             g2 == GuardRouting(u)
             g3 == GuardUrls(u)
             g4 == CheckHearGate(u.classH)
  <1> HIDE DEF D
  <1>3. Emit("note") \o FailIf(2, "tripped") \in Tame(D) /\ <<>> \in Tame(D) /\ <<>> \in Far(D)
    BY EmitOff, StatementsOff, OffConcat
  <1>4. a \in Far(D) /\ c \in Far(D) /\ SnapshotState \in Far(D) /\ a \o c \in Far(D)
    <2>1. a \in Far(D)
      BY <1>1, <1>2, AdjustOff, OffConcat DEF D
    <2>2. c \in Far(D)
      BY <1>1, <1>2, <1>3, CompareOff DEF D
    <2> QED
      BY <2>1, <2>2, StatementsOff, OffConcat
  <1>5. FailIf(3, "violation") \in Far(D) /\ \A y : \A b \in Far(D) : When(y, b) \in Far(D)
    BY StatementsOff, OffConcat DEF When
  <1>6. g1 \in Far(D)
    BY <1>5, EngineOff, OffConcat DEF GuardState
  <1>7. g2 \in Far(D)
    <2>1. Scan(1) \o Block("violation") \in Far(D)
      BY EngineOff, OffConcat
    <2> QED
      BY <1>5, <2>1, EngineOff, OffConcat DEF GuardRouting
  <1>8. g3 \in Off(D)
    <2>1. CheckDomain(u.private, u.unlisted) \in Far(D)
      BY EngineOff
    <2>2. {"violation"} \in SUBSET Raisable
      BY DEF Raisable
    <2>3. Try(CheckDomain(u.private, u.unlisted), {"violation"}, <<>>) \in Off(D)
      BY <1>3, <2>1, <2>2, TryOff
    <2> QED
      BY <2>1, <2>3, OffConcat DEF GuardUrls
  <1>9. g4 \in Far(D)
    BY EngineOff
  <1>10. Off(D) \subseteq Clear
    BY DEF Off, Clear, Program, D
  <1>11. h \in Far(D)
    BY <1>1, <1>2, ErrorOff, StatementsOff, OffConcat DEF D
  <1> HIDE DEF h
  <1>12. e \in Executing(x)
    <2> DEFINE y == << [op |-> "except", kinds |-> {"other"}, body |-> h] >>
    <2>1. Try(<<>>, {"other"}, h) = <<>> \o y /\ e = Execute(x) \o y
      BY DEF Try
    <2>2. {"other"} \in SUBSET Raisable
      BY DEF Raisable
    <2>3. Try(<<>>, {"other"}, h) \in Off(D)
      BY <1>3, <1>11, <2>2, TryOff
    <2>4. y \in Seq(Stmt)
      <3> DEFINE z == [op |-> "except", kinds |-> {"other"}, body |-> h]
      <3>1. h \in Branching
        BY <1>11 DEF Far
      <3>2. z \in Handler
        BY <2>2, <3>1 DEF Handler
      <3>3. z \in Stmt
        BY <3>2 DEF Stmt
      <3> HIDE DEF z
      <3>4. <<z>> \in Seq(Stmt)
        BY <3>3
      <3> QED
        BY <3>4 DEF z
    <2> HIDE DEF y
    <2>5. <<>> \o y = y
      BY <2>4, ConcatEmptySeq
    <2>6. y \in Clear
      BY <1>10, <2>1, <2>3, <2>5
    <2> QED
      BY <1>2, <2>1, <2>6, RecordingParts
  <1>13. Checked(n, u) = (a \o c) \o r \o SnapshotState \o e \o g1 \o g2 \o g3 \o g4
    BY DEF Checked, h
  <1>14. r \in ThenMore(tier, x)
    BY <1>2, RecordingParts
  <1> HIDE DEF a, c, r, e, g1, g2, g3, g4
  <1>15. (a \o c) \o r \in ThenMore(tier, x)
    <2>1. \A s \in ThenMore(tier, x), b \in Far(Counted) : b \o s \in ThenMore(tier, x)
      BY <1>2, RecordingParts
    <2> QED
      BY <1>4, <1>14, <2>1 DEF D
  <1>16. (a \o c) \o r \o SnapshotState \in ThenMore(tier, x)
    <2>1. \A s \in ThenMore(tier, x), b \in Far(Counted) : s \o b \in ThenMore(tier, x)
      BY <1>2, RecordingParts
    <2> QED
      BY <1>4, <1>15, <2>1 DEF D
  <1>17. (a \o c) \o r \o SnapshotState \o e \in ThenRun(tier, x)
    <2>1. \A s \in ThenMore(tier, x), b \in Executing(x) : s \o b \in ThenRun(tier, x)
      BY <1>2, RecordingParts
    <2> QED
      BY <1>12, <1>16, <2>1
  <1>18. \A s \in ThenRun(tier, x), b \in Clear : s \o b \in ThenRun(tier, x)
    BY <1>2, RecordingParts
  <1>19. g1 \in Clear /\ g2 \in Clear /\ g3 \in Clear /\ g4 \in Clear
    BY <1>6, <1>7, <1>8, <1>9, <1>10, OffConcat
  <1> QED
    BY <1>2, <1>13, <1>17, <1>18, <1>19

LEMMA NodeBooks ==
  ASSUME EngineAssumption, LangGraphAssumption, LangGraphCounters, tier \in 1 .. 4, NEW t, LangGraphCall(t)
  PROVE  Books(t)
  <1>1. ASSUME NEW n \in Nodes PROVE /\ SameNode(n) \in Recorded
                                     /\ WrapNodeEmpty(n) \in Recording(tier, SameNode(n))
                                     /\ \A u : WrapNode(n, u) \in Recording(tier, SameNode(n))
    <2> DEFINE x == SameNode(n)
    <2>1. x \in Recorded /\ \A u : Checked(n, u) \in ThenRun(tier, x)
      BY CheckedRecords
    <2> HIDE DEF x
    <2>2. NodeCompleted \in Off(Counted) /\ NodeCompleted \in Clear
      <3>1. NodeCompleted \in Off(Counted)
        BY EmitOff, OffConcat DEF NodeCompleted
      <3> QED
        BY <3>1 DEF Off, Program, Clear
    <2>3. \A u : WrapNode(n, u) = Checked(n, u) \o NodeCompleted
      BY DEF WrapNode, Checked
    <2>4. /\ \A s \in ThenRun(tier, x), b \in Clear : s \o b \in ThenRun(tier, x)
          /\ \A s \in ThenRun(tier, x) : s \in Recording(tier, x)
      BY <2>1, RecordingParts
    <2>5. \A u : WrapNode(n, u) \in Recording(tier, x)
      BY <2>1, <2>2, <2>3, <2>4
    <2>6. WrapNodeEmpty(n) = Checked(n, CleanUpdate)
      <3>1. Checked(n, CleanUpdate) \in Seq(Stmt) /\ NodeCompleted \in Seq(Stmt)
        BY <2>1, <2>2 DEF ThenRun, RecordingTo, Lead, Clear
      <3> DEFINE a == Checked(n, CleanUpdate)
      <3>2. WrapNodeEmpty(n) = SubSeq(a \o NodeCompleted, 1, Len(a \o NodeCompleted) - Len(NodeCompleted))
        BY <2>3 DEF WrapNodeEmpty
      <3> HIDE DEF a
      <3> QED
        BY <3>1, <3>2, FrontOf DEF a
    <2> QED
      BY <2>1, <2>4, <2>5, <2>6 DEF x
  <1>2. ASSUME CallNode(t) PROVE Books(t)
    BY <1>1, <1>2, RecordingBooks DEF CallNode
  <1>3. ASSUME NEW hits, Begin(t, "state", TRUE, ProtectStateWrite(hits)) PROVE Books(t)
    BY <1>3, EngineOff, OffBooks DEF ProtectStateWrite
  <1>4. EnterSubgraph \in Far(Counted) /\ ExitSubgraph \in Far(Counted)
    <2>1. Depth \in Counters /\ Depth \notin Counted /\ MaxDepth[tier] \in Int
      <3>1. Depth \notin Counted
        BY CountedIs
      <3> QED
        BY <3>1 DEF LangGraphCounters, LangGraphAssumption
    <2>2. 1 \in Int /\ -1 \in Int /\ FALSE \in BOOLEAN /\ TRUE \in BOOLEAN
      OBVIOUS
    <2> DEFINE o == Emit("note") \o Adjust(Depth, -1, FALSE) \o Raise("tripped")
    <2>3. /\ Adjust(Depth, 1, FALSE) \in Tame(Counted) /\ Adjust(Depth, -1, FALSE) \in Tame(Counted)
          /\ Adjust(Depth, -1, TRUE) \in Tame(Counted)
      BY <2>1, <2>2, AdjustOff
    <2>4. Emit("note") \in Tame(Counted) /\ Raise("tripped") \in Tame(Counted)
      BY EmitOff, StatementsOff
    <2>5. o \in Tame(Counted)
      BY <2>3, <2>4, OffConcat
    <2> HIDE DEF o
    <2>6. Compare(Depth, MaxDepth[tier], o, Emit("note")) \in Far(Counted)
      BY <2>1, <2>4, <2>5, CompareOff
    <2>7. EnterSubgraph = Adjust(Depth, 1, FALSE) \o Compare(Depth, MaxDepth[tier], o, Emit("note"))
      BY DEF EnterSubgraph, o
    <2> QED
      BY <2>3, <2>6, <2>7, OffConcat DEF ExitSubgraph
  <1>5. ASSUME CallSubgraph(t) PROVE Books(t)
    BY <1>4, <1>5, OffBooks DEF CallSubgraph
  <1> QED
    BY <1>2, <1>3, <1>5 DEF LangGraphCall, CallStateWrite

LEMMA ChainBooks ==
  ASSUME EngineAssumption, LangChainCounters, tier \in 1 .. 4, NEW t, LangChainCall(t)
  PROVE  Books(t)
  <1> DEFINE D == Counted
  <1>1. Tool \in Counters /\ Memory \in Counters /\ ChainErrors \in Counters
        /\ \A i \in Inputs : SameInput(i) \in Recorded
    BY CountedIs DEF LangChainCounters
  <1>0. Tool \notin D /\ Memory \notin D /\ ChainErrors \notin D
    BY CountedIs
  <1> HIDE DEF D
  <1>2. FailIf(3, "violation") \in Far(D) /\ \A x : \A b \in Far(D) : When(x, b) \in Far(D)
    BY StatementsOff, OffConcat DEF When
  <1>3. \A h : Scan(h) \o When(h > 0, FailIf(3, "violation")) \in Far(D)
    BY <1>2, EngineOff, OffConcat
  <1>4. \A h : /\ OnLlmStart(h) \in Far(D) /\ OnChatModelStart(h) \in Far(D) /\ CheckInput(h) \in Far(D)
               /\ OnToolEnd(h) \in Far(D) /\ OnChainEnd(h) \in Far(D)
    BY <1>3, EngineOff DEF OnLlmStart, OnChatModelStart, CheckInput, OnToolEnd, OnChainEnd
  <1>5. \A h : OnLlmEnd(h) \in Off(D)
    <2>1. {"os"} \in SUBSET Raisable
      BY DEF Raisable
    <2> QED
      BY <2>1, EngineOff, OffConcat, TryOff DEF OnLlmEnd
  <1>6. ASSUME NEW i \in Inputs, NEW c PROVE OnToolStart(i, c) \in Recording(tier, SameInput(i))
    <2>1. RecordToolCall(SameInput(i)) \in ThenMore(tier, SameInput(i)) /\ CheckHearGate(c) \in Far(Counted)
      BY <1>1, RecordingParts, EngineOff
    <2>2. RecordToolCall(SameInput(i)) \o CheckHearGate(c) \in ThenMore(tier, SameInput(i))
      BY <1>1, <2>1, RecordingParts
    <2> QED
      BY <1>1, <2>2, RecordingParts DEF OnToolStart
  <1>7. OnChainError \in Far(D) /\ OnAgentAction \in Far(D)
    <2>1. OnChainError \in Far(D)
      BY <1>0, <1>1, ErrorOff DEF OnChainError
    <2> QED
      BY <2>1, EmitOff, OffConcat DEF OnAgentAction
  <1>8. Execute(Tool) \in Far(D) /\ Execute(Memory) \in Far(D)
    BY <1>0, <1>1, CountersOff
  <1>9. \A h : SafeRun(h) \in Far(D) /\ SafeSaveContext(h) \in Far(D)
    BY <1>2, <1>8, EngineOff, OffConcat DEF SafeRun, SafeSaveContext
  <1>10. \A p, u, h : SafeFunc(p, u, h) \in Far(D)
    BY <1>9, EngineOff, OffConcat DEF SafeFunc
  <1> USE DEF D
  <1>11. ASSUME NEW h, \/ Begin(t, "on_llm_start", TRUE, OnLlmStart(h))
                       \/ Begin(t, "on_chat_model_start", TRUE, OnChatModelStart(h))
                       \/ Begin(t, "check_input", TRUE, CheckInput(h))
                       \/ Begin(t, "on_llm_end", FALSE, OnLlmEnd(h))
                       \/ Begin(t, "on_chain_end", FALSE, OnChainEnd(h))
                       \/ Begin(t, "on_tool_end", TRUE, OnToolEnd(h))
         PROVE  Books(t)
    BY <1>4, <1>5, <1>11, OffBooks
  <1>12. ASSUME NEW i \in Inputs, NEW c, Begin(t, "on_tool_start", TRUE, OnToolStart(i, c))
         PROVE  Books(t)
    BY <1>1, <1>6, <1>12, RecordingBooks
  <1>13. ASSUME \/ Begin(t, "on_chain_error", FALSE, OnChainError)
                \/ Begin(t, "on_agent_action", FALSE, OnAgentAction)
         PROVE  Books(t)
    BY <1>7, <1>13, OffBooks
  <1>14. ASSUME NEW p, NEW u, \/ Begin(t, "tool", TRUE, SafeRun(p))
                              \/ Begin(t, "memory", TRUE, SafeSaveContext(p))
                              \/ Begin(t, "tool", TRUE, SafeFunc(p, u, 0))
         PROVE  Books(t)
    BY <1>9, <1>10, <1>14, OffBooks
  <1> QED
    BY <1>11, <1>12, <1>13, <1>14 DEF LangChainCall, CallHandler, CallWrapped

LEMMA CrewBooks ==
  ASSUME EngineAssumption, CrewAssumption, CrewCounters, tier \in 1 .. 4, NEW t, CrewCall(t)
  PROVE  Books(t)
  <1> DEFINE D == Counted
  <1>1. /\ CrewTool \in Counters /\ CrewTool \notin D
        /\ \A k \in Tasks : TaskCalls(k) \in Counters /\ TaskCalls(k) \notin D /\ SameTask(k) \in Recorded
    BY CountedIs DEF CrewCounters
  <1> HIDE DEF D
  <1>2. FailIf(3, "violation") \in Far(D) /\ Emit("note") \in Far(D)
        /\ \A x : \A b \in Far(D) : When(x, b) \in Far(D)
    BY StatementsOff, EmitOff, OffConcat DEF When
  <1>3. \A h : WrapAgent(h) \in Far(D)
    BY <1>2, EngineOff, OffConcat DEF WrapAgent, ValidateIdentity
  <1>4. \A h : WrapCrew(h) \in Far(D)
    BY <1>2, <1>3, OffConcat DEF WrapCrew
  <1>5. \A h : CrewSafeRun(h) \in Far(D)
    <2>1. Execute(CrewTool) \in Far(D)
      BY <1>1, CountersOff
    <2> QED
      BY <1>2, <2>1, EngineOff, OffConcat DEF CrewSafeRun
  <1>6. ASSUME NEW k \in Tasks, NEW h, NEW c
        PROVE  ProtectTaskOutput(k, h, c) \in ThenMore(tier, SameTask(k))
    <2> DEFINE r == RecordToolCall(SameTask(k))
               a == Adjust(TaskCalls(k), 1, FALSE)
               m == Compare(TaskCalls(k), MaxTaskCalls, Emit("note") \o FailIf(2, "tripped"), <<>>)
               w == When(h > 0, FailIf(3, "violation"))
               x == SameTask(k)
    <2>1. 1 \in Int /\ FALSE \in BOOLEAN /\ MaxTaskCalls \in Int
      BY DEF CrewAssumption
    <2>2. x \in Recorded /\ r \in ThenMore(tier, x)
      BY <1>1, RecordingParts
    <2>3. a \in Far(D)
      BY <1>1, <2>1, AdjustOff, OffConcat
    <2>4. m \in Far(D)
      <3>1. Emit("note") \o FailIf(2, "tripped") \in Tame(D) /\ <<>> \in Tame(D)
        BY EmitOff, StatementsOff, OffConcat
      <3> QED
        BY <1>1, <2>1, <3>1, CompareOff
    <2>5. ProtectTaskOutput(k, h, c) = r \o a \o m \o Scan(h) \o w \o CheckHearGate(c) \o Emit("note")
      BY DEF ProtectTaskOutput
    <2>6. w \in Far(D) /\ Scan(h) \in Far(D) /\ CheckHearGate(c) \in Far(D)
      BY <1>2, EngineOff
    <2> HIDE DEF r, a, m, w, x
    <2>7. \A s \in ThenMore(tier, x), b \in Far(D) : s \o b \in ThenMore(tier, x)
      BY <2>2, RecordingParts DEF D
    <2>8. r \o a \o m \o Scan(h) \in ThenMore(tier, x)
      BY <2>2, <2>3, <2>4, <2>6, <2>7
    <2>9. r \o a \o m \o Scan(h) \o w \o CheckHearGate(c) \o Emit("note") \in ThenMore(tier, x)
      BY <1>2, <2>6, <2>7, <2>8
    <2> QED
      BY <2>5, <2>9 DEF x
  <1>7. ASSUME NEW k \in Tasks, NEW h, NEW c
        PROVE  /\ ProtectTaskOutput(k, h, c) \in Recording(tier, SameTask(k))
               /\ TaskCallback(k, h, c) \in Recording(tier, SameTask(k))
    <2> DEFINE x == SameTask(k)
    <2>1. x \in Recorded /\ ProtectTaskOutput(k, h, c) \in ThenMore(tier, x)
      BY <1>1, <1>6
    <2> HIDE DEF x
    <2>2. /\ \A s \in ThenMore(tier, x) : s \in Recording(tier, x)
          /\ \A s \in ThenRun(tier, x) : s \in Recording(tier, x)
          /\ \A s \in ThenMore(tier, x), b \in Executing(x) : s \o b \in ThenRun(tier, x)
          /\ Execute(x) \in Executing(x)
      BY <2>1, RecordingParts
    <2>3. TaskCallback(k, h, c) = ProtectTaskOutput(k, h, c) \o Execute(x)
      BY DEF TaskCallback, x
    <2>4. ProtectTaskOutput(k, h, c) \o Execute(x) \in ThenRun(tier, x)
      BY <2>1, <2>2
    <2> QED
      BY <2>1, <2>2, <2>3, <2>4 DEF x
  <1> USE DEF D
  <1>8. ASSUME NEW h, \/ Begin(t, "agent", TRUE, WrapAgent(h)) \/ Begin(t, "crew", TRUE, WrapCrew(h))
                      \/ Begin(t, "tool", TRUE, CrewSafeRun(h))
        PROVE  Books(t)
    BY <1>3, <1>4, <1>5, <1>8, OffBooks
  <1>9. ASSUME NEW k \in Tasks, NEW h, NEW c, \/ Begin(t, "task", TRUE, ProtectTaskOutput(k, h, c))
                                              \/ Begin(t, "callback", TRUE, TaskCallback(k, h, c))
        PROVE  Books(t)
    BY <1>1, <1>7, <1>9, RecordingBooks
  <1> QED
    BY <1>8, <1>9 DEF CrewCall

LEMMA AgentBooks ==
  ASSUME EngineAssumption, AutoGenCounters, tier \in 1 .. 4, NEW t, AutoGenCall(t)
  PROVE  Books(t)
  <1> DEFINE D == Counted
  <1>0. \A a \in Agents : SameAgent(a) \in Recorded
    BY CountedIs DEF AutoGenCounters
  <1> HIDE DEF D
  <1>1. /\ FailIf(3, "violation") \in Far(D) /\ FailIf(2, "violation") \in Far(D)
        /\ Emit("note") \in Far(D) /\ Emit("finding") \in Far(D)
        /\ \A x : \A b \in Far(D) : When(x, b) \in Far(D)
    BY StatementsOff, EmitOff, OffConcat DEF When
  <1>2. \A h : ScanMessage(h) \in Far(D)
    BY <1>1, EngineOff, OffConcat DEF ScanMessage
  <1>3. \A block : ProtectCodeBlock(block) \in Far(D)
    <2> SUFFICES ASSUME NEW block PROVE ProtectCodeBlock(block) \in Far(D)
      OBVIOUS
    <2>1. When(block.catastrophic, EmitCp8 \o FailIf(2, "violation")) \in Far(D)
      BY <1>1, EngineOff, OffConcat
    <2>2. ScanCode(block) \in Far(D)
      BY <1>1, OffConcat DEF ScanCode
    <2>3. ScanNetwork(block) \in Far(D)
      <3>1. (IF AllowlistSet THEN Block("violation") ELSE Emit("note")) \in Far(D)
        BY <1>1, EngineOff
      <3> QED
        BY <1>1, <3>1 DEF ScanNetwork
    <2> QED
      BY <2>1, <2>2, <2>3, EngineOff, OffConcat DEF ProtectCodeBlock
  <1>4. ASSUME NEW a \in Agents, NEW h, NEW block
        PROVE  /\ OnMessages(a, h) \in Recording(tier, SameAgent(a))
               /\ OnCodeMessages(a, h, block) \in Recording(tier, SameAgent(a))
    <2> DEFINE x == SameAgent(a)
               r == RecordToolCall(x)
               e == Execute(x)
    <2>1. /\ OnMessages(a, h) = ScanMessage(h) \o r \o Emit("note") \o e
          /\ OnCodeMessages(a, h, block) = ScanMessage(h) \o ProtectCodeBlock(block) \o r \o e
      BY DEF OnMessages, OnCodeMessages
    <2>2. x \in Recorded
      BY <1>0
    <2> HIDE DEF x
    <2>3. /\ r \in ThenMore(tier, x) /\ e \in Executing(x)
          /\ \A s \in ThenMore(tier, x), b \in Far(D) : s \o b \in ThenMore(tier, x)
          /\ \A s \in ThenMore(tier, x), b \in Far(D) : b \o s \in ThenMore(tier, x)
          /\ \A s \in ThenMore(tier, x), b \in Executing(x) : s \o b \in ThenRun(tier, x)
          /\ \A s \in ThenRun(tier, x) : s \in Recording(tier, x)
      BY <2>2, RecordingParts DEF D
    <2> HIDE DEF r, e
    <2>4. ScanMessage(h) \o r \o Emit("note") \in ThenMore(tier, x)
      BY <1>1, <1>2, <2>3
    <2>5. ScanMessage(h) \o ProtectCodeBlock(block) \in Far(D)
      BY <1>2, <1>3, OffConcat
    <2>6. (ScanMessage(h) \o ProtectCodeBlock(block)) \o r \in ThenMore(tier, x)
      BY <2>3, <2>5
    <2>7. /\ ScanMessage(h) \o r \o Emit("note") \o e \in Recording(tier, x)
          /\ (ScanMessage(h) \o ProtectCodeBlock(block)) \o r \o e \in Recording(tier, x)
      BY <2>3, <2>4, <2>6
    <2> QED
      BY <2>1, <2>7 DEF x
  <1>7. \A h : WrapAssistant(h) \in Far(D)
    BY <1>1, EngineOff, OffConcat DEF WrapAssistant
  <1>8. WrapCodeExecutor \in Far(D)
    BY <1>1, EngineOff, OffConcat DEF WrapCodeExecutor
  <1> USE DEF D
  <1>9. ASSUME NEW a \in Agents, NEW h, NEW block,
               \/ Begin(t, "on_messages", TRUE, OnMessages(a, h))
               \/ Begin(t, "on_messages", TRUE, OnCodeMessages(a, h, block))
        PROVE  Books(t)
    BY <1>0, <1>4, <1>9, RecordingBooks
  <1>10. ASSUME NEW h, \/ Begin(t, "assistant", TRUE, WrapAssistant(h))
                       \/ Begin(t, "executor", FALSE, WrapCodeExecutor)
                       \/ Begin(t, "content", FALSE, Scan(h))
                       \/ Begin(t, "block", TRUE, ProtectCodeBlock(h))
         PROVE  Books(t)
    BY <1>3, <1>7, <1>8, <1>10, EngineOff, OffBooks
  <1> QED
    BY <1>9, <1>10 DEF AutoGenCall

LEMMA RuntimeBooks ==
  ASSUME tier \in 1 .. 4, NEW t, RuntimeCall(t)
  PROVE  Books(t)
  <1>1. {Scans, Turns, Ops, ScenarioOps, AgentTurns, External, Hops} \cap Counted = {}
    BY CountedIs
  <1>2. CASE EngineCall(t)
    BY <1>2, EngineAvoids, AvoidsBooks
  <1>3. CASE LangGraphCall(t)
    BY <1>3, NodeBooks, EngineAssumption, LangGraphAssumption, LangGraphCounters
  <1>4. CASE LangChainCall(t)
    BY <1>4, ChainBooks, EngineAssumption, LangChainCounters
  <1>5. CASE CrewCall(t)
    BY <1>5, CrewBooks, EngineAssumption, CrewAssumption, CrewCounters
  <1>6. CASE AutoGenCall(t)
    BY <1>6, AgentBooks, EngineAssumption, AutoGenCounters
  <1>7. CASE GrokCall(t)
    <2>1. {Scans, Turns, Ops} \cap Counted = {}
      BY <1>1
    <2> QED
      BY <1>7, <2>1, GrokAvoids, AvoidsBooks, GrokAssumption, GrokCounters, LightCounters
  <1>8. CASE MakeCall(t)
    <2>1. {Scans, ScenarioOps, AgentTurns, External} \cap Counted = {}
      BY <1>1
    <2> QED
      BY <1>8, <2>1, MakeAvoids, AvoidsBooks, MakeAssumption, MakeCounters, LightCounters
  <1>9. CASE LangflowCall(t)
    <2>1. {Scans, Hops} \cap Counted = {}
      BY <1>1
    <2> QED
      BY <1>9, <2>1, LangflowAvoids, AvoidsBooks, LangflowCounters, LightCounters
  <1> QED
    BY <1>2, <1>3, <1>4, <1>5, <1>6, <1>7, <1>8, <1>9 DEF RuntimeCall

LEMMA CeilingInvariant == EngineSpec => [](EngineInv /\ CeilingInv)
  <1>1. EngineInit \/ LightInit => CeilingInv
    BY CeilingStart, EngineAssumption DEF EngineInit, LightInit
  <1>2. EngineInv /\ EngineInv' /\ CeilingInv /\ [EngineNext]_engineVars => CeilingInv'
    <2> SUFFICES ASSUME EngineInv, EngineInv', CeilingInv, [EngineNext]_engineVars PROVE CeilingInv'
      OBVIOUS
    <2>1. EngineTypes /\ EngineTypes' /\ tier \in 1 .. 4
      BY DEF EngineInv, EngineTypes, CountTypes
    <2>2. ASSUME NEW t \in Threads, RuntimeCall(t) PROVE CeilingInv'
      BY <2>1, <2>2, RuntimeBooks, BooksKeep, EngineAssumption
    <2>3. ASSUME NEW t \in Threads, Statement(t) PROVE CeilingInv'
      BY <2>1, <2>3, CeilingStatement, EngineAssumption
    <2>4. CASE UNCHANGED engineVars
      <3>1. UNCHANGED <<tier, todo, count, lost, ran>>
        BY <2>4 DEF engineVars, counting, threads
      <3> QED
        BY <3>1, CeilingStays
    <2> QED
      BY <2>2, <2>3, <2>4 DEF EngineNext
  <1> QED
    BY <1>1, <1>2, EngineInvariant, PTL DEF EngineSpec

\* record_tool_call under any number of threads: what is recorded before it
\* runs runs no more often than the ceiling allows, plus what stale stores
\* have moved the total by; and from tier 2 the same call runs fewer times
\* than the loop threshold, plus what they have moved its counter by.
THEOREM EngineCeiling == EngineSpec => []CeilingHolds
  <1>1. EngineInv /\ CeilingInv => CeilingHolds
    BY CeilingSays, EngineAssumption DEF EngineInv
  <1> QED
    BY <1>1, CeilingInvariant, PTL

-----------------------------------------------------------------------------
(* The budgets of the Grok and Make runtimes *)

\* What a call that counts has still to do: to admit itself; before that, to
\* pass its verdict; to compare the counter; to store it.
Keeping(c) == Still({c})
Free(c) == {s \in Seq(Stmt) : Aside(s, {c})}

Admits(c) == {x \in Plain : x.op = "admit" /\ x.of = c}
Verdicts == {x \in Plain : x.op = "verdict"}
Weighs(c, n) == {x \in Branch : x.of = c /\ x.limit = n /\ x.over = Record /\ x.within = <<>>}
Sets(c, n) == {x \in Plain : x.op = "assign" /\ x.of = c /\ x.value = n}

Admitting(c) == Lead(Keeping(c), Admits(c), Free(c))
Judging(c) == Lead(Keeping(c), Verdicts, Admitting(c))
Weighing(c, n) == Lead(Keeping(c), Weighs(c, n), Judging(c))
Spending(c, n) == Lead(Keeping(c), StoreOne(c), Weighing(c, n) \union Free(c))
Resetting(c) == Lead(Keeping(c), Sets(c, 0), Free(c))

\* A call that has found something, or is about to say so.
FindParts == {x \in Plain : x.op \in {"find", "readScore", "storeScore", "hash", "link", "write"}}
Finds == {x \in Plain : Content(x)}
Finding == Lead(FindParts, Finds, Seq(Stmt))
Condemned(s, f) == f \/ s \in Finding

LEMMA BudgetParts ==
  ASSUME NEW c \in Counters, NEW n \in Nat
  PROVE  /\ Closed(Keeping(c)) /\ Keeping(c) \subseteq Plain \union Branch
         /\ Admits(c) \subseteq Plain \union Branch /\ Verdicts \subseteq Plain \union Branch
         /\ Weighs(c, n) \subseteq Plain \union Branch /\ StoreOne(c) \subseteq Plain \union Branch
         /\ Sets(c, 0) \subseteq Plain \union Branch /\ Sets(c, 1) \subseteq Plain \union Branch
         /\ FindParts \subseteq Plain \union Branch /\ Finds \subseteq Plain \union Branch
  <1>1. Closed(Keeping(c)) /\ Keeping(c) \subseteq Plain \union Branch
    BY StillClosed DEF Keeping, Still
  <1>2. StoreOne(c) \subseteq Plain
    <2>1. 1 \in Int /\ FALSE \in BOOLEAN
      OBVIOUS
    <2> QED
      BY <2>1 DEF StoreOne, Plain
  <1>3. Admits(c) \subseteq Plain /\ Verdicts \subseteq Plain /\ Weighs(c, n) \subseteq Branch
        /\ Sets(c, 0) \subseteq Plain /\ Sets(c, 1) \subseteq Plain
        /\ FindParts \subseteq Plain /\ Finds \subseteq Plain
    BY DEF Admits, Verdicts, Weighs, Sets, FindParts, Finds
  <1> HIDE DEF Admits, Verdicts, Weighs, Sets, FindParts, Finds
  <1> QED
    BY <1>1, <1>2, <1>3

LEMMA BudgetSafe ==
  ASSUME NEW c \in Counters, NEW n \in Nat
  PROVE  /\ \A s \in Free(c) : Safe(s, {c})
         /\ \A s \in Admitting(c) : Safe(s, {c})
         /\ \A s \in Judging(c) : Safe(s, {c})
         /\ \A s \in Weighing(c, n) : Safe(s, {c})
         /\ \A s \in Spending(c, n) : Safe(s, {c})
         /\ \A s \in Resetting(c) : Safe(s, {c})
  <1>1. \A s \in Free(c) : Safe(s, {c})
    BY AsideSafe DEF Free
  <1>2. \A s \in Admitting(c) : Safe(s, {c})
    BY <1>1, BudgetParts, LeadSafe DEF Admitting
  <1>3. \A s \in Judging(c) : Safe(s, {c})
    BY <1>2, BudgetParts, LeadSafe DEF Judging
  <1>4. \A s \in Weighing(c, n) : Safe(s, {c})
    BY <1>3, BudgetParts, LeadSafe DEF Weighing
  <1>5. \A s \in Spending(c, n) : Safe(s, {c})
    <2>1. \A s \in Weighing(c, n) \union Free(c) : Safe(s, {c})
      BY <1>1, <1>4
    <2> QED
      BY <2>1, BudgetParts, LeadSafe DEF Spending
  <1>6. \A s \in Resetting(c) : Safe(s, {c})
    BY <1>1, BudgetParts, LeadSafe DEF Resetting
  <1> QED
    BY <1>1, <1>2, <1>3, <1>4, <1>5, <1>6

\* Nobody who has found something gets past a verdict.
LEMMA CondemnedSteps ==
  ASSUME EngineTypes, NEW t \in Threads, Statement(t), ~GoInto(t), Condemned(todo[t], found[t])
  PROVE  /\ \/ Condemned(todo'[t], found'[t])
            \/ \E kind \in Raisable : Escapes(t, kind) \/ \E i \in Nat : Caught(t, i)
         /\ Current(t).op = "verdict" => found[t]
  <1>1. Closed(FindParts) /\ FindParts \subseteq Plain \union Branch /\ Finds \subseteq Plain \union Branch
    <2>1. FindParts \subseteq Plain /\ Finds \subseteq Plain
      BY DEF FindParts, Finds
    <2>2. \A x \in FindParts : x.op # "compare"
      BY DEF FindParts
    <2>3. Only(Emit("note"), FindParts)
      <3>1. \A i \in 1 .. Len(Emit("note")) : Emit("note")[i] \in NoteParts
        BY NoteIs DEF Noting
      <3>2. NoteParts \subseteq FindParts
        BY DEF NoteParts, FindParts
      <3> QED
        BY <3>1, <3>2 DEF Only
    <2> QED
      BY <2>1, <2>2, <2>3 DEF Closed
  <1>2. found \in [Threads -> BOOLEAN]
    BY DEF EngineTypes, LocalTypes
  <1>3. CASE found[t]
    <2>1. found'[t]
      <3>1. Current(t).op = "hash" => found' = [found EXCEPT ![t] = @ \/ Current(t).kind # "note"]
        BY ByOp DEF HashEvent
      <3> QED
        BY <1>2, <1>3, <3>1, ByOp
    <2> QED
      BY <1>3, <2>1 DEF Condemned
  <1>4. CASE todo[t] \in Finding
    <2>1. \/ Current(t) \in Finds
          \/ Current(t) \in FindParts /\ todo'[t] \in Finding
          \/ /\ Current(t) \in FindParts
             /\ \E kind \in Raisable : Escapes(t, kind) \/ \E i \in Nat : Caught(t, i)
      BY <1>1, <1>4, LeadSteps DEF Finding
    <2>2. ASSUME Current(t) \in Finds PROVE found'[t]
      <3>1. Current(t).op = "hash" /\ Current(t).kind = "content"
        BY <2>2 DEF Finds, Content
      <3>2. found' = [found EXCEPT ![t] = @ \/ Current(t).kind # "note"]
        BY <3>1, ByOp DEF HashEvent
      <3> QED
        BY <1>2, <3>1, <3>2
    <2>3. Current(t).op # "verdict"
      BY <2>1 DEF Finds, FindParts, Content
    <2> QED
      BY <2>1, <2>2, <2>3 DEF Condemned
  <1> QED
    BY <1>3, <1>4 DEF Condemned

LEMMA CondemnedMoves ==
  ASSUME EngineTypes, NEW t \in Threads, Statement(t), ~GoInto(t), NEW D, Safe(todo[t], D),
         Condemned(todo[t], found[t])
  PROVE  /\ Condemned(todo'[t], found'[t]) \/ Aside(todo'[t], D)
         /\ Current(t).op = "verdict" => found[t]
  <1>1. Busy(t)
    BY StatementMoves
  <1>2. ASSUME NEW kind, Escapes(t, kind) PROVE Aside(todo'[t], D)
    BY <1>2 DEF Escapes, Aside
  <1>3. ASSUME NEW i \in Nat, Caught(t, i) PROVE Aside(todo'[t], D)
    BY <1>1, <1>3, CaughtAside
  <1> QED
    BY <1>2, <1>3, CondemnedSteps

\* What a call is allowed to have left, given what its counter says; n is the
\* budget.  Only t1 has to do with the counter at all.
Spender(c, n) ==
    \/ todo[t1] \in Free(c) \union Resetting(c) \union Spending(c, n)
    \/ todo[t1] \in Weighing(c, n) /\ ran[c] < count[c] + lost[c]
    \/ /\ todo[t1] \in Judging(c) /\ ran[c] < count[c] + lost[c]
       /\ Condemned(todo[t1], found[t1]) \/ ran[c] < n + lost[c]
    \/ todo[t1] \in Admitting(c) /\ ran[c] < count[c] + lost[c] /\ ran[c] < n + lost[c]

Spent(c, n) == ran[c] <= n + lost[c] /\ ran[c] <= count[c] + lost[c]

BudgetInv(c, n) ==
    Spent(c, n) /\ Spender(c, n) /\ \A t \in Threads \ {t1} : todo[t] \in Free(c)

LEMMA BudgetTypes ==
  ASSUME EngineTypes, NEW c \in Counters
  PROVE  count[c] \in Int /\ lost[c] \in Nat /\ ran[c] \in Nat
  BY DEF EngineTypes, CountTypes

\* After a statement its thread has what follows, past the handlers there.
LEMMA Onward ==
  ASSUME EngineTypes, EngineTypes', NEW t \in Threads, Statement(t), ~GoInto(t)
  PROVE  /\ todo'[t] \in Seq(Stmt) /\ todo[t] \in Seq(Stmt)
         /\ Current(t).op \notin {"compare", "frequency", "write", "raise", "run", "verdict"}
                => todo'[t] = PastHandlers(Rest(t))
         /\ \A c : Aside(todo'[t], {c}) => todo'[t] \in Free(c)
  <1>1. todo' \in [Threads -> Remainder] /\ todo \in [Threads -> Remainder]
    BY DEF EngineTypes, TodoTypes
  <1>2. todo'[t] \in Seq(Stmt) /\ todo[t] \in Seq(Stmt)
    BY <1>1 DEF Remainder
  <1>3. Current(t).op \notin {"compare", "frequency", "write", "raise", "run", "verdict"}
            => todo'[t] = PastHandlers(Rest(t))
    BY Motions
  <1> QED
    BY <1>2, <1>3 DEF Free

\* A call that has nothing to do with the counter.
LEMMA FreeMoves ==
  ASSUME EngineTypes, EngineTypes', NEW t \in Threads, Statement(t), ~GoInto(t),
         NEW c \in Counters, todo[t] \in Free(c)
  PROVE  /\ todo'[t] \in Free(c)
         /\ count'[c] = count[c] /\ lost'[c] = lost[c] /\ ran'[c] = ran[c]
  <1>1. Aside(todo[t], {c})
    BY DEF Free
  <1>2. todo'[t] \in Free(c)
    BY <1>1, AsideMoves, Onward
  <1>3. ~Touches(Current(t), {c})
    <2>1. /\ todo[t] \in Seq(Stmt) /\ todo[t] # <<>> /\ Current(t) = todo[t][1]
      BY Motions
    <2>2. 1 \in 1 .. Len(todo[t])
      BY <2>1, EmptySeq, LenProperties
    <2> QED
      BY <1>1, <2>1, <2>2 DEF Aside, Apart
  <1> QED
    BY <1>2, <1>3, CountersStay

\* What a finding or a branch puts in front changes nothing of where it leads.
LEMMA RecordPasses ==
  ASSUME NEW c \in Counters, NEW T, NEW s \in Lead(Keeping(c), Verdicts, T)
  PROVE  /\ Record \o s \in Lead(Keeping(c), Verdicts, T) /\ Record \o s \in Finding
         /\ PastHandlers(Record \o s) = Record \o s
  <1>1. Record \in Tame({c})
    BY ContentOff
  <1>2. Record \in Seq(Stmt) /\ s \in Seq(Stmt) /\ \A i \in 1 .. Len(Record) : Record[i] \in Keeping(c)
    <2>1. Record \in Seq(Plain) /\ Aside(Record, {c})
      BY <1>1 DEF Tame, Flat
    <2>2. \A i \in 1 .. Len(Record) : Record[i] \in Plain
      BY <2>1, ElementOfSeq
    <2>3. Record \in Program
      BY <1>1, Programs DEF Tame
    <2> QED
      BY <2>1, <2>2, <2>3 DEF Aside, Keeping, Still, Program, Lead
  <1>3. Record \o s \in Lead(Keeping(c), Verdicts, T)
    BY <1>2, LeadOn
  <1>4. PastHandlers(Record \o s) = Record \o s
    <2>1. 0 \in Nat
      OBVIOUS
    <2> QED
      BY <1>3, <2>1, BudgetParts, LeadPast
  <1>5. Record \o s \in Finding
    <2> DEFINE f == [op |-> "find"]
               r == [op |-> "readScore"]
               p == [op |-> "storeScore", points |-> 2]
               h == [op |-> "hash", kind |-> "content"]
               l == [op |-> "link"]
               w == [op |-> "write"]
               a == <<f, r, p>>
               e == <<l, w>>
    <2>1. Record = a \o (<<h>> \o e)
      BY DEF Record, Penalty, Emit
    <2>2. f \in Plain /\ r \in Plain /\ l \in Plain /\ w \in Plain /\ h \in Plain
      BY DEF Plain
    <2>3. p \in Plain
      <3>1. 2 \in Nat
        OBVIOUS
      <3> QED
        BY <3>1 DEF Plain
    <2>4. f.op = "find" /\ r.op = "readScore" /\ p.op = "storeScore" /\ h.op = "hash" /\ h.kind = "content"
      OBVIOUS
    <2> HIDE DEF f, r, p, h, l, w
    <2>5. f \in FindParts /\ r \in FindParts /\ p \in FindParts /\ h \in Finds
      BY <2>2, <2>3, <2>4 DEF FindParts, Finds, Content
    <2>6. f \in Stmt /\ r \in Stmt /\ p \in Stmt /\ h \in Stmt /\ l \in Stmt /\ w \in Stmt
      BY <2>2, <2>3 DEF Stmt
    <2>7. a \in Seq(Stmt) /\ e \in Seq(Stmt) /\ <<h>> \in Seq(Stmt)
      BY <2>6
    <2>8. \A i \in 1 .. Len(a) : a[i] \in FindParts
      <3>1. Len(a) = 3 /\ a[1] = f /\ a[2] = r /\ a[3] = p /\ \A i \in 1 .. 3 : i = 1 \/ i = 2 \/ i = 3
        OBVIOUS
      <3> QED
        BY <2>5, <3>1
    <2> HIDE DEF a, e
    <2>9. e \o s \in Seq(Stmt)
      BY <1>2, <2>7, ConcatProperties
    <2>10. <<h>> \o (e \o s) \in Finding
      BY <2>5, <2>6, <2>9, LeadAt DEF Finding
    <2>11. a \o (<<h>> \o (e \o s)) \in Finding
      BY <2>7, <2>8, <2>10, LeadOn DEF Finding
    <2>12. Record \o s = a \o (<<h>> \o (e \o s))
      <3>1. <<h>> \o e \in Seq(Stmt)
        BY <2>7, ConcatProperties
      <3>2. (a \o (<<h>> \o e)) \o s = a \o ((<<h>> \o e) \o s)
        BY <1>2, <2>7, <3>1, Regroup
      <3>3. (<<h>> \o e) \o s = <<h>> \o (e \o s)
        BY <1>2, <2>7, Regroup
      <3> QED
        BY <2>1, <3>2, <3>3
    <2> QED
      BY <2>11, <2>12
  <1> QED
    BY <1>3, <1>4, <1>5

\* What keeps away from the counter keeps it; and is on no counter's list.
LEMMA KeepingStays ==
  ASSUME EngineTypes, NEW t \in Threads, Statement(t), ~GoInto(t), NEW c \in Counters,
         Current(t) \in Keeping(c)
  PROVE  count'[c] = count[c] /\ lost'[c] = lost[c] /\ ran'[c] = ran[c]
  <1>1. ~Touches(Current(t), {c})
    BY DEF Keeping, Still, Apart
  <1> QED
    BY <1>1, CountersStay

\* A reset: the counter and what it admitted begin anew.
LEMMA ResettingMoves ==
  ASSUME EngineTypes, EngineTypes', NEW t \in Threads, Statement(t), ~GoInto(t),
         NEW c \in Counters, todo[t] \in Resetting(c)
  PROVE  \/ /\ todo'[t] \in Free(c)
            /\ count'[c] = 0 /\ lost'[c] = 0 /\ ran'[c] = 0
         \/ /\ todo'[t] \in Free(c) \union Resetting(c)
            /\ count'[c] = count[c] /\ lost'[c] = lost[c] /\ ran'[c] = ran[c]
  <1>1. 0 \in Nat
    OBVIOUS
  <1>2. Safe(todo[t], {c})
    BY <1>1, BudgetSafe
  <1>3. \/ Current(t) \in Sets(c, 0) /\ Rest(t) \in Free(c)
        \/ Current(t) \in Keeping(c) /\ todo'[t] \in Resetting(c)
        \/ Current(t) \in Keeping(c) /\ Aside(todo'[t], {c})
    BY <1>1, <1>2, BudgetParts, LeadMoves DEF Resetting
  <1>4. CASE Current(t) \in Sets(c, 0) /\ Rest(t) \in Free(c)
    <2>1. Current(t).op = "assign" /\ Current(t).of = c /\ Current(t).value = 0
      BY <1>4 DEF Sets
    <2>2. AssignCount(t)
      BY <2>1, ByOp
    <2>3. count'[c] = 0 /\ lost'[c] = 0 /\ ran'[c] = 0
      <3>1. /\ count' = [count EXCEPT ![c] = 0] /\ ran' = [ran EXCEPT ![c] = 0] /\ lost' = [lost EXCEPT ![c] = 0]
        BY <2>1, <2>2 DEF AssignCount
      <3> QED
        BY <3>1 DEF EngineTypes, CountTypes
    <2>4. todo'[t] = PastHandlers(Rest(t))
      BY <2>1, Onward
    <2>5. Rest(t) \in Remainder /\ Aside(Rest(t), {c})
      BY <1>4, Motions DEF Free
    <2>6. todo'[t] \in Free(c)
      BY <2>4, <2>5, PastAside, Onward
    <2> QED
      BY <2>3, <2>6
  <1> QED
    BY <1>3, <1>4, KeepingStays, Onward

\* A store: what it undoes of the counter is counted as lost.
LEMMA SpendingMoves ==
  ASSUME EngineTypes, EngineTypes', NEW t \in Threads, Statement(t), ~GoInto(t),
         NEW c \in Counters, NEW n \in Nat, todo[t] \in Spending(c, n)
  PROVE  \/ /\ todo'[t] \in Weighing(c, n) \union Free(c)
            /\ ran'[c] = ran[c] /\ lost'[c] >= lost[c]
            /\ count'[c] + lost'[c] >= count[c] + lost[c] + 1
         \/ /\ todo'[t] \in Free(c) \union Spending(c, n)
            /\ count'[c] = count[c] /\ lost'[c] = lost[c] /\ ran'[c] = ran[c]
  <1>2. Safe(todo[t], {c})
    BY BudgetSafe
  <1>3. \/ Current(t) \in StoreOne(c) /\ Rest(t) \in Weighing(c, n) \union Free(c)
        \/ Current(t) \in Keeping(c) /\ todo'[t] \in Spending(c, n)
        \/ Current(t) \in Keeping(c) /\ Aside(todo'[t], {c})
    BY <1>2, BudgetParts, LeadMoves DEF Spending
  <1>4. CASE Current(t) \in StoreOne(c) /\ Rest(t) \in Weighing(c, n) \union Free(c)
    <2>1. /\ Current(t).op = "store" /\ Current(t).of = c /\ Current(t).by = 1
          /\ Current(t).floor = FALSE
      BY <1>4 DEF StoreOne
    <2>2. StoreCount(t) /\ ran' = ran
      BY <2>1, ByOp
    <2>3. /\ count' = [count EXCEPT ![c] = held[t] + 1]
          /\ lost' = [lost EXCEPT ![c] = @ + Distance(count[c], held[t])]
      BY <2>1, <2>2 DEF StoreCount
    <2>4. /\ count'[c] = held[t] + 1 /\ lost'[c] = lost[c] + Distance(count[c], held[t])
          /\ held[t] \in Int /\ count[c] \in Int /\ lost[c] \in Nat
      BY <2>3 DEF EngineTypes, CountTypes, LocalTypes
    <2>5. lost'[c] >= lost[c] /\ count'[c] + lost'[c] >= count[c] + lost[c] + 1
      BY <2>4 DEF Distance
    <2>6. todo'[t] = PastHandlers(Rest(t))
      BY <2>1, Onward
    <2>7. CASE Rest(t) \in Free(c)
      <3>1. Rest(t) \in Remainder /\ Aside(Rest(t), {c})
        BY <2>7, Motions DEF Free
      <3> QED
        BY <2>2, <2>5, <2>6, <3>1, PastAside, Onward
    <2>8. CASE Rest(t) \in Weighing(c, n)
      <3>1. PastHandlers(Rest(t)) = Rest(t)
        BY <2>8, BudgetParts, LeadPast DEF Weighing
      <3> QED
        BY <2>2, <2>5, <2>6, <2>8, <3>1
    <2> QED
      BY <1>4, <2>7, <2>8
  <1> QED
    BY <1>3, <1>4, KeepingStays, Onward

\* The comparison: what is over the budget is a finding.
LEMMA WeighingMoves ==
  ASSUME EngineTypes, EngineTypes', NEW t \in Threads, Statement(t), ~GoInto(t),
         NEW c \in Counters, NEW n \in Nat, todo[t] \in Weighing(c, n)
  PROVE  /\ count'[c] = count[c] /\ lost'[c] = lost[c] /\ ran'[c] = ran[c]
         /\ \/ todo'[t] \in Judging(c) /\ (Condemned(todo'[t], found'[t]) \/ count[c] <= n)
            \/ todo'[t] \in Free(c) \union Weighing(c, n)
  <1>2. Safe(todo[t], {c})
    BY BudgetSafe
  <1>3. \/ Current(t) \in Weighs(c, n) /\ Rest(t) \in Judging(c)
        \/ Current(t) \in Keeping(c) /\ todo'[t] \in Weighing(c, n)
        \/ Current(t) \in Keeping(c) /\ Aside(todo'[t], {c})
    BY <1>2, BudgetParts, LeadMoves DEF Weighing
  <1>4. CASE Current(t) \in Weighs(c, n) /\ Rest(t) \in Judging(c)
    <2>1. /\ Current(t).op = "compare" /\ Current(t).of = c /\ Current(t).limit = n
          /\ Current(t).over = Record /\ Current(t).within = <<>>
      BY <1>4 DEF Weighs, Branch
    <2>2. count' = count /\ lost' = lost /\ ran' = ran
      BY <2>1, ByOp
    <2>3. \/ Goes1(t, Record)
          \/ Goes1(t, <<>>) /\ ~(count[c] > n)
          \/ todo'[t] = PastHandlers(Rest(t)) /\ ~(count[c] > n)
      <3>1. CompareCount(t)
        BY <2>1, ByOp
      <3>2. todo \in [Threads -> Remainder]
        BY DEF EngineTypes, TodoTypes
      <3>3. Goes(t, (IF count[c] > n THEN Record ELSE <<>>) \o Rest(t))
        BY <2>1, <3>1 DEF CompareCount, Rest
      <3>4. \/ ~(count[c] > n) /\ Goes(t, <<>> \o Rest(t))
            \/ Goes(t, Record \o Rest(t))
        BY <3>3
      <3> QED
        BY <3>2, <3>4 DEF Goes, Goes1
    <2>4. CASE Goes1(t, Record)
      <3>1. todo'[t] \in Judging(c) /\ todo'[t] \in Finding
        BY <1>4, <2>4, RecordPasses DEF Goes1, Judging
      <3> QED
        BY <2>2, <3>1 DEF Condemned
    <2>5. CASE (Goes1(t, <<>>) \/ todo'[t] = PastHandlers(Rest(t))) /\ ~(count[c] > n)
      <3>1. PastHandlers(Rest(t)) = Rest(t)
        BY <1>4, BudgetParts, LeadPast DEF Judging
      <3>2. <<>> \o Rest(t) = Rest(t)
        <4>1. Rest(t) \in Seq(Stmt)
          BY <1>4 DEF Judging, Lead
        <4> QED
          BY <4>1, ConcatEmptySeq
      <3>3. todo'[t] \in Judging(c)
        BY <1>4, <2>5, <3>1, <3>2 DEF Goes1
      <3>4. count[c] <= n
        BY <2>5, BudgetTypes
      <3> QED
        BY <2>2, <3>3, <3>4
    <2> QED
      BY <2>3, <2>4, <2>5
  <1> QED
    BY <1>3, <1>4, KeepingStays, Onward

\* The verdict: a call that has found something does not return from it.
LEMMA VerdictMoves ==
  ASSUME EngineTypes, NEW t \in Threads, Statement(t), ~GoInto(t), Current(t) \in Verdicts
  PROVE  /\ count' = count /\ lost' = lost /\ ran' = ran /\ found' = found
         /\ ~found[t] => todo'[t] = PastHandlers(Rest(t)) /\ raised' = raised
         /\ found[t] => Escapes(t, "violation") \/ \E i \in Nat : Caught(t, i)
  <1>1. Current(t).op = "verdict"
    BY DEF Verdicts
  <1>2. count' = count /\ lost' = lost /\ ran' = ran /\ found' = found /\ GiveVerdict(t) /\ Busy(t)
    BY <1>1, ByOp
  <1>3. todo \in [Threads -> Remainder]
    BY DEF EngineTypes, TodoTypes
  <1>4. ~found[t] => todo'[t] = PastHandlers(Rest(t)) /\ raised' = raised
    BY <1>2, <1>3 DEF GiveVerdict, Advances, Goes, Rest
  <1>5. ASSUME found[t] PROVE Escapes(t, "violation") \/ \E i \in Nat : Caught(t, i)
    <2>1. Throws(t, "violation")
      BY <1>2, <1>5 DEF GiveVerdict
    <2>2. CutsNothing(todo[t], 1)
      BY <1>1, <1>2, CurrentIs DEF EngineTypes
    <2> QED
      BY <1>2, <1>3, <2>1, <2>2, ThrowMoves
  <1> QED
    BY <1>2, <1>4, <1>5

LEMMA JudgingMoves ==
  ASSUME EngineTypes, EngineTypes', NEW t \in Threads, Statement(t), ~GoInto(t),
         NEW c \in Counters, todo[t] \in Judging(c)
  PROVE  /\ count'[c] = count[c] /\ lost'[c] = lost[c] /\ ran'[c] = ran[c]
         /\ \/ todo'[t] \in Free(c)
            \/ todo'[t] \in Judging(c) /\ (Condemned(todo[t], found[t]) => Condemned(todo'[t], found'[t]))
            \/ todo'[t] \in Admitting(c) /\ ~Condemned(todo[t], found[t])
  <1>1. 0 \in Nat
    OBVIOUS
  <1>2. Safe(todo[t], {c})
    BY <1>1, BudgetSafe
  <1>3. \/ Current(t) \in Verdicts /\ Rest(t) \in Admitting(c)
        \/ Current(t) \in Keeping(c) /\ todo'[t] \in Judging(c)
        \/ Current(t) \in Keeping(c) /\ Aside(todo'[t], {c})
    BY <1>1, <1>2, BudgetParts, LeadMoves DEF Judging
  <1>4. CASE Current(t) \in Verdicts /\ Rest(t) \in Admitting(c)
    <2>1. /\ count' = count /\ lost' = lost /\ ran' = ran
          /\ ~found[t] => todo'[t] = PastHandlers(Rest(t))
          /\ found[t] => Escapes(t, "violation") \/ \E i \in Nat : Caught(t, i)
      BY <1>4, VerdictMoves
    <2>2. CASE found[t]
      <3>1. Busy(t)
        BY StatementMoves
      <3>2. ASSUME Escapes(t, "violation") PROVE Aside(todo'[t], {c})
        BY <3>2 DEF Escapes, Aside
      <3>3. ASSUME NEW i \in Nat, Caught(t, i) PROVE Aside(todo'[t], {c})
        BY <1>2, <3>1, <3>3, CaughtAside
      <3>4. todo'[t] \in Free(c)
        BY <2>1, <2>2, <3>2, <3>3, Onward
      <3> QED
        BY <2>1, <3>4
    <2>3. CASE ~found[t]
      <3>1. ~Condemned(todo[t], found[t])
        <4>1. Current(t).op = "verdict"
          BY <1>4 DEF Verdicts
        <4> QED
          BY <1>2, <2>3, <4>1, CondemnedMoves
      <3>2. PastHandlers(Rest(t)) = Rest(t)
        BY <1>1, <1>4, BudgetParts, LeadPast DEF Admitting
      <3> QED
        BY <1>4, <2>1, <2>3, <3>1, <3>2
    <2> QED
      BY <2>2, <2>3
  <1>5. CASE Current(t) \in Keeping(c) /\ todo'[t] \in Judging(c)
    <2>1. Condemned(todo[t], found[t]) => Condemned(todo'[t], found'[t]) \/ todo'[t] \in Free(c)
      BY <1>2, CondemnedMoves, Onward
    <2> QED
      BY <1>5, <2>1, KeepingStays
  <1>6. CASE Current(t) \in Keeping(c) /\ Aside(todo'[t], {c})
    BY <1>6, KeepingStays, Onward
  <1> QED
    BY <1>3, <1>4, <1>5, <1>6

LEMMA AdmittingMoves ==
  ASSUME EngineTypes, EngineTypes', NEW t \in Threads, Statement(t), ~GoInto(t),
         NEW c \in Counters, todo[t] \in Admitting(c)
  PROVE  /\ count'[c] = count[c] /\ lost'[c] = lost[c]
         /\ \/ todo'[t] \in Free(c) /\ ran'[c] = ran[c] + 1
            \/ todo'[t] \in Free(c) \union Admitting(c) /\ ran'[c] = ran[c]
  <1>1. 0 \in Nat
    OBVIOUS
  <1>2. Safe(todo[t], {c})
    BY <1>1, BudgetSafe
  <1>3. \/ Current(t) \in Admits(c) /\ Rest(t) \in Free(c)
        \/ Current(t) \in Keeping(c) /\ todo'[t] \in Admitting(c)
        \/ Current(t) \in Keeping(c) /\ Aside(todo'[t], {c})
    BY <1>1, <1>2, BudgetParts, LeadMoves DEF Admitting
  <1>4. CASE Current(t) \in Admits(c) /\ Rest(t) \in Free(c)
    <2>1. Current(t).op = "admit" /\ Current(t).of = c
      BY <1>4 DEF Admits
    <2>2. count' = count /\ lost' = lost /\ AdmitOne(t)
      BY <2>1, ByOp
    <2>3. ran'[c] = ran[c] + 1
      <3>1. ran' = [ran EXCEPT ![c] = @ + 1]
        BY <2>1, <2>2 DEF AdmitOne
      <3> QED
        BY <3>1 DEF EngineTypes, CountTypes
    <2>4. todo'[t] = PastHandlers(Rest(t))
      BY <2>1, Onward
    <2>5. Rest(t) \in Remainder /\ Aside(Rest(t), {c})
      BY <1>4, Motions DEF Free
    <2>6. todo'[t] \in Free(c)
      BY <2>4, <2>5, PastAside, Onward
    <2> QED
      BY <2>2, <2>3, <2>6
  <1> QED
    BY <1>3, <1>4, KeepingStays, Onward

LEMMA SpenderMoves ==
  ASSUME EngineTypes, EngineTypes', t1 \in Threads, Statement(t1), ~GoInto(t1),
         NEW c \in Counters, NEW n \in Nat, Spent(c, n), Spender(c, n)
  PROVE  Spent(c, n)' /\ Spender(c, n)'
  <1>1. /\ count[c] \in Int /\ lost[c] \in Nat /\ ran[c] \in Nat
        /\ count'[c] \in Int /\ lost'[c] \in Nat /\ ran'[c] \in Nat
    BY BudgetTypes DEF EngineTypes, CountTypes
  <1>2. ran[c] <= n + lost[c] /\ ran[c] <= count[c] + lost[c]
    BY DEF Spent
  <1>3. CASE todo[t1] \in Free(c)
    BY <1>3, FreeMoves DEF Spent, Spender
  <1>4. CASE todo[t1] \in Resetting(c)
    BY <1>1, <1>4, ResettingMoves DEF Spent, Spender
  <1>5. CASE todo[t1] \in Spending(c, n)
    <2>1. \/ /\ todo'[t1] \in Weighing(c, n) \union Free(c)
             /\ ran'[c] = ran[c] /\ lost'[c] >= lost[c]
             /\ count'[c] + lost'[c] >= count[c] + lost[c] + 1
          \/ /\ todo'[t1] \in Free(c) \union Spending(c, n)
             /\ count'[c] = count[c] /\ lost'[c] = lost[c] /\ ran'[c] = ran[c]
      BY <1>5, SpendingMoves
    <2> QED
      BY <1>1, <1>2, <2>1 DEF Spent, Spender
  <1>6. CASE todo[t1] \in Weighing(c, n) /\ ran[c] < count[c] + lost[c]
    <2>1. /\ count'[c] = count[c] /\ lost'[c] = lost[c] /\ ran'[c] = ran[c]
          /\ \/ todo'[t1] \in Judging(c) /\ (Condemned(todo'[t1], found'[t1]) \/ count[c] <= n)
             \/ todo'[t1] \in Free(c) \union Weighing(c, n)
      BY <1>6, WeighingMoves
    <2> QED
      BY <1>1, <1>2, <1>6, <2>1 DEF Spent, Spender
  <1>7. CASE /\ todo[t1] \in Judging(c) /\ ran[c] < count[c] + lost[c]
             /\ Condemned(todo[t1], found[t1]) \/ ran[c] < n + lost[c]
    BY <1>2, <1>7, JudgingMoves DEF Spent, Spender
  <1>8. CASE todo[t1] \in Admitting(c) /\ ran[c] < count[c] + lost[c] /\ ran[c] < n + lost[c]
    <2>1. /\ count'[c] = count[c] /\ lost'[c] = lost[c]
          /\ \/ todo'[t1] \in Free(c) /\ ran'[c] = ran[c] + 1
             \/ todo'[t1] \in Free(c) \union Admitting(c) /\ ran'[c] = ran[c]
      BY <1>8, AdmittingMoves
    <2> QED
      BY <1>1, <1>2, <1>8, <2>1 DEF Spent, Spender
  <1> QED
    BY <1>3, <1>4, <1>5, <1>6, <1>7, <1>8 DEF Spender

\* What the budgets depend on.
LEMMA SpenderSame ==
  ASSUME NEW c, NEW n, todo'[t1] = todo[t1], found'[t1] = found[t1],
         count'[c] = count[c], lost'[c] = lost[c], ran'[c] = ran[c], Spender(c, n), Spent(c, n)
  PROVE  Spender(c, n)' /\ Spent(c, n)'
  <1>1. Spent(c, n)'
    BY DEF Spent
  <1>2. Spender(c, n)'
    BY DEF Spender
  <1> QED
    BY <1>1, <1>2

LEMMA FoundStays ==
  ASSUME EngineTypes, NEW t, Statement(t), ~GoInto(t)
  PROVE  \A u \in Threads \ {t} : found'[u] = found[u]
  <1>1. found \in [Threads -> BOOLEAN]
    BY DEF EngineTypes, LocalTypes
  <1>2. Current(t).op = "hash" => found' = [found EXCEPT ![t] = @ \/ Current(t).kind # "note"]
    BY ByOp DEF HashEvent
  <1> QED
    BY <1>1, <1>2, ByOp

\* Going into a subgraph leaves the programs and the counters alone.
LEMMA GoIntoKeeps ==
  ASSUME NEW t, GoInto(t)
  PROVE  todo' = todo /\ found' = found /\ count' = count /\ lost' = lost /\ ran' = ran /\ raised' = raised
  BY DEF GoInto

LEMMA BudgetStatement ==
  ASSUME EngineTypes, EngineTypes', t1 \in Threads, NEW t \in Threads, Statement(t),
         NEW c \in Counters, NEW n \in Nat, BudgetInv(c, n)
  PROVE  BudgetInv(c, n)'
  <1>1. Spent(c, n) /\ Spender(c, n) /\ \A u \in Threads \ {t1} : todo[u] \in Free(c)
    BY DEF BudgetInv
  <1>2. CASE GoInto(t)
    <2>1. todo' = todo /\ found' = found /\ count' = count /\ lost' = lost /\ ran' = ran
      BY <1>2, GoIntoKeeps
    <2>2. Spender(c, n)' /\ Spent(c, n)'
      BY <1>1, <2>1, SpenderSame
    <2> QED
      BY <1>1, <2>1, <2>2 DEF BudgetInv
  <1>3. CASE ~GoInto(t) /\ t = t1
    <2>1. Spent(c, n)' /\ Spender(c, n)'
      BY <1>1, <1>3, SpenderMoves
    <2>2. \A u \in Threads \ {t1} : todo'[u] = todo[u]
      BY <1>3, Motions
    <2> QED
      BY <1>1, <2>1, <2>2 DEF BudgetInv
  <1>4. CASE ~GoInto(t) /\ t # t1
    <2>1. /\ todo'[t] \in Free(c)
          /\ count'[c] = count[c] /\ lost'[c] = lost[c] /\ ran'[c] = ran[c]
      BY <1>1, <1>4, FreeMoves
    <2>2. \A u \in Threads \ {t} : todo'[u] = todo[u]
      BY <1>4, Motions
    <2>3. found'[t1] = found[t1]
      BY <1>4, FoundStays
    <2>4. Spender(c, n)' /\ Spent(c, n)'
      BY <1>1, <1>4, <2>1, <2>2, <2>3, SpenderSame
    <2> QED
      BY <1>1, <1>4, <2>1, <2>2, <2>4 DEF BudgetInv
  <1> QED
    BY <1>2, <1>3, <1>4

\* A call that has nothing to do with a counter, whatever it is called; one
\* that resets or spends it.
Skips(t, D) == \E name, gate, body : Begin(t, name, gate, body) /\ body \in Off(D)
Spends(t, c, n) ==
    \E name, gate, body : /\ Begin(t, name, gate, body)
                          /\ body \in Off({c}) \union Resetting(c) \union Spending(c, n)

LEMMA OffStarts ==
  ASSUME NEW c, NEW body \in Off({c})
  PROVE  PastHandlers(body) \in Free(c)
  <1>1. body \in Remainder /\ Aside(body, {c})
    BY Programs DEF Off
  <1>2. PastHandlers(body) \in Remainder /\ Aside(PastHandlers(body), {c})
    BY <1>1, PastAside, PastHandlersJoined
  <1> QED
    BY <1>2 DEF Free, Remainder

LEMMA BeginIs ==
  ASSUME EngineTypes, NEW t \in Threads, NEW name, NEW gate, NEW body, Begin(t, name, gate, body)
  PROVE  /\ todo'[t] = PastHandlers(body) /\ \A u \in Threads \ {t} : todo'[u] = todo[u]
         /\ count' = count /\ lost' = lost /\ ran' = ran
         /\ \A u \in Threads \ {t} : found'[u] = found[u] /\ call'[u] = call[u]
         /\ call'[t].name = name /\ Ready(t) /\ raised'[t] = "nothing"
  <1>1. /\ todo \in [Threads -> Remainder] /\ found \in [Threads -> BOOLEAN]
        /\ call = [u \in Threads |-> [name |-> call[u].name, gate |-> call[u].gate]]
        /\ raised \in [Threads -> {"nothing"} \union Raisable]
    BY DEF EngineTypes, TodoTypes, LocalTypes
  <1>2. /\ todo' = [todo EXCEPT ![t] = PastHandlers(body)] /\ found' = [found EXCEPT ![t] = FALSE]
        /\ count' = count /\ lost' = lost /\ ran' = ran /\ Ready(t)
        /\ raised' = [raised EXCEPT ![t] = "nothing"]
    BY DEF Begin, counting
  <1>3. call' = [call EXCEPT ![t] = [name |-> name, gate |-> gate]]
    BY DEF Begin
  <1>4. call'[t].name = name /\ \A u \in Threads \ {t} : call'[u] = call[u]
    BY <1>1, <1>3
  <1> QED
    BY <1>1, <1>2, <1>4

LEMMA SkipsKeep ==
  ASSUME EngineTypes, t1 \in Threads, NEW t \in Threads, NEW c \in Counters, NEW n \in Nat,
         Skips(t, {c}), BudgetInv(c, n)
  PROVE  BudgetInv(c, n)'
  <1>1. PICK name, gate, body : Begin(t, name, gate, body) /\ body \in Off({c})
    BY DEF Skips
  <1>2. /\ todo'[t] \in Free(c) /\ \A u \in Threads \ {t} : todo'[u] = todo[u] /\ found'[u] = found[u]
        /\ count' = count /\ lost' = lost /\ ran' = ran
    BY <1>1, BeginIs, OffStarts
  <1>3. Spent(c, n) /\ Spender(c, n) /\ \A u \in Threads \ {t1} : todo[u] \in Free(c)
    BY DEF BudgetInv
  <1>4. Spent(c, n)'
    BY <1>2, <1>3 DEF Spent
  <1>5. Spender(c, n)'
    <2>1. CASE t = t1
      BY <1>2, <2>1 DEF Spender
    <2>2. CASE t # t1
      BY <1>2, <1>3, <2>2, SpenderSame
    <2> QED
      BY <2>1, <2>2
  <1>6. \A u \in Threads \ {t1} : todo'[u] \in Free(c)
    BY <1>2, <1>3
  <1> QED
    BY <1>4, <1>5, <1>6 DEF BudgetInv

LEMMA SpendsKeep ==
  ASSUME EngineTypes, t1 \in Threads, NEW c \in Counters, NEW n \in Nat,
         Spends(t1, c, n), BudgetInv(c, n)
  PROVE  BudgetInv(c, n)'
  <1>1. PICK name, gate, body : /\ Begin(t1, name, gate, body)
                                /\ body \in Off({c}) \union Resetting(c) \union Spending(c, n)
    BY DEF Spends
  <1>2. PastHandlers(body) \in Free(c) \union Resetting(c) \union Spending(c, n)
    <2>1. CASE body \in Off({c})
      BY <2>1, OffStarts
    <2>2. CASE body \in Resetting(c)
      BY <2>2, BudgetParts, LeadPast DEF Resetting
    <2>3. CASE body \in Spending(c, n)
      BY <2>3, BudgetParts, LeadPast DEF Spending
    <2> QED
      BY <1>1, <2>1, <2>2, <2>3
  <1>3. /\ todo'[t1] \in Free(c) \union Resetting(c) \union Spending(c, n)
        /\ \A u \in Threads \ {t1} : todo'[u] = todo[u]
        /\ count' = count /\ lost' = lost /\ ran' = ran
    BY <1>1, <1>2, BeginIs
  <1> QED
    BY <1>3 DEF BudgetInv, Spent, Spender

\* The counters with a budget, and the mark that is never compared with one.
Budgeted == {Turns, Ops, ScenarioOps, AgentTurns, External}

LEMMA BudgetedIs ==
  /\ {Total, Depth, Scans, Hops, ChainErrors, Tool, Memory, CrewTool} \cap Budgeted = {}
  /\ \A n : /\ {NodeCalls(n), SameNode(n), NodeErrors(n)} \cap Budgeted = {}
            /\ {SameInput(n), TaskCalls(n), SameTask(n), SameAgent(n)} \cap Budgeted = {}
  /\ {Turns, Ops} \cap {ScenarioOps, AgentTurns, External} = {} /\ Turns # Ops
  /\ ScenarioOps # AgentTurns /\ External \notin {ScenarioOps, AgentTurns}
  <1> DEFINE Kinds == {"turns", "ops", "external"}
             Else == {"total", "depth", "scans", "hops", "chain errors", "unrecorded", "node", "same node",
                      "node errors", "same input", "task", "same task", "same agent"}
  <1>1. \A c \in Budgeted : c[1] \in Kinds
    <2>1. Turns[1] = "turns" /\ Ops[1] = "ops" /\ ScenarioOps[1] = "ops" /\ AgentTurns[1] = "turns"
          /\ External[1] = "external"
      BY DEF Turns, Ops, ScenarioOps, AgentTurns, External
    <2> QED
      BY <2>1, Zenon DEF Budgeted
  <1>2. \A s \in Else : s \notin Kinds
    BY Zenon
  <1>3. ASSUME NEW s \in Else, NEW i PROVE <<s, i>> \notin Budgeted
    <2>1. <<s, i>>[1] = s
      OBVIOUS
    <2>2. s \notin Kinds
      BY <1>2
    <2> HIDE DEF Kinds
    <2> QED
      BY <1>1, <2>1, <2>2, Zenon
  <1>4. /\ Total \notin Budgeted /\ Depth \notin Budgeted /\ Scans \notin Budgeted /\ Hops \notin Budgeted
        /\ ChainErrors \notin Budgeted /\ Tool \notin Budgeted /\ Memory \notin Budgeted
        /\ CrewTool \notin Budgeted
    BY <1>3, Zenon DEF Total, Depth, Scans, Hops, ChainErrors, Tool, Memory, CrewTool
  <1>5. \A n : /\ NodeCalls(n) \notin Budgeted /\ SameNode(n) \notin Budgeted /\ NodeErrors(n) \notin Budgeted
               /\ SameInput(n) \notin Budgeted /\ TaskCalls(n) \notin Budgeted
               /\ SameTask(n) \notin Budgeted /\ SameAgent(n) \notin Budgeted
    BY <1>3, Zenon DEF NodeCalls, SameNode, NodeErrors, SameInput, TaskCalls, SameTask, SameAgent
  <1>6. /\ Turns # Ops /\ Turns # ScenarioOps /\ Turns # External /\ Ops # AgentTurns /\ Ops # External
        /\ ScenarioOps # AgentTurns /\ External # ScenarioOps /\ External # AgentTurns
    <2>1. /\ Turns[1] = "turns" /\ Ops[1] = "ops" /\ ScenarioOps[1] = "ops" /\ AgentTurns[1] = "turns"
          /\ External[1] = "external"
      BY DEF Turns, Ops, ScenarioOps, AgentTurns, External
    <2> QED
      BY <2>1
  <1>7. Turns # AgentTurns /\ Ops # ScenarioOps
    <2>1. Turns[2] = "grok" /\ Ops[2] = "grok" /\ ScenarioOps[2] = "make" /\ AgentTurns[2] = "make"
      BY DEF Turns, Ops, ScenarioOps, AgentTurns
    <2> QED
      BY <2>1
  <1> HIDE DEF Budgeted
  <1> QED
    BY <1>4, <1>5, <1>6, <1>7, Zenon

LEMMA AvoidsSkips ==
  ASSUME NEW t, NEW D, Avoids(t, D)
  PROVE  Skips(t, D)
  BY DEF Avoids, Skips

LEMMA SubgraphSkips ==
  ASSUME LangGraphAssumption, LangGraphCounters, tier \in 1 .. 4, NEW D, Depth \notin D,
         NEW t, CallSubgraph(t)
  PROVE  Skips(t, D)
  <1>1. Depth \in Counters /\ MaxDepth[tier] \in Int /\ 1 \in Int /\ -1 \in Int
        /\ TRUE \in BOOLEAN /\ FALSE \in BOOLEAN
    BY DEF LangGraphCounters, LangGraphAssumption
  <1>2. /\ Adjust(Depth, 1, FALSE) \in Tame(D) /\ Adjust(Depth, -1, FALSE) \in Tame(D)
        /\ Adjust(Depth, -1, TRUE) \in Tame(D)
    BY <1>1, AdjustOff
  <1>3. Emit("note") \o Adjust(Depth, -1, FALSE) \o Raise("tripped") \in Tame(D)
    BY <1>2, EmitOff, StatementsOff, OffConcat
  <1>4. Compare(Depth, MaxDepth[tier], Emit("note") \o Adjust(Depth, -1, FALSE) \o Raise("tripped"),
                Emit("note")) \in Far(D)
    BY <1>1, <1>3, EmitOff, CompareOff
  <1>5. EnterSubgraph \in Off(D)
    BY <1>2, <1>4, OffConcat DEF EnterSubgraph
  <1>6. ExitSubgraph \in Off(D)
    BY <1>2, OffConcat DEF ExitSubgraph
  <1> QED
    BY <1>5, <1>6 DEF CallSubgraph, Skips

\* The other runtimes leave them alone.
LEMMA OthersSkip ==
  ASSUME tier \in 1 .. 4, NEW t, NEW c \in Budgeted,
         \/ EngineCall(t) \/ LangGraphCall(t) \/ LangChainCall(t) \/ CrewCall(t) \/ AutoGenCall(t)
         \/ LangflowCall(t)
  PROVE  Skips(t, {c})
  <1>1. CASE EngineCall(t)
    BY <1>1, EngineAvoids, AvoidsSkips
  <1>2. CASE LangGraphCall(t)
    <2>1. \A n \in Nodes : {Total, NodeCalls(n), SameNode(n), NodeErrors(n)} \cap {c} = {}
      BY BudgetedIs
    <2>2. ASSUME CallNode(t) \/ CallStateWrite(t) PROVE Skips(t, {c})
      BY <2>1, <2>2, LangGraphAvoids, AvoidsSkips, EngineAssumption, LangGraphAssumption, LangGraphCounters
    <2>3. ASSUME CallSubgraph(t) PROVE Skips(t, {c})
      <3>1. Depth \notin {c}
        BY BudgetedIs
      <3> QED
        BY <2>3, <3>1, SubgraphSkips, LangGraphAssumption, LangGraphCounters
    <2> QED
      BY <1>2, <2>2, <2>3 DEF LangGraphCall
  <1>3. CASE LangChainCall(t)
    <2>1. {Total, ChainErrors, Tool, Memory} \cap {c} = {} /\ \A i \in Inputs : SameInput(i) \notin {c}
      BY BudgetedIs
    <2> QED
      BY <1>3, <2>1, LangChainAvoids, AvoidsSkips, EngineAssumption, LangChainCounters
  <1>4. CASE CrewCall(t)
    <2>1. {Total, CrewTool} \cap {c} = {} /\ \A k \in Tasks : TaskCalls(k) \notin {c} /\ SameTask(k) \notin {c}
      BY BudgetedIs
    <2> QED
      BY <1>4, <2>1, CrewAvoids, AvoidsSkips, EngineAssumption, CrewAssumption, CrewCounters
  <1>5. CASE AutoGenCall(t)
    <2>1. Total \notin {c} /\ \A a \in Agents : SameAgent(a) \notin {c}
      BY BudgetedIs
    <2> QED
      BY <1>5, <2>1, AutoGenAvoids, AvoidsSkips, EngineAssumption, AutoGenCounters
  <1>6. CASE LangflowCall(t)
    <2>1. {Scans, Hops} \cap {c} = {}
      BY BudgetedIs
    <2> QED
      BY <1>6, <2>1, LangflowAvoids, AvoidsSkips, LangflowCounters, LightCounters
  <1> QED
    BY <1>1, <1>2, <1>3, <1>4, <1>5, <1>6

LEMMA GrokSkips ==
  ASSUME tier \in 1 .. 4, NEW t, NEW c \in {ScenarioOps, AgentTurns, External}, GrokCall(t)
  PROVE  Skips(t, {c})
  <1>1. {Scans, Turns, Ops} \cap {c} = {}
    BY BudgetedIs DEF Budgeted
  <1> QED
    BY <1>1, GrokAvoids, AvoidsSkips, GrokAssumption, GrokCounters, LightCounters

LEMMA MakeSkips ==
  ASSUME tier \in 1 .. 4, NEW t, NEW c \in {Turns, Ops}, MakeCall(t)
  PROVE  Skips(t, {c})
  <1>1. {Scans, ScenarioOps, AgentTurns, External} \cap {c} = {}
    BY BudgetedIs DEF Budgeted
  <1> QED
    BY <1>1, MakeAvoids, AvoidsSkips, MakeAssumption, MakeCounters, LightCounters

\* Pieces of the programs that count.
Adding(c) == Lead(Keeping(c), StoreOne(c), Far({c}))
Weighed(c, n) == Lead(Keeping(c), StoreOne(c), Lead(Keeping(c), Weighs(c, n), Far({c})))
Judged(c, n) ==
    Lead(Keeping(c), StoreOne(c), Lead(Keeping(c), Weighs(c, n), Lead(Keeping(c), Verdicts, Far({c}))))

LEMMA FarKeeps ==
  ASSUME NEW c, NEW s \in Far({c})
  PROVE  s \in Seq(Stmt) /\ (\A i \in 1 .. Len(s) : s[i] \in Keeping(c)) /\ s \in Free(c)
  <1>1. s \in Seq(Plain \union Branch) /\ Aside(s, {c})
    BY DEF Far, Branching
  <1>2. s \in Seq(Stmt)
    BY Programs DEF Far, Program
  <1>3. \A i \in 1 .. Len(s) : s[i] \in Keeping(c)
    BY <1>1, ElementOfSeq DEF Aside, Keeping, Still
  <1> QED
    BY <1>1, <1>2, <1>3 DEF Free

LEMMA LeadWider ==
  ASSUME NEW Q, NEW Y, NEW T, NEW U, T \subseteq U
  PROVE  Lead(Q, Y, T) \subseteq Lead(Q, Y, U)
  BY Zenon DEF Lead

\* What keeps away in front of it, and behind it.
LEMMA FarAround ==
  ASSUME NEW c, NEW Y, NEW T, \A d \in T, b \in Far({c}) : d \o b \in T,
         NEW s \in Lead(Keeping(c), Y, T), NEW b \in Far({c})
  PROVE  s \o b \in Lead(Keeping(c), Y, T) /\ b \o s \in Lead(Keeping(c), Y, T)
  <1>1. b \in Seq(Stmt) /\ \A i \in 1 .. Len(b) : b[i] \in Keeping(c)
    BY FarKeeps
  <1>2. \A d \in T : d \o b \in T
    OBVIOUS
  <1>3. s \o b \in Lead(Keeping(c), Y, T)
    BY <1>1, <1>2, LeadThen
  <1> QED
    BY <1>1, <1>3, LeadOn

\* The next statement that matters, after what keeps away.
LEMMA FarThenOne ==
  ASSUME NEW c, NEW d \in Far({c}), NEW Y, NEW y \in Y, y \in Stmt
  PROVE  d \o <<y>> \in Lead(Keeping(c), Y, Far({c})) /\ <<y>> \in Seq(Stmt)
  <1>1. d \in Seq(Stmt) /\ \A i \in 1 .. Len(d) : d[i] \in Keeping(c)
    BY FarKeeps
  <1>2. <<>> \in Far({c}) /\ <<>> \in Seq(Stmt)
    BY OffConcat
  <1>3. <<y>> \in Seq(Stmt)
    OBVIOUS
  <1>4. <<y>> \o <<>> \in Lead(Keeping(c), Y, Far({c}))
    BY <1>2, LeadAt
  <1>5. <<y>> \in Lead(Keeping(c), Y, Far({c}))
    BY <1>3, <1>4, ConcatEmptySeq
  <1> QED
    BY <1>1, <1>3, <1>5, LeadOn

LEMMA AddingIs ==
  ASSUME NEW c \in Counters
  PROVE  /\ Adjust(c, 1, FALSE) \in Adding(c)
         /\ \A s \in Adding(c), b \in Far({c}) : s \o b \in Adding(c) /\ b \o s \in Adding(c)
  <1> DEFINE rd == [op |-> "read", of |-> c]
             st == [op |-> "store", of |-> c, by |-> 1, floor |-> FALSE]
  <1>1. Adjust(c, 1, FALSE) = <<rd>> \o <<st>>
    BY AdjustIs, Zenon
  <1>2. st \in StoreOne(c)
    BY DEF StoreOne
  <1>3. rd \in Plain /\ st \in Plain
    <2>1. 1 \in Int /\ FALSE \in BOOLEAN
      OBVIOUS
    <2> QED
      BY <2>1 DEF Plain
  <1>4. rd.op = "read"
    OBVIOUS
  <1> HIDE DEF rd, st
  <1>5. rd \in Keeping(c)
    <2>1. Apart(rd, {c})
      BY <1>3, <1>4, PlainAside
    <2> QED
      BY <1>3, <2>1 DEF Keeping, Still
  <1>6. <<rd>> \in Seq(Stmt) /\ \A i \in 1 .. Len(<<rd>>) : <<rd>>[i] \in Keeping(c)
    <2>1. rd \in Stmt
      BY <1>3 DEF Stmt
    <2>2. Len(<<rd>>) = 1 /\ <<rd>>[1] = rd /\ \A i \in 1 .. 1 : i = 1
      OBVIOUS
    <2> QED
      BY <1>5, <2>1, <2>2
  <1>7. <<>> \o <<st>> \in Adding(c)
    <2>1. st \in Stmt /\ <<>> \in Far({c})
      BY <1>3, OffConcat DEF Stmt
    <2> QED
      BY <1>2, <2>1, FarThenOne DEF Adding
  <1>8. <<>> \o <<st>> = <<st>>
    <2>1. <<st>> \in Seq({st})
      OBVIOUS
    <2> QED
      BY <2>1, ConcatEmptySeq
  <1>9. <<rd>> \o <<st>> \in Adding(c)
    BY <1>6, <1>7, <1>8, LeadOn DEF Adding
  <1>10. \A d, b \in Far({c}) : d \o b \in Far({c})
    BY OffConcat
  <1> QED
    BY <1>1, <1>9, <1>10, FarAround DEF Adding

LEMMA WeighedIs ==
  ASSUME NEW c \in Counters, NEW n \in Nat, NEW s \in Adding(c)
  PROVE  s \o Compare(c, n, Record, <<>>) \in Weighed(c, n)
  <1> DEFINE y == [op |-> "compare", of |-> c, limit |-> n, over |-> Record, within |-> <<>>]
  <1>1. Compare(c, n, Record, <<>>) = <<y>>
    BY Zenon DEF Compare
  <1>2. Record \in Flat /\ <<>> \in Flat
    <2>1. Record \in Tame({}) /\ <<>> \in Tame({})
      BY ContentOff, OffConcat
    <2> QED
      BY <2>1 DEF Tame
  <1>3. y \in Branch /\ y.of = c /\ y.limit = n /\ y.over = Record /\ y.within = <<>>
    BY <1>2 DEF Branch
  <1> HIDE DEF y
  <1>4. y \in Weighs(c, n) /\ y \in Stmt
    BY <1>3 DEF Weighs, Stmt
  <1>5. \A d \in Far({c}) : d \o <<y>> \in Lead(Keeping(c), Weighs(c, n), Far({c}))
    BY <1>4, FarThenOne
  <1>6. <<y>> \in Seq(Stmt)
    BY <1>4
  <1> QED
    BY <1>1, <1>5, <1>6, LeadThen DEF Adding, Weighed

LEMMA JudgedIs ==
  ASSUME NEW c \in Counters, NEW n \in Nat, NEW s \in Weighed(c, n)
  PROVE  s \o Verdict \in Judged(c, n)
  <1> DEFINE y == [op |-> "verdict"]
  <1>1. Verdict = <<y>> /\ y \in Plain /\ y.op = "verdict"
    BY DEF Verdict, Plain
  <1> HIDE DEF y
  <1>2. y \in Verdicts /\ y \in Stmt /\ <<y>> \in Seq(Stmt)
    BY <1>1 DEF Verdicts, Stmt
  <1>3. \A d \in Far({c}) : d \o <<y>> \in Lead(Keeping(c), Verdicts, Far({c}))
    BY <1>2, FarThenOne
  <1>4. \A d \in Lead(Keeping(c), Weighs(c, n), Far({c})) :
            d \o <<y>> \in Lead(Keeping(c), Weighs(c, n), Lead(Keeping(c), Verdicts, Far({c})))
    BY <1>2, <1>3, LeadThen
  <1> QED
    BY <1>1, <1>2, <1>4, LeadThen DEF Weighed, Judged

LEMMA AdmitIs ==
  ASSUME NEW c \in Counters
  PROVE  /\ Admit(c) \in Seq(Stmt)
         /\ \A d \in Far({c}) : d \o Admit(c) \in Admitting(c)
  <1> DEFINE y == [op |-> "admit", of |-> c]
  <1>1. Admit(c) = <<y>> /\ y \in Plain /\ y.op = "admit" /\ y.of = c
    BY DEF Admit, Plain
  <1> HIDE DEF y
  <1>2. y \in Admits(c) /\ y \in Stmt
    BY <1>1 DEF Admits, Stmt
  <1>3. Lead(Keeping(c), Admits(c), Far({c})) \subseteq Admitting(c)
    <2>1. Far({c}) \subseteq Free(c)
      BY FarKeeps
    <2> QED
      BY <2>1, LeadWider DEF Admitting
  <1> QED
    BY <1>1, <1>2, <1>3, FarThenOne

\* The whole of it.
LEMMA SpendingIs ==
  ASSUME NEW c \in Counters, NEW n \in Nat
  PROVE  /\ Adding(c) \subseteq Spending(c, n)
         /\ \A s \in Judged(c, n) : s \o Admit(c) \in Spending(c, n)
         /\ \A s \in Spending(c, n), b \in Far({c}) : s \o b \in Spending(c, n)
         /\ \A s \in Weighed(c, n), b \in Far({c}) : s \o b \in Weighed(c, n)
         /\ \A s \in Judged(c, n), b \in Far({c}) : s \o b \in Judged(c, n)
  <1>1. Far({c}) \subseteq Weighing(c, n) \union Free(c)
    BY FarKeeps
  <1>2. Adding(c) \subseteq Spending(c, n)
    BY <1>1, LeadWider DEF Adding, Spending
  <1>3. ASSUME NEW s \in Judged(c, n) PROVE s \o Admit(c) \in Spending(c, n)
    <2>1. Admit(c) \in Seq(Stmt) /\ \A d \in Far({c}) : d \o Admit(c) \in Admitting(c)
      BY AdmitIs
    <2>2. \A d \in Lead(Keeping(c), Verdicts, Far({c})) : d \o Admit(c) \in Judging(c)
      BY <2>1, LeadThen DEF Judging
    <2>3. \A d \in Lead(Keeping(c), Weighs(c, n), Lead(Keeping(c), Verdicts, Far({c}))) :
              d \o Admit(c) \in Weighing(c, n)
      BY <2>1, <2>2, LeadThen DEF Weighing
    <2>4. \A d \in Lead(Keeping(c), Weighs(c, n), Lead(Keeping(c), Verdicts, Far({c}))) :
              d \o Admit(c) \in Weighing(c, n) \union Free(c)
      BY <2>3
    <2> QED
      BY <1>3, <2>1, <2>4, LeadThen DEF Judged, Spending
  <1>4. \A d, b \in Far({c}) : d \o b \in Far({c})
    BY OffConcat
  <1>5. \A d \in Free(c), b \in Far({c}) : d \o b \in Free(c)
    <2>1. \A b \in Far({c}) : b \in Seq(Stmt) /\ Aside(b, {c})
      BY FarKeeps DEF Free
    <2> QED
      BY <2>1, AsideConcat, ConcatProperties DEF Free
  <1>6. \A d \in Admitting(c), b \in Far({c}) : d \o b \in Admitting(c)
    BY <1>5, FarAround DEF Admitting
  <1>7. \A d \in Judging(c), b \in Far({c}) : d \o b \in Judging(c)
    BY <1>6, FarAround DEF Judging
  <1>8. \A d \in Weighing(c, n), b \in Far({c}) : d \o b \in Weighing(c, n)
    BY <1>7, FarAround DEF Weighing
  <1>9. \A s \in Spending(c, n), b \in Far({c}) : s \o b \in Spending(c, n)
    <2>1. \A d \in Weighing(c, n) \union Free(c), b \in Far({c}) : d \o b \in Weighing(c, n) \union Free(c)
      BY <1>5, <1>8
    <2> QED
      BY <2>1, FarAround DEF Spending
  <1>10. \A d \in Lead(Keeping(c), Weighs(c, n), Far({c})), b \in Far({c}) :
             d \o b \in Lead(Keeping(c), Weighs(c, n), Far({c}))
    BY <1>4, FarAround
  <1>11. \A s \in Weighed(c, n), b \in Far({c}) : s \o b \in Weighed(c, n)
    BY <1>10, FarAround DEF Weighed
  <1>12. \A d \in Lead(Keeping(c), Verdicts, Far({c})), b \in Far({c}) :
             d \o b \in Lead(Keeping(c), Verdicts, Far({c}))
    BY <1>4, FarAround
  <1>13. \A d \in Lead(Keeping(c), Weighs(c, n), Lead(Keeping(c), Verdicts, Far({c}))), b \in Far({c}) :
             d \o b \in Lead(Keeping(c), Weighs(c, n), Lead(Keeping(c), Verdicts, Far({c})))
    BY <1>12, FarAround
  <1>14. \A s \in Judged(c, n), b \in Far({c}) : s \o b \in Judged(c, n)
    BY <1>13, FarAround DEF Judged
  <1> QED
    BY <1>2, <1>3, <1>9, <1>11, <1>14

LEMMA SetsIs ==
  ASSUME NEW c \in Counters, NEW v \in Nat, NEW d \in Far({c})
  PROVE  /\ d \o Assign(c, v) \in Lead(Keeping(c), Sets(c, v), Far({c}))
         /\ Assign(c, v) \in Lead(Keeping(c), Sets(c, v), Far({c}))
         /\ \A s \in Lead(Keeping(c), Sets(c, v), Far({c})), b \in Far({c}) :
                s \o b \in Lead(Keeping(c), Sets(c, v), Far({c}))
  <1> DEFINE y == [op |-> "assign", of |-> c, value |-> v]
  <1>1. Assign(c, v) = <<y>> /\ y \in Plain /\ y.op = "assign" /\ y.of = c /\ y.value = v
    BY DEF Assign, Plain
  <1> HIDE DEF y
  <1>2. y \in Sets(c, v) /\ y \in Stmt /\ <<y>> \in Seq(Stmt)
    BY <1>1 DEF Sets, Stmt
  <1>3. \A e \in Far({c}) : e \o <<y>> \in Lead(Keeping(c), Sets(c, v), Far({c}))
    BY <1>2, FarThenOne
  <1>4. <<>> \o <<y>> = <<y>> /\ <<>> \in Far({c})
    BY <1>2, ConcatEmptySeq, OffConcat
  <1>5. <<y>> \in Lead(Keeping(c), Sets(c, v), Far({c}))
    BY <1>3, <1>4
  <1>6. \A a, b \in Far({c}) : a \o b \in Far({c})
    BY OffConcat
  <1> QED
    BY <1>1, <1>3, <1>5, <1>6, FarAround

LEMMA ResettingIs ==
  ASSUME NEW c
  PROVE  Lead(Keeping(c), Sets(c, 0), Far({c})) \subseteq Resetting(c)
  <1>1. Far({c}) \subseteq Free(c)
    BY FarKeeps
  <1> QED
    BY <1>1, LeadWider DEF Resetting

\* A program that keeps away, one that resets and one that counts.
LEMMA BeginSpends ==
  ASSUME NEW t, NEW c, NEW n, NEW name, NEW gate,
         NEW body \in Far({c}) \union Resetting(c) \union Spending(c, n), Begin(t, name, gate, body)
  PROVE  Spends(t, c, n)
  <1>1. body \in Off({c}) \union Resetting(c) \union Spending(c, n)
    BY OffConcat
  <1> QED
    BY <1>1 DEF Spends

\* What the programs of the light runtimes are made of.
LEMMA LightPieces ==
  ASSUME LightCounters, tier \in 1 .. 4, NEW c, c # Scans
  PROVE  /\ Verdict \in Far({c}) /\ Record \in Far({c}) /\ Raise("violation") \in Far({c}) /\ <<>> \in Far({c})
         /\ \A p : When(p, Record) \in Far({c})
         /\ \A h : ScanText(h) \in Far({c})
         /\ \A a, b \in Far({c}) : a \o b \in Far({c})
         /\ \A d \in Counters, m \in Nat :
                d # c => /\ Adjust(d, 1, FALSE) \in Far({c}) /\ Compare(d, m, Record, <<>>) \in Far({c})
                         /\ Admit(d) \in Far({c}) /\ Assign(d, m) \in Far({c})
  <1>1. Scans \notin {c}
    OBVIOUS
  <1>2. /\ Verdict \in Far({c}) /\ Record \in Far({c}) /\ Raise("violation") \in Far({c}) /\ <<>> \in Far({c})
        /\ \A p : When(p, Record) \in Far({c})
        /\ \A h : ScanText(h) \in Far({c})
        /\ \A a, b \in Far({c}) : a \o b \in Far({c})
    BY <1>1, StatementsOff, LightOff, OffConcat
  <1>3. ASSUME NEW d \in Counters, NEW m \in Nat, d # c
        PROVE  /\ Adjust(d, 1, FALSE) \in Far({c}) /\ Compare(d, m, Record, <<>>) \in Far({c})
               /\ Admit(d) \in Far({c}) /\ Assign(d, m) \in Far({c})
    <2>1. d \notin {c}
      BY <1>3
    <2> QED
      BY <2>1, BudgetOff, CountersOff
  <1> QED
    BY <1>2, <1>3

\* The requests of agents, and the counter of turns, then that of operations.
LEMMA AgentsSpend ==
  ASSUME GrokAssumption, GrokCounters, LightCounters, tier \in 1 .. 4, NEW h, NEW a, NEW b
  PROVE  /\ ScanMultiAgentRequest(h, a, b) \in Spending(Turns, MaxTurns)
         /\ ScanMultiAgentRequest(h, a, b) \in Spending(Ops, MaxOps)
  <1>1. /\ Turns \in Counters /\ Ops \in Counters /\ MaxTurns \in Nat /\ MaxOps \in Nat
        /\ Turns # Scans /\ Ops # Scans /\ Turns # Ops
    BY BudgetedIs DEF Budgeted, GrokCounters, GrokAssumption
  <1> DEFINE P == ScanText(h) \o When(a, Record) \o When(b, Record)
             A == Adjust(Turns, 1, FALSE)
             B == Compare(Turns, MaxTurns, Record, <<>>)
             C == Adjust(Ops, 1, FALSE)
             E == Compare(Ops, MaxOps, Record, <<>>)
  <1>2. ScanMultiAgentRequest(h, a, b)
            = P \o A \o B \o C \o E \o Verdict \o Admit(Turns) \o Admit(Ops)
    BY DEF ScanMultiAgentRequest
  <1>3. P \in Far({Turns}) /\ P \in Far({Ops})
    BY <1>1, LightPieces
  <1>4. C \in Far({Turns}) /\ E \in Far({Turns}) /\ Admit(Ops) \in Far({Turns})
    BY <1>1, LightPieces
  <1>5. A \in Far({Ops}) /\ B \in Far({Ops}) /\ Admit(Turns) \in Far({Ops})
    BY <1>1, LightPieces
  <1>6. A \in Adding(Turns) /\ C \in Adding(Ops)
    BY <1>1, AddingIs
  <1>7. \A s \in Adding(Turns) : s \o B \in Weighed(Turns, MaxTurns)
    BY <1>1, WeighedIs
  <1>8. \A s \in Adding(Ops) : s \o E \in Weighed(Ops, MaxOps)
    BY <1>1, WeighedIs
  <1> HIDE DEF P, A, B, C, E
  <1>9. P \o A \o B \o C \o E \o Verdict \o Admit(Turns) \o Admit(Ops) \in Spending(Turns, MaxTurns)
    <2>1. P \o A \in Adding(Turns)
      BY <1>1, <1>3, <1>6, AddingIs
    <2>2. P \o A \o B \in Weighed(Turns, MaxTurns)
      BY <1>7, <2>1
    <2>3. P \o A \o B \o C \in Weighed(Turns, MaxTurns)
      BY <1>1, <1>4, <2>2, SpendingIs
    <2>4. P \o A \o B \o C \o E \in Weighed(Turns, MaxTurns)
      BY <1>1, <1>4, <2>3, SpendingIs
    <2>5. P \o A \o B \o C \o E \o Verdict \in Judged(Turns, MaxTurns)
      BY <1>1, <2>4, JudgedIs
    <2>6. P \o A \o B \o C \o E \o Verdict \o Admit(Turns) \in Spending(Turns, MaxTurns)
      BY <1>1, <2>5, SpendingIs
    <2> QED
      BY <1>1, <1>4, <2>6, SpendingIs
  <1>10. P \o A \o B \o C \o E \o Verdict \o Admit(Turns) \o Admit(Ops) \in Spending(Ops, MaxOps)
    <2>1. P \o A \o B \in Far({Ops})
      BY <1>1, <1>3, <1>5, OffConcat
    <2>2. P \o A \o B \o C \in Adding(Ops)
      BY <1>1, <1>6, <2>1, AddingIs
    <2>3. P \o A \o B \o C \o E \in Weighed(Ops, MaxOps)
      BY <1>8, <2>2
    <2>4. P \o A \o B \o C \o E \o Verdict \in Judged(Ops, MaxOps)
      BY <1>1, <2>3, JudgedIs
    <2>5. P \o A \o B \o C \o E \o Verdict \o Admit(Turns) \in Judged(Ops, MaxOps)
      BY <1>1, <1>5, <2>4, SpendingIs
    <2> QED
      BY <1>1, <2>5, SpendingIs
  <1> QED
    BY <1>2, <1>9, <1>10

\* Every call of the Grok runtime resets, counts or keeps away.
LEMMA GrokSpends ==
  ASSUME GrokAssumption, GrokCounters, LightCounters, tier \in 1 .. 4, NEW t, GrokCall(t)
  PROVE  Spends(t, Turns, MaxTurns) /\ Spends(t, Ops, MaxOps)
  <1>1. /\ Turns \in Counters /\ Ops \in Counters /\ MaxTurns \in Nat /\ MaxOps \in Nat /\ 0 \in Nat
        /\ Turns # Scans /\ Ops # Scans /\ Turns # Ops
    BY BudgetedIs DEF Budgeted, GrokCounters, GrokAssumption
  <1>2. StartSession \in Resetting(Turns) /\ StartSession \in Resetting(Ops)
    <2>1. Assign(Turns, 0) \in Far({Ops}) /\ Assign(Ops, 0) \in Far({Turns})
      BY <1>1, LightPieces
    <2>2. StartSession \in Lead(Keeping(Turns), Sets(Turns, 0), Far({Turns}))
      BY <1>1, <2>1, SetsIs DEF StartSession
    <2>3. StartSession \in Lead(Keeping(Ops), Sets(Ops, 0), Far({Ops}))
      BY <1>1, <2>1, SetsIs DEF StartSession
    <2> QED
      BY <2>2, <2>3, ResettingIs
  <1>3. \A h : ScanPrompt(h) \in Spending(Turns, MaxTurns) /\ ScanPrompt(h) \in Far({Ops})
    <2> SUFFICES ASSUME NEW h PROVE ScanPrompt(h) \in Spending(Turns, MaxTurns) /\ ScanPrompt(h) \in Far({Ops})
      OBVIOUS
    <2>1. ScanText(h) \in Far({Turns}) /\ ScanText(h) \in Far({Ops}) /\ Adjust(Turns, 1, FALSE) \in Far({Ops})
      BY <1>1, LightPieces
    <2>2. ScanPrompt(h) \in Adding(Turns)
      BY <1>1, <2>1, AddingIs DEF ScanPrompt
    <2> QED
      BY <1>1, <2>1, <2>2, SpendingIs, OffConcat DEF ScanPrompt
  <1>4. \A h, a, b : /\ ScanMultiAgentRequest(h, a, b) \in Spending(Turns, MaxTurns)
                     /\ ScanMultiAgentRequest(h, a, b) \in Spending(Ops, MaxOps)
    BY AgentsSpend
  <1>5. ASSUME NEW c, c # Scans
        PROVE  /\ EndSession \in Far({c})
               /\ \A h : ScanSkillFile(h) \in Far({c}) /\ ScanResponse(h) \in Far({c})
               /\ \A d, h : ScanHookScript(d, h) \in Far({c})
               /\ \A d : ScanConfig(d) \in Far({c}) /\ ScanSandboxProfile(d) \in Far({c})
               /\ \A p, q : ScanHeadlessArgs(p, q) \in Far({c})
    <2>1. /\ Verdict \in Far({c}) /\ Record \in Far({c}) /\ Raise("violation") \in Far({c}) /\ <<>> \in Far({c})
          /\ \A p : When(p, Record) \in Far({c})
          /\ \A h : ScanText(h) \in Far({c})
          /\ \A a, b \in Far({c}) : a \o b \in Far({c})
      BY <1>5, LightPieces
    <2>2. EndSession \in Far({c}) /\ \A h : ScanSkillFile(h) \in Far({c}) /\ ScanResponse(h) \in Far({c})
      BY <2>1 DEF EndSession, ScanSkillFile, ScanResponse
    <2>3. \A d, h : ScanHookScript(d, h) \in Far({c})
      BY <2>1 DEF ScanHookScript
    <2>4. \A d : ScanConfig(d) \in Far({c})
      BY <2>1 DEF ScanConfig
    <2>5. \A d : ScanSandboxProfile(d) \in Far({c})
      BY <2>1 DEF ScanSandboxProfile, When
    <2>6. \A p, q : ScanHeadlessArgs(p, q) \in Far({c})
      BY <2>1 DEF ScanHeadlessArgs
    <2> QED
      BY <2>2, <2>3, <2>4, <2>5, <2>6
  <1>6. ASSUME NEW h, \/ Begin(t, "session", FALSE, StartSession) \/ Begin(t, "end", FALSE, EndSession)
                      \/ Begin(t, "skill", TRUE, ScanSkillFile(h))
                      \/ Begin(t, "prompt", FALSE, ScanPrompt(h))
                      \/ Begin(t, "response", FALSE, ScanResponse(h))
        PROVE  Spends(t, Turns, MaxTurns) /\ Spends(t, Ops, MaxOps)
    BY <1>1, <1>2, <1>3, <1>5, <1>6, BeginSpends
  <1>7. ASSUME NEW d, NEW h, \/ Begin(t, "hook", TRUE, ScanHookScript(d, h))
                             \/ Begin(t, "config", TRUE, ScanConfig(d))
                             \/ Begin(t, "sandbox", TRUE, ScanSandboxProfile(d))
        PROVE  Spends(t, Turns, MaxTurns) /\ Spends(t, Ops, MaxOps)
    BY <1>1, <1>5, <1>7, BeginSpends
  <1>8. ASSUME NEW h, NEW p, NEW q,
               \/ Begin(t, "agents", TRUE, ScanMultiAgentRequest(h, p, q))
               \/ Begin(t, "args", TRUE, ScanHeadlessArgs(p, q))
        PROVE  Spends(t, Turns, MaxTurns) /\ Spends(t, Ops, MaxOps)
    BY <1>1, <1>4, <1>5, <1>8, BeginSpends
  <1> QED
    BY <1>6, <1>7, <1>8 DEF GrokCall

\* The payloads of a scenario, and the outputs of its modules.
LEMMA PayloadsSpend ==
  ASSUME MakeAssumption, MakeCounters, LightCounters, tier \in 1 .. 4, NEW h, NEW i, NEW r
  PROVE  /\ ScanWebhookPayload(h, i, r) \in Spending(ScenarioOps, MaxScenarioOps)
         /\ ScanWebhookPayload(h, i, r) \in Far({AgentTurns})
  <1>1. /\ ScenarioOps \in Counters /\ External \in Counters /\ MaxScenarioOps \in Nat /\ 1 \in Nat
        /\ ScenarioOps # Scans /\ AgentTurns # Scans /\ External # ScenarioOps
        /\ ScenarioOps # AgentTurns /\ External # AgentTurns
    BY BudgetedIs DEF Budgeted, MakeCounters, MakeAssumption
  <1> DEFINE P == ScanText(h) \o When(i, Record) \o When(r, Record)
             A == Adjust(ScenarioOps, 1, FALSE)
             B == Compare(ScenarioOps, MaxScenarioOps, Record, <<>>)
             E == Assign(External, 1)
  <1>2. ScanWebhookPayload(h, i, r) = P \o A \o B \o E \o Verdict \o Admit(ScenarioOps) \o Admit(External)
    BY DEF ScanWebhookPayload
  <1>3. P \in Far({ScenarioOps}) /\ E \in Far({ScenarioOps}) /\ Admit(External) \in Far({ScenarioOps})
    BY <1>1, LightPieces
  <1>4. A \in Adding(ScenarioOps)
    BY <1>1, AddingIs
  <1>5. \A s \in Adding(ScenarioOps) : s \o B \in Weighed(ScenarioOps, MaxScenarioOps)
    BY <1>1, WeighedIs
  <1>6. /\ P \in Far({AgentTurns}) /\ A \in Far({AgentTurns}) /\ B \in Far({AgentTurns})
        /\ E \in Far({AgentTurns}) /\ Verdict \in Far({AgentTurns})
        /\ Admit(ScenarioOps) \in Far({AgentTurns}) /\ Admit(External) \in Far({AgentTurns})
    BY <1>1, LightPieces
  <1> HIDE DEF P, A, B, E
  <1>7. P \o A \o B \o E \o Verdict \o Admit(ScenarioOps) \o Admit(External)
            \in Spending(ScenarioOps, MaxScenarioOps)
    <2>1. P \o A \in Adding(ScenarioOps)
      BY <1>1, <1>3, <1>4, AddingIs
    <2>2. P \o A \o B \in Weighed(ScenarioOps, MaxScenarioOps)
      BY <1>5, <2>1
    <2>3. P \o A \o B \o E \in Weighed(ScenarioOps, MaxScenarioOps)
      BY <1>1, <1>3, <2>2, SpendingIs
    <2>4. P \o A \o B \o E \o Verdict \in Judged(ScenarioOps, MaxScenarioOps)
      BY <1>1, <2>3, JudgedIs
    <2>5. P \o A \o B \o E \o Verdict \o Admit(ScenarioOps) \in Spending(ScenarioOps, MaxScenarioOps)
      BY <1>1, <2>4, SpendingIs
    <2> QED
      BY <1>1, <1>3, <2>5, SpendingIs
  <1>8. P \o A \o B \o E \o Verdict \o Admit(ScenarioOps) \o Admit(External) \in Far({AgentTurns})
    <2>1. P \o A \o B \o E \in Far({AgentTurns})
      BY <1>6, OffConcat
    <2> QED
      BY <1>6, <2>1, OffConcat
  <1> QED
    BY <1>2, <1>7, <1>8

LEMMA OutputsSpend ==
  ASSUME MakeAssumption, MakeCounters, LightCounters, tier \in 1 .. 4, NEW h, NEW d
  PROVE  /\ ScanModuleOutput(h, d) \in Spending(AgentTurns, MaxAgentTurns)
         /\ \A c \in {ScenarioOps, External} : ScanModuleOutput(h, d) \in Far({c})
  <1>1. /\ AgentTurns \in Counters /\ MaxAgentTurns \in Nat
        /\ AgentTurns # Scans /\ ScenarioOps # Scans /\ External # Scans
        /\ ScenarioOps # AgentTurns /\ External # AgentTurns
    BY BudgetedIs DEF Budgeted, MakeCounters, MakeAssumption
  <1> DEFINE P == ScanText(h) \o When(d, Record)
             A == Adjust(AgentTurns, 1, FALSE)
             B == Compare(AgentTurns, MaxAgentTurns, Record, <<>>)
  <1>2. ScanModuleOutput(h, d) = P \o A \o B \o Verdict \o Admit(AgentTurns)
    BY DEF ScanModuleOutput
  <1>3. P \in Far({AgentTurns})
    BY <1>1, LightPieces
  <1>4. A \in Adding(AgentTurns)
    BY <1>1, AddingIs
  <1>5. \A s \in Adding(AgentTurns) : s \o B \in Weighed(AgentTurns, MaxAgentTurns)
    BY <1>1, WeighedIs
  <1>6. ASSUME NEW c \in {ScenarioOps, External}
        PROVE  /\ P \in Far({c}) /\ A \in Far({c}) /\ B \in Far({c}) /\ Verdict \in Far({c})
               /\ Admit(AgentTurns) \in Far({c})
    <2>1. c # Scans /\ AgentTurns # c
      BY <1>1, <1>6
    <2> QED
      BY <1>1, <2>1, LightPieces
  <1> HIDE DEF P, A, B
  <1>7. P \o A \o B \o Verdict \o Admit(AgentTurns) \in Spending(AgentTurns, MaxAgentTurns)
    <2>1. P \o A \in Adding(AgentTurns)
      BY <1>1, <1>3, <1>4, AddingIs
    <2>2. P \o A \o B \in Weighed(AgentTurns, MaxAgentTurns)
      BY <1>5, <2>1
    <2>3. P \o A \o B \o Verdict \in Judged(AgentTurns, MaxAgentTurns)
      BY <1>1, <2>2, JudgedIs
    <2> QED
      BY <1>1, <2>3, SpendingIs
  <1>8. ASSUME NEW c \in {ScenarioOps, External}
        PROVE  P \o A \o B \o Verdict \o Admit(AgentTurns) \in Far({c})
    BY <1>6, <1>8, OffConcat
  <1> QED
    BY <1>2, <1>7, <1>8

\* What scans and does not count.
LEMMA ScansKeepOff ==
  ASSUME LightCounters, tier \in 1 .. 4, NEW c, c # Scans
  PROVE  /\ \A h, p, q : /\ MakeInstructions(h, p) \in Far({c}) /\ ScanKnowledgeFile(h, p, q) \in Far({c})
                         /\ ScanDataStoreWrite(q, h, p) \in Far({c})
         /\ \A p, q : ScanMcpScope(p, q) \in Far({c})
         /\ \A o, p, h : ScanHttpModule(o, p, FALSE, h) \in Far({c})
  <1>1. /\ Verdict \in Far({c}) /\ <<>> \in Far({c})
        /\ \A p : When(p, Record) \in Far({c})
        /\ \A h : ScanText(h) \in Far({c})
        /\ \A a, b \in Far({c}) : a \o b \in Far({c})
    BY LightPieces
  <1>2. \A h, p, q : /\ MakeInstructions(h, p) \in Far({c}) /\ ScanKnowledgeFile(h, p, q) \in Far({c})
                     /\ ScanDataStoreWrite(q, h, p) \in Far({c})
    BY <1>1 DEF MakeInstructions, ScanKnowledgeFile, ScanDataStoreWrite
  <1>3. \A p, q : ScanMcpScope(p, q) \in Far({c})
    BY <1>1 DEF ScanMcpScope
  <1>4. \A o, p, h : ScanHttpModule(o, p, FALSE, h) \in Far({c})
    <2>1. \A b : When(FALSE, b) = <<>>
      BY DEF When
    <2> QED
      BY <1>1, <2>1 DEF ScanHttpModule
  <1> QED
    BY <1>2, <1>3, <1>4

\* Every call of the Make runtime counts or keeps away from its ceilings.
LEMMA MakeSpends ==
  ASSUME MakeAssumption, MakeCounters, LightCounters, tier \in 1 .. 4, NEW t, MakeCall(t)
  PROVE  Spends(t, ScenarioOps, MaxScenarioOps) /\ Spends(t, AgentTurns, MaxAgentTurns)
  <1>1. /\ External \in Counters /\ 0 \in Nat /\ ScenarioOps # Scans /\ AgentTurns # Scans /\ External # Scans
        /\ External # ScenarioOps /\ External # AgentTurns
    BY BudgetedIs DEF Budgeted, MakeCounters
  <1>2. \A h, i, r : /\ ScanWebhookPayload(h, i, r) \in Spending(ScenarioOps, MaxScenarioOps)
                     /\ ScanWebhookPayload(h, i, r) \in Far({AgentTurns})
    BY PayloadsSpend
  <1>3. \A h, d : /\ ScanModuleOutput(h, d) \in Spending(AgentTurns, MaxAgentTurns)
                  /\ ScanModuleOutput(h, d) \in Far({ScenarioOps})
    BY OutputsSpend
  <1>4. \A o, p, d, h : /\ ScanHttpModule(o, p, d, h) \in Far({ScenarioOps})
                        /\ ScanHttpModule(o, p, d, h) \in Far({AgentTurns})
    <2>1. ASSUME NEW c \in {ScenarioOps, AgentTurns}, NEW o, NEW p, NEW d, NEW h
          PROVE  ScanHttpModule(o, p, d, h) \in Far({c})
      <3>1. c # Scans /\ External # c
        BY <1>1, <2>1
      <3>2. /\ Verdict \in Far({c}) /\ <<>> \in Far({c}) /\ ScanText(h) \in Far({c})
            /\ \A q : When(q, Record) \in Far({c})
            /\ \A a, b \in Far({c}) : a \o b \in Far({c})
            /\ Compare(External, 0, Record, <<>>) \in Far({c})
        BY <1>1, <3>1, LightPieces
      <3>3. When(d, Compare(External, 0, Record, <<>>)) \in Far({c})
        BY <3>2 DEF When
      <3> QED
        BY <3>2, <3>3 DEF ScanHttpModule
    <2> QED
      BY <2>1
  <1>5. ClearExternalContext \in Far({ScenarioOps}) /\ ClearExternalContext \in Far({AgentTurns})
    BY <1>1, LightPieces DEF ClearExternalContext
  <1>6. ASSUME NEW p, NEW q, NEW h,
               \/ Begin(t, "webhook", TRUE, ScanWebhookPayload(0, p, q))
               \/ Begin(t, "module", TRUE, ScanModuleOutput(0, p))
               \/ Begin(t, "clear", FALSE, ClearExternalContext)
        PROVE  Spends(t, ScenarioOps, MaxScenarioOps) /\ Spends(t, AgentTurns, MaxAgentTurns)
    BY <1>2, <1>3, <1>5, <1>6, BeginSpends
  <1>7. ASSUME NEW p, NEW q, NEW h,
               \/ Begin(t, "instructions", TRUE, MakeInstructions(h, p))
               \/ Begin(t, "knowledge", TRUE, ScanKnowledgeFile(0, p, q))
               \/ Begin(t, "store", TRUE, ScanDataStoreWrite(q, 0, p))
               \/ Begin(t, "scope", TRUE, ScanMcpScope(p, q))
        PROVE  Spends(t, ScenarioOps, MaxScenarioOps) /\ Spends(t, AgentTurns, MaxAgentTurns)
    <2>1. ASSUME NEW c \in {ScenarioOps, AgentTurns}
          PROVE  /\ MakeInstructions(h, p) \in Far({c}) /\ ScanKnowledgeFile(0, p, q) \in Far({c})
                 /\ ScanDataStoreWrite(q, 0, p) \in Far({c}) /\ ScanMcpScope(p, q) \in Far({c})
      <3>1. c # Scans
        BY <1>1, <2>1
      <3> QED
        BY <3>1, ScansKeepOff
    <2> QED
      BY <1>7, <2>1, BeginSpends
  <1>8. ASSUME NEW outside, NEW private, NEW destructive,
               Begin(t, IF destructive THEN "destroy" ELSE "http", TRUE,
                     ScanHttpModule(outside, private, destructive, 0))
        PROVE  Spends(t, ScenarioOps, MaxScenarioOps) /\ Spends(t, AgentTurns, MaxAgentTurns)
    BY <1>4, <1>8, BeginSpends
  <1> QED
    BY <1>6, <1>7, <1>8 DEF MakeCall

-----------------------------------------------------------------------------
(* The external context of the Make runtime *)

\* What sets the mark and then admits a payload; what asks for the mark and
\* then gives its verdict, and nothing after it.
Marking(c) == Lead(Keeping(c), Sets(c, 1), Admitting(c))
Sparing(c) == Lead(Keeping(c), Verdicts, {<<>>})
Asking(c) == Lead(Keeping(c), Weighs(c, 0), Sparing(c))
Bare == {x \in Stmt : x.op # "except"}

LEMMA MarkParts ==
  ASSUME NEW c \in Counters
  PROVE  /\ \A s \in Marking(c) : Safe(s, {c}) /\ PastHandlers(s) = s
         /\ \A s \in Sparing(c) : Only(s, Bare) /\ PastHandlers(s) = s
         /\ \A s \in Asking(c) : Only(s, Bare) /\ PastHandlers(s) = s
  <1>1. 0 \in Nat /\ 1 \in Nat
    OBVIOUS
  <1>2. /\ Keeping(c) \subseteq Plain \union Branch /\ Sets(c, 1) \subseteq Plain \union Branch
        /\ Verdicts \subseteq Plain \union Branch /\ Weighs(c, 0) \subseteq Plain \union Branch
    BY <1>1, BudgetParts
  <1>3. Keeping(c) \subseteq Bare /\ Verdicts \subseteq Bare /\ Weighs(c, 0) \subseteq Bare
    BY <1>2, NoHandlers DEF Bare
  <1>4. \A s \in Marking(c) : Safe(s, {c}) /\ PastHandlers(s) = s
    <2>1. \A s \in Admitting(c) : Safe(s, {c})
      BY <1>1, BudgetSafe
    <2> QED
      BY <1>2, <2>1, LeadSafe, LeadPast DEF Marking
  <1>5. ASSUME NEW s \in Sparing(c) PROVE Only(s, Bare) /\ PastHandlers(s) = s
    <2>1. \A d \in {<<>>} : \A i \in 1 .. Len(d) : d[i] \in Bare
      OBVIOUS
    <2> QED
      BY <1>2, <1>3, <1>5, <2>1, LeadEvery, LeadPast DEF Sparing, Only
  <1>6. ASSUME NEW s \in Asking(c) PROVE Only(s, Bare) /\ PastHandlers(s) = s
    <2>1. \A d \in Sparing(c) : \A i \in 1 .. Len(d) : d[i] \in Bare
      BY <1>5 DEF Only
    <2> QED
      BY <1>2, <1>3, <1>6, <2>1, LeadEvery, LeadPast DEF Asking, Only
  <1> QED
    BY <1>4, <1>5, <1>6

\* Where nothing is handled, what is raised ends the call.
LEMMA BareEscapes ==
  ASSUME EngineTypes, NEW t \in Threads, Busy(t), Only(todo[t], Bare),
         \E kind \in Raisable : Escapes(t, kind) \/ \E i \in Nat : Caught(t, i)
  PROVE  todo'[t] = <<>> /\ raised'[t] # "nothing"
  <1>1. /\ todo \in [Threads -> Remainder] /\ raised \in [Threads -> {"nothing"} \union Raisable]
    BY DEF EngineTypes, TodoTypes
  <1>2. ASSUME NEW i \in Nat, Caught(t, i) PROVE FALSE
    <2>1. i \in 1 .. Len(Rest(t)) /\ Rest(t)[i].op = "except"
      BY <1>1, <1>2, CaughtIs
    <2>2. todo[t] \in Remainder /\ todo[t] # <<>>
      BY <1>1, BusyIs
    <2>3. /\ Len(todo[t]) \in Nat /\ Len(Rest(t)) = Len(todo[t]) - 1
          /\ \A k \in 1 .. Len(todo[t]) - 1 : Rest(t)[k] = todo[t][1 + k]
      BY <2>2, TailSuffix DEF Suffix, Rest
    <2>4. 1 + i \in 1 .. Len(todo[t]) /\ Rest(t)[i] = todo[t][1 + i]
      BY <2>1, <2>3
    <2>5. todo[t][1 + i] \in Bare
      BY <2>4 DEF Only
    <2> QED
      BY <2>1, <2>4, <2>5 DEF Bare
  <1>3. PICK kind \in Raisable : Escapes(t, kind)
    BY <1>2
  <1>4. todo'[t] = <<>> /\ raised' = [raised EXCEPT ![t] = kind] /\ kind # "nothing"
    BY <1>3 DEF Escapes, Raisable
  <1> QED
    BY <1>1, <1>4

\* The mark is set, and what it admitted before stays admitted.
LEMMA MarkingMoves ==
  ASSUME EngineTypes, EngineTypes', NEW t \in Threads, Statement(t), ~GoInto(t),
         NEW c \in Counters, todo[t] \in Marking(c)
  PROVE  \/ todo'[t] \in Admitting(c) /\ count'[c] = 1
         \/ /\ todo'[t] \in Free(c) \union Marking(c)
            /\ count'[c] = count[c] /\ ran'[c] = ran[c]
  <1>1. 0 \in Nat
    OBVIOUS
  <1>2. Safe(todo[t], {c})
    BY MarkParts
  <1>3. \/ Current(t) \in Sets(c, 1) /\ Rest(t) \in Admitting(c)
        \/ Current(t) \in Keeping(c) /\ todo'[t] \in Marking(c)
        \/ Current(t) \in Keeping(c) /\ Aside(todo'[t], {c})
    BY <1>1, <1>2, BudgetParts, LeadMoves DEF Marking
  <1>4. CASE Current(t) \in Sets(c, 1) /\ Rest(t) \in Admitting(c)
    <2>1. Current(t).op = "assign" /\ Current(t).of = c /\ Current(t).value = 1
      BY <1>4 DEF Sets
    <2>2. count'[c] = 1
      <3>1. AssignCount(t)
        BY <2>1, ByOp
      <3>2. count' = [count EXCEPT ![c] = 1]
        BY <2>1, <3>1 DEF AssignCount
      <3> QED
        BY <3>2 DEF EngineTypes, CountTypes
    <2>3. todo'[t] = PastHandlers(Rest(t))
      BY <2>1, Onward
    <2>4. PastHandlers(Rest(t)) = Rest(t)
      BY <1>1, <1>4, BudgetParts, LeadPast DEF Admitting
    <2> QED
      BY <1>4, <2>2, <2>3, <2>4
  <1> QED
    BY <1>3, <1>4, KeepingStays, Onward

\* A destructive request returns when it has found nothing.
LEMMA SparingMoves ==
  ASSUME EngineTypes, EngineTypes', NEW t \in Threads, Statement(t), ~GoInto(t),
         NEW c \in Counters, todo[t] \in Sparing(c)
  PROVE  /\ count'[c] = count[c] /\ ran'[c] = ran[c]
         /\ \/ todo'[t] = <<>> /\ (raised'[t] # "nothing" \/ ~Condemned(todo[t], found[t]))
            \/ todo'[t] \in Sparing(c) /\ (Condemned(todo[t], found[t]) => Condemned(todo'[t], found'[t]))
  <1>1. 0 \in Nat
    OBVIOUS
  <1>2. Only(todo[t], Bare) /\ Busy(t)
    BY MarkParts, ByOp
  <1>3. (\E kind \in Raisable : Escapes(t, kind) \/ \E i \in Nat : Caught(t, i))
            => todo'[t] = <<>> /\ raised'[t] # "nothing"
    BY <1>2, BareEscapes
  <1>4. \/ Current(t) \in Verdicts /\ Rest(t) \in {<<>>}
        \/ Current(t) \in Keeping(c) /\ todo'[t] \in Sparing(c)
        \/ Current(t) \in Keeping(c) /\ todo'[t] = <<>> /\ raised'[t] # "nothing"
    BY <1>1, <1>3, BudgetParts, LeadSteps DEF Sparing
  <1>5. CASE Current(t) \in Verdicts /\ Rest(t) \in {<<>>}
    <2>1. /\ count' = count /\ ran' = ran
          /\ ~found[t] => todo'[t] = PastHandlers(Rest(t))
          /\ found[t] => Escapes(t, "violation") \/ \E i \in Nat : Caught(t, i)
      BY <1>5, VerdictMoves
    <2>2. CASE found[t]
      <3>1. "violation" \in Raisable
        BY DEF Raisable
      <3> QED
        BY <1>3, <2>1, <2>2, <3>1
    <2>3. CASE ~found[t]
      <3>1. ~Condemned(todo[t], found[t])
        <4>1. Current(t).op = "verdict"
          BY <1>5 DEF Verdicts
        <4> QED
          BY <2>3, <4>1, CondemnedSteps
      <3>2. PastHandlers(<<>>) = <<>>
        <4>1. <<>> \in Remainder
          BY <1>5, Motions
        <4> QED
          BY <4>1, PastHandlersJoined
      <3> QED
        BY <1>5, <2>1, <2>3, <3>1, <3>2
    <2> QED
      BY <2>2, <2>3
  <1>6. CASE Current(t) \in Keeping(c) /\ todo'[t] \in Sparing(c)
    <2>1. \/ Condemned(todo[t], found[t]) => Condemned(todo'[t], found'[t])
          \/ todo'[t] = <<>> /\ raised'[t] # "nothing"
      BY <1>3, CondemnedSteps
    <2> QED
      BY <1>6, <2>1, KeepingStays
  <1>7. CASE Current(t) \in Keeping(c) /\ todo'[t] = <<>> /\ raised'[t] # "nothing"
    BY <1>7, KeepingStays
  <1> QED
    BY <1>4, <1>5, <1>6, <1>7

\* It asks for the mark: the mark is a finding.
LEMMA AskingMoves ==
  ASSUME EngineTypes, EngineTypes', NEW t \in Threads, Statement(t), ~GoInto(t),
         NEW c \in Counters, todo[t] \in Asking(c)
  PROVE  /\ count'[c] = count[c] /\ ran'[c] = ran[c]
         /\ \/ todo'[t] = <<>> /\ raised'[t] # "nothing"
            \/ todo'[t] \in Asking(c)
            \/ todo'[t] \in Sparing(c) /\ (Condemned(todo'[t], found'[t]) \/ count[c] <= 0)
  <1>1. 0 \in Nat
    OBVIOUS
  <1>2. Only(todo[t], Bare) /\ Busy(t)
    BY MarkParts, ByOp
  <1>3. (\E kind \in Raisable : Escapes(t, kind) \/ \E i \in Nat : Caught(t, i))
            => todo'[t] = <<>> /\ raised'[t] # "nothing"
    BY <1>2, BareEscapes
  <1>4. \/ Current(t) \in Weighs(c, 0) /\ Rest(t) \in Sparing(c)
        \/ Current(t) \in Keeping(c) /\ todo'[t] \in Asking(c)
        \/ Current(t) \in Keeping(c) /\ todo'[t] = <<>> /\ raised'[t] # "nothing"
    BY <1>1, <1>3, BudgetParts, LeadSteps DEF Asking
  <1>5. CASE Current(t) \in Weighs(c, 0) /\ Rest(t) \in Sparing(c)
    <2>1. /\ Current(t).op = "compare" /\ Current(t).of = c /\ Current(t).limit = 0
          /\ Current(t).over = Record /\ Current(t).within = <<>>
      BY <1>5 DEF Weighs, Branch
    <2>2. count' = count /\ ran' = ran
      BY <2>1, ByOp
    <2>3. \/ todo'[t] = PastHandlers(Record \o Rest(t))
          \/ todo'[t] = PastHandlers(<<>> \o Rest(t)) /\ ~(count[c] > 0)
      <3>1. CompareCount(t)
        BY <2>1, ByOp
      <3>2. todo \in [Threads -> Remainder]
        BY DEF EngineTypes, TodoTypes
      <3>3. Goes(t, (IF count[c] > 0 THEN Record ELSE <<>>) \o Rest(t))
        BY <2>1, <3>1 DEF CompareCount, Rest
      <3>4. \/ ~(count[c] > 0) /\ Goes(t, <<>> \o Rest(t))
            \/ Goes(t, Record \o Rest(t))
        BY <3>3
      <3> QED
        BY <3>2, <3>4 DEF Goes
    <2>4. CASE todo'[t] = PastHandlers(Record \o Rest(t))
      <3>1. todo'[t] \in Sparing(c) /\ todo'[t] \in Finding
        BY <1>5, <2>4, RecordPasses DEF Sparing
      <3> QED
        BY <2>2, <3>1 DEF Condemned
    <2>5. CASE todo'[t] = PastHandlers(<<>> \o Rest(t)) /\ ~(count[c] > 0)
      <3>1. PastHandlers(Rest(t)) = Rest(t)
        BY <1>5, MarkParts
      <3>2. <<>> \o Rest(t) = Rest(t)
        <4>1. Rest(t) \in Seq(Stmt)
          BY <1>5 DEF Sparing, Lead
        <4> QED
          BY <4>1, ConcatEmptySeq
      <3>3. count[c] <= 0
        BY <2>5, BudgetTypes
      <3> QED
        BY <1>5, <2>2, <2>5, <3>1, <3>2, <3>3
    <2> QED
      BY <2>3, <2>4, <2>5
  <1> QED
    BY <1>4, <1>5, KeepingStays

\* What t1 has to do with the mark: a destructive request asks for it and
\* returns only where nothing has been admitted under it; the other calls set
\* it, clear it, or admit under it once it is set.
Destroying(c) ==
    \/ todo[t1] = <<>> /\ (raised[t1] # "nothing" \/ ran[c] = 0)
    \/ todo[t1] \in Asking(c)
    \/ todo[t1] \in Sparing(c) /\ (Condemned(todo[t1], found[t1]) \/ ran[c] = 0)
Accepting(c) ==
    \/ todo[t1] \in Free(c) \union Resetting(c) \union Marking(c)
    \/ todo[t1] \in Admitting(c) /\ count[c] >= 1
Marked(c) == ran[c] > 0 => count[c] >= 1
Alone == \A t \in Threads \ {t1} : call[t].name = "none" /\ todo[t] = <<>>

MarkInv(c) ==
    /\ Marked(c) /\ Alone
    /\ IF call[t1].name = "destroy" THEN Destroying(c) ELSE Accepting(c)

Unmarked(c) == ran[c] = 0 /\ \A t \in Threads : todo[t] \in Free(c)

LEMMA DestroyingMoves ==
  ASSUME EngineTypes, EngineTypes', t1 \in Threads, Statement(t1), ~GoInto(t1),
         NEW c \in Counters, Marked(c), Destroying(c)
  PROVE  Marked(c)' /\ Destroying(c)'
  <1>1. Busy(t1) /\ todo[t1] # <<>>
    BY Motions, ByOp
  <1>2. CASE todo[t1] \in Asking(c)
    <2>1. /\ count'[c] = count[c] /\ ran'[c] = ran[c]
          /\ \/ todo'[t1] = <<>> /\ raised'[t1] # "nothing"
             \/ todo'[t1] \in Asking(c)
             \/ todo'[t1] \in Sparing(c) /\ (Condemned(todo'[t1], found'[t1]) \/ count[c] <= 0)
      BY <1>2, AskingMoves
    <2>2. count[c] <= 0 => ran[c] = 0
      BY BudgetTypes DEF Marked
    <2>3. Marked(c)'
      BY <2>1 DEF Marked
    <2> QED
      BY <2>1, <2>2, <2>3 DEF Destroying
  <1>3. CASE todo[t1] \in Sparing(c) /\ (Condemned(todo[t1], found[t1]) \/ ran[c] = 0)
    <2>1. /\ count'[c] = count[c] /\ ran'[c] = ran[c]
          /\ \/ todo'[t1] = <<>> /\ (raised'[t1] # "nothing" \/ ~Condemned(todo[t1], found[t1]))
             \/ /\ todo'[t1] \in Sparing(c)
                /\ Condemned(todo[t1], found[t1]) => Condemned(todo'[t1], found'[t1])
      BY <1>3, SparingMoves
    <2>2. Marked(c)'
      BY <2>1 DEF Marked
    <2> QED
      BY <1>3, <2>1, <2>2 DEF Destroying
  <1> QED
    BY <1>1, <1>2, <1>3 DEF Destroying

LEMMA EnteringMoves ==
  ASSUME EngineTypes, EngineTypes', t1 \in Threads, Statement(t1), ~GoInto(t1),
         NEW c \in Counters, Marked(c), Accepting(c)
  PROVE  Marked(c)' /\ Accepting(c)'
  <1>1. /\ count[c] \in Int /\ ran[c] \in Nat /\ count'[c] \in Int /\ ran'[c] \in Nat
    BY BudgetTypes DEF EngineTypes, CountTypes
  <1>2. CASE todo[t1] \in Free(c)
    BY <1>2, FreeMoves DEF Marked, Accepting
  <1>3. CASE todo[t1] \in Resetting(c)
    BY <1>1, <1>3, ResettingMoves DEF Marked, Accepting
  <1>4. CASE todo[t1] \in Marking(c)
    <2>1. \/ todo'[t1] \in Admitting(c) /\ count'[c] = 1
          \/ /\ todo'[t1] \in Free(c) \union Marking(c)
             /\ count'[c] = count[c] /\ ran'[c] = ran[c]
      BY <1>4, MarkingMoves
    <2> QED
      BY <1>1, <2>1 DEF Marked, Accepting
  <1>5. CASE todo[t1] \in Admitting(c) /\ count[c] >= 1
    <2>1. /\ count'[c] = count[c]
          /\ todo'[t1] \in Free(c) \union Admitting(c)
      BY <1>5, AdmittingMoves
    <2> QED
      BY <1>1, <1>5, <2>1 DEF Marked, Accepting
  <1> QED
    BY <1>2, <1>3, <1>4, <1>5 DEF Accepting

LEMMA GoIntoIs ==
  ASSUME EngineTypes, NEW t \in Threads, GoInto(t)
  PROVE  /\ call[t].name = "enter" /\ call'[t].name = "entered"
         /\ \A u \in Threads \ {t} : call'[u] = call[u]
  <1>1. call = [u \in Threads |-> [name |-> call[u].name, gate |-> call[u].gate]]
    BY DEF EngineTypes, LocalTypes
  <1>2. call[t].name = "enter" /\ call' = [call EXCEPT ![t].name = "entered"]
    BY DEF GoInto
  <1>3. call'[t] = [call[t] EXCEPT !.name = "entered"] /\ call[t] = [name |-> call[t].name, gate |-> call[t].gate]
    BY <1>1, <1>2
  <1>4. call'[t].name = "entered"
    BY <1>3
  <1> QED
    BY <1>1, <1>2, <1>4

LEMMA MarkStatement ==
  ASSUME EngineTypes, EngineTypes', t1 \in Threads, NEW t \in Threads, Statement(t),
         NEW c \in Counters, MarkInv(c)
  PROVE  MarkInv(c)'
  <1>1. Marked(c) /\ Alone /\ IF call[t1].name = "destroy" THEN Destroying(c) ELSE Accepting(c)
    BY DEF MarkInv
  <1>2. CASE GoInto(t)
    <2>1. todo' = todo /\ found' = found /\ count' = count /\ lost' = lost /\ ran' = ran /\ raised' = raised
      BY <1>2, GoIntoKeeps
    <2>2. /\ call[t].name = "enter" /\ call'[t].name = "entered"
          /\ \A u \in Threads \ {t} : call'[u] = call[u]
      BY <1>2, GoIntoIs
    <2>3. t = t1
      BY <1>1, <2>2 DEF Alone
    <2>4. call[t1].name # "destroy" /\ call'[t1].name # "destroy"
      BY <2>2, <2>3
    <2>5. Alone'
      BY <1>1, <2>1, <2>2, <2>3 DEF Alone
    <2>6. Marked(c)'
      BY <1>1, <2>1 DEF Marked
    <2>7. Accepting(c)'
      BY <1>1, <2>1, <2>4 DEF Accepting
    <2> QED
      BY <2>4, <2>5, <2>6, <2>7 DEF MarkInv
  <1>3. CASE ~GoInto(t)
    <2>1. t = t1
      <3>1. todo[t] # <<>>
        BY <1>3, Motions
      <3> QED
        BY <1>1, <3>1 DEF Alone
    <2>2. call' = call
      BY <1>3, ByOp
    <2>3. \A u \in Threads \ {t1} : todo'[u] = todo[u]
      BY <1>3, <2>1, Motions
    <2>4. Alone'
      BY <1>1, <2>2, <2>3 DEF Alone
    <2>5. CASE call[t1].name = "destroy"
      <3>1. Marked(c)' /\ Destroying(c)'
        BY <1>1, <1>3, <2>1, <2>5, DestroyingMoves
      <3> QED
        BY <2>2, <2>4, <2>5, <3>1 DEF MarkInv
    <2>6. CASE call[t1].name # "destroy"
      <3>1. Marked(c)' /\ Accepting(c)'
        BY <1>1, <1>3, <2>1, <2>6, EnteringMoves
      <3> QED
        BY <2>2, <2>4, <2>6, <3>1 DEF MarkInv
    <2> QED
      BY <2>5, <2>6
  <1> QED
    BY <1>2, <1>3

\* How the Make runtime begins: it asks, or it does not destroy.
Asks(t, c) == \E gate, body : Begin(t, "destroy", gate, body) /\ body \in Asking(c)
Enters(t, c) ==
    \E name, gate, body : /\ name # "destroy" /\ Begin(t, name, gate, body)
                          /\ body \in Off({c}) \union Resetting(c) \union Marking(c)

LEMMA MarkBegins ==
  ASSUME EngineTypes, t1 \in Threads, NEW c \in Counters, Asks(t1, c) \/ Enters(t1, c), MarkInv(c)
  PROVE  MarkInv(c)'
  <1>1. Marked(c) /\ Alone
    BY DEF MarkInv
  <1>2. CASE Asks(t1, c)
    <2>1. PICK gate, body : Begin(t1, "destroy", gate, body) /\ body \in Asking(c)
      BY <1>2 DEF Asks
    <2>2. /\ todo'[t1] = PastHandlers(body) /\ \A u \in Threads \ {t1} : todo'[u] = todo[u] /\ call'[u] = call[u]
          /\ count' = count /\ ran' = ran /\ call'[t1].name = "destroy"
      BY <2>1, BeginIs
    <2>3. PastHandlers(body) = body
      BY <2>1, MarkParts
    <2>4. Destroying(c)'
      BY <2>1, <2>2, <2>3 DEF Destroying
    <2>5. Marked(c)' /\ Alone'
      BY <1>1, <2>2 DEF Marked, Alone
    <2> QED
      BY <2>2, <2>4, <2>5 DEF MarkInv
  <1>3. CASE Enters(t1, c)
    <2>1. PICK name, gate, body : /\ name # "destroy" /\ Begin(t1, name, gate, body)
                                  /\ body \in Off({c}) \union Resetting(c) \union Marking(c)
      BY <1>3 DEF Enters
    <2>2. /\ todo'[t1] = PastHandlers(body) /\ \A u \in Threads \ {t1} : todo'[u] = todo[u] /\ call'[u] = call[u]
          /\ count' = count /\ ran' = ran /\ call'[t1].name = name
      BY <2>1, BeginIs
    <2>3. PastHandlers(body) \in Free(c) \union Resetting(c) \union Marking(c)
      <3>1. CASE body \in Off({c})
        BY <3>1, OffStarts
      <3>2. CASE body \in Resetting(c)
        <4>1. 0 \in Nat
          OBVIOUS
        <4> QED
          BY <3>2, <4>1, BudgetParts, LeadPast DEF Resetting
      <3>3. CASE body \in Marking(c)
        BY <3>3, MarkParts
      <3> QED
        BY <2>1, <3>1, <3>2, <3>3
    <2>4. Accepting(c)'
      BY <2>2, <2>3 DEF Accepting
    <2>5. Marked(c)' /\ Alone'
      BY <1>1, <2>2 DEF Marked, Alone
    <2> QED
      BY <2>1, <2>2, <2>4, <2>5 DEF MarkInv
  <1> QED
    BY <1>2, <1>3

\* A payload sets the mark, passes its verdict and is then admitted.
LEMMA PayloadsMark ==
  ASSUME MakeAssumption, MakeCounters, LightCounters, tier \in 1 .. 4, NEW h, NEW i, NEW r
  PROVE  ScanWebhookPayload(h, i, r) \in Marking(External)
  <1>1. /\ ScenarioOps \in Counters /\ External \in Counters /\ MaxScenarioOps \in Nat /\ 1 \in Nat
        /\ External # Scans /\ ScenarioOps # External
    BY BudgetedIs DEF Budgeted, MakeCounters, MakeAssumption
  <1> DEFINE P == ScanText(h) \o When(i, Record) \o When(r, Record)
                      \o Adjust(ScenarioOps, 1, FALSE) \o Compare(ScenarioOps, MaxScenarioOps, Record, <<>>)
             L == Lead(Keeping(External), Sets(External, 1), Far({External}))
  <1>2. ScanWebhookPayload(h, i, r)
            = P \o Assign(External, 1) \o Verdict \o Admit(ScenarioOps) \o Admit(External)
    BY DEF ScanWebhookPayload
  <1>3. Verdict \in Far({External}) /\ Admit(ScenarioOps) \in Far({External})
    BY <1>1, LightPieces
  <1>4. P \in Far({External})
    <2>1. ScanText(h) \o When(i, Record) \o When(r, Record) \in Far({External})
      BY <1>1, LightPieces
    <2>2. /\ Adjust(ScenarioOps, 1, FALSE) \in Far({External})
          /\ Compare(ScenarioOps, MaxScenarioOps, Record, <<>>) \in Far({External})
      BY <1>1, LightPieces
    <2> QED
      BY <2>1, <2>2, OffConcat
  <1> HIDE DEF P
  <1>5. P \o Assign(External, 1) \o Verdict \o Admit(ScenarioOps) \in L
    <2>1. P \o Assign(External, 1) \in L
      BY <1>1, <1>4, SetsIs
    <2>2. \A s \in L, b \in Far({External}) : s \o b \in L
      BY <1>1, <1>4, SetsIs
    <2> HIDE DEF L
    <2> QED
      BY <1>3, <2>1, <2>2
  <1>6. Admit(External) \in Seq(Stmt) /\ \A d \in Far({External}) : d \o Admit(External) \in Admitting(External)
    BY <1>1, AdmitIs
  <1> QED
    BY <1>2, <1>5, <1>6, LeadThen DEF Marking

\* A destructive request ends with its verdict.
LEMMA DestroyersAsk ==
  ASSUME MakeAssumption, MakeCounters, LightCounters, tier \in 1 .. 4, NEW o, NEW p, NEW h
  PROVE  ScanHttpModule(o, p, TRUE, h) \in Asking(External)
  <1>1. External \in Counters /\ 0 \in Nat /\ External # Scans
    BY BudgetedIs DEF Budgeted, MakeCounters
  <1> DEFINE P == When(o, Record) \o When(p, Record)
             K == Keeping(External)
             W == Weighs(External, 0)
             y == [op |-> "compare", of |-> External, limit |-> 0, over |-> Record, within |-> <<>>]
             v == [op |-> "verdict"]
  <1>2. ScanHttpModule(o, p, TRUE, h) = P \o Compare(External, 0, Record, <<>>) \o ScanText(h) \o Verdict
    <2>1. \A b : When(TRUE, b) = b
      BY DEF When
    <2> QED
      BY <2>1 DEF ScanHttpModule
  <1>3. P \in Far({External}) /\ ScanText(h) \in Far({External})
    BY <1>1, LightPieces
  <1>4. Compare(External, 0, Record, <<>>) = <<y>>
    BY Zenon DEF Compare
  <1>5. Verdict = <<v>> /\ v \in Plain /\ v.op = "verdict"
    BY DEF Verdict, Plain
  <1>6. y \in W /\ y \in Stmt
    <2>1. Record \in Flat /\ <<>> \in Flat
      <3>1. Record \in Tame({}) /\ <<>> \in Tame({})
        BY ContentOff, OffConcat
      <3> QED
        BY <3>1 DEF Tame
    <2>2. y \in Branch /\ y.of = External /\ y.limit = 0 /\ y.over = Record /\ y.within = <<>>
      BY <2>1 DEF Branch
    <2> HIDE DEF y
    <2> QED
      BY <2>2 DEF Weighs, Stmt
  <1> HIDE DEF P, y, v
  <1>7. v \in Verdicts /\ v \in Stmt /\ <<v>> \in Seq(Stmt)
    BY <1>5 DEF Verdicts, Stmt
  <1>8. P \o <<y>> \o ScanText(h) \in Lead(K, W, Far({External}))
    <2>1. P \o <<y>> \in Lead(K, W, Far({External}))
      BY <1>3, <1>6, FarThenOne
    <2>2. \A a, b \in Far({External}) : a \o b \in Far({External})
      BY OffConcat
    <2> QED
      BY <1>3, <2>1, <2>2, FarAround
  <1>9. ASSUME NEW d \in Far({External}) PROVE d \o <<v>> \in Sparing(External)
    <2>1. d \in Seq(Stmt) /\ \A k \in 1 .. Len(d) : d[k] \in Keeping(External)
      BY FarKeeps
    <2>2. <<v>> \o <<>> \in Sparing(External)
      <3>1. <<>> \in {<<>>} /\ <<>> \in Seq(Stmt)
        OBVIOUS
      <3> QED
        BY <1>7, <3>1, LeadAt DEF Sparing
    <2>3. <<v>> \in Sparing(External)
      BY <1>7, <2>2, ConcatEmptySeq
    <2> QED
      BY <2>1, <2>3, LeadOn DEF Sparing
  <1>10. P \o <<y>> \o ScanText(h) \o <<v>> \in Asking(External)
    BY <1>7, <1>8, <1>9, LeadThen DEF Asking
  <1> QED
    BY <1>2, <1>4, <1>5, <1>10

LEMMA MakeMarks ==
  ASSUME MakeAssumption, MakeCounters, LightCounters, tier \in 1 .. 4, NEW t, MakeCall(t)
  PROVE  Asks(t, External) \/ Enters(t, External)
  <1>1. External \in Counters /\ 0 \in Nat /\ External # Scans
    BY BudgetedIs DEF Budgeted, MakeCounters
  <1>2. ASSUME NEW name, name # "destroy", NEW gate,
               NEW body \in Far({External}) \union Resetting(External) \union Marking(External),
               Begin(t, name, gate, body)
        PROVE  Enters(t, External)
    <2>1. body \in Off({External}) \union Resetting(External) \union Marking(External)
      BY <1>2, OffConcat
    <2> QED
      BY <1>2, <2>1 DEF Enters
  <1>3. \A h, i, r : ScanWebhookPayload(h, i, r) \in Marking(External)
    BY PayloadsMark
  <1>4. \A h, d : ScanModuleOutput(h, d) \in Far({External})
    BY OutputsSpend
  <1>5. ClearExternalContext \in Resetting(External)
    <2>1. <<>> \in Far({External})
      BY OffConcat
    <2>2. ClearExternalContext \in Lead(Keeping(External), Sets(External, 0), Far({External}))
      BY <1>1, <2>1, SetsIs DEF ClearExternalContext
    <2> QED
      BY <2>2, ResettingIs
  <1>6. ASSUME NEW p, NEW q, NEW h,
               \/ Begin(t, "webhook", TRUE, ScanWebhookPayload(0, p, q))
               \/ Begin(t, "module", TRUE, ScanModuleOutput(0, p))
               \/ Begin(t, "clear", FALSE, ClearExternalContext)
        PROVE  Enters(t, External)
    BY <1>2, <1>3, <1>4, <1>5, <1>6
  <1>7. ASSUME NEW p, NEW q, NEW h,
               \/ Begin(t, "instructions", TRUE, MakeInstructions(h, p))
               \/ Begin(t, "knowledge", TRUE, ScanKnowledgeFile(0, p, q))
               \/ Begin(t, "store", TRUE, ScanDataStoreWrite(q, 0, p))
               \/ Begin(t, "scope", TRUE, ScanMcpScope(p, q))
        PROVE  Enters(t, External)
    <2>1. /\ MakeInstructions(h, p) \in Far({External}) /\ ScanKnowledgeFile(0, p, q) \in Far({External})
          /\ ScanDataStoreWrite(q, 0, p) \in Far({External}) /\ ScanMcpScope(p, q) \in Far({External})
      BY <1>1, ScansKeepOff
    <2> QED
      BY <1>2, <1>7, <2>1
  <1>8. ASSUME NEW outside, NEW private, NEW destructive \in BOOLEAN,
               Begin(t, IF destructive THEN "destroy" ELSE "http", TRUE,
                     ScanHttpModule(outside, private, destructive, 0))
        PROVE  Asks(t, External) \/ Enters(t, External)
    <2>1. CASE destructive = TRUE
      <3>1. ScanHttpModule(outside, private, TRUE, 0) \in Asking(External)
        BY DestroyersAsk
      <3>2. Begin(t, "destroy", TRUE, ScanHttpModule(outside, private, TRUE, 0))
        BY <1>8, <2>1
      <3> QED
        BY <3>1, <3>2 DEF Asks
    <2>2. CASE destructive = FALSE
      <3>1. ScanHttpModule(outside, private, FALSE, 0) \in Far({External})
        BY <1>1, ScansKeepOff
      <3>2. Begin(t, "http", TRUE, ScanHttpModule(outside, private, FALSE, 0))
        BY <1>8, <2>2
      <3> QED
        BY <1>2, <3>1, <3>2
    <2> QED
      BY <1>8, <2>1, <2>2
  <1> QED
    BY <1>6, <1>7, <1>8 DEF MakeCall

\* The budgets of the two runtimes, and the mark of the second, along a run.
Budgets ==
    /\ BudgetInv(Turns, MaxTurns) /\ BudgetInv(Ops, MaxOps)
    /\ BudgetInv(ScenarioOps, MaxScenarioOps) /\ BudgetInv(AgentTurns, MaxAgentTurns)
Mark == IF part = "make" THEN MarkInv(External) ELSE Unmarked(External)
RunInv == Budgets /\ Mark

BudgetedCounters ==
    /\ {Turns, Ops, ScenarioOps, AgentTurns, External} \subseteq Counters
    /\ MaxTurns \in Nat /\ MaxOps \in Nat /\ MaxScenarioOps \in Nat /\ MaxAgentTurns \in Nat

LEMMA BudgetedCount == BudgetedCounters
  BY GrokCounters, GrokAssumption, MakeCounters, MakeAssumption DEF BudgetedCounters

LEMMA RunStarts ==
  ASSUME EngineInit \/ LightInit, t1 \in Threads
  PROVE  RunInv
  <1>1. /\ count = [c \in Counters |-> 0] /\ lost = [c \in Counters |-> 0] /\ ran = [c \in Counters |-> 0]
        /\ todo = [t \in Threads |-> <<>>]
        /\ call = [t \in Threads |-> [name |-> "none", gate |-> FALSE]]
    BY DEF EngineInit, LightInit, InitialState
  <1>2. ASSUME NEW c \in Counters
        PROVE  /\ count[c] = 0 /\ lost[c] = 0 /\ ran[c] = 0
               /\ \A t \in Threads : todo[t] \in Free(c)
    <2>1. <<>> \in Free(c)
      BY OffConcat, FarKeeps
    <2> QED
      BY <1>1, <2>1
  <1>3. ASSUME NEW c \in Counters, NEW n \in Nat PROVE BudgetInv(c, n)
    BY <1>2, <1>3 DEF BudgetInv, Spent, Spender
  <1>4. Budgets
    BY <1>3, BudgetedCount DEF Budgets, BudgetedCounters
  <1>5. External \in Counters
    BY BudgetedCount DEF BudgetedCounters
  <1>6. MarkInv(External)
    <2>1. \A t \in Threads : call[t].name = "none" /\ todo[t] = <<>>
      BY <1>1
    <2>2. Alone /\ call[t1].name # "destroy"
      BY <2>1 DEF Alone
    <2>3. Marked(External) /\ Accepting(External)
      BY <1>2, <1>5 DEF Marked, Accepting
    <2> QED
      BY <2>2, <2>3 DEF MarkInv
  <1>7. Unmarked(External)
    BY <1>2, <1>5 DEF Unmarked
  <1> QED
    BY <1>4, <1>6, <1>7 DEF RunInv, Mark

LEMMA UnmarkedStatement ==
  ASSUME EngineTypes, EngineTypes', NEW t \in Threads, Statement(t), NEW c \in Counters, Unmarked(c)
  PROVE  Unmarked(c)'
  <1>1. CASE GoInto(t)
    BY <1>1, GoIntoKeeps DEF Unmarked
  <1>2. CASE ~GoInto(t)
    <2>1. todo'[t] \in Free(c) /\ ran'[c] = ran[c]
      BY <1>2, FreeMoves DEF Unmarked
    <2>2. \A u \in Threads \ {t} : todo'[u] = todo[u]
      BY <1>2, Motions
    <2> QED
      BY <2>1, <2>2 DEF Unmarked
  <1> QED
    BY <1>1, <1>2

LEMMA UnmarkedSkips ==
  ASSUME EngineTypes, NEW t \in Threads, NEW c \in Counters, Skips(t, {c}), Unmarked(c)
  PROVE  Unmarked(c)'
  <1>1. PICK name, gate, body : Begin(t, name, gate, body) /\ body \in Off({c})
    BY DEF Skips
  <1>2. todo'[t] \in Free(c) /\ ran' = ran /\ \A u \in Threads \ {t} : todo'[u] = todo[u]
    BY <1>1, BeginIs, OffStarts
  <1> QED
    BY <1>2 DEF Unmarked

LEMMA RunStatement ==
  ASSUME EngineTypes, EngineTypes', t1 \in Threads, RunInv, NEW t \in Threads, Statement(t), part' = part
  PROVE  RunInv'
  <1>1. Budgets /\ Mark
    BY DEF RunInv
  <1>2. Budgets'
    BY <1>1, BudgetStatement, BudgetedCount DEF Budgets, BudgetedCounters
  <1>3. External \in Counters
    BY BudgetedCount DEF BudgetedCounters
  <1>4. Mark'
    <2>1. CASE part = "make"
      <3>1. MarkInv(External)'
        BY <1>1, <1>3, <2>1, MarkStatement DEF Mark
      <3> QED
        BY <2>1, <3>1 DEF Mark
    <2>2. CASE part # "make"
      <3>1. Unmarked(External)'
        BY <1>1, <1>3, <2>2, UnmarkedStatement DEF Mark
      <3> QED
        BY <2>2, <3>1 DEF Mark
    <2> QED
      BY <2>1, <2>2
  <1> QED
    BY <1>2, <1>4 DEF RunInv

\* A call of a runtime that has no budget, by any thread.
LEMMA RunOthers ==
  ASSUME EngineTypes, tier \in 1 .. 4, t1 \in Threads, RunInv, NEW t \in Threads, part' = part, part # "make",
         \/ EngineCall(t) \/ LangGraphCall(t) \/ LangChainCall(t) \/ CrewCall(t) \/ AutoGenCall(t)
         \/ LangflowCall(t)
  PROVE  RunInv'
  <1>1. \A c \in Budgeted : Skips(t, {c})
    BY OthersSkip
  <1>2. /\ Skips(t, {Turns}) /\ Skips(t, {Ops}) /\ Skips(t, {ScenarioOps}) /\ Skips(t, {AgentTurns})
        /\ Skips(t, {External})
    BY <1>1 DEF Budgeted
  <1>3. Budgets'
    BY <1>2, SkipsKeep, BudgetedCount DEF RunInv, Budgets, BudgetedCounters
  <1>4. Unmarked(External)'
    BY <1>2, UnmarkedSkips, BudgetedCount DEF RunInv, Mark, BudgetedCounters
  <1> QED
    BY <1>3, <1>4 DEF RunInv, Mark

LEMMA RunGrok ==
  ASSUME EngineTypes, tier \in 1 .. 4, t1 \in Threads, RunInv, part' = part, part # "make", GrokCall(t1)
  PROVE  RunInv'
  <1>1. Spends(t1, Turns, MaxTurns) /\ Spends(t1, Ops, MaxOps)
    BY GrokSpends, GrokAssumption, GrokCounters, LightCounters
  <1>2. Skips(t1, {ScenarioOps}) /\ Skips(t1, {AgentTurns}) /\ Skips(t1, {External})
    BY GrokSkips
  <1>3. Budgets'
    BY <1>1, <1>2, SkipsKeep, SpendsKeep, BudgetedCount DEF RunInv, Budgets, BudgetedCounters
  <1>4. Unmarked(External)'
    BY <1>2, UnmarkedSkips, BudgetedCount DEF RunInv, Mark, BudgetedCounters
  <1> QED
    BY <1>3, <1>4 DEF RunInv, Mark

LEMMA RunMake ==
  ASSUME EngineTypes, tier \in 1 .. 4, t1 \in Threads, RunInv, part' = part, part = "make", MakeCall(t1)
  PROVE  RunInv'
  <1>1. Spends(t1, ScenarioOps, MaxScenarioOps) /\ Spends(t1, AgentTurns, MaxAgentTurns)
    BY MakeSpends, MakeAssumption, MakeCounters, LightCounters
  <1>2. Skips(t1, {Turns}) /\ Skips(t1, {Ops})
    BY MakeSkips
  <1>3. Asks(t1, External) \/ Enters(t1, External)
    BY MakeMarks, MakeAssumption, MakeCounters, LightCounters
  <1>4. Budgets'
    BY <1>1, <1>2, SkipsKeep, SpendsKeep, BudgetedCount DEF RunInv, Budgets, BudgetedCounters
  <1>5. MarkInv(External)'
    BY <1>3, MarkBegins, BudgetedCount DEF RunInv, Mark, BudgetedCounters
  <1> QED
    BY <1>4, <1>5 DEF RunInv, Mark

LEMMA RunStutters ==
  ASSUME RunInv, UNCHANGED mcVars
  PROVE  RunInv'
  <1>1. UNCHANGED <<part, todo, call, raised, found, count, lost, ran>>
    BY DEF mcVars, engineVars, counting, threads
  <1>2. ASSUME NEW c, NEW n, BudgetInv(c, n) PROVE BudgetInv(c, n)'
    BY <1>1, <1>2 DEF BudgetInv, Spent, Spender
  <1>3. Budgets'
    BY <1>2 DEF RunInv, Budgets
  <1>4. ASSUME NEW c, MarkInv(c) PROVE MarkInv(c)'
    BY <1>1, <1>4 DEF MarkInv, Marked, Alone, Destroying, Accepting
  <1>5. ASSUME NEW c, Unmarked(c) PROVE Unmarked(c)'
    BY <1>1, <1>5 DEF Unmarked
  <1>6. Mark'
    BY <1>1, <1>4, <1>5 DEF RunInv, Mark
  <1> QED
    BY <1>3, <1>6 DEF RunInv

LEMMA RunNext ==
  ASSUME EngineTypes, EngineTypes', tier \in 1 .. 4, RunInv, [MCNext]_mcVars
  PROVE  RunInv'
  <1>1. t1 \in Threads
    BY RuntimesAssumption DEF RuntimesAssumption
  <1>2. ASSUME part' = part, PartCall(t1) PROVE RunInv'
    <2>1. CASE part = "grok" /\ GrokCall(t1)
      BY <1>1, <1>2, <2>1, RunGrok
    <2>2. CASE part = "make" /\ MakeCall(t1)
      BY <1>1, <1>2, <2>2, RunMake
    <2>3. CASE /\ part # "make"
               /\ \/ EngineCall(t1) \/ LangGraphCall(t1) \/ LangChainCall(t1) \/ CrewCall(t1)
                  \/ AutoGenCall(t1) \/ LangflowCall(t1)
      BY <1>1, <1>2, <2>3, RunOthers
    <2> QED
      BY <1>2, <2>1, <2>2, <2>3 DEF PartCall
  <1>3. ASSUME part' = part, part = "threads", NEW t \in Threads, SharedCall(t) PROVE RunInv'
    BY <1>1, <1>3, SharedCallIs, RunOthers
  <1>4. ASSUME part' = part, NEW t \in Threads, Statement(t) PROVE RunInv'
    BY <1>1, <1>4, RunStatement
  <1>5. ASSUME MCNext PROVE RunInv'
    BY <1>2, <1>3, <1>4, <1>5 DEF MCNext
  <1> QED
    BY <1>5, RunStutters

LEMMA RunSays ==
  ASSUME RunInv, t1 \in Threads, EngineTypes
  PROVE  GrokBudgetsHold /\ MakeLimitsHold
  <1>1. GrokBudgetsHold
    BY DEF RunInv, Budgets, BudgetInv, Spent, GrokBudgetsHold
  <1>2. ran[ScenarioOps] <= MaxScenarioOps + lost[ScenarioOps] /\ ran[AgentTurns] <= MaxAgentTurns + lost[AgentTurns]
    BY DEF RunInv, Budgets, BudgetInv, Spent
  <1>3. ASSUME NEW t \in Threads, call[t].name = "destroy", Returned(t) PROVE ran[External] = 0
    <2>1. CASE part = "make"
      <3>1. MarkInv(External)
        BY <2>1 DEF RunInv, Mark
      <3>2. t = t1
        BY <1>3, <3>1 DEF MarkInv, Alone
      <3>3. Destroying(External)
        BY <1>3, <3>1, <3>2 DEF MarkInv
      <3>4. todo[t1] = <<>> /\ raised[t1] = "nothing"
        BY <1>3, <3>2 DEF Returned, Busy
      <3>5. \A Q, Y, T : <<>> \notin Lead(Q, Y, T)
        BY DEF Lead
      <3> QED
        BY <3>3, <3>4, <3>5 DEF Destroying, Asking, Sparing
    <2>2. CASE part # "make"
      BY <2>2 DEF RunInv, Mark, Unmarked
    <2> QED
      BY <2>1, <2>2
  <1> QED
    BY <1>1, <1>2, <1>3 DEF MakeLimitsHold

\* The ceilings of MCRuntimes: record_tool_call's, those of a Grok session and
\* of a Make scenario, each up to what stale stores have lost; and no
\* destructive request returns once a payload has been let in, until the
\* external context is cleared.  Grok and Make are run by one thread.
THEOREM RunBudgets == MCSpec => []BudgetsHold
  <1>1. MCInit => RunInv
    BY RunStarts, RuntimesAssumption DEF MCInit, RuntimesAssumption
  <1>2. EngineInv /\ EngineInv' /\ RunInv /\ [MCNext]_mcVars => RunInv'
    <2>1. EngineInv => EngineTypes /\ tier \in 1 .. 4
      BY DEF EngineInv, EngineTypes, CountTypes
    <2>2. EngineInv' => EngineTypes'
      BY DEF EngineInv
    <2> QED
      BY <2>1, <2>2, RunNext
  <1>3. EngineInv /\ RunInv => GrokBudgetsHold /\ MakeLimitsHold
    BY RunSays, RuntimesAssumption DEF EngineInv, RuntimesAssumption
  <1>4. CeilingHolds /\ GrokBudgetsHold /\ MakeLimitsHold => BudgetsHold
    BY DEF BudgetsHold
  <1> QED
    BY <1>1, <1>2, <1>3, <1>4, RunsAreRuntimes, EngineInvariant, EngineCeiling, PTL DEF MCSpec
=============================================================================
