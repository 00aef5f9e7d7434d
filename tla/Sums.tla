-------------------------------- MODULE Sums --------------------------------
(***************************************************************************)
(* Induction over finite sets, and what it shows of the sums the other     *)
(* modules take with the folds of the community modules.  A proof by       *)
(* induction is one by a smallest counterexample: the sets of which a      *)
(* lemma is false have a smallest member.                                  *)
(***************************************************************************)
EXTENDS Integers, FiniteSets, FiniteSetTheorems, WellFoundedInduction, TLAPS

\* A family of subsets of a finite set has a smallest member.
LEMMA LeastSubset ==
    ASSUME NEW S, IsFiniteSet(S), NEW F \in SUBSET SUBSET S, F # {}
    PROVE  \E s \in F : \A r \in F : r \subseteq s => r = s
<1>1. F \subseteq FiniteSubsetsOf(S)
  BY FS_FiniteSubsetsOfFinite
<1>2. IsWellFoundedOn(StrictSubsetOrdering(S), FiniteSubsetsOf(S))
  BY FS_StrictSubsetOrderingWellFounded
<1>3. PICK s \in F : \A r \in F : <<r, s>> \notin StrictSubsetOrdering(S)
  BY <1>1, <1>2, WFMin
<1>4. ASSUME NEW r \in F, r \subseteq s PROVE r = s
  BY <1>3, <1>4 DEF StrictSubsetOrdering
<1> QED BY <1>4

\* A set of natural numbers has a least member.
LEMMA LeastNat ==
    ASSUME NEW T \in SUBSET Nat, T # {}
    PROVE  \E n \in T : \A m \in T : n <= m
<1>1. PICK k \in T : TRUE
  OBVIOUS
<1> DEFINE S == 1 .. k
           F == {1 .. m : m \in T \cap (0 .. k)}
<1>2. F \in SUBSET SUBSET S /\ F # {}
  <2>1. k \in T \cap (0 .. k)
    OBVIOUS
  <2> QED BY <2>1
<1>3. IsFiniteSet(S)
  BY FS_Interval
<1>4. PICK s \in F : \A r \in F : r \subseteq s => r = s
  <2> HIDE DEF F, S
  <2> QED BY <1>2, <1>3, LeastSubset
<1>5. PICK n \in T \cap (0 .. k) : s = 1 .. n
  OBVIOUS
<1>6. ASSUME NEW m \in T, m < n PROVE FALSE
  <2>1. 1 .. m \in F /\ 1 .. m \subseteq s
    BY <1>5, <1>6
  <2>2. 1 .. m = 1 .. n
    BY <2>1, <1>4, <1>5
  <2> QED BY <2>2, <1>6
<1>7. n \in T /\ \A m \in T : n <= m
  BY <1>6
<1> QED BY <1>7

-----------------------------------------------------------------------------
(* Sums *)

Chosen(s) == CHOOSE x \in s : TRUE
AllBut(s) == s \ {Chosen(s)}

\* What the fold adds up over s, when g has what it adds up over smaller sets.
SumStep(g, f, s) == IF s = {} THEN 0 ELSE f[Chosen(s)] + g[AllBut(s)]
IsSum(g, f, S) == g = [s \in SUBSET S |-> SumStep(g, f, s)]
SumFcn(f) == CHOOSE g : IsSum(g, f, DOMAIN f)

\* Taking one element away comes to an end.
LEMMA OneRemoved ==
    ASSUME NEW D, IsFiniteSet(D), NEW s \in SUBSET D
    PROVE  /\ Cardinality(s) \in Nat
           /\ Cardinality(s) <= Cardinality(D)
           /\ Cardinality(s) = 0 => s = {}
           /\ s # {} => /\ Chosen(s) \in s /\ AllBut(s) \in SUBSET D
                        /\ AllBut(s) \subseteq s /\ AllBut(s) # s
                        /\ Cardinality(AllBut(s)) = Cardinality(s) - 1
<1>1. IsFiniteSet(s) /\ Cardinality(s) <= Cardinality(D)
  BY FS_Subset
<1>2. Cardinality(s) \in Nat /\ (Cardinality(s) = 0 => s = {})
  BY <1>1, FS_CardinalityType, FS_EmptySet
<1>3. s # {} => Chosen(s) \in s
  BY DEF Chosen
<1>4. s # {} => Cardinality(AllBut(s)) = Cardinality(s) - 1
  BY <1>1, <1>3, FS_RemoveElement DEF AllBut
<1> QED BY <1>1, <1>2, <1>3, <1>4 DEF AllBut

\* A sum of the subsets of at most n elements.
Small(D, n) == {s \in SUBSET D : Cardinality(s) <= n}
SumUpTo(g, f, n) ==
    /\ g \in [Small(DOMAIN f, n) -> Int]
    /\ \A s \in Small(DOMAIN f, n) : g[s] = SumStep(g, f, s)

\* What a sum is over a set rests on what it is over smaller ones,
LEMMA SmallerFirst ==
    ASSUME NEW D, IsFiniteSet(D), NEW n \in Nat, NEW s \in Small(D, n), s # {}
    PROVE  /\ AllBut(s) \in Small(D, n - 1) /\ AllBut(s) \in Small(D, n)
           /\ Chosen(s) \in D
<1>1. s \in SUBSET D /\ Cardinality(s) <= n
  BY DEF Small
<1>2. /\ Cardinality(s) \in Nat /\ Cardinality(AllBut(s)) = Cardinality(s) - 1
      /\ AllBut(s) \in SUBSET D /\ Chosen(s) \in s
  BY <1>1, OneRemoved
<1>3. Cardinality(AllBut(s)) <= n - 1 /\ Cardinality(AllBut(s)) <= n
  BY <1>1, <1>2
<1> QED BY <1>1, <1>2, <1>3 DEF Small

\* so that one element more can be summed over,
LEMMA SumExtends ==
    ASSUME NEW f, IsFiniteSet(DOMAIN f), \A x \in DOMAIN f : f[x] \in Int,
           NEW n \in Nat, n > 0, NEW g, SumUpTo(g, f, n - 1)
    PROVE  \E h : SumUpTo(h, f, n)
<1> DEFINE D == DOMAIN f
           h == [s \in Small(D, n) |-> SumStep(g, f, s)]
<1>1. ASSUME NEW s \in Small(D, n)
      PROVE  SumStep(g, f, s) \in Int
  <2>1. CASE s = {} BY <2>1 DEF SumStep
  <2>2. CASE s # {}
    <3>1. AllBut(s) \in Small(D, n - 1) /\ Chosen(s) \in D
      BY <2>2, SmallerFirst
    <3>2. f[Chosen(s)] \in Int /\ g[AllBut(s)] \in Int
      BY <3>1 DEF SumUpTo
    <3> QED BY <3>2, <2>2 DEF SumStep
  <2> QED BY <2>1, <2>2
<1>2. ASSUME NEW s \in Small(D, n), s \in Small(D, n - 1)
      PROVE  h[s] = g[s]
  BY <1>2 DEF SumUpTo
<1>3. ASSUME NEW s \in Small(D, n)
      PROVE  h[s] = SumStep(h, f, s)
  <2>1. CASE s = {} BY <2>1 DEF SumStep
  <2>2. CASE s # {}
    <3>1. AllBut(s) \in Small(D, n - 1) /\ AllBut(s) \in Small(D, n)
      BY <2>2, SmallerFirst
    <3>2. h[AllBut(s)] = g[AllBut(s)]
      BY <3>1, <1>2
    <3> QED BY <3>2, <2>2 DEF SumStep
  <2> QED BY <2>1, <2>2
<1>4. SumUpTo(h, f, n)
  <2>1. h \in [Small(D, n) -> Int]
    BY <1>1
  <2> HIDE DEF h
  <2> QED BY <2>1, <1>3 DEF SumUpTo
<1> QED BY <1>4

\* and any number of them,
LEMMA SumExists ==
    ASSUME NEW f, IsFiniteSet(DOMAIN f), \A x \in DOMAIN f : f[x] \in Int, NEW n \in Nat
    PROVE  \E g : SumUpTo(g, f, n)
<1> DEFINE Bad == {m \in Nat : ~ \E g : SumUpTo(g, f, m)}
<1> SUFFICES ASSUME Bad # {} PROVE FALSE
  OBVIOUS
<1>1. PICK m \in Bad : \A k \in Bad : m <= k
  <2>1. Bad \subseteq Nat
    OBVIOUS
  <2> HIDE DEF Bad
  <2> QED BY <2>1, LeastNat
<1>2. m \in Nat /\ ~ \E g : SumUpTo(g, f, m)
  OBVIOUS
<1>3. m # 0
  <2> SUFFICES ASSUME m = 0 PROVE FALSE
    OBVIOUS
  <2> DEFINE g == [s \in Small(DOMAIN f, 0) |-> 0]
  <2>1. ASSUME NEW s \in Small(DOMAIN f, 0) PROVE s = {}
    <3>1. s \in SUBSET DOMAIN f /\ Cardinality(s) <= 0
      BY DEF Small
    <3> QED BY <3>1, OneRemoved
  <2>2. SumUpTo(g, f, 0)
    BY <2>1 DEF SumUpTo, SumStep
  <2> QED BY <2>2, <1>2
<1>4. m - 1 \in Nat /\ m - 1 < m /\ m > 0
  BY <1>2, <1>3
<1>5. m - 1 \notin Bad
  <2> HIDE DEF Bad
  <2> QED BY <1>1, <1>2, <1>4
<1>6. PICK g : SumUpTo(g, f, m - 1)
  BY <1>4, <1>5
<1>7. \E h : SumUpTo(h, f, m)
  BY <1>2, <1>4, <1>6, SumExtends
<1> QED BY <1>2, <1>7

\* and the recursive definition does define a function.
LEMMA SumDefined ==
    ASSUME NEW f, IsFiniteSet(DOMAIN f), \A x \in DOMAIN f : f[x] \in Int
    PROVE  IsSum(SumFcn(f), f, DOMAIN f)
<1> DEFINE D == DOMAIN f
           n == Cardinality(D)
<1>1. n \in Nat /\ Small(D, n) = SUBSET D
  <2>1. n \in Nat
    BY FS_CardinalityType
  <2>2. ASSUME NEW s \in SUBSET D PROVE Cardinality(s) <= n
    BY OneRemoved
  <2> QED BY <2>1, <2>2 DEF Small
<1>2. PICK g : SumUpTo(g, f, n)
  BY <1>1, SumExists
<1>3. IsSum(g, f, D)
  BY <1>1, <1>2 DEF IsSum, SumUpTo
<1> QED BY <1>3 DEF SumFcn

\* What a sum is over each subset.
LEMMA SumSteps ==
    ASSUME NEW f, IsFiniteSet(DOMAIN f), \A x \in DOMAIN f : f[x] \in Int,
           NEW s \in SUBSET DOMAIN f
    PROVE  SumFcn(f)[s] = SumStep(SumFcn(f), f, s)
  BY SumDefined DEF IsSum

\* Sums of integers are integers.
LEMMA SumInteger ==
    ASSUME NEW f, IsFiniteSet(DOMAIN f), \A x \in DOMAIN f : f[x] \in Int,
           NEW s \in SUBSET DOMAIN f
    PROVE  SumFcn(f)[s] \in Int
<1> DEFINE Bad == {r \in SUBSET DOMAIN f : SumFcn(f)[r] \notin Int}
<1> SUFFICES ASSUME Bad # {} PROVE FALSE
  OBVIOUS
<1>1. PICK m \in Bad : \A r \in Bad : r \subseteq m => r = m
  <2>1. Bad \in SUBSET SUBSET DOMAIN f
    OBVIOUS
  <2> HIDE DEF Bad
  <2> QED BY <2>1, LeastSubset
<1>2. m \in SUBSET DOMAIN f /\ SumFcn(f)[m] \notin Int
  OBVIOUS
<1>3. SumFcn(f)[m] = SumStep(SumFcn(f), f, m)
  BY <1>2, SumSteps
<1>4. CASE m = {}
  BY <1>2, <1>3, <1>4 DEF SumStep
<1>5. CASE m # {}
  <2>1. Chosen(m) \in m /\ AllBut(m) \in SUBSET DOMAIN f /\ AllBut(m) \subseteq m /\ AllBut(m) # m
    BY <1>2, <1>5, OneRemoved
  <2>2. SumFcn(f)[AllBut(m)] \in Int
    <3> SUFFICES ASSUME AllBut(m) \notin Bad PROVE SumFcn(f)[AllBut(m)] \in Int
      <4> HIDE DEF Bad
      <4> QED BY <2>1, <1>1
    <3> QED BY <2>1
  <2>3. f[Chosen(m)] \in Int
    BY <2>1, <1>2
  <2> QED BY <2>2, <2>3, <1>2, <1>3, <1>5 DEF SumStep
<1> QED BY <1>4, <1>5

\* There is one such function only.
LEMMA SumUnique ==
  ASSUME NEW f, IsFiniteSet(DOMAIN f), \A x \in DOMAIN f : f[x] \in Int,
         NEW g, IsSum(g, f, DOMAIN f)
  PROVE  \A s \in SUBSET DOMAIN f : g[s] = SumFcn(f)[s]
<1> DEFINE Bad == {r \in SUBSET DOMAIN f : g[r] # SumFcn(f)[r]}
<1> SUFFICES ASSUME Bad # {} PROVE FALSE
  OBVIOUS
<1>1. PICK m \in Bad : \A r \in Bad : r \subseteq m => r = m
  <2>1. Bad \in SUBSET SUBSET DOMAIN f
    OBVIOUS
  <2> HIDE DEF Bad
  <2> QED BY <2>1, LeastSubset
<1>2. m \in SUBSET DOMAIN f /\ g[m] # SumFcn(f)[m]
  OBVIOUS
<1>3. SumFcn(f)[m] = SumStep(SumFcn(f), f, m) /\ g[m] = SumStep(g, f, m)
  BY <1>2, SumSteps DEF IsSum
<1>4. CASE m = {}
  BY <1>2, <1>3, <1>4 DEF SumStep
<1>5. CASE m # {}
  <2>1. AllBut(m) \in SUBSET DOMAIN f /\ AllBut(m) \subseteq m /\ AllBut(m) # m
    BY <1>2, <1>5, OneRemoved
  <2>2. g[AllBut(m)] = SumFcn(f)[AllBut(m)]
    <3> SUFFICES ASSUME AllBut(m) \notin Bad PROVE g[AllBut(m)] = SumFcn(f)[AllBut(m)]
      <4> HIDE DEF Bad
      <4> QED BY <2>1, <1>1
    <3> QED BY <2>1
  <2> QED BY <2>2, <1>2, <1>3, <1>5 DEF SumStep
<1> QED BY <1>4, <1>5

\* A sum over a set is any of its elements' and the sum over the rest: the order
\* in which the fold takes them does not matter.
LEMMA SumSplits ==
  ASSUME NEW f, IsFiniteSet(DOMAIN f), \A x \in DOMAIN f : f[x] \in Int,
         NEW s \in SUBSET DOMAIN f, NEW t \in s
  PROVE  SumFcn(f)[s] = f[t] + SumFcn(f)[s \ {t}]
<1> DEFINE D == DOMAIN f
           F == SumFcn(f)
           Right(r, x) == F[r] = f[x] + F[r \ {x}]
           Bad == {r \in SUBSET D : \E x \in r : ~ Right(r, x)}
<1> SUFFICES ASSUME Bad # {} PROVE FALSE
  OBVIOUS
<1>1. PICK m \in Bad : \A r \in Bad : r \subseteq m => r = m
  <2>1. Bad \in SUBSET SUBSET DOMAIN f
    OBVIOUS
  <2> HIDE DEF Bad
  <2> QED BY <2>1, LeastSubset
<1>2. m \in SUBSET D /\ \E x \in m : ~ Right(m, x)
  OBVIOUS
<1>3. PICK x \in m : ~ Right(m, x)
  BY <1>2
<1>4. ASSUME NEW r \in SUBSET m, r # m, NEW y \in r PROVE Right(r, y)
  <2> SUFFICES ASSUME r \notin Bad PROVE Right(r, y)
    <3> HIDE DEF Bad
    <3> QED BY <1>1, <1>4
  <2> QED BY <1>2
<1> DEFINE c == Chosen(m)
<1>5. c \in m /\ F[m] = f[c] + F[m \ {c}]
  <2>1. c \in m /\ m # {}
    BY <1>2, OneRemoved
  <2> QED BY <2>1, <1>2, SumSteps DEF SumStep, AllBut
<1>6. CASE c = x
  BY <1>3, <1>5, <1>6
<1>7. CASE c # x
  <2> HIDE DEF c, F, Right, Bad
  <2>1. m \ {c} \in SUBSET m /\ m \ {c} # m /\ x \in m \ {c}
        /\ m \ {x} \in SUBSET m /\ m \ {x} # m /\ c \in m \ {x}
    BY <1>5, <1>7
  <2>2. Right(m \ {c}, x) /\ Right(m \ {x}, c)
    BY <2>1, <1>4
  <2>3. (m \ {c}) \ {x} = (m \ {x}) \ {c}
    OBVIOUS
  <2> DEFINE both == (m \ {c}) \ {x}
  <2>4. F[m \ {c}] = f[x] + F[both] /\ F[m \ {x}] = f[c] + F[both]
    BY <2>2, <2>3 DEF Right
  <2>5. both \in SUBSET D
    BY <1>2
  <2> HIDE DEF both
  <2>6. F[both] \in Int
    BY <2>5, SumInteger DEF F
  <2>7. f[c] \in Int /\ f[x] \in Int
    BY <1>2, <1>5
  <2>8. F[m] = f[x] + F[m \ {x}]
    BY <2>4, <2>6, <2>7, <1>5
  <2> QED BY <2>8, <1>3 DEF Right
<1> QED BY <1>6, <1>7

\* Two functions that agree on a set have the same sum over it.
LEMMA SumAgrees ==
  ASSUME NEW f, IsFiniteSet(DOMAIN f), \A x \in DOMAIN f : f[x] \in Int,
         NEW g, IsFiniteSet(DOMAIN g), \A x \in DOMAIN g : g[x] \in Int,
         NEW s \in SUBSET DOMAIN f, s \subseteq DOMAIN g, \A x \in s : f[x] = g[x]
  PROVE  SumFcn(f)[s] = SumFcn(g)[s]
<1> DEFINE Bad == {r \in SUBSET s : SumFcn(g)[r] # SumFcn(f)[r]}
<1> SUFFICES ASSUME Bad # {} PROVE FALSE
  OBVIOUS
<1>0. IsFiniteSet(s)
  BY FS_Subset
<1>1. PICK m \in Bad : \A r \in Bad : r \subseteq m => r = m
  <2>1. Bad \in SUBSET SUBSET s
    OBVIOUS
  <2> HIDE DEF Bad
  <2> QED BY <2>1, <1>0, LeastSubset
<1>2. m \in SUBSET s /\ SumFcn(g)[m] # SumFcn(f)[m]
  OBVIOUS
<1>3. SumFcn(f)[m] = SumStep(SumFcn(f), f, m) /\ SumFcn(g)[m] = SumStep(SumFcn(g), g, m)
  BY <1>2, SumSteps
<1>4. CASE m = {}
  BY <1>2, <1>3, <1>4 DEF SumStep
<1>5. CASE m # {}
  <2>1. AllBut(m) \in SUBSET s /\ AllBut(m) \subseteq m /\ AllBut(m) # m /\ Chosen(m) \in s
    BY <1>0, <1>2, <1>5, OneRemoved
  <2>2. SumFcn(g)[AllBut(m)] = SumFcn(f)[AllBut(m)]
    <3> SUFFICES ASSUME AllBut(m) \notin Bad PROVE SumFcn(g)[AllBut(m)] = SumFcn(f)[AllBut(m)]
      <4> HIDE DEF Bad
      <4> QED BY <2>1, <1>1
    <3> QED BY <2>1
  <2> QED BY <2>1, <2>2, <1>2, <1>3, <1>5 DEF SumStep
<1> QED BY <1>4, <1>5

\* When one summand changes, the sums it is in change by as much.
LEMMA SumChanges ==
    ASSUME NEW f, NEW g, IsFiniteSet(DOMAIN f), DOMAIN g = DOMAIN f,
           \A x \in DOMAIN f : f[x] \in Int /\ g[x] \in Int,
           NEW t \in DOMAIN f, \A x \in DOMAIN f : x # t => g[x] = f[x],
           NEW s \in SUBSET DOMAIN f
    PROVE  SumFcn(g)[s] = SumFcn(f)[s] + IF t \in s THEN g[t] - f[t] ELSE 0
<1> DEFINE D == DOMAIN f
           F == SumFcn(f)
           G == SumFcn(g)
           Right(r) == G[r] = F[r] + IF t \in r THEN g[t] - f[t] ELSE 0
           Bad == {r \in SUBSET D : ~ Right(r)}
<1> SUFFICES ASSUME Bad # {} PROVE FALSE
  OBVIOUS
<1>1. PICK m \in Bad : \A r \in Bad : r \subseteq m => r = m
  <2>1. Bad \in SUBSET SUBSET DOMAIN f
    OBVIOUS
  <2> HIDE DEF Bad
  <2> QED BY <2>1, LeastSubset
<1>2. m \in SUBSET D /\ ~ Right(m)
  OBVIOUS
<1>3. F[m] = SumStep(F, f, m) /\ G[m] = SumStep(G, g, m)
  BY <1>2, SumSteps
<1>4. CASE m = {}
  BY <1>2, <1>3, <1>4 DEF SumStep
<1>5. CASE m # {}
  <2> DEFINE c == Chosen(m)
             o == AllBut(m)
  <2>1. c \in m /\ o \in SUBSET D /\ o \subseteq m /\ o # m
    BY <1>2, <1>5, OneRemoved
  <2>2. Right(o)
    <3> SUFFICES ASSUME o \notin Bad PROVE Right(o)
      <4> HIDE DEF Bad, o
      <4> QED BY <2>1, <1>1
    <3> HIDE DEF o, Right
    <3> QED BY <2>1
  <2>3. F[o] \in Int /\ G[o] \in Int /\ f[c] \in Int /\ g[c] \in Int /\ f[t] \in Int /\ g[t] \in Int
    <3> HIDE DEF c, o
    <3> QED BY <2>1, <1>2, SumInteger
  <2>4. F[m] = f[c] + F[o] /\ G[m] = g[c] + G[o]
    BY <1>3, <1>5 DEF SumStep
  <2>5. CASE c = t
    <3>1. t \notin o /\ t \in m
      BY <2>5, <2>1 DEF AllBut
    <3> HIDE DEF c, o, F, G
    <3> QED BY <3>1, <2>2, <2>3, <2>4, <2>5, <1>2
  <2>6. CASE c # t
    <3>1. g[c] = f[c] /\ (t \in o <=> t \in m)
      BY <2>6, <2>1, <1>2 DEF AllBut
    <3> HIDE DEF c, o, F, G
    <3> QED BY <3>1, <2>2, <2>3, <2>4, <1>2
  <2> QED BY <2>5, <2>6
<1> QED BY <1>4, <1>5

\* The sum of zeros.
LEMMA SumOfZeros ==
    ASSUME NEW f, IsFiniteSet(DOMAIN f), \A x \in DOMAIN f : f[x] = 0, NEW s \in SUBSET DOMAIN f
    PROVE  SumFcn(f)[s] = 0
<1> DEFINE Bad == {r \in SUBSET DOMAIN f : SumFcn(f)[r] # 0}
<1> SUFFICES ASSUME Bad # {} PROVE FALSE
  OBVIOUS
<1>1. PICK m \in Bad : \A r \in Bad : r \subseteq m => r = m
  <2>1. Bad \in SUBSET SUBSET DOMAIN f
    OBVIOUS
  <2> HIDE DEF Bad
  <2> QED BY <2>1, LeastSubset
<1>2. m \in SUBSET DOMAIN f /\ SumFcn(f)[m] # 0
  OBVIOUS
<1>3. SumFcn(f)[m] = SumStep(SumFcn(f), f, m)
  BY <1>2, SumSteps
<1>4. CASE m = {}
  BY <1>2, <1>3, <1>4 DEF SumStep
<1>5. CASE m # {}
  <2>1. Chosen(m) \in m /\ AllBut(m) \in SUBSET DOMAIN f /\ AllBut(m) \subseteq m /\ AllBut(m) # m
    BY <1>2, <1>5, OneRemoved
  <2>2. SumFcn(f)[AllBut(m)] = 0
    <3> SUFFICES ASSUME AllBut(m) \notin Bad PROVE SumFcn(f)[AllBut(m)] = 0
      <4> HIDE DEF Bad
      <4> QED BY <2>1, <1>1
    <3> QED BY <2>1
  <2>3. f[Chosen(m)] = 0
    BY <2>1, <1>2
  <2> QED BY <2>2, <2>3, <1>2, <1>3, <1>5 DEF SumStep
<1> QED BY <1>4, <1>5

\* Sums of natural numbers are natural numbers.
LEMMA SumNatural ==
    ASSUME NEW f, IsFiniteSet(DOMAIN f), \A x \in DOMAIN f : f[x] \in Nat, NEW s \in SUBSET DOMAIN f
    PROVE  SumFcn(f)[s] \in Nat
<1> DEFINE Bad == {r \in SUBSET DOMAIN f : SumFcn(f)[r] \notin Nat}
<1> SUFFICES ASSUME Bad # {} PROVE FALSE
  OBVIOUS
<1>1. PICK m \in Bad : \A r \in Bad : r \subseteq m => r = m
  <2>1. Bad \in SUBSET SUBSET DOMAIN f
    OBVIOUS
  <2> HIDE DEF Bad
  <2> QED BY <2>1, LeastSubset
<1>2. m \in SUBSET DOMAIN f /\ SumFcn(f)[m] \notin Nat
  OBVIOUS
<1>3. SumFcn(f)[m] = SumStep(SumFcn(f), f, m)
  <2>1. \A x \in DOMAIN f : f[x] \in Int
    OBVIOUS
  <2> QED BY <1>2, <2>1, SumSteps
<1>4. CASE m = {}
  BY <1>2, <1>3, <1>4 DEF SumStep
<1>5. CASE m # {}
  <2>1. Chosen(m) \in m /\ AllBut(m) \in SUBSET DOMAIN f /\ AllBut(m) \subseteq m /\ AllBut(m) # m
    BY <1>2, <1>5, OneRemoved
  <2>2. SumFcn(f)[AllBut(m)] \in Nat
    <3> SUFFICES ASSUME AllBut(m) \notin Bad PROVE SumFcn(f)[AllBut(m)] \in Nat
      <4> HIDE DEF Bad
      <4> QED BY <2>1, <1>1
    <3> QED BY <2>1
  <2>3. f[Chosen(m)] \in Nat
    BY <2>1, <1>2
  <2>4. f[Chosen(m)] + SumFcn(f)[AllBut(m)] \in Nat
    BY <2>2, <2>3
  <2> QED BY <2>4, <1>2, <1>3, <1>5 DEF SumStep
<1> QED BY <1>4, <1>5
=============================================================================
