------------------------ MODULE SlidingWindowProofs ------------------------
(***************************************************************************)
(* The rate limiter is right for every rate, window and set of identities. *)
(* The bucket of an identity is the tail of its admissions, and whatever   *)
(* fell off that tail is older than the window (WindowInv); both           *)
(* properties follow from that.  The lemmas speak of one bucket w, the     *)
(* admissions a behind it and the time t, and of no state.                 *)
(***************************************************************************)
EXTENDS SlidingWindow, SequenceTheorems, TLAPS

\* WindowInv of one identity.
Good(w, a, t) ==
    /\ Len(a) - Len(w) >= 0
    /\ \A n \in 1 .. Len(w) : w[n] = a[Len(a) - Len(w) + n]
    /\ \A m, n \in 1 .. Len(a) : m <= n => a[m] <= a[n]
    /\ \A n \in 1 .. Len(a) : a[n] <= t
    /\ \A n \in 1 .. Len(a) - Len(w) : a[n] < t - Window

\* AtMostRPM of one identity.
Spaced(a) == \A n \in 1 .. Len(a) - RPM : a[n + RPM] - a[n] > Window

\* RefusedOnlyWhenFull of one identity, turned away at time r.
FullAt(r, a) ==
    \E n \in 1 .. Len(a) - RPM + 1 :
        \A m \in n .. n + RPM - 1 : r - Window <= a[m] /\ a[m] <= r

-----------------------------------------------------------------------------
(* What the operations on one bucket do *)

LEMMA KeptFacts ==
    ASSUME NEW w \in Seq(Nat), NEW k \in 0 .. Len(w)
    PROVE  /\ Kept(w, k) \in Seq(Nat)
           /\ Len(Kept(w, k)) = Len(w) - k
           /\ \A n \in 1 .. Len(w) - k : Kept(w, k)[n] = w[k + n]
  <1>1. Len(w) \in Nat
    BY LenProperties
  <1>2. k + 1 \in 1 .. Len(w) + 1 /\ Len(w) \in k .. Len(w)
    BY <1>1
  <1>3. \A i \in k + 1 .. Len(w) : w[i] \in Nat
    BY ElementOfSeq, <1>1
  <1> QED
    BY <1>1, <1>2, <1>3, SubSeqProperties DEF Kept

LEMMA AppendFacts ==
    ASSUME NEW s \in Seq(Nat), NEW t \in Nat
    PROVE  /\ Append(s, t) \in Seq(Nat)
           /\ Len(Append(s, t)) = Len(s) + 1
           /\ \A n \in 1 .. Len(s) : Append(s, t)[n] = s[n]
           /\ Append(s, t)[Len(s) + 1] = t
           /\ Len(s) \in Nat
           /\ \A n \in 1 .. Len(s) : s[n] \in Nat
  BY AppendProperties, LenProperties, ElementOfSeq

LEMMA EvictGood ==
    ASSUME NEW w \in Seq(Nat), NEW a \in Seq(Nat), NEW t \in Nat,
           NEW k \in 0 .. Len(w), Good(w, a, t),
           \A n \in 1 .. k : w[n] < t - Window
    PROVE  Good(Kept(w, k), a, t)
  <1>1. Len(w) \in Nat /\ Len(a) \in Nat /\ Window \in Nat
    BY LenProperties, WindowAssumption
  <1>2. \A n \in 1 .. Len(a) : a[n] \in Nat
    BY ElementOfSeq
  <1> DEFINE v == Kept(w, k)
  <1>3. Len(v) = Len(w) - k /\ \A n \in 1 .. Len(w) - k : v[n] = w[k + n]
    BY KeptFacts
  <1> HIDE DEF v
  <1>4. Len(a) - Len(v) >= 0
    BY <1>1, <1>3 DEF Good
  <1>5. \A n \in 1 .. Len(v) : v[n] = a[Len(a) - Len(v) + n]
    <2> SUFFICES ASSUME NEW n \in 1 .. Len(v)
                 PROVE  v[n] = a[Len(a) - Len(v) + n]
      OBVIOUS
    <2>1. k + n \in 1 .. Len(w) /\ Len(a) - Len(w) + (k + n) = Len(a) - Len(v) + n
      BY <1>1, <1>3
    <2>2. w[k + n] = a[Len(a) - Len(w) + (k + n)]
      BY <2>1 DEF Good
    <2> QED
      BY <1>1, <1>3, <2>1, <2>2
  <1>6. \A n \in 1 .. Len(a) - Len(v) : a[n] < t - Window
    <2> SUFFICES ASSUME NEW n \in 1 .. Len(a) - Len(v)
                 PROVE  a[n] < t - Window
      OBVIOUS
    <2>1. CASE n <= Len(a) - Len(w)
      <3>1. n \in 1 .. Len(a) - Len(w)
        BY <1>1, <1>3, <2>1
      <3> QED
        BY <3>1 DEF Good
    <2>2. CASE n > Len(a) - Len(w)
      <3>1. n - (Len(a) - Len(w)) \in 1 .. k
        BY <1>1, <1>3, <2>2
      <3>2. n - (Len(a) - Len(w)) \in 1 .. Len(w)
        BY <1>1, <3>1
      <3>3. w[n - (Len(a) - Len(w))] = a[Len(a) - Len(w) + (n - (Len(a) - Len(w)))]
        BY <3>2 DEF Good
      <3>4. Len(a) - Len(w) + (n - (Len(a) - Len(w))) = n
        BY <1>1
      <3> QED
        BY <3>1, <3>3, <3>4
    <2> QED
      BY <1>1, <1>3, <2>1, <2>2
  <1> QED
    BY <1>4, <1>5, <1>6 DEF Good, v

LEMMA AppendGood ==
    ASSUME NEW w \in Seq(Nat), NEW a \in Seq(Nat), NEW t \in Nat, Good(w, a, t)
    PROVE  Good(Append(w, t), Append(a, t), t)
  <1> DEFINE v == Append(w, t)
             b == Append(a, t)
  <1>1. /\ Len(v) = Len(w) + 1 /\ Len(w) \in Nat
        /\ \A n \in 1 .. Len(w) : v[n] = w[n]
        /\ v[Len(w) + 1] = t
    BY AppendFacts
  <1>2. /\ Len(b) = Len(a) + 1 /\ Len(a) \in Nat
        /\ \A n \in 1 .. Len(a) : b[n] = a[n] /\ a[n] \in Nat
        /\ b[Len(a) + 1] = t
    BY AppendFacts
  <1> HIDE DEF v, b
  <1>3. Len(b) - Len(v) = Len(a) - Len(w) /\ Len(a) - Len(w) \in Nat
    BY <1>1, <1>2 DEF Good
  <1>4. \A n \in 1 .. Len(v) : v[n] = b[Len(b) - Len(v) + n]
    <2> SUFFICES ASSUME NEW n \in 1 .. Len(v)
                 PROVE  v[n] = b[Len(b) - Len(v) + n]
      OBVIOUS
    <2>1. CASE n = Len(w) + 1
      BY <1>1, <1>2, <1>3, <2>1
    <2>2. CASE n \in 1 .. Len(w)
      <3>1. w[n] = a[Len(a) - Len(w) + n] /\ Len(a) - Len(w) + n \in 1 .. Len(a)
        BY <1>1, <1>2, <1>3, <2>2 DEF Good
      <3> QED
        BY <1>1, <1>2, <1>3, <2>2, <3>1
    <2> QED
      BY <1>1, <2>1, <2>2
  <1>5. \A n \in 1 .. Len(b) : b[n] <= t /\ b[n] \in Nat
    <2> SUFFICES ASSUME NEW n \in 1 .. Len(b)
                 PROVE  b[n] <= t /\ b[n] \in Nat
      OBVIOUS
    <2>1. n \in 1 .. Len(a) \/ n = Len(a) + 1
      BY <1>2
    <2>2. \A m \in 1 .. Len(a) : a[m] <= t
      BY DEF Good
    <2> QED
      BY <1>2, <2>1, <2>2
  <1>6. \A m, n \in 1 .. Len(b) : m <= n => b[m] <= b[n]
    <2> SUFFICES ASSUME NEW m \in 1 .. Len(b), NEW n \in 1 .. Len(b), m <= n
                 PROVE  b[m] <= b[n]
      OBVIOUS
    <2>1. CASE n = Len(a) + 1
      BY <1>2, <1>5, <2>1
    <2>2. CASE n \in 1 .. Len(a)
      <3>1. m \in 1 .. Len(a)
        BY <1>2, <2>2
      <3> QED
        BY <1>2, <2>2, <3>1 DEF Good
    <2> QED
      BY <1>2, <2>1, <2>2
  <1>7. \A n \in 1 .. Len(b) - Len(v) : b[n] < t - Window
    <2> SUFFICES ASSUME NEW n \in 1 .. Len(b) - Len(v)
                 PROVE  b[n] < t - Window
      OBVIOUS
    <2>1. n \in 1 .. Len(a) - Len(w) /\ n \in 1 .. Len(a)
      BY <1>1, <1>2, <1>3
    <2>2. a[n] < t - Window
      BY <2>1 DEF Good
    <2> QED
      BY <1>2, <2>1, <2>2
  <1> QED
    BY <1>3, <1>4, <1>5, <1>6, <1>7 DEF Good, v, b

LEMMA LaterGood ==
    ASSUME NEW w \in Seq(Nat), NEW a \in Seq(Nat), NEW t \in Nat, NEW later \in Nat,
           t <= later, Good(w, a, t)
    PROVE  Good(w, a, later)
  <1>1. \A n \in 1 .. Len(a) : a[n] \in Nat
    BY ElementOfSeq
  <1>2. Len(w) \in Nat /\ Len(a) \in Nat /\ Window \in Nat
    BY LenProperties, WindowAssumption
  <1>3. \A n \in 1 .. Len(a) - Len(w) : n \in 1 .. Len(a)
    BY <1>2
  <1>4. \A n \in 1 .. Len(a) - Len(w) : a[n] < later - Window
    <2> SUFFICES ASSUME NEW n \in 1 .. Len(a) - Len(w)
                 PROVE  a[n] < later - Window
      OBVIOUS
    <2>1. a[n] \in Nat
      BY <1>1, <1>3
    <2>2. a[n] < t - Window
      BY DEF Good
    <2> QED
      BY <1>2, <2>1, <2>2
  <1>5. \A n \in 1 .. Len(a) : a[n] <= later
    <2> SUFFICES ASSUME NEW n \in 1 .. Len(a)
                 PROVE  a[n] <= later
      OBVIOUS
    <2>1. a[n] \in Nat /\ a[n] <= t
      BY <1>1 DEF Good
    <2> QED
      BY <2>1
  <1> QED
    BY <1>4, <1>5 DEF Good

\* An admission with fewer than RPM entries in the bucket: the RPM-th before
\* it was evicted.
LEMMA AppendSpaced ==
    ASSUME NEW w \in Seq(Nat), NEW a \in Seq(Nat), NEW t \in Nat,
           Good(w, a, t), Spaced(a), Len(w) < RPM
    PROVE  Spaced(Append(a, t))
  <1> DEFINE b == Append(a, t)
  <1>1. /\ Len(b) = Len(a) + 1 /\ Len(a) \in Nat
        /\ \A n \in 1 .. Len(a) : b[n] = a[n] /\ a[n] \in Nat
        /\ b[Len(a) + 1] = t
    BY AppendFacts
  <1>2. Len(w) \in Nat /\ RPM \in Nat /\ RPM > 0 /\ Window \in Nat
    BY LenProperties, WindowAssumption
  <1> HIDE DEF b
  <1> SUFFICES ASSUME NEW n \in 1 .. Len(b) - RPM
               PROVE  b[n + RPM] - b[n] > Window
    BY DEF Spaced, b
  <1>3. CASE n = Len(a) + 1 - RPM
    <2>1. n \in 1 .. Len(a) - Len(w) /\ n \in 1 .. Len(a)
      BY <1>1, <1>2, <1>3
    <2>2. a[n] < t - Window
      BY <2>1 DEF Good
    <2>3. n + RPM = Len(a) + 1
      BY <1>1, <1>2, <1>3
    <2>4. b[n + RPM] = t /\ b[n] = a[n] /\ a[n] \in Nat
      BY <1>1, <2>1, <2>3
    <2> QED
      BY <1>2, <2>2, <2>4
  <1>4. CASE n # Len(a) + 1 - RPM
    <2>1. n \in 1 .. Len(a) - RPM /\ n \in 1 .. Len(a) /\ n + RPM \in 1 .. Len(a)
      BY <1>1, <1>2, <1>4
    <2>2. a[n + RPM] - a[n] > Window
      BY <2>1 DEF Spaced
    <2> QED
      BY <1>1, <2>1, <2>2
  <1> QED
    BY <1>3, <1>4

\* A full bucket whose first entry is not old.
LEMMA FullBucket ==
    ASSUME NEW w \in Seq(Nat), NEW a \in Seq(Nat), NEW t \in Nat,
           Good(w, a, t), Len(w) = RPM, ~(w[1] < t - Window)
    PROVE  FullAt(t, a)
  <1>1. Len(w) \in Nat /\ Len(a) \in Nat /\ RPM \in Nat /\ RPM > 0 /\ Window \in Nat
    BY LenProperties, WindowAssumption
  <1>2. \A n \in 1 .. Len(a) : a[n] \in Nat
    BY ElementOfSeq
  <1> DEFINE first == Len(a) - RPM + 1
  <1>3. first \in 1 .. Len(a) - RPM + 1 /\ first \in 1 .. Len(a)
    BY <1>1 DEF Good
  <1>4. w[1] = a[first]
    <2>1. 1 \in 1 .. Len(w) /\ Len(a) - Len(w) + 1 = first
      BY <1>1
    <2> QED
      BY <2>1 DEF Good
  <1> SUFFICES ASSUME NEW m \in first .. first + RPM - 1
               PROVE  t - Window <= a[m] /\ a[m] <= t
    BY <1>3 DEF FullAt
  <1>5. m \in 1 .. Len(a) /\ first <= m
    BY <1>1, <1>3
  <1>6. a[first] <= a[m] /\ a[m] <= t
    BY <1>3, <1>5 DEF Good
  <1> HIDE DEF first
  <1> QED
    BY <1>1, <1>2, <1>3, <1>4, <1>5, <1>6

LEMMA AppendFull ==
    ASSUME NEW a \in Seq(Nat), NEW t \in Nat, NEW r \in Nat, FullAt(r, a)
    PROVE  FullAt(r, Append(a, t))
  <1> DEFINE b == Append(a, t)
  <1>1. Len(b) = Len(a) + 1 /\ Len(a) \in Nat /\ \A n \in 1 .. Len(a) : b[n] = a[n]
    BY AppendFacts
  <1>2. RPM \in Nat
    BY WindowAssumption
  <1> HIDE DEF b
  <1>3. PICK n \in 1 .. Len(a) - RPM + 1 :
               \A m \in n .. n + RPM - 1 : r - Window <= a[m] /\ a[m] <= r
    BY DEF FullAt
  <1>4. n \in 1 .. Len(b) - RPM + 1
    BY <1>1, <1>2, <1>3
  <1>5. \A m \in n .. n + RPM - 1 : b[m] = a[m]
    BY <1>1, <1>2, <1>3
  <1> QED
    BY <1>3, <1>4, <1>5 DEF FullAt, b

-----------------------------------------------------------------------------
(* The invariant *)

AllGood == \A i \in Identities : Good(buckets[i], admitted[i], clock)
AllSpaced == \A i \in Identities : Spaced(admitted[i])
AllFull == \A i \in Identities : refused[i] # -1 => FullAt(refused[i], admitted[i])

Inv == WindowTypeOK /\ AllGood /\ AllSpaced /\ AllFull

\* The invariant is WindowInv and the two properties, identity by identity.
LEMMA InvIsWindowInv ==
    /\ AllGood <=> WindowInv
    /\ AllSpaced <=> AtMostRPM
    /\ AllFull <=> RefusedOnlyWhenFull
  <1>1. AllSpaced <=> AtMostRPM
    BY DEF AllSpaced, AtMostRPM, Spaced
  <1>2. AllFull <=> RefusedOnlyWhenFull
    BY DEF AllFull, RefusedOnlyWhenFull, FullAt
  <1>3. AllGood <=> WindowInv
    BY DEF AllGood, Good, WindowInv, BucketIsTail, Ordered, EvictedAreOld, Evicted, Old
  <1> QED
    BY <1>1, <1>2, <1>3

LEMMA InvInit == WindowInit => Inv
  <1> SUFFICES ASSUME WindowInit PROVE Inv
    OBVIOUS
  <1>1. /\ clock = 0
        /\ buckets = [i \in Identities |-> <<>>]
        /\ admitted = [i \in Identities |-> <<>>]
        /\ refused = [i \in Identities |-> -1]
    BY DEF WindowInit
  <1>2. <<>> \in Seq(Nat) /\ Len(<<>>) = 0 /\ RPM \in Nat /\ Window \in Nat /\ RPM > 0
    BY EmptySeq, WindowAssumption
  <1>3. WindowTypeOK
    BY <1>1, <1>2 DEF WindowTypeOK
  <1>4. Good(<<>>, <<>>, 0) /\ Spaced(<<>>)
    BY <1>2 DEF Good, Spaced
  <1> QED
    BY <1>1, <1>3, <1>4 DEF Inv, AllGood, AllSpaced, AllFull

\* What a call of consume() finds, up to the choice of k.
LEMMA CallFacts ==
    ASSUME Inv, NEW i \in Identities, NEW k \in 0 .. Len(buckets[i]),
           Evicts(buckets[i], k)
    PROVE  /\ buckets[i] \in Seq(Nat) /\ admitted[i] \in Seq(Nat) /\ clock \in Nat
           /\ Kept(buckets[i], k) \in Seq(Nat)
           /\ Len(Kept(buckets[i], k)) = Len(buckets[i]) - k
           /\ Len(buckets[i]) \in Nat
           /\ Len(buckets[i]) <= RPM
           /\ Good(Kept(buckets[i], k), admitted[i], clock)
  <1>1. /\ buckets[i] \in Seq(Nat) /\ admitted[i] \in Seq(Nat) /\ clock \in Nat
        /\ Len(buckets[i]) <= RPM
    BY DEF Inv, WindowTypeOK
  <1>2. Good(buckets[i], admitted[i], clock)
    BY DEF Inv, AllGood
  <1>3. \A n \in 1 .. k : buckets[i][n] < clock - Window
    BY DEF Evicts, Old
  <1>4. Good(Kept(buckets[i], k), admitted[i], clock)
    BY <1>1, <1>2, <1>3, EvictGood
  <1> QED
    BY <1>1, <1>4, KeptFacts, LenProperties

LEMMA AllowedInv ==
    ASSUME Inv, NEW i \in Identities, Allowed(i)
    PROVE  Inv'
  <1>1. PICK k \in 0 .. Len(buckets[i]) :
           /\ Evicts(buckets[i], k)
           /\ Len(buckets[i]) - k < RPM
           /\ buckets' = [buckets EXCEPT ![i] = Append(Kept(buckets[i], k), clock)]
           /\ admitted' = [admitted EXCEPT ![i] = Append(admitted[i], clock)]
           /\ UNCHANGED <<clock, refused>>
    BY DEF Allowed
  <1> DEFINE w == Kept(buckets[i], k)
             a == admitted[i]
  <1>2. /\ a \in Seq(Nat) /\ clock \in Nat /\ w \in Seq(Nat)
        /\ Len(w) < RPM /\ Len(w) \in Nat /\ Good(w, a, clock)
    BY <1>1, CallFacts, LenProperties
  <1>3. RPM \in Nat
    BY WindowAssumption
  <1>4. /\ buckets \in [Identities -> Seq(Nat)]
        /\ admitted \in [Identities -> Seq(Nat)]
        /\ refused \in [Identities -> Nat \union {-1}]
        /\ \A j \in Identities : Len(buckets[j]) <= RPM
    BY DEF Inv, WindowTypeOK
  <1> HIDE DEF w, a
  <1>5. /\ buckets'[i] = Append(w, clock) /\ admitted'[i] = Append(a, clock)
        /\ \A j \in Identities \ {i} : buckets'[j] = buckets[j] /\ admitted'[j] = admitted[j]
        /\ clock' = clock /\ refused' = refused
    BY <1>1, <1>4 DEF w, a
  <1>6. Append(w, clock) \in Seq(Nat) /\ Append(a, clock) \in Seq(Nat) /\ Len(Append(w, clock)) <= RPM
    BY <1>2, <1>3, AppendFacts
  <1>7. WindowTypeOK'
    <2>1. clock' \in Nat /\ refused' \in [Identities -> Nat \union {-1}]
      BY <1>2, <1>4, <1>5
    <2>2. buckets' \in [Identities -> Seq(Nat)] /\ admitted' \in [Identities -> Seq(Nat)]
      BY <1>1, <1>4, <1>6 DEF w, a
    <2>3. \A j \in Identities : Len(buckets'[j]) <= RPM
      BY <1>4, <1>5, <1>6
    <2> QED
      BY <2>1, <2>2, <2>3 DEF WindowTypeOK
  <1>8. AllGood'
    <2>1. Good(Append(w, clock), Append(a, clock), clock)
      BY <1>2, AppendGood
    <2>2. \A j \in Identities : Good(buckets'[j], admitted'[j], clock)
      BY <1>5, <2>1 DEF Inv, AllGood
    <2> QED
      BY <1>5, <2>2 DEF AllGood
  <1>9. AllSpaced'
    <2>1. Spaced(a)
      BY DEF Inv, AllSpaced, a
    <2>2. Spaced(Append(a, clock))
      BY <1>2, <2>1, AppendSpaced
    <2> QED
      BY <1>5, <2>2 DEF Inv, AllSpaced
  <1>10. AllFull'
    <2> SUFFICES ASSUME NEW j \in Identities, refused[j] # -1
                 PROVE  FullAt(refused[j], admitted'[j])
      BY <1>5 DEF AllFull
    <2>1. refused[j] \in Nat /\ FullAt(refused[j], admitted[j])
      BY <1>4 DEF Inv, AllFull
    <2>2. CASE j = i
      BY <1>2, <1>5, <2>1, <2>2, AppendFull DEF a
    <2>3. CASE j # i
      BY <1>5, <2>1, <2>3
    <2> QED
      BY <2>2, <2>3
  <1> QED
    BY <1>7, <1>8, <1>9, <1>10 DEF Inv

LEMMA LimitedInv ==
    ASSUME Inv, NEW i \in Identities, Limited(i)
    PROVE  Inv'
  <1>1. PICK k \in 0 .. Len(buckets[i]) :
           /\ Evicts(buckets[i], k)
           /\ Len(buckets[i]) - k >= RPM
           /\ buckets' = [buckets EXCEPT ![i] = Kept(buckets[i], k)]
           /\ refused' = [refused EXCEPT ![i] = clock]
           /\ UNCHANGED <<clock, admitted>>
    BY DEF Limited
  <1>2. /\ Len(buckets[i]) \in Nat /\ Len(buckets[i]) <= RPM
        /\ clock \in Nat /\ admitted[i] \in Seq(Nat)
        /\ Kept(buckets[i], k) \in Seq(Nat) /\ buckets[i] \in Seq(Nat)
        /\ Len(Kept(buckets[i], k)) = Len(buckets[i]) - k
        /\ Good(Kept(buckets[i], k), admitted[i], clock)
    BY <1>1, CallFacts
  <1>3. RPM \in Nat /\ RPM > 0
    BY WindowAssumption
  <1>4. k = 0 /\ Len(Kept(buckets[i], k)) = RPM
    BY <1>1, <1>2, <1>3
  <1>5. ~(Kept(buckets[i], k)[1] < clock - Window)
    <2>1. Kept(buckets[i], k)[1] = buckets[i][k + 1]
      <3>1. \A n \in 1 .. Len(buckets[i]) - k : Kept(buckets[i], k)[n] = buckets[i][k + n]
        BY <1>2, KeptFacts
      <3>2. 1 \in 1 .. Len(buckets[i]) - k
        BY <1>1, <1>2, <1>3
      <3> QED
        BY <3>1, <3>2
    <2>2. k < Len(buckets[i])
      BY <1>2, <1>3, <1>4
    <2> QED
      BY <1>1, <2>1, <2>2 DEF Evicts, Old
  <1>6. FullAt(clock, admitted[i])
    BY <1>2, <1>4, <1>5, FullBucket
  <1>7. /\ buckets \in [Identities -> Seq(Nat)]
        /\ admitted \in [Identities -> Seq(Nat)]
        /\ refused \in [Identities -> Nat \union {-1}]
        /\ \A j \in Identities : Len(buckets[j]) <= RPM
    BY DEF Inv, WindowTypeOK
  <1>8. /\ buckets'[i] = Kept(buckets[i], k) /\ refused'[i] = clock
        /\ \A j \in Identities \ {i} : buckets'[j] = buckets[j] /\ refused'[j] = refused[j]
        /\ clock' = clock /\ admitted' = admitted
    BY <1>1, <1>7
  <1>9. WindowTypeOK'
    <2>1. clock' \in Nat /\ admitted' \in [Identities -> Seq(Nat)]
      BY <1>2, <1>7, <1>8
    <2>2. /\ buckets' \in [Identities -> Seq(Nat)]
          /\ refused' \in [Identities -> Nat \union {-1}]
      BY <1>1, <1>2, <1>7
    <2>3. \A j \in Identities : Len(buckets'[j]) <= RPM
      <3>1. Len(buckets'[i]) <= RPM
        BY <1>3, <1>4, <1>8
      <3> QED
        BY <1>7, <1>8, <3>1
    <2> QED
      BY <2>1, <2>2, <2>3 DEF WindowTypeOK
  <1>10. AllGood'
    <2>1. \A j \in Identities : Good(buckets'[j], admitted[j], clock)
      BY <1>2, <1>8 DEF Inv, AllGood
    <2> QED
      BY <1>8, <2>1 DEF AllGood
  <1>11. AllSpaced'
    BY <1>8 DEF Inv, AllSpaced
  <1>12. AllFull'
    BY <1>6, <1>8 DEF Inv, AllFull
  <1> QED
    BY <1>9, <1>10, <1>11, <1>12 DEF Inv

LEMMA TickInv ==
    ASSUME Inv, ClockTicks
    PROVE  Inv'
  <1>1. /\ clock \in Nat /\ clock' = clock + 1
        /\ buckets' = buckets /\ admitted' = admitted /\ refused' = refused
    BY DEF ClockTicks, Inv, WindowTypeOK
  <1>2. WindowTypeOK'
    BY <1>1 DEF Inv, WindowTypeOK
  <1>3. AllGood'
    <2>1. clock + 1 \in Nat /\ clock <= clock + 1
      BY <1>1
    <2>2. ASSUME NEW i \in Identities
          PROVE  Good(buckets[i], admitted[i], clock + 1)
      <3>1. buckets[i] \in Seq(Nat) /\ admitted[i] \in Seq(Nat)
        BY DEF Inv, WindowTypeOK
      <3>2. Good(buckets[i], admitted[i], clock)
        BY DEF Inv, AllGood
      <3> QED
        BY <1>1, <2>1, <3>1, <3>2, LaterGood
    <2> QED
      BY <1>1, <2>2 DEF AllGood
  <1> QED
    BY <1>1, <1>2, <1>3 DEF Inv, AllSpaced, AllFull

THEOREM Inductive == WindowSpec => []Inv
  <1>1. Inv /\ [WindowNext]_windowVars => Inv'
    <2> SUFFICES ASSUME Inv, [WindowNext]_windowVars PROVE Inv'
      OBVIOUS
    <2>1. CASE UNCHANGED windowVars
      BY <2>1 DEF windowVars, Inv, WindowTypeOK, AllGood, AllSpaced, AllFull
    <2>2. CASE ClockTicks
      BY <2>2, TickInv
    <2>3. CASE \E i \in Identities : Allowed(i) \/ Limited(i)
      BY <2>3, AllowedInv, LimitedInv
    <2> QED
      BY <2>1, <2>2, <2>3 DEF WindowNext
  <1> QED
    BY <1>1, InvInit, PTL DEF WindowSpec

\* Every bucket stays a list of times of at most RPM entries: what consume()
\* keeps for an identity is bounded, however many requests it turns away.
THEOREM TypeCorrect == WindowSpec => []WindowTypeOK
  <1>1. Inv => WindowTypeOK
    BY DEF Inv
  <1> QED
    BY <1>1, Inductive, PTL

\* No identity gets more than RPM requests through in any Window seconds.
THEOREM NeverTooMany == WindowSpec => []AtMostRPM
  <1>1. Inv => AtMostRPM
    BY InvIsWindowInv DEF Inv
  <1> QED
    BY <1>1, Inductive, PTL

\* consume() turns an identity away only if it had RPM admissions of its own
\* within the last Window seconds.
THEOREM NeverTooFew == WindowSpec => []RefusedOnlyWhenFull
  <1>1. Inv => RefusedOnlyWhenFull
    BY InvIsWindowInv DEF Inv
  <1> QED
    BY <1>1, Inductive, PTL
=============================================================================
