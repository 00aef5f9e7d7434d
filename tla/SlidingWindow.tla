--------------------------- MODULE SlidingWindow ---------------------------
(***************************************************************************)
(* TokenBucket of gateway/main.py, the rate limiter every request passes:  *)
(* per identity, the times of the requests it admitted lately.  consume()  *)
(* holds an asyncio lock around code that never suspends: one action per   *)
(* call and outcome.  (The burst parameter is stored and never read.)      *)
(***************************************************************************)
EXTENDS Integers, Sequences

CONSTANTS
    Identities,  \* X-User-ID headers or client hosts
    RPM,         \* rate_per_minute
    Window,      \* 60 s
    LastTime      \* bound on the clock

ASSUME WindowAssumption ==
    /\ RPM \in Nat \ {0}
    /\ Window \in Nat
    /\ LastTime \in Nat

VARIABLES
    clock,       \* time.monotonic()
    buckets,   \* _buckets: per identity, oldest first
    admitted,  \* history: every time an identity was let through
    refused    \* history: per identity, when it was last turned away (or -1)

windowVars == <<clock, buckets, admitted, refused>>

WindowTypeOK ==
    /\ clock \in Nat
    /\ buckets \in [Identities -> Seq(Nat)]
    /\ admitted \in [Identities -> Seq(Nat)]
    /\ refused \in [Identities -> Nat \union {-1}]
    /\ \A i \in Identities : Len(buckets[i]) <= RPM

\* An entry on the boundary is evicted as well.
OldOrDue(t) == t <= clock - Window

\* Before the cutoff: window[0] < now - 60.
Old(t) == t < clock - Window

\* The eviction loop stops after k pops: k entries from the front are old and
\* the next one, if there is one, is not.
Evicts(w, k) ==
    /\ \A i \in 1 .. k : Old(w[i])
    /\ k < Len(w) => ~Old(w[k + 1])

Kept(w, k) == SubSeq(w, k + 1, Len(w))

\* The request is counted before the limit is looked at.
LimitedButCounted(i) ==
    \E k \in 0 .. Len(buckets[i]) :
        /\ Evicts(buckets[i], k)
        /\ Len(buckets[i]) - k >= RPM
        /\ buckets' = [buckets EXCEPT ![i] = Append(Kept(@, k), clock)]
        /\ refused' = [refused EXCEPT ![i] = clock]
        /\ UNCHANGED <<clock, admitted>>

\* consume() returns False: the eviction stays, the request is not counted.
Limited(i) ==
    \E k \in 0 .. Len(buckets[i]) :
        /\ Evicts(buckets[i], k)
        /\ Len(buckets[i]) - k >= RPM
        /\ buckets' = [buckets EXCEPT ![i] = Kept(@, k)]
        /\ refused' = [refused EXCEPT ![i] = clock]
        /\ UNCHANGED <<clock, admitted>>

\* A limit that lets one more in.
AllowedOneMore(i) ==
    \E k \in 0 .. Len(buckets[i]) :
        /\ Evicts(buckets[i], k)
        /\ Len(buckets[i]) - k <= RPM
        /\ buckets' = [buckets EXCEPT ![i] = Append(Kept(@, k), clock)]
        /\ admitted' = [admitted EXCEPT ![i] = Append(@, clock)]
        /\ UNCHANGED <<clock, refused>>

\* consume() returns True.
Allowed(i) ==
    \E k \in 0 .. Len(buckets[i]) :
        /\ Evicts(buckets[i], k)
        /\ Len(buckets[i]) - k < RPM
        /\ buckets' = [buckets EXCEPT ![i] = Append(Kept(@, k), clock)]
        /\ admitted' = [admitted EXCEPT ![i] = Append(@, clock)]
        /\ UNCHANGED <<clock, refused>>

ClockTicks ==
    /\ clock < LastTime
    /\ clock' = clock + 1
    /\ UNCHANGED <<buckets, admitted, refused>>

WindowInit ==
    /\ clock = 0
    /\ buckets = [i \in Identities |-> <<>>]
    /\ admitted = [i \in Identities |-> <<>>]
    /\ refused = [i \in Identities |-> -1]

WindowNext ==
    \/ \E i \in Identities : Allowed(i) \/ Limited(i)
    \/ ClockTicks

WindowSpec == WindowInit /\ [][WindowNext]_windowVars

-----------------------------------------------------------------------------
(* Properties *)

\* No identity gets more than RPM requests through in any Window seconds,
\* wherever the window starts: the (n + RPM)-th admission is more than Window
\* after the n-th.
AtMostRPM ==
    \A i \in Identities :
        \A n \in 1 .. Len(admitted[i]) - RPM :
            admitted[i][n + RPM] - admitted[i][n] > Window

\* Nobody is turned away for less, or for what others do: at a refusal the
\* identity itself had RPM admissions within the last Window seconds, and
\* refusals do not count.
RefusedOnlyWhenFull ==
    \A i \in Identities :
        refused[i] # -1 =>
            \E n \in 1 .. Len(admitted[i]) - RPM + 1 :
                \A m \in n .. n + RPM - 1 :
                    refused[i] - Window <= admitted[i][m] /\ admitted[i][m] <= refused[i]

-----------------------------------------------------------------------------
(* Why they hold *)

\* How many admissions of i were evicted.
Evicted(i) == Len(admitted[i]) - Len(buckets[i])

\* The bucket holds the latest admissions, at most RPM of them.
BucketIsTail ==
    \A i \in Identities :
        /\ Evicted(i) >= 0
        /\ \A n \in 1 .. Len(buckets[i]) : buckets[i][n] = admitted[i][Evicted(i) + n]

\* Admissions are in order and not in the future.
Ordered ==
    \A i \in Identities :
        /\ \A m, n \in 1 .. Len(admitted[i]) : m <= n => admitted[i][m] <= admitted[i][n]
        /\ \A n \in 1 .. Len(admitted[i]) : admitted[i][n] <= clock

\* What was evicted is old, and stays so.
EvictedAreOld ==
    \A i \in Identities : \A n \in 1 .. Evicted(i) : Old(admitted[i][n])

WindowInv == BucketIsTail /\ Ordered /\ EvictedAreOld
=============================================================================
