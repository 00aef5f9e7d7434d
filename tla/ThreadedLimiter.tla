-------------------------- MODULE ThreadedLimiter --------------------------
(***************************************************************************)
(* TokenBucketRateLimiter of examples/openclaw/gateway/gateway.py: a       *)
(* window of a minute and one of an hour per identity.  is_allowed() reads *)
(* the clock before it takes the lock, so threads enter with times that    *)
(* are old and out of order, and evict by them.                            *)
(***************************************************************************)
EXTENDS Integers, Sequences

CONSTANTS
    Identities, Callers,
    Minute, Hour, PerMinute, PerHour,   \* 60 s, 3600 s; _rpm, _rph
    Delay,       \* a thread that read the clock is in the lock by then
    EndOfTime    \* bound

ASSUME LimiterAssumption ==
    /\ Minute \in Nat /\ Hour \in Nat /\ Minute <= Hour
    /\ PerMinute \in Nat \ {0} /\ PerHour \in Nat \ {0}
    /\ Delay \in Nat /\ EndOfTime \in Nat

VARIABLES
    clock,
    minute, hour,   \* _minute_windows, _hour_windows
    calls,          \* of each thread: the call it is in
    granted,        \* history: what each identity was granted, in order
    refusal         \* history: the last refusal

limiterVars == <<clock, minute, hour, calls, granted, refusal>>

NoCall == [active |-> FALSE]
Call == [active : {TRUE}, identity : Identities, now : Nat]

LimiterTypeOK ==
    /\ clock \in Nat
    /\ minute \in [Identities -> Seq(Nat)] /\ hour \in [Identities -> Seq(Nat)]
    /\ \A i \in Identities : Len(minute[i]) <= PerMinute /\ Len(hour[i]) <= PerHour
    /\ calls \in [Callers -> Call \union {NoCall}]
    /\ granted \in [Identities -> Seq([stamp : Nat, at : Nat])]
    /\ refusal \in {NoCall} \union
           [active : {TRUE}, identity : Identities, at : Nat, minute : Nat, hour : Nat]

\* time.monotonic() of is_allowed().
ReadsClock(t, i) ==
    /\ ~calls[t].active
    /\ calls' = [calls EXCEPT ![t] = [active |-> TRUE, identity |-> i, now |-> clock]]
    /\ UNCHANGED <<clock, minute, hour, granted, refusal>>

\* Eviction that comes late by one.
EvictsLate(window, cutoff, n) ==
    /\ \A k \in 1 .. n : window[k] + 1 < cutoff
    /\ n < Len(window) => window[n + 1] + 1 >= cutoff

\* Eviction of what is exactly as old as the window.
EvictsTo(window, cutoff, n) ==
    /\ \A k \in 1 .. n : window[k] <= cutoff
    /\ n < Len(window) => window[n + 1] > cutoff

\* The first n leave: eviction looks at the head only and stops at the first
\* it keeps.
Evicts(window, cutoff, n) ==
    /\ \A k \in 1 .. n : window[k] < cutoff
    /\ n < Len(window) => window[n + 1] >= cutoff

Rest(window, n) == SubSeq(window, n + 1, Len(window))

Grants(i, m, h, now) ==
    /\ minute' = [minute EXCEPT ![i] = Append(m, now)]
    /\ hour' = [hour EXCEPT ![i] = Append(h, now)]
    /\ granted' = [granted EXCEPT ![i] = Append(@, [stamp |-> now, at |-> clock])]
    /\ UNCHANGED refusal

Refuses(i, m, h) ==
    /\ minute' = [minute EXCEPT ![i] = m]
    /\ hour' = [hour EXCEPT ![i] = h]
    /\ refusal' = [active |-> TRUE, identity |-> i, at |-> clock,
                   minute |-> Len(m), hour |-> Len(h)]
    /\ UNCHANGED granted

\* The rest of is_allowed(), under the lock.
Decides(t) ==
    /\ calls[t].active
    /\ calls' = [calls EXCEPT ![t] = NoCall]
    /\ LET i == calls[t].identity
           now == calls[t].now
       IN  \E n \in 0 .. Len(minute[i]), p \in 0 .. Len(hour[i]) :
           LET m == Rest(minute[i], n)
               h == Rest(hour[i], p)
           IN  /\ Evicts(minute[i], now - Minute, n)
               /\ Evicts(hour[i], now - Hour, p)
               /\ \/ Len(m) < PerMinute /\ Len(h) < PerHour /\ Grants(i, m, h, now)
                  \/ ~(Len(m) < PerMinute /\ Len(h) < PerHour) /\ Refuses(i, m, h)
    /\ UNCHANGED clock

LimiterTick ==
    /\ clock < EndOfTime
    /\ \A t \in Callers : calls[t].active => clock < calls[t].now + Delay
    /\ clock' = clock + 1
    /\ UNCHANGED <<minute, hour, calls, granted, refusal>>

LimiterInit ==
    /\ clock = 0
    /\ minute = [i \in Identities |-> <<>>] /\ hour = [i \in Identities |-> <<>>]
    /\ calls = [t \in Callers |-> NoCall]
    /\ granted = [i \in Identities |-> <<>>]
    /\ refusal = NoCall

LimiterNext ==
    \/ \E t \in Callers, i \in Identities : ReadsClock(t, i)
    \/ \E t \in Callers : Decides(t)
    \/ LimiterTick

LimiterSpec == LimiterInit /\ [][LimiterNext]_limiterVars

-----------------------------------------------------------------------------
(* Properties *)

\* In real time: PerMinute + 1 grants take more than a minute, and PerHour + 1
\* more than an hour, up to the delay of a thread between clock and lock.
GrantsSpaced ==
    \A i \in Identities : LET g == granted[i] IN
        /\ \A n \in 1 .. Len(g) - PerMinute : g[n + PerMinute].at - g[n].at > Minute - Delay
        /\ \A n \in 1 .. Len(g) - PerHour : g[n + PerHour].at - g[n].at > Hour - Delay

\* A refusal has its reason: as many grants as allowed in a minute, or in an
\* hour, of an age that exceeds it by no more than one delay.
RefusedOnlyWhenBusy ==
    refusal.active =>
        LET g == granted[refusal.identity]
            Full(n, limit, window) ==
                n >= limit /\ Len(g) >= limit
                /\ g[Len(g) - limit + 1].at >= refusal.at - window - Delay
        IN  Full(refusal.minute, PerMinute, Minute) \/ Full(refusal.hour, PerHour, Hour)
=============================================================================
