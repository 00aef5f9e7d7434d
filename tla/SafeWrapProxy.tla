---------------------------- MODULE SafeWrapProxy ----------------------------
(***************************************************************************)
(* mcp-safe-wrap: the HTTP proxy of the MCP security toolkit.  Requests    *)
(* run as coroutines: one takes a token and is scanned in one step, waits  *)
(* for the upstream server, and ends in one step.  The audit log loses     *)
(* records silently.  A level counts 1/Span of a token.                    *)
(***************************************************************************)
EXTENDS Integers, Sequences, FiniteSets

CONSTANTS
    Requests, Clients,       \* client addresses
    Lists,                   \* what tools/list can answer, once sanitized
    Span, Rate,              \* 3600 s, rate_limit
    ScanInputs, ScanOutputs, PinSchema,
    LastMoment, MaxLost      \* bounds: the clock, audit records lost

ASSUME ProxyAssumption ==
    /\ Span \in Nat \ {0} /\ Rate \in Nat /\ LastMoment \in Nat /\ MaxLost \in Nat
    /\ {ScanInputs, ScanOutputs, PinSchema} \subseteq BOOLEAN

VARIABLES
    moment,
    requests,        \* the coroutine of each request
    tokens,          \* ip_buckets
    baseline,        \* _schema_baseline: nothing, or the list pinned
    audit, lost,     \* records written; history: records that were not
    admitted,        \* history: when each client's requests passed the limit
    shown            \* history: the tool lists answered

proxyVars == <<moment, requests, tokens, baseline, audit, lost, admitted, shown>>

Waiting == [state |-> "waiting"]
Ended(state) == [state |-> state]
Methods == {"tools/call", "tools/list", "ping"}

ProxyTypeOK ==
    /\ moment \in 0 .. LastMoment
    /\ \A q \in Requests :
           requests[q].state \in {"waiting", "upstream", "limited", "unreadable", "failed", "answered"}
    /\ \A c \in Clients : tokens[c].level \in 0 .. Rate * Span /\ tokens[c].last \in 0 .. moment
    /\ baseline \subseteq Lists
    /\ Cardinality(lost) <= MaxLost

Record(event, q) == [event |-> event, request |-> q]

\* write(), for each of some records: appended, or lost without a word.
Writes(records) ==
    \E gone \in SUBSET records :
        /\ Cardinality(lost \union gone) <= MaxLost
        /\ lost' = lost \union gone
        /\ audit' = audit \union (records \ gone)

\* AsyncTokenBucket.consume(), the refill.
Consume(c) ==
    LET level == tokens[c].level + (moment - tokens[c].last) * Rate
        full == Rate * Span
    IN  [last |-> moment, level |-> IF level < full THEN level ELSE full]

\* handle_proxy() up to the request it posts: the limit, the body, the scan.
\* A finding is recorded and the message, sanitized, goes on.
Receives(q, c) ==
    LET bucket == Consume(c)
    IN  /\ requests[q] = Waiting
        /\ IF Rate > 0 /\ bucket.level < Span
           THEN /\ tokens' = [tokens EXCEPT ![c] = bucket]
                /\ requests' = [requests EXCEPT ![q] = Ended("limited")]
                /\ UNCHANGED <<admitted, audit, lost>>
           ELSE /\ tokens' = IF Rate = 0 THEN tokens
                             ELSE [tokens EXCEPT ![c] = [bucket EXCEPT !.level = @ - Span]]
                /\ admitted' = [admitted EXCEPT ![c] = Append(@, moment)]
                /\ \/ /\ requests' = [requests EXCEPT ![q] = Ended("unreadable")]
                      /\ UNCHANGED <<audit, lost>>
                   \/ \E method \in Methods, injected \in BOOLEAN, internal \in BOOLEAN :
                        /\ requests' = [requests EXCEPT ![q] =
                               [state |-> "upstream", method |-> method,
                                dirty |-> injected /\ ~ScanInputs]]
                        /\ Writes(IF ~ScanInputs THEN {} ELSE
                               {Record("input_injection_detected", q) : f \in {injected, internal} \ {FALSE}}
                               \union {Record("ssrf_blocked", q) : f \in {internal} \ {FALSE}})
        /\ UNCHANGED <<moment, baseline, shown>>

\* No connection, no answer in time, or one that is no JSON: 502.
UpstreamFails(q) ==
    /\ requests[q].state = "upstream"
    /\ requests' = [requests EXCEPT ![q] = Ended("failed")]
    /\ UNCHANGED <<moment, tokens, baseline, audit, lost, admitted, shown>>

\* The first list is the baseline.
Pinned(list) == IF baseline = {} THEN {list} ELSE baseline

\* The rest of handle_proxy(): the answer is scanned, the call recorded, and
\* the list of tools compared with the pinned one.
Answers(q, list, injected) ==
    LET r == requests[q]
        compares == PinSchema /\ r.method = "tools/list"
    IN  /\ r.state = "upstream"
        /\ requests' = [requests EXCEPT ![q] = Ended("answered")]
        /\ Writes({Record("output_injection_detected", q) : f \in {ScanOutputs /\ injected} \ {FALSE}}
                  \union {Record("tool_invocation", q) : f \in {r.method} \ {"ping"}}
                  \union {Record("schema_pinned", q) : f \in {compares /\ baseline = {}} \ {FALSE}}
                  \union {Record("schema_changed", q) :
                             f \in {compares /\ baseline \notin {{}, {list}}} \ {FALSE}})
        /\ baseline' = IF compares THEN Pinned(list) ELSE baseline
        /\ shown' = IF r.method = "tools/list" THEN shown \union {list} ELSE shown
        /\ UNCHANGED <<moment, tokens, admitted>>

MomentPasses ==
    /\ moment < LastMoment
    /\ moment' = moment + 1
    /\ UNCHANGED <<requests, tokens, baseline, audit, lost, admitted, shown>>

ProxyInit ==
    /\ moment = 0
    /\ requests = [q \in Requests |-> Waiting]
    /\ tokens = [c \in Clients |-> [last |-> 0, level |-> Rate * Span]]
    /\ baseline = {} /\ audit = {} /\ lost = {}
    /\ admitted = [c \in Clients |-> <<>>] /\ shown = {}

ProxyNext ==
    \/ \E q \in Requests, c \in Clients : Receives(q, c)
    \/ \E q \in Requests : UpstreamFails(q)
    \/ \E q \in Requests, list \in Lists, injected \in BOOLEAN : Answers(q, list, injected)
    \/ MomentPasses

ProxySpec == ProxyInit /\ [][ProxyNext]_proxyVars

-----------------------------------------------------------------------------
(* Properties *)

\* Between any two moments a client gets a full bucket and what they refill.
AdmittedBounded ==
    Rate > 0 => \A c \in Clients : LET a == admitted[c] IN
        \A m \in 1 .. Len(a) : \A n \in m .. Len(a) :
            (n - m + 1) * Span <= Rate * (Span + a[n] - a[m])

\* Clients were never shown two lists of tools without an alarm in the log, in
\* whatever order the answers came, unless the log lost it.
ListChangeShows ==
    PinSchema /\ Cardinality(shown) > 1 =>
        \E r \in audit \union lost : r.event = "schema_changed"
=============================================================================
