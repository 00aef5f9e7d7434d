------------------------------ MODULE OpenClaw ------------------------------
(***************************************************************************)
(* The gateway process of examples/openclaw/gateway/gateway.py: requests,  *)
(* each in a thread of Flask's; the heartbeat thread; safe mode; the       *)
(* operator's endpoints; start-up.  The threads share the flag of safe     *)
(* mode, the heartbeat file and the audit log.  Another thread runs        *)
(* between any two of a request's steps, also between its audit line and   *)
(* its answer.                                                             *)
(***************************************************************************)
EXTENDS Naturals, Sequences

CONSTANTS
    Requests,       \* POST /v1/messages
    WriteInterval,  \* write_interval_seconds
    StaleAfter,     \* max_staleness_seconds
    PostTime,       \* timeout of the webhook post
    EndTime, MaxErrors, MaxTampers  \* bounds

ASSUME OpenClawAssumption ==
    /\ WriteInterval \in Nat \ {0} /\ StaleAfter \in Nat /\ PostTime \in Nat
    /\ EndTime \in Nat /\ MaxErrors \in Nat /\ MaxTampers \in Nat

VARIABLES
    time,
    heartbeat,      \* HEARTBEAT.md: what its last line is
    alive,          \* the process
    thread,         \* the heartbeat thread
    wake,           \* when it goes on, at the latest
    safeMode,       \* _safe_mode_active
    stage,          \* of each request
    reply,          \* of each request: the response under way to the client
    answer,         \* of each request: what the client was told
    lines,          \* of each request: its audit lines
    approved, sent, \* history: forwarded; received by the provider
    raised,         \* history: requests for which append() raised
    errors, hands,  \* counters the bounds cap
    fineAt,         \* history: the last instant with nothing to notice
    slipped         \* history: the file changed between check and write

monitorVars == <<heartbeat, thread, wake>>
requestVars == <<stage, reply, answer, lines, approved, sent, raised>>
clawVars == <<time, monitorVars, alive, safeMode, requestVars, errors, hands, fineAt, slipped>>

Kinds == {"missing", "empty", "malformed", "beat"}
HeartbeatFile(kind) == [kind |-> kind, at |-> 0]
BeatNow == [kind |-> "beat", at |-> time]

ClawTypeOK ==
    /\ time \in Nat /\ heartbeat \in [kind : Kinds, at : Nat]
    /\ alive \in BOOLEAN /\ safeMode \in BOOLEAN /\ slipped \in BOOLEAN
    /\ thread \in {"off", "asleep", "checked", "alerting", "dead"} /\ wake \in Nat
    /\ stage \in [Requests -> {"new", "checked", "admitted", "calling", "answering", "done"}]
    /\ reply \in [Requests -> {"none", "turned away", "rejected", "refused", "failed", "released"}]
    /\ answer \in [Requests -> {"none", "turned away", "rejected", "refused", "failed",
                                "released", "lost"}]
    /\ lines \in [Requests -> Seq({"blocked", "passed"})]
    /\ approved \subseteq Requests /\ sent \subseteq approved /\ raised \subseteq Requests
    /\ errors \in 0 .. MaxErrors /\ hands \in 0 .. MaxTampers /\ fineAt \in Nat
    /\ \A r \in Requests : stage[r] = "done" <=> answer[r] # "none"

-----------------------------------------------------------------------------
(* HeartbeatMonitor *)

\* validate()
Valid(h) == h.kind = "beat" /\ time - h.at <= StaleAfter

Error == errors < MaxErrors /\ errors' = errors + 1

\* A line appended to what the file holds: behind a line without a newline it
\* is malformed.
Appended == IF heartbeat.kind = "malformed"
            THEN {BeatNow, HeartbeatFile("malformed")} ELSE {BeatNow}

\* write_beat() raises: before the open, within the write, or in fsync.
Broken == Appended \union {HeartbeatFile("malformed"), heartbeat,
              IF heartbeat.kind = "missing" THEN HeartbeatFile("empty") ELSE heartbeat}

-----------------------------------------------------------------------------
(* The heartbeat thread *)

Sleeps == thread' = "asleep" /\ wake' = time + WriteInterval

\* activate_safe_mode: the flag, then the webhook, which may take its time.
Activates == safeMode' = TRUE /\ thread' = "alerting" /\ wake' = time + PostTime

\* A thread that writes its beat whatever validate() said.
WakesRegardless ==
    /\ alive /\ thread = "asleep" /\ time >= wake
    /\ thread' = "checked"
    /\ safeMode' = (safeMode \/ ~Valid(heartbeat))
    /\ UNCHANGED wake
    /\ UNCHANGED <<time, heartbeat, alive, requestVars, errors, hands>>

\* A thread that waits for a missing file to come back.
WakesPatiently ==
    /\ alive /\ thread = "asleep" /\ time >= wake
    /\ IF Valid(heartbeat)
       THEN thread' = "checked" /\ UNCHANGED <<safeMode, wake>>
       ELSE IF heartbeat.kind = "missing" THEN Sleeps /\ UNCHANGED safeMode ELSE Activates
    /\ UNCHANGED <<time, heartbeat, alive, requestVars, errors, hands>>

Wakes ==
    /\ alive /\ thread = "asleep" /\ time >= wake
    /\ IF Valid(heartbeat)
       THEN thread' = "checked" /\ UNCHANGED <<safeMode, wake>>
       ELSE Activates
    /\ UNCHANGED <<time, heartbeat, alive, requestVars, errors, hands>>

Writes ==
    /\ thread = "checked"
    /\ heartbeat' \in Appended
    /\ Sleeps
    /\ UNCHANGED <<time, alive, safeMode, requestVars, errors, hands>>

WriteRaises ==
    /\ thread = "checked"
    /\ Error
    /\ heartbeat' \in Broken
    /\ Activates
    /\ UNCHANGED <<time, alive, requestVars, hands>>

AlertDone ==
    /\ thread = "alerting"
    /\ Sleeps
    /\ UNCHANGED <<time, heartbeat, alive, safeMode, requestVars, errors, hands>>

\* validate() is outside the try: an OSError or undecodable bytes in it end
\* the thread.
ThreadDies ==
    /\ alive /\ thread = "asleep" /\ time >= wake
    /\ Error
    /\ thread' = "dead"
    /\ UNCHANGED <<time, heartbeat, wake, alive, safeMode, requestVars, hands>>

-----------------------------------------------------------------------------
(* A request thread: lines and answers *)

At(r, s) == alive /\ stage[r] = s
Goes(r, s) == stage' = [stage EXCEPT ![r] = s]

requestRest == <<time, monitorVars, alive, safeMode, hands>>

\* The response is ready and the log holds log about r.
Responds(r, a, log) ==
    /\ Goes(r, "answering")
    /\ reply' = [reply EXCEPT ![r] = a]
    /\ lines' = [lines EXCEPT ![r] = log]
    /\ UNCHANGED <<answer, approved, sent>>

\* append() raised, before or after the line reached the file.
Torn(log, e) == {log, Append(log, e)}
AppendRaises(r) == Error /\ raised' = raised \union {r}

Unlogged(r, a) == Responds(r, a, lines[r]) /\ UNCHANGED <<raised, errors>>

\* A line written where no handler catches what append() raises: Flask's 500.
Logged(r, e, a) ==
    \/ Responds(r, a, Append(lines[r], e)) /\ UNCHANGED <<raised, errors>>
    \/ AppendRaises(r) /\ \E log \in Torn(lines[r], e) : Responds(r, "failed", log)

\* What append() raises is ignored.
LoggedSilently(r, e, a) ==
    \/ Responds(r, a, Append(lines[r], e)) /\ UNCHANGED <<raised, errors>>
    \/ AppendRaises(r) /\ \E log \in Torn(lines[r], e) : Responds(r, a, log)

\* A line written within the try of proxy_messages: the catch-all writes
\* another, which may raise as well.
LoggedGuarded(r, e, a) ==
    \/ Responds(r, a, Append(lines[r], e)) /\ UNCHANGED <<raised, errors>>
    \/ /\ AppendRaises(r)
       /\ \E log \in Torn(lines[r], e) :
              \E final \in Torn(log, "blocked") : Responds(r, "failed", final)

-----------------------------------------------------------------------------
(* before_request *)

SafeModeGate(r) ==
    /\ At(r, "new")
    /\ IF safeMode
       THEN Unlogged(r, "turned away")
       ELSE Goes(r, "checked") /\ UNCHANGED <<reply, answer, lines, approved, sent, raised, errors>>
    /\ UNCHANGED requestRest

\* ThreadedLimiter says when.
RateLimited(r) == At(r, "checked") /\ Logged(r, "blocked", "refused") /\ UNCHANGED requestRest

RateAllowed(r) ==
    /\ At(r, "checked")
    /\ Goes(r, "admitted")
    /\ UNCHANGED <<reply, answer, lines, approved, sent, raised, errors, requestRest>>

-----------------------------------------------------------------------------
(* proxy_messages *)

\* Empty or no JSON: 400.
RejectBody(r) == At(r, "admitted") /\ Unlogged(r, "rejected") /\ UNCHANGED requestRest

\* Schema, injection or HITL (ThreadedHitl): a line and a 400, 403 or 202.
Refuse(r) == At(r, "admitted") /\ LoggedGuarded(r, "blocked", "refused") /\ UNCHANGED requestRest

\* Scoring (saving the history) raises.
EvaluationRaises(r) == At(r, "admitted") /\ Logged(r, "blocked", "failed") /\ UNCHANGED requestRest

Approve(r) ==
    /\ At(r, "admitted")
    /\ approved' = approved \union {r}
    /\ Goes(r, "calling")
    /\ UNCHANGED <<reply, answer, lines, sent, raised, errors, requestRest>>

\* A provider that sees requests before they are approved.
ReceivesEarly(r) ==
    /\ alive /\ stage[r] \in {"admitted", "calling"} /\ r \notin sent
    /\ sent' = sent \union {r}
    /\ UNCHANGED <<stage, reply, answer, lines, approved, raised, errors, requestRest>>

ProviderReceives(r) ==
    /\ At(r, "calling") /\ r \notin sent
    /\ sent' = sent \union {r}
    /\ UNCHANGED <<stage, reply, answer, lines, approved, raised, errors, requestRest>>

\* get_adapter's ValueError, those of requests, or no API key: 500, no line.
Misconfigured(r) == At(r, "calling") /\ Unlogged(r, "failed") /\ UNCHANGED requestRest

\* Timeout (504) or any other exception (500).  A handler's own append() is
\* outside the try.
CallRaises(r) == At(r, "calling") /\ Logged(r, "blocked", "failed") /\ UNCHANGED requestRest

\* The scan comes after the line of success.
ScanAfterLine(r) ==
    /\ At(r, "calling") /\ r \in sent
    /\ Responds(r, "refused", lines[r] \o <<"passed", "blocked">>)
    /\ UNCHANGED <<raised, errors, requestRest>>

ScanBlocks(r) ==
    /\ At(r, "calling") /\ r \in sent
    /\ LoggedGuarded(r, "blocked", "refused")
    /\ UNCHANGED requestRest

Release(r) ==
    /\ At(r, "calling") /\ r \in sent
    /\ LoggedGuarded(r, "passed", "released")
    /\ UNCHANGED requestRest

\* The client gets what the handler returned.
Answers(r) ==
    /\ At(r, "answering")
    /\ Goes(r, "done")
    /\ answer' = [answer EXCEPT ![r] = reply[r]]
    /\ UNCHANGED <<reply, lines, approved, sent, raised, errors, requestRest>>

RequestStep(r) ==
    \/ SafeModeGate(r) \/ RateLimited(r) \/ RateAllowed(r)
    \/ RejectBody(r) \/ Refuse(r) \/ EvaluationRaises(r) \/ Approve(r)
    \/ ProviderReceives(r) \/ Misconfigured(r) \/ CallRaises(r)
    \/ ScanBlocks(r) \/ Release(r) \/ Answers(r)

-----------------------------------------------------------------------------
(* The operator's endpoints, each in a thread of its own *)

\* POST /emergency/safe-mode; in safe mode it gets the 503 of everybody.
EmergencyActivates ==
    /\ alive /\ ~safeMode
    /\ safeMode' = TRUE
    /\ UNCHANGED <<time, monitorVars, alive, requestVars, errors, hands>>

\* POST /emergency/deactivate-safe-mode with the key, past the rate limiter.
\* The line comes after, and if it raises the operator sees a 500.
OperatorDeactivates ==
    /\ alive /\ safeMode
    /\ safeMode' = FALSE
    /\ UNCHANGED <<time, monitorVars, alive, requestVars, errors, hands>>

-----------------------------------------------------------------------------
(* The process *)

\* main(): a missing file is created; an invalid one, a broken chain or an
\* API key missing at the place main() looks for it activates safe mode.
Startup(chainValid, keyFound) ==
    /\ ~alive
    /\ alive' = TRUE
    /\ heartbeat' = IF heartbeat.kind = "missing" THEN BeatNow ELSE heartbeat
    /\ safeMode' = (~chainValid \/ ~keyFound \/ ~Valid(heartbeat'))
    /\ Sleeps
    /\ UNCHANGED <<time, requestVars, errors, hands>>

\* initialize_once() raises: no gateway.
StartupFails ==
    /\ ~alive /\ heartbeat.kind = "missing"
    /\ Error
    /\ heartbeat' \in Broken
    /\ UNCHANGED <<time, thread, wake, alive, safeMode, requestVars, hands>>

Lost(r) == stage[r] \notin {"new", "done"}

\* Whatever thread the end comes in: a beat under way may be torn.
Killed ==
    /\ alive /\ Error
    /\ alive' = FALSE
    /\ heartbeat' \in IF thread = "checked" THEN Broken ELSE {heartbeat}
    /\ thread' = "off" /\ wake' = 0 /\ safeMode' = FALSE
    /\ stage' = [r \in Requests |-> IF Lost(r) THEN "done" ELSE stage[r]]
    /\ answer' = [r \in Requests |-> IF Lost(r) THEN "lost" ELSE answer[r]]
    /\ UNCHANGED <<time, reply, lines, approved, sent, raised, hands>>

Tampers ==
    /\ hands < MaxTampers /\ hands' = hands + 1
    /\ heartbeat' \in {HeartbeatFile(k) : k \in Kinds \ {"beat"}} \ {heartbeat}
    /\ UNCHANGED <<time, thread, wake, alive, safeMode, requestVars, errors>>

\* The thread wakes on time, a post ends by its timeout, and a write takes no time.
Passes ==
    /\ time < EndTime
    /\ alive /\ thread \in {"asleep", "alerting"} => time < wake
    /\ thread # "checked"
    /\ time' = time + 1
    /\ UNCHANGED <<monitorVars, alive, safeMode, requestVars, errors, hands>>

\* Nothing to notice: not serving, nobody left to notice, safe mode, or a
\* heartbeat that is fine.
Fine == ~alive \/ thread = "dead" \/ safeMode \/ Valid(heartbeat)

Observes ==
    /\ fineAt' = IF Fine' THEN time' ELSE fineAt
    /\ slipped' = (/\ thread = "checked" /\ thread' = "checked"
                   /\ slipped \/ heartbeat' # heartbeat)

ClawInit ==
    /\ time = 0 /\ heartbeat = HeartbeatFile("missing") /\ alive = FALSE
    /\ thread = "off" /\ wake = 0 /\ safeMode = FALSE
    /\ stage = [r \in Requests |-> "new"] /\ reply = [r \in Requests |-> "none"]
    /\ answer = [r \in Requests |-> "none"] /\ lines = [r \in Requests |-> <<>>]
    /\ approved = {} /\ sent = {} /\ raised = {}
    /\ errors = 0 /\ hands = 0 /\ fineAt = 0 /\ slipped = FALSE

ClawStep ==
    \/ \E r \in Requests : RequestStep(r)
    \/ Wakes \/ Writes \/ WriteRaises \/ AlertDone \/ ThreadDies
    \/ EmergencyActivates \/ OperatorDeactivates
    \/ \E chainValid, keyFound \in BOOLEAN : Startup(chainValid, keyFound)
    \/ StartupFails \/ Killed \/ Tampers \/ Passes

ClawNext == ClawStep /\ Observes
ClawSpec == ClawInit /\ [][ClawNext]_clawVars

-----------------------------------------------------------------------------
(* Properties *)

\* The request threads implement GovernedProxy, whose log is what it is when
\* the client is answered.
Proxy == INSTANCE GovernedProxy WITH
    entries <- [r \in Requests |-> IF answer[r] \in {"none", "lost"} THEN <<>> ELSE lines[r]]
ProxyPromise == Proxy!Spec

\* Unless append() raised for it, a request leaves one line at most, a "passed" one
\* if and only if its response was released, a "blocked" one if it was refused.  The
\* ones without a line are those the gate turned away, bodies that are no JSON and
\* failures that are ValueErrors, against what the docstring of proxy_messages says
\* of them: EveryRequestAudited.
LinesAreTrue ==
    \A r \in Requests \ raised :
        /\ Len(lines[r]) <= 1
        /\ answer[r] = "released" => lines[r] = <<"passed">>
        /\ answer[r] = "refused" => lines[r] = <<"blocked">>
        /\ answer[r] \in {"turned away", "rejected"} => lines[r] = <<>>
        /\ answer[r] = "failed" => lines[r] \in {<<>>, <<"blocked">>}

\* proxy_messages: "Every request - approved or rejected - generates an immutable
\* audit entry."  Whoever it answered has a line, unless append() raised.
\* (lines 1002-1171)
EveryRequestAudited ==
    \A r \in Requests \ raised :
        answer[r] \in {"rejected", "refused", "failed", "released"} => lines[r] # <<>>

\* A lost heartbeat is noticed within one interval, plus the webhook's
\* timeout: an operator may leave safe mode while the thread still reports the
\* loss before.
LossNoticed == time - fineAt <= WriteInterval + PostTime

\* What the heartbeat thread found invalid, the gateway never makes valid again
\* by itself while it lives (Bug #11766): no append revives a file that was
\* lost, stale or spoiled, unless it was spoiled between check and write.
NeverRevived ==
    [][alive /\ alive' /\ hands' = hands /\ ~slipped /\ ~Valid(heartbeat)
       => ~Valid(heartbeat)']_clawVars
=============================================================================
