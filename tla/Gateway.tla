------------------------------ MODULE Gateway ------------------------------
(***************************************************************************)
(* The gateway process of gateway/main.py as its clients see it: requests  *)
(* through governance_middleware and proxy_messages, the thread pool that  *)
(* calls the provider, the audit line of each request, crashes, restarts,  *)
(* and (from Heartbeat) the heartbeat task, safe mode and the operator.    *)
(*                                                                         *)
(* A handler suspends where it awaits the body and where it awaits the     *)
(* pool, and nowhere else: the locks it takes are never held across a      *)
(* suspension.  Between two suspensions it runs alone, so what it does     *)
(* there is one action.                                                    *)
(***************************************************************************)
EXTENDS Heartbeat, Sequences, FiniteSets

CONSTANTS
    Requests,   \* POST /v1/messages requests
    Workers     \* threads of the default executor

ASSUME GatewayAssumption == Workers \in Nat \ {0}

VARIABLES
    stage,      \* where each request is
    reply,      \* what the provider call of each request came back with
    answer,     \* what the client of each request was told
    entries,    \* the audit lines about each request, in file order
    approved,   \* history: requests handed to the executor
    sent,       \* history: requests that reached the provider
    raised      \* history: requests for which append() raised

requestVars == <<stage, reply, answer, entries, approved, sent, raised>>
gwVars == <<hbVars, requestVars>>

\* What the heartbeat side keeps while a handler runs (faults aside).
hbRest == <<now, beat, running, loop, due, safe, operator, tampers, calmAt, raced>>

Stages == {"new", "admitted", "queued", "calling", "returned", "done"}
Replies == {"none", "clean", "dirty", "exception", "ValueError"}
Answers == {"none", "turned away", "rejected", "refused", "failed", "released", "lost"}

\* An answer and the end of the handler go together.
GatewayTypeOK ==
    /\ HBTypeOK
    /\ stage \in [Requests -> Stages]
    /\ reply \in [Requests -> Replies]
    /\ answer \in [Requests -> Answers]
    /\ entries \in [Requests -> Seq({"blocked", "passed"})]
    /\ approved \in SUBSET Requests
    /\ sent \in SUBSET Requests
    /\ raised \in SUBSET Requests
    /\ \A r \in Requests : stage[r] = "done" <=> answer[r] # "none"

InFlight == {r \in Requests : stage[r] \notin {"new", "done"}}

At(r, s) == running /\ stage[r] = s
Goes(r, s) == stage' = [stage EXCEPT ![r] = s]

-----------------------------------------------------------------------------
(* The end of a handler *)

\* The handler returns (or raises) and the log then holds log about r.
Ends(r, a, log) ==
    /\ Goes(r, "done")
    /\ answer' = [answer EXCEPT ![r] = a]
    /\ entries' = [entries EXCEPT ![r] = log]

\* append() raised: the line may have reached the file first.
Torn(log, e) == {log, Append(log, e)}

AppendRaises(r) == Fault /\ raised' = raised \union {r}

\* An append() failure that nobody notices.
AnsweredAnyway(r, e, a) ==
    \/ Ends(r, a, Append(entries[r], e)) /\ UNCHANGED <<faults, raised>>
    \/ AppendRaises(r) /\ \E log \in Torn(entries[r], e) : Ends(r, a, log)

\* The audit line is written before the answer is given.  If append() raises,
\* the catch-all appends a "blocked" line, which may raise as well, and the
\* answer is 500.
Answered(r, e, a) ==
    \/ Ends(r, a, Append(entries[r], e)) /\ UNCHANGED <<faults, raised>>
    \/ /\ AppendRaises(r)
       /\ \E log \in Torn(entries[r], e) :
              \E final \in Torn(log, "blocked") : Ends(r, "failed", final)

\* A catch-all that only answers.
InternalErrorUnlogged(r) ==
    Ends(r, "failed", entries[r]) /\ UNCHANGED <<faults, raised>>

\* except Exception: a "blocked" line, a 500.
InternalError(r) ==
    \/ /\ Ends(r, "failed", Append(entries[r], "blocked"))
       /\ UNCHANGED <<faults, raised>>
    \/ /\ AppendRaises(r)
       /\ \E log \in Torn(entries[r], "blocked") : Ends(r, "failed", log)

\* except HTTPException: pass.
HTTPErrorSwallowed(r, a) ==
    Goes(r, "done") /\ UNCHANGED <<answer, entries, faults, raised>>

\* except HTTPException: raise.  No line is written.
HTTPError(r, a) == Ends(r, a, entries[r]) /\ UNCHANGED <<faults, raised>>

-----------------------------------------------------------------------------
(* governance_middleware *)

\* 503 in safe mode, 429 when the rate limiter says so.
TurnedAway(r) ==
    /\ At(r, "new")
    /\ HTTPError(r, "turned away")
    /\ UNCHANGED <<hbRest, reply, approved, sent>>

Admitted(r) ==
    /\ At(r, "new")
    /\ ~safe
    /\ Goes(r, "admitted")
    /\ UNCHANGED <<hbVars, reply, answer, entries, approved, sent, raised>>

-----------------------------------------------------------------------------
(* proxy_messages, from the body to the provider call.  Safe mode is not   *)
(* looked at again.                                                        *)

\* json.loads fails: 400.
RejectBody(r) ==
    /\ At(r, "admitted")
    /\ HTTPError(r, "rejected")
    /\ UNCHANGED <<hbRest, reply, approved, sent>>

\* An injection, or HITL says no.
Refuse(r) ==
    /\ At(r, "admitted")
    /\ Answered(r, "blocked", "refused")
    /\ UNCHANGED <<hbRest, reply, approved, sent>>

\* Scoring or enforcement raises.
EvaluationRaises(r) ==
    /\ At(r, "admitted")
    /\ InternalError(r)
    /\ UNCHANGED <<hbRest, reply, approved, sent>>

\* Enforcement lets the request through, get_adapter raises ValueError.
NoProvider(r) ==
    /\ At(r, "admitted")
    /\ HTTPError(r, "failed")
    /\ UNCHANGED <<hbRest, reply, approved, sent>>

\* Enforcement lets the request through: run_in_executor(adapter.forward).
Approve(r) ==
    /\ At(r, "admitted")
    /\ approved' = approved \union {r}
    /\ Goes(r, "queued")
    /\ UNCHANGED <<hbVars, reply, answer, entries, sent, raised>>

-----------------------------------------------------------------------------
(* The executor's threads *)

Busy == {r \in Requests : stage[r] = "calling"}

WorkerTakes(r) ==
    /\ At(r, "queued")
    /\ Cardinality(Busy) < Workers
    /\ Goes(r, "calling")
    /\ UNCHANGED <<hbVars, reply, answer, entries, approved, sent, raised>>

ProviderReceives(r) ==
    /\ At(r, "calling")
    /\ r \notin sent
    /\ sent' = sent \union {r}
    /\ UNCHANGED <<hbVars, stage, reply, answer, entries, approved, raised>>

\* The call ends: with a response, with a timeout or another exception, or
\* with one of the exceptions of requests that are ValueErrors (a URL or a
\* header it refuses, also on a redirect).
WorkerReturns(r) ==
    /\ At(r, "calling")
    /\ \E v \in Replies \ {"none"} :
           /\ v \in {"clean", "dirty"} => r \in sent
           /\ reply' = [reply EXCEPT ![r] = v]
    /\ Goes(r, "returned")
    /\ UNCHANGED <<hbVars, answer, entries, approved, sent, raised>>

-----------------------------------------------------------------------------
(* proxy_messages, after the provider call *)

\* The handler waits for the end of safe mode.
ReleaseHeldBack(r) ==
    /\ At(r, "returned") /\ reply[r] = "clean"
    /\ ~safe
    /\ Answered(r, "passed", "released")
    /\ UNCHANGED <<hbRest, reply, approved, sent>>

Release(r) ==
    /\ At(r, "returned") /\ reply[r] = "clean"
    /\ Answered(r, "passed", "released")
    /\ UNCHANGED <<hbRest, reply, approved, sent>>

ScanBlocks(r) ==
    /\ At(r, "returned") /\ reply[r] = "dirty"
    /\ Answered(r, "blocked", "refused")
    /\ UNCHANGED <<hbRest, reply, approved, sent>>

CallRaised(r) ==
    /\ At(r, "returned") /\ reply[r] = "exception"
    /\ InternalError(r)
    /\ UNCHANGED <<hbRest, reply, approved, sent>>

\* except ValueError: "Provider not configured".
CallMisconfigured(r) ==
    /\ At(r, "returned") /\ reply[r] = "ValueError"
    /\ HTTPError(r, "failed")
    /\ UNCHANGED <<hbRest, reply, approved, sent>>

-----------------------------------------------------------------------------
(* The process and the rest of the gateway *)

\* Requests in flight are lost; what was sent or logged stays so.
Crash ==
    /\ HBCrash
    /\ stage' = [r \in Requests |-> IF r \in InFlight THEN "done" ELSE stage[r]]
    /\ answer' = [r \in Requests |-> IF r \in InFlight THEN "lost" ELSE answer[r]]
    /\ UNCHANGED <<reply, entries, approved, sent, raised>>

\* verify_chain() finds the chain valid or not: AuditChain says when.
Start == \E chainValid \in BOOLEAN : Startup(chainValid)

GatewayInit ==
    /\ HBInit
    /\ stage = [r \in Requests |-> "new"]
    /\ reply = [r \in Requests |-> "none"]
    /\ answer = [r \in Requests |-> "none"]
    /\ entries = [r \in Requests |-> <<>>]
    /\ approved = {}
    /\ sent = {}
    /\ raised = {}

\* The steps of a handler once it was admitted.
Handler(r) ==
    \/ RejectBody(r)
    \/ Refuse(r)
    \/ EvaluationRaises(r)
    \/ NoProvider(r)
    \/ Approve(r)
    \/ WorkerTakes(r)
    \/ ProviderReceives(r)
    \/ WorkerReturns(r)
    \/ Release(r)
    \/ ScanBlocks(r)
    \/ CallRaised(r)
    \/ CallMisconfigured(r)

RequestStep(r) == TurnedAway(r) \/ Admitted(r) \/ Handler(r)

GatewayNext ==
    \/ \E r \in Requests : RequestStep(r)
    \/ Crash /\ Observe
    \/ (HBStep \/ Start) /\ Observe /\ UNCHANGED requestVars

\* The event loop and the threads run what is ready, a body arrives or the
\* connection ends, and the provider answers or the call times out.
GatewaySpec ==
    /\ GatewayInit
    /\ [][GatewayNext]_gwVars
    /\ \A r \in Requests : WF_gwVars(Handler(r))

-----------------------------------------------------------------------------
(* Properties *)

\* proxy_messages implements GovernedProxy: through every interleaving, append
\* failure, provider failure and restart, only approved requests reach the
\* provider, no request is answered twice, and a released response has its
\* "passed" line, a refusal its "blocked" line.
Proxy == INSTANCE GovernedProxy
ImplementsProxy == Proxy!Spec

\* The log tells a reader what the client got: unless append() raised for it,
\* a request has a "passed" line exactly when its response was released, and
\* one that reached the provider and was answered has exactly one line (the
\* ValueErrors of the provider call are the exception, see AllAudited).
LogIsTrue ==
    \A r \in Requests \ raised :
        /\ answer[r] = "released" <=> \E i \in 1 .. Len(entries[r]) : entries[r][i] = "passed"
        /\ r \in sent /\ answer[r] \notin {"none", "lost"} /\ reply[r] # "ValueError"
           => Len(entries[r]) = 1

\* Every request that was admitted is answered (or lost with the process):
\* safe mode, a full thread pool and every error path included.
AdmittedAreAnswered ==
    \A r \in Requests : stage[r] = "admitted" ~> stage[r] = "done"

\* proxy_messages: "All requests are scored, tiered, and audit-logged
\* regardless of outcome."  Whoever was refused, failed or released has a line.
AllAudited ==
    \A r \in Requests :
        answer[r] \in {"refused", "failed", "released"} => entries[r] # <<>>
=============================================================================
