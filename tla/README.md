# TLA+ for the AI SAFE² gateway

TLA+ models, TLC runs and TLAPS proofs about the programs of this repository. The repository
is mostly prose (framework, policies, guides) and scripts. The programs that keep state are the
**core gateway** `src/gateway/main.py`, its threaded sibling **OpenClaw**, the **enforcement engine** of
the sovereign runtimes with the wrappers around it, the **NEXUS SDK**, the **MCP server**, the **MCP security
toolkit**, the **Hermes** gateway and the **Love evaluator**. Each has its modules here, and each
is proved about besides, for every value of its constants.

Run everything from this directory:

```
tlc -workers 2 -config MCAuditChain.cfg AuditChain.tla
tlapm AuditChainProofs.tla
```

## 1. Inventory

### The core gateway (`src/gateway/`)

| Part (main.py) | State it keeps | Operations | What makes it correct |
|---|---|---|---|
| `ImmutableAuditLog` (210–317) | `logs/audit.jsonl`; in memory `_seq`, `_last_hash`, `_chain_key` | `append` (every decision), `verify_chain` (start-up, `GET /health`) | the file chains as long as nothing damaged it; acknowledged entries stay verifiable; a break stays visible |
| `HeartbeatMonitor`, `_heartbeat_loop`, `SafeMode` (127–203, 804–836, 981–990) | `HEARTBEAT.md`, the task, `_active` | `validate`, `write_beat`, `initialize`, activate, deactivate | a lost heartbeat is noticed within one interval; the file is never created behind the operator's back; only the operator ends safe mode |
| `governance_middleware`, `proxy_messages` (993–1246) | the requests in flight, the default thread pool | refuse, forward, scan, answer, log | only approved requests reach the provider; one answer each; the log says what the client was told |
| `HistoricalContextTracker`, `RiskScorer`, `ChallengeStore`, `HITLCircuitBreaker` (352–752) | counts per user and fingerprint and their JSON file; tokens; challenges | score, tier, issue and consume credentials | a credential approves once, for whom and what it was issued |
| `TokenBucket` (324–345) | a list of admission times per identity | `consume` | at most `rpm` admissions in every window, and a refusal only when there were as many |
| `ResponseScanner`, `provider_adapters.py` | none | pattern match, payload mapping, the HTTP call | outcome of the call classified correctly |

How they interact: a request passes the middleware (safe mode, then rate limiter); the handler
awaits the body, scores it (which changes and saves the history), asks the HITL breaker, calls
the adapter in the executor's threads, scans the response, appends a line to the audit log and
answers. The heartbeat task runs on the same event loop, and shares with the requests the flag
of `SafeMode`. Start-up verifies the chain and the heartbeat and enters safe mode if either
fails. The `asyncio.Lock`s of the parts are never held across a suspension point, so within one
process a handler's step from one suspension to the next is atomic. The concurrency that is left:
handlers interleaving at their two suspension points (the body, the thread pool), the pool's
threads, the heartbeat task between two sleeps, other processes that write the files, and
crashes anywhere.

### The other programs

| Program | State, operations | What is hard | Modules |
|---|---|---|---|
| OpenClaw gateway (`examples/openclaw/gateway/gateway.py`) | the core gateway's parts under Flask **threads** with `threading.Lock`, a heartbeat thread, an emergency endpoint | `verify_chain` reads without the lock `append` holds; the limiter reads its clock before it takes the lock; a request is scored under one lock and decided under another; another thread runs between a request's audit line and its answer | `ThreadedAuditLog`, `ThreadedLimiter`, `ThreadedHitl`, `OpenClaw` |
| AI SAFE² engine (`examples/*-sovereign-runtime/enforcement`, one text in four copies) and the LangGraph, LangChain, CrewAI and AutoGen wrappers | a hash-chained log of events, call counters, loop detector, trust score, snapshots | shared by the agent frameworks' threads **without a lock**; a failed write of the log raises out of any call | `SovereignEngine`, `LangGraphRuntime`, `LangChainRuntime`, `CrewRuntime`, `AutoGenRuntime` |
| Light engine of the Grok, Make and Langflow runtimes | the same, without tiers; budgets of a session | as above | `LightEngine`, `GrokRuntime`, `MakeRuntime`, `LangflowRuntime` |
| NEXUS SDK (`NEXUS/sdk/python`) and gateway container | guardian verdicts, vaccine, JouleWork accounts, AgBOM versions, signed envelopes, protocol bridges | failover of the guardian, debits charged when refused, snapshots that share objects, envelopes amended after they were signed | `NexusGuardian`, `JouleWork`, `AgBOM`, `NexusEnvelope` |
| MCP server (`skills/mcp`) | start-up checks, token buckets with garbage collection, the tier in the request's context; read-only catalogue | clock read outside the lock; the tier must be that of the tool's own request | `McpServer` |
| MCP security toolkit (`examples/mcp-security-toolkit`) | HTTP proxy with pinned tool list and log, stdio wrapper with two pumps, assessor of remote servers | answers in another order than requests; a probe that spends the budget the next check needs | `SafeWrapProxy`, `SafeWrapStdio`, `McpAssessor` |
| Provider adapters (`gateway/provider_adapters.py`) | none | a conversion fails and the gateway goes on with less | `ProviderAdapters` |
| Hermes gateway and memory auditor | a hash chain whose head is a global, a kill switch that is a file; files moved to quarantine | threads chain to the same line; files change under the pass | `HermesGateway`, `HermesMemory` |
| Love equation evaluator | a score, a sliding window of events | saving and restoring in mid-window | `LoveEquation` |
| `scanner`, dashboards, score calculators, generators, other scripts | none between calls | – | not modelled: sequential scripts over files |
| `AISM`, `guides`, policies | – | – | not modelled: prose and data |

The programs do not call one another: each is a process of its own, and they are modelled apart.
Within a program the modules compose, by extension over shared variables (`Gateway`, the runtimes on
`SovereignEngine`) or because the parts share nothing but the calls (OpenClaw, NEXUS).

`PROJECT.json` lists the same components with their status, and under `hazards` each place where
the code could go wrong in a way a test would hardly reach, with the property that covers it.

## 2. Modules

| Module | What it is |
|---|---|
| `AppendOnlyLog` | abstract: a log that only grows at its end, except by an outside hand, or for a last entry that is still in doubt |
| `AuditChain` | `ImmutableAuditLog` and the process around it; implements `AppendOnlyLog` |
| `AuditChainProofs` | its theorems |
| `Heartbeat` | heartbeat file, loop, safe mode, the operator's request, the clock |
| `GovernedProxy` | abstract: what `POST /v1/messages` promises |
| `Gateway` | the request path; extends `Heartbeat` (composition over shared variables); implements `GovernedProxy` |
| `GatewayProofs` | theorems of `Heartbeat`, and on them those of `Gateway` |
| `HitlGate` | history, scoring, tiers, tokens and challenges |
| `SlidingWindow` | the rate limiter |
| `SlidingWindowProofs` | its theorems |
| `ThreadedAuditLog`, `ThreadedLimiter`, `ThreadedHitl` | OpenClaw's audit log, limiter and decision, thread by thread; the last extends `HitlGate` |
| `OpenClaw` | OpenClaw's process; implements `GovernedProxy` |
| `OpenClawProofs` | theorems of the threaded log and limiter, of `HitlGate` and on them of `ThreadedHitl`, of OpenClaw's process, and of these parts side by side |
| `SovereignEngine` | the engine, as a small machine that executes its calls statement by statement |
| `LangGraphRuntime`, `LangChainRuntime`, `CrewRuntime`, `AutoGenRuntime` | wrappers, as sequences of the engine's calls and their own statements |
| `LightEngine`, `GrokRuntime`, `MakeRuntime`, `LangflowRuntime` | the small engine and its runtimes |
| `EngineProofs` | theorems of the engine under any calls of any of these |
| `EngineLimitProofs` | theorems of what the engine and the runtimes count: its ceilings, their budgets |
| `NexusGuardian`, `JouleWork`, `AgBOM`, `NexusEnvelope` | the NEXUS SDK and container |
| `McpServer` | the MCP server |
| `SafeWrapProxy`, `SafeWrapStdio`, `McpAssessor` | the MCP security toolkit |
| `ProviderAdapters` | formats of six providers, in and out |
| `HermesGateway`, `HermesMemory`, `LoveEquation` | the programs of these names |
| `ToolkitsProofs` | theorems of the twelve models in the five rows above, each for itself, and of `MCToolkits`, which composes them |
| `Sums` | lemmas: induction over finite sets, and what it shows of the sums that the models take with folds |
| `MC*` | the instances TLC checks, with their `.cfg` files; runs whose constants are plain values (`AuditChain`, `Heartbeat`, `Gateway`, one of `OpenClaw`) need no module of their own for that |

The core gateway is four models and not one: its parts meet through few choices, which the composed model leaves
open and the part's own model explains. In `Gateway` the limiter's answer is a free choice
(`TurnedAway`), so is the HITL verdict (`Refuse`, `Approve`) and the validity of the chain at
start-up (`Start`); what holds for every choice holds for those the parts make.

### AuditChain

A line is a record of its sequence number, the hash it was chained to, its own hash and the key;
a hash is the number of the entry that produced it (`minted`), so equal hashes mean equal
contents, which is what SHA-256 is used for. `text` says whether the line is what `append`
wrote (`ok`), all of that but its newline (`bare`), a shorter fragment (`torn`), or a complete line whose text
is not what was hashed (`bad`). `verify_chain` strips lines, so a `bare` last line links, verifies and is resynced to like
any other (`Linked`). `AppendOk` is the whole of `append`; `AppendFails` the ways it raises
(nothing written, part of the line, all of it and `fsync` failed), each with `_seq` incremented
and `_last_hash` not assigned; a crash can cut the write at the same places (`Fragments`). `Written` models mode `"a"`: what follows a
line without newline is glued to it, and one `bad` line is left of the two. That is how the program itself can un-verify an entry that
verified, and `AppendOnlyLog` says so: its last entry may be in `doubt`, and only such a one may be withdrawn.
`Start` is `lifespan`: a new object, `verify_chain`, and safe mode (`halted`) on a break, with the
fields as `__init__` left them. `HealthCheck` is `GET /health`, which reloads the fields when the
chain verifies. The key may differ from one process to the next. `Hand*` are other processes.

### Heartbeat

Time is a counter; `Hour` ticks make an hour. `ParsedTime` is what `validate` gets out of the
beat's timestamp: the code splits the line at every colon, the ISO time has colons, and the part
it parses ends at the hour. `LoopChecks` and `LoopWrites` are the loop's two calls, separate
because another process may change the file between them. `LoopDies`: an `OSError` in either ends
the task, which nothing awaits. The operator's request is `OperatorPosts`, then the middleware
(`OperatorAdmitted` or `OperatorThrottled`), then the handler after the body
(`OperatorDeactivates`). `calmAt` and `raced` are history variables (`Observe`), which no guard
reads.

### Gateway

Each request has a stage: `new`, `admitted` (the handler awaits the body), `queued` (in the
executor's queue), `calling` (a thread runs `forward`), `returned`, `done`. `Answered` is the pattern "append a
line, then answer" with both its failures (the append raises, the catch-all's own append raises);
`InternalError` is the catch-all; `HTTPError` the `except HTTPException: raise`, which logs
nothing. `Workers` bounds the pool. `Crash` ends every handler in flight: its client gets nothing.
A provider call ends with a response that scans clean or dirty, with an exception, or with one
of the exceptions of `requests` that are `ValueError`s.

### HitlGate

`Submit(u, b)` is one submission from scoring to the decision, which the code runs without a
suspension point: history score, weights, caps, tier, count, save, then `enforce` by tier. Scores are in
hundredths to stay integers. Bodies carry what the patterns would rate them (`action`, `target`),
whether they match A2A or injection patterns, and a fingerprint; bodies with one fingerprint
share a count. Counts saturate at `Frequent`, from which they score alike. The stores are
functions on the ids they hold. `Stops` empties what lives in memory; `CrashInSave` tears the
history file, which `write_text` truncates before it writes.

### SlidingWindow

`Allowed` and `Limited` are the two ends of `consume`. The eviction loop is stated by where it stops: after `k` pops, the `k`
first entries are old and the next is not.

### OpenClaw

The audit log's `append` is several steps under its lock, the line's write two of them, between which a
reader without the lock sees half a line, which may be all of it but the newline (`HalfLines`); `verify_chain` is a step per line. A start
goes on from the last line that parses, such a one included (`LastLoaded`). In the limiter a call is two steps, the clock and the locked rest, at
most `Delay` apart. `ThreadedHitl` cuts `HitlGate`'s submission at the place where the locks change
hands: `Scores`, then one of the `Enforce*`. In `OpenClaw` a request goes from the safe-mode
gate through limiter, body, decision, call and scan to its answer, and every log line is one step and
the answer the next. The heartbeat thread sleeps, checks, reports (its webhook takes up to `PostTime`)
and writes; `append`'s and the file's failures, `SIGKILL` and outside changes of the file are actions. `Startup` begins in safe
mode over a broken chain, a bad heartbeat or a missing key. `fineAt`, `slipped` and `hands` are history variables.

### The engine and its runtimes

An engine's call is the list of statements it has still to execute (`todo`), built by an operator
with the name of the method (`RecordToolCall`, `CheckPathSafety`, `WrapNode`, …) from a dozen
kinds of statement: a read and a store of the score or of a counter, a comparison that raises, hash, link and
write of an event, a call of the wrapped function, `try`/`except`. `Statement(t)` executes the next one of a thread.
`lines[i].prev` is what the event was hashed with. `tail` is how the file ends: a write that fails may have left a part of its text, or all of
it but the newline, and mode `"a"` goes on from there, so that the *next* event's line is lost with it (`Lands`, `StaysOut`, `SpoilsLast`). `lost`, `forgiven`, `missing`, `unwritten` and `leaked` are history
variables: they count what an interleaving or a failed write took away, so that the properties say how much a lack of a
lock may cost and that nothing else costs anything. `lost[c]` is how far stores of a stale value have moved the counter `c`, up or down:
what a thread stores over a value that another one has changed since it read it differs from what it
would have stored just now by the distance of the two values. The wrappers run the user's function as one statement.

### NEXUS

`NexusGuardian` evaluates one step at a time (the client is synchronous), with any reply of a remote
guardian, none included, in both fail modes; without `httpx` the remote is not asked and the inline policy decides. A drift counts in
hundred-thousandths: the vaccine compares the value it computed, the guardian the one that was `Rounded` to four digits. `AgBOM` keeps, for every version, the components it lists *and* what its hash was
computed over: they differ when a listed object was changed since. `JouleWork` lets `debit`, `earn`, `transfer` and the
separate credit happen in any order. `NexusEnvelope` amends, signs and checks one envelope in any order; a tool
call is made once per attempt and goes over each bridge, which carries what its protocol has room for.

### MCP server and toolkit

In `McpServer` a handler notes the second and takes the lock at most `Lag` later. On the server's one event loop nothing comes between the
two, so the runs have `Lag = 0`; the limiter's docstring calls it thread-safe, and the proofs hold for any `Lag`, which is
what that takes. A bucket's level counts fractions `1/Window` of a token. `Collected` drops idle buckets. After its
check a handler runs one tool for the tier in *its* context (`SetTier`); `ToolReply` says what each of the six tools
returns to a tier. `Starts` is the launch with its checks, and over stdio `RunsToolLocally` runs tools without the middleware.
`SafeWrapProxy` has the requests in flight at the upstream answered in any order, `SafeWrapStdio` the two
pumps with what waits between them. `McpAssessor` makes its checks in the code's order against a server with any of the
protections, other clients of it included; the score is the sum of what it found.

### Adapters, Hermes, love

`ProviderAdapters` normalizes a request, scores what it got out of it, forwards the request as it
came, and reads the reply's blocks; each conversion by provider, with the fallbacks. `HermesGateway` has `_write_audit` in three steps
(read the head, set it, write) and a kill switch that is a file. `scripts/kill-switch.sh` creates the file or, once confirmed, removes it
(`ScriptKills`, `ScriptAsks`, `ScriptRevives`), then appends a line of its own, without hashes, to the log the gateway falls back to (`ScriptLogs`), and
then posts to the gateway, which is one of `Kills` or `Revivals`; requests are served between any two of these. `HermesMemory` is one pass
over memory files and database rows that the agent changes meanwhile; a quarantine that fails is passed over, unless it is the folder that
cannot be made, which ends the auditor. `LoveEquation` counts in thousandths, rounded down; `Beta` is any rate and each evaluation takes
any of `TimeSteps` for `delta_t`.

## 3. Runs

| Run | Question | Bounds and why they are enough | Result |
|---|---|---|---|
| `audit_chain` | does the chain break only for a reason, are acknowledged entries kept, does a break stay visible, is the log append-only? | 2 keys; 4 entries (`MaxEntries`); 2 failed appends, 2 crashes, 1 outside change: a fragment or an unfinished newline, a line swallowed by it, a resynchronisation, a rotation and a restart fit together. 123,000 states; the proofs remove these bounds. | holds |
| `gateway` | does the composed gateway keep the proxy's promise and notice a lost heartbeat? | 2 requests on 1 thread (one waits for the other); interval 1, staleness 2, hour of 6, time 4 from every minute of an hour; 1 fault (crash, file operation or append), 1 outside change of the file. 1.0 M states | holds |
| `admission` | the core gateway's two deciders, the run picks one: does a credential buy one approval, for whom and what it was issued; at most `RPM` in every window, refused only when full? | gate: 2 users (symmetric) sharing one fingerprint; 4 bodies: CRITICAL falling to HIGH and MEDIUM, CRITICAL by A2A, AUTO, injection; 2 credentials, lifetime 1, time 2; counts start at 3, so that the threshold at 5 is crossed; 1 fault. Limiter: 2 identities, RPM 2, window 2, time 6: fills and empties twice. 700,000 states | holds |
| `openclaw` | what do threads cost the gateway? The parts side by side: the run picks one | log: 2 writers, 1 reader, 3 entries, 2 failures (a reader is overtaken and meets a half-written line); limiter: 2 threads, 2 per minute of 2 ticks, 3 per hour of 4, delay 1, time 7; decision: 2 threads, 2 users, 3 bodies, 2 credentials, 1 fault; process: 2 requests, interval 1, staleness 2, time 4, 1 error, 1 outside change. 1.7 M states | holds |
| `runtimes` | what do the engine and its wrappers guarantee when calls come in any order, in one thread, and in two? | each of seven runtimes and the engine alone with one thread and up to 3 calls; then 2 threads with 2 calls between them; limits of 1 or 2, so that every ceiling is reached; every tier; 1 failed write, cut anywhere. 8.4 M states | holds |
| `toolkits` | do records say what happened, do limiters give what they refill, is what is relayed what was there? | 14 parts, each alone: guardian (2 steps, 3 drifts: one that rounding carries to the guardian's threshold, one between the thresholds, one above both), AgBOM (3 components, 4 versions), accounts (2, 4 operations), envelope and calls (3 depths around the limit, 2 amendments, 2 attempts), MCP buckets (2 handlers, window 2, no lag, 6 seconds: collected and created again), MCP tools (every call of a small catalogue by every tier and launch), proxy (3 requests, 2 lists, 1 lost record), stdio (3 lines), assessor (every server, budget 2 against probes of 3), adapters (6 providers, 2 messages), Hermes (a chat, a kill, a revival, 1 mishap or run of the script), memory (2 files of one name, 1 store), love (window 2, 6 operations, time steps 1 and 3). 2.0 M states | holds |
| `audit_seq` | are sequence numbers monotonic along the file? | 1 key, 1 failed append | **violated** |
| `safe_mode_trap` | does an operator who keeps asking get out of safe mode? | 1 outside change | **violated** |
| `fresh_beat` | is a beat younger than `max_staleness_seconds` accepted? | no fault needed | **violated** |
| `all_audited` | is every refused, failed or released request logged? | 1 request, no fault | **violated** |
| `openclaw_audited` | does every request OpenClaw answers leave a line? | 1 request, no fault | **violated** |
| `retry_after` | is a client that waits as long as it was told served? | one token alone on its key, window 3; the other parts of `MCToolkits` at rest | **violated** |

`CHECK_DEADLOCK FALSE` where clocks, calls and requests are finite: with every bound used up the model stops, as
a bounded model must. `audit_chain` is checked for deadlock.

### The properties

*AuditChain.* `BreaksAreExplained`: `verify_chain` reports a break only after an outside change,
a torn write, a failed `fsync` not yet reloaded, or under another key. `AcknowledgedVerifiable`:
what `append` returned is found, in order, among the lines that chain. `BrokenStaysBroken`: no
append, restart or health check mends a chain. `AppendOnly`: the part that chains is an
append-only log, except that a last entry whose newline was never written can be lost to the next write.

*Heartbeat.* `LossDetected`: while the task lives, at most one interval (and its lateness) passes
with a bad file and no safe mode. `NeverAutoCreates`: a missing file stays missing while the gateway runs,
unless it vanished between the loop's check and its write. `OnlyOperatorLeavesSafeMode`.

*Gateway.* `ImplementsProxy`, `LogIsTrue` (a `passed` line exactly when released, one line for what
the provider saw, unless `append` itself raised), `AdmittedAreAnswered`.

*HitlGate* (`admission`). `OneApprovalEach`, `ApprovalsBacked`, `RetryNeverEscalates` (asking again never raises
the tier), `HistorySurvives` (restarts keep the counts unless a save failed or was torn).

*SlidingWindow* (`admission`). `AtMostRPM`, `RefusedOnlyWhenFull`.

*OpenClaw* (`openclaw`). `VerdictSound`: an "ok" of the lockless `verify_chain` covers everything acknowledged
when it began; a break means damage; an unreadable line means damage or a write under way. `WholeUntilSpoilt`: the chain itself is
whole until a write fails half-way, and its numbers grow from 1 with no more gaps than appends have failed. `GrantsSpaced` and `RefusedOnlyWhenBusy`: the two windows hold in real time up to one
delay between clock and lock, both ways. `ApprovedOnceAndBacked`: `OneApprovalEach` and `ApprovalsBacked` of the core gateway
with decisions that interleave. `StaleTierIsStricter`: the tier a thread carries from one lock to the other is never laxer than a fresh one.
`ProxyPromise` (the refinement of `GovernedProxy`), `LinesAreTrue` (a line agrees with what the client was told; requests without one are those
of section 5), `LossNoticed`, `NeverRevived` for the process.

*Runtimes* (`runtimes`). `ChainedUnlessOverlapped`: the log chains unless two threads emitted at once, up to events a failed write has cost,
its own and the one written onto what it left. `LedgerAgrees`: violations counted are violations logged or lost so, two at most for each
failure, and the score is what the penalties left. `BudgetsHold` is three: `CeilingHolds` (calls and
identical calls of the engine), `GrokBudgetsHold` (turns and operations), `MakeLimitsHold` (scenario operations, agent
turns, nothing destructive in an external context). `FailsClosed`: from tier 3 a gate that found something does not return.
`DepthTracks`: between calls, and as long as no stale store has
moved it, the delegation depth is the number of subgraphs running and of steps that a failed write kept from being taken back.

*Toolkits* (`toolkits`), three conjunctions of the parts' properties:

- `RecordsAgree`. NEXUS: `DecisionsStand` (what is allowed was allowed by somebody entitled to; receipts tell the outcome;
  memory is vetted by vaccine and guardian), `VersionsAsSigned` (the inventory's chain verifies and an unaltered version says what was signed),
  `OverdraftAnnounced`, `WorkConserved`. Hermes: `HermesTold` (a break of the gateway's chain has a cause, the script's lines passed over; the switch and the chats are on record),
  `MemoryKept` (evidence is not lost, nothing is taken without cause or record). `AssessmentSound` (verdicts are true of the
  server, a protection is missed only for a cause, a badge has grounds). `AlignmentHolds` (score and bands).
- `RatesKept`. `ServedBounded` and `DeniedOnlyWhenSpent`: between any two moments an MCP key gets a full bucket and the
  refill, and is refused only when it has had that, whatever was collected, restarted or out of order. `AdmittedBounded`: the same of the proxy.
- `RelaysFaithful`. `ListChangeShows` (no client sees two lists of tools without an alarm), `RelayInOrder` (stdio), `EnvelopesHold`
  (what verifies is what was signed, attempts share their key, only a guardian's "allow" allows), `AdaptersAgree`
  (what is scored and scanned is what was asked and answered, fallbacks aside), `ToolsKeepTiers` (a tool answers for the tier of its
  own request; what a free caller gets is part of what a pro caller gets; what is sold is not given away).

Each property is shown to bite: for each there is a mutated definition in its module
(`AppendForgetsHash`, `LoopOnlyLogs`, `TokenKept`, …) that TLC finds violating it in the same run.

## 4. Fairness

Safety needs none. `AdmittedAreAnswered` assumes `WF(Handler(r))` for each request: the event loop
and the pool run what is ready, the body arrives or its connection ends, and `forward` returns or
times out (`requests` is called with a timeout). Nothing is assumed of admission, of the operator
or of the clock. A crash answers too (`lost`). `OperatorLeavesSafeMode` assumes that the operator keeps posting
and that the event loop handles the post (`OperatorFairness`): without that the violation would
only show an operator who does not ask.

The models other than the core gateway's state safety only: their threads may stop anywhere, and the code
promises no more (the heartbeat thread of OpenClaw dies of an exception, the stdio wrapper waits for a
server that need not exit).

## 5. What disagrees with the documents

- **Sequence numbers repeat** (`audit_seq`). "seq: monotonic sequence number" (main.py:215). `append`
  increments `_seq` before it writes; after a failed write `GET /health` or a restart sets it
  back to the number of lines. Two lines of a valid chain then carry one number, or numbers go down.
- **Safe mode has no way out through the API** (`safe_mode_trap`). "Safe mode blocks all traffic until an operator
  explicitly deactivates it" (gateway/README.md:237). The middleware answers 503 to
  `POST /safe-mode/deactivate` as to anything else outside its three exemptions; only a restart helps.
- **Fresh beats are stale** (`fresh_beat`). A heartbeat is stale when older than `max_staleness_seconds`; the
  timestamp `validate` parses is cut at the hour. With the default of 120 s the gateway goes into
  safe mode over its own beat from the third minute of an hour on.
- **Not everything is logged** (`all_audited`). "All requests are scored, tiered, and audit-logged regardless of
  outcome" (main.py:1084). A `ValueError` of the adapter lookup or of the call becomes an `HTTPException`, which
  is re-raised past the logging.
- **Not everything is logged in OpenClaw either** (`openclaw_audited`). "Every request — approved or rejected — generates an immutable
  audit entry" (openclaw/gateway/gateway.py:1007). The answers 400 for an empty body and for one that is no JSON return before any `append`, and the
  handler of a `ValueError` answers without one; `LinesAreTrue` lists these, with the requests that the safe-mode gate or the limiter turn away.
- **Retry-After is too short** (`retry_after`). "Compute seconds until 1 token is available" (ratelimit.py:126), rounded
  down: at 1000 requests an hour a token takes 3.6 s, and the client is told 3.

Met while modelling, in the models as the code has it, and not stated as properties:

*Core gateway.* `burst` is stored and never used; there is no `rph`. The user a challenge was issued to
is never compared. Every submission counts as history, refused ones included, so a CRITICAL request that
is resubmitted with its challenge may by then be HIGH and ask for a token. The NEXUS headers that are to be "preserved and
passed through" are not forwarded. A request that carries a nonce or a signature header cannot be
normalized: the raw body is scored instead (of Gemini's format nothing is found in it) and the reply is scanned in Anthropic's
format. "system" is never scored. A reply with `tool_calls: null` fails extraction and counts as clean.

*Engine.* `scan_content` is documented to raise from ACT-3 and does not. The limits of 10 calls per node or task and of 100
exchanges are out of reach from ACT-2, where 4 identical calls end a run. "Consecutive" chain errors
are never reset. Make's ceilings "per run" are those of the instance. Wrapped tools of CrewAI and LangChain are not counted.
`rollback_state` leaves the snapshot on its stack. The documents advise a single shared instance, and the chain of such an instance breaks when two
threads emit at once (`ChainedUnlessOverlapped` has the condition).

*NEXUS.* AgBOM's `verify_chain` compares stored hashes and recomputes none. Rules on arguments are skipped for empty ones.
Discovering an MCP server again adds a second component. The hash of an envelope covers its delegation, which the list of signed
fields omits, and not its memory compartment; `validate` does not verify. REST carries no header for a depth of 0.

*MCP server.* Over stdio the tier "is always pro" (context.py:16), but no middleware sets it there and the tools read the default,
"free". An agent with tools and no review is ACT-1, with review ACT-2. A lookup by id is not limited by tier.

*MCP toolkit.* "Every tool invocation" is audited except those the upstream failed. The event `rate_limited` is never
written; Retry-After is always 60. The assessor's probe for a rate limiter spends the budget its next checks need; an absent `Server` header
counts in favour also when there was no answer.

*Hermes, love.* "Each entry includes `prev_hash` and `hash`" (hermes-sovereign-runtime/gateway/README.md:155), but `kill-switch.sh` appends
its line without them to `/tmp/hsr_audit.jsonl`, where the gateway's log is when `/var/log/hsr` is missing. A 502 leaves no audit line. An error in the routing of providers falls back to the default
provider. The evaluator's "complete state persistence" does not restore the window.

## 6. Proofs

All theorems hold for every value of the constants that satisfies the named assumptions
(`AuditAssumption`, `HeartbeatAssumption`, …); the bounds on time, faults, crashes and entries are
constants like the others, so the proofs cover every bound.

| Theorem | Says |
|---|---|
| `AuditChainProofs`: `TypeCorrect`, `BreaksExplained`, `AcknowledgedKept`, `BrokenForGood`, `ImplementsAppendOnly` | the five properties of `audit_chain`, refinement included |
| `GatewayProofs`: `HeartbeatInv`, `LossIsDetected`, `FileNotCreated`, `SafeModeHolds` | the heartbeat alone |
| `GatewayProofs`: `InvariantHolds`, `GatewayTypes`, `GatewayLossDetected`, `LogTellsTheTruth`, `GatewayFileNotCreated`, `GatewaySafeModeHolds`, `GatewayImplementsProxy` | every safety property of `gateway`, for any set of requests and any number of threads |
| `OpenClawProofs`: `HistoryKept`, `NeverEscalates`, `ApprovesOnce`, `NoApprovalUnbacked`, `GateTypes` | the gate's properties of `admission`, for any users, bodies, lifetimes and numbers of credentials |
| `SlidingWindowProofs`: `Inductive`, `TypeCorrect`, `NeverTooMany`, `NeverTooFew` | the limiter's properties of `admission` for every rate and window |
| `OpenClawProofs`: `VerdictsSound`, `ChainWhole` | OpenClaw's audit log, for any writers and readers and any number of entries and failed writes |
| `OpenClawProofs`: `LimiterTypes`, `LimiterSpaces`, `LimiterRefuses` | OpenClaw's limiter, for every pair of limits and windows and every delay between clock and lock |
| `OpenClawProofs`: `ThreadsApproveOnce`, `StaleTierStricter`, `ThreadedTypes`, `ThreadsKeepHistory` | the decision cut in two at the locks, for any threads |
| `OpenClawProofs`: `LinesTellTheTruth`, `ClawImplementsProxy`, `ClawLossNoticed`, `ClawNeverRevives`, `ClawTypes` | every property of OpenClaw's process, for any requests, intervals and numbers of faults |
| `EngineProofs`: `EngineFailsClosed`, `EngineLedger`, `EngineChained`, `EngineDepth`, `EngineTyped`; `EngineLimitProofs`: `EngineCeiling` | five of the six invariants of `runtimes` and `CeilingHolds` of the sixth, for any threads that call any operation of any runtime in any order (`EngineSpec`) |
| `EngineProofs`: `RunsAreRuntimes` | what the run `runtimes` checks is a part of that |
| `EngineLimitProofs`: `RunBudgets` | `BudgetsHold`, the sixth, for every budget, of the specification `runtimes` checks: a Grok session or Make scenario is one thread's |
| `OpenClawProofs`: `PartsTyped` | the parts side by side, as the run `openclaw` composes them, keep their types; each part obeys its own specification in it (`PartsRun`) |
| `ToolkitsProofs`: `PartsTogether` | the composition that the run `toolkits` checks implements the specification of each of twelve parts, so that what is proved of a part holds in it |
| `ToolkitsProofs`: `RecordsDoAgree`, `RatesAreKept`, `RelaysAreFaithful` | the three properties of `toolkits`, from the theorems of the parts |
| `ToolkitsProofs`: `GuardedDecisions`, `InventoryAsSigned`, `WorkAccounted`, `EnvelopesFaithful` | the NEXUS SDK: guardian and vaccine, inventory, accounts, envelopes and bridges |
| `ToolkitsProofs`: `ServerKeeps` | the MCP server: its buckets and its tools |
| `ToolkitsProofs`: `ProxyKeeps`, `WrapperRelays`, `ReportsAreSound` | the security toolkit: proxy, stdio wrapper, assessor |
| `ToolkitsProofs`: `AdaptersFaithful`, `GatewayTells`, `EvidenceSafe`, `AlignmentKept` | adapters, Hermes gateway and memory auditor, love equation |

*Audit chain.* `BreaksAreExplained` is not inductive: that the file verifies now says nothing of the
next line. `ChainInv` adds that, without damage, every line links and, while the gateway serves, the hash in
memory is the one the file ends with. `AcknowledgedVerifiable` needs besides that hashes grow
along the file whatever happened to it (`HashesGrow`) and that an acknowledged line is lost only
to an outside hand or a fragment (`AckedWritten`, `NoFragment`). `BrokenStaysBroken` and
`AppendOnly` compare `LinkedLen` before and after a step: an append past a break leaves the first
unlinked line where it was, and one behind a line without newline shortens the linked part by that line, which was `InDoubt`.

*Heartbeat.* `LossDetected` bounds `now - calmAt`. `LossInv` ties it to the task's alarm: a sleeping task is
not overdue by more than `Slack` and is due within one interval from now; a loss that is not yet
noticed began at most one interval before the task is due; between check and write no time has
passed since all was well. Its step lemmas are about single steps of the
heartbeat, so that `GatewayProofs` cites them for the heartbeat's steps in the composition, and only
has to show that handlers leave the heartbeat alone.

*Gateway.* `RequestInv` says, per request, what its stage and its answer tell about the other
variables: no line and no raise before the end, `approved` exactly after `Approve`, a response only of
what was sent, one of a few logs per answer. Every action that ends a handler is shown to be one `EndStep`, which
settles invariant and refinement once for nine actions. `GatewayImplementsProxy` maps it to
`Release`, `Refuse`, `TurnAway` or `Fail` of `GovernedProxy`, `Approve` and `ProviderReceives` to
`Approve` and `Send`, a crash to `Lose`, everything else to a stutter.

*Sliding window.* `WindowInv`: the bucket is the tail of the admissions, they are in order, and what was
evicted is old.

*HITL gate.* `NeverEscalates` rests on `ScoreFalls`: counts only grow while the process lives, and
a score falls with the count through both caps and all thresholds. `OneApprovalEach` is not inductive: nothing in it says
that what is still in a store was not used before. `CredentialInv` adds that a stored token, or a
challenge not yet marked, is as it was issued and has bought nothing (`Unspent`); an approval takes its credential
out of that state (`Spends`), and no step brings one back, a restart being one that drops them all.

*Threaded log* (`LogInv`). That a reader's "ok" covers what was acknowledged says nothing of the reader that is still at
line five. `ReadInv` carries what it has established: the lines up to its place parse, and
it has met whoever is writing. `KeptInv` says where acknowledged entries are: in the file, or swallowed by a fragment, both for
everything acknowledged and for what a reader has to find (`due`). The chain is whole because a writer's
draft is chained to the file's end from the moment it is hashed to the moment memory is set to it (`TailInv`), which
in turn needs that at most one writer is under way and that a half-written line is its own (`HalfInv`).

*Threaded limiter* (`LimiterInv`). A bucket is the tail of the grants and what was evicted is old (`Tails`), as in
`SlidingWindowProofs`. What threads add: a caller's clock may be old, but by at most `Delay`, and the
clock that two callers read need not be in the order in which they get the lock; `Timely` bounds how far a
grant's stamp is off, and `Apart` is `GrantsSpaced` for the stamps. A refusal is remembered with what it was based on (`RefusalInv`).

*Threaded decision.* `CredentialInv` of the sequential gate is shown of each half: `Scores` touches no
credential, each `Enforce*` is a decision of `HitlGate` with a tier from before. `HandlingInv` is about what a thread carries from one lock to
the other: a tier at least as strict as the history would give its body now. Others' counts in between keep it so, by `ScoreFalls`.

*OpenClaw's process* (`ClawInv`). `RequestInv` is as in `GatewayProofs`, with one stage more: the line is appended and the answer not
yet given (`ReplyInv`). Its steps fall into three kinds, a response that becomes ready, a handler that goes on, an
answer; the refinement maps only the last to `Release`, `Refuse`, `TurnAway` or `Fail`. `LossNoticed` needs a bound for each
place the thread may be in (`WatchInv`), an interval and the time of a post at most; `NeverRevived` that the file a thread found valid still is when it writes, unless
another process changed it (`CheckedInv`).

*Engine and runtimes* (`EngineInv`). A thread's state is the list of statements it has still to execute, so the invariant has
to say which lists there are, and that splits the proof in three. The first part is about lists alone. A `Program` is a list in
which what belongs together stands together (`Joined`: hash, link and write; the two halves of a penalty; a violation,
its penalty and its event) and that begins at a beginning (`Fresh`); two programs in a row are one, and what is left of a
program behind a statement that cuts nothing apart is one. The second part takes every statement once: it leaves such a list
(`StatementMoves`), and keeps what the list means for the rest of the state. `ChainInv`: while no two events
overlapped, at most one thread is in the middle of one, and its event is chained to what is remembered until it is remembered, and
to the end of the file until it is there; an event that a failed write has cost is in `missing`, so is the one that its fragment swallows. `LedgerInv`: the
violations not yet filed are exactly those of the threads whose list still holds the rest of one (`Owers`), a failed write throws nothing else
away, because a `Program` is all that can follow, and costs at most the line of the next write besides its own. `ScoreInv`: what a thread has read of the score is not below what all penalties together would leave.
`GateInv`: from tier 3 what may report in a gate's list is followed by what raises and by no handler (`Gated`), and once
it has reported it is bound to raise (`Doomed`); exceptions of wrapped nodes are caught, but only before anything has been
found. `ExitInv`: only who is in a subgraph is leaving one. The third part goes through the operations of the eight modules and shows that each is a program and each gate
gated (`Guards`, `Seals`, `Gates` say of which parts that may be put together). They use no bound: `MaxCalls` and `MaxFaults` are any numbers. What the
proofs ask of `Counters` is that it holds the counters the runtimes use (`LangGraphCounters`, …).

*Depth of delegation* (`DepthInv`, on top of `EngineInv`). `DepthTracks` speaks of the moments between calls, at which all that a
failed write can have left behind is in `leaked`; the invariant has to speak of the moments within. `Balanced`: as long as
no stale store has moved the counter, it is the sum of the subgraphs being run, the leaked steps, and one for each thread that has stepped
down and is not inside yet, or is on its way out by an exception (`Holders`). Which threads those are can be read off their lists: what
`enter_subgraph` has to execute is before its store (`Entering`), behind it (`Stepped`) or raising (`Raising`), and the list of a thread in
any other call but these two touches the depth nowhere (`Aside`). `Lead` says what such a list is: statements that leave a counter alone, one that does not, and
a rest of a given kind; which operations of the eight modules are aside of which counters is a lemma each (`Off`, `Avoids`). Each statement
then changes both sides of `Balanced` alike (`BooksMove`): one thread moves, so the sum and the number of holders change by what that thread
changes.

*Ceilings* (`CeilingInv`, on top of `EngineInv`). `record_tool_call` counts, compares and then lets the call run, as separate statements, so
that what has run is not in the same step as its count. `TotalBooked`: what has run and the threads that have stored the total and
not run yet are in the total, but for what stale stores have moved it by; `TotalHeld`: what has run and the threads that the comparison
has let pass are within the ceiling, likewise; `SameBooked` and `SameHeld` are the two for the counter of the same call. Which threads those are is read off
their lists again (`Recording`, `Totalling`, `Repeating`, `Limiting`, `Executing`): a list that leads to an exception (`Refused`) is not
let pass, though the statement that would run the call is still in it. Between a comparison that lets pass and the run another thread may store an old
value; that is a stale store, and in `lost`.

*Budgets* (`BudgetInv` and `MarkInv`). A light runtime counts, records a finding if the counter is over, and lets the
verdict decide. `Spender` follows the one thread through this: it has stored (`Weighing`), compared (`Judging`), passed the verdict (`Admitting`). That a
call over its budget does not pass takes `Condemned`: it has found something, or what it does next before anything else is to find
something. `MarkInv` is about the external context: a payload admitted since it was last cleared means that the mark is set, and a
destructive request that has looked at the mark passes only if no payload has been admitted (`Destroying`). Of two threads in one
scenario this would not be true: a payload may be let in between the other's look at the mark and its return.

*Sums.* `SumOf`, `Total` and the other sums are folds of the community modules. `Sums` shows of them what the proofs need: that adding, removing or changing one
summand changes the sum by that much, that a sum of naturals is one. The induction that this takes is one by a smallest counterexample:
`LeastSubset` gives a smallest one of the sets of which a statement is false.

*Toolkits.* The parts share no variable, and each step of the run is a step of one of them (`NexusPartSteps`, `McpPartSteps`,
`OtherPartSteps`); so each part is proved about by itself.

- *Guardian* (`GuardianInv`): every verdict that allows was given by the policy, by the remote guardian or by the fail mode (`AllowanceGiven`).
- *Inventory* (`BomInv`): what is registered is what the last version lists, so that the next one differs from it by one component.
- *Accounts* (`JouleInv`): the balances and the transfers under way add up to the openings, the wages and less the debits (`Balanced`); transfers under
  way are told apart by their numbers, which is why their sum changes by one of them.
- *Envelopes* (`EnvelopeInv`): a call carries the key of its agent and arguments on every bridge, and keys tell calls apart.
- *Token buckets* (`LimiterInv`, `ProxyInv`). That between any two grants there is a full bucket and the refill at most does not follow from the
  bucket's level now. `GrantsPaid` says it for every grant so far: since the m-th, the bucket has not got more than it held and what it was
  refilled, and has paid for each grant since; a bucket that was dropped had been refilled completely, which needs the idle time to be longer than a
  window (`Window + 2 * Lag <= Stale + 1`). `RefillKept` is the converse, for refusals. Clocks read before the lock shift both by one `Lag`.
- *Tools of the MCP server* (`ServerInv`): a handler's context has the tier of its own token, or of nobody over stdio; the rest is shown of each tool's function.
- *Stdio wrapper* (`StdioInv`): what the server has read, what it has answered and what waits between the pumps are stretches of what the client sent, in its
  order (`Passed`, `Answered`).
- *Assessor* (`AssessorInv`): at each check the points given so far are those of the checks made, and each with what it says of the server; a budget
  spent before the list of tools was read has its cause on record. The sum of eight scores is written out by `Sums`.
- *Adapters* (`AdapterInv`): what was scored, passed on and told is what the conversions make of the request, at each stage.
- *Hermes gateway* (`HermesInv`, three parts). `PensInv`: a thread that is writing and has not shared the pen is the only one, and what it read is what is
  in memory, or what it set is; what is in memory is the last hashed line's hash or that of a line on record as not filed. `SwitchInv`: unless switch operations crossed, one at most,
  of a request or of the script, is under way and the switch is as it says. `ChatInv`: what the lines about a chat say is what its stage and answer say.
- *Memory auditor* (`MemoryInv`): a file in hand was critical or has changed since, and the pass does not come to it again
  (`HandFine`); the summary counts the takings of its pass (`TakingsCounted`); a later taking goes to a later second, so to another place, unless
  it has another note of the same name or the pause is 0 (`InVault`).
- *Love equation* (`LoveInv`): the last result is such that leaving red and reaching green was earned, and no band was skipped while `Beta` is at most a
  quarter: with a higher rate one event can carry the score across the yellow band.

*Assumptions.* Those the modules name, and no others: `NexusAssumption`, `BomAssumption`, `JouleAssumption` (accounts are finitely many), `EnvelopeAssumption`,
`McpAssumption` (limits and windows are positive; buckets stay idle for longer than a window and two lags before they are dropped; the catalogue's ids differ; nobody's token is
"stdio"), `ProxyAssumption`, `StdioAssumption`, `AssessorAssumption` (what a server may be like), `HermesAssumption` (chats, kills and revivals differ), `MemoryAssumption`
(stores are finitely many), `LoveAssumption` (rates and weights are from 0 to 1; every event has its stakes and reversibility in the tables), `ToolkitsAssumption` (the
instance's constants belong to the sets they are of), `EngineAssumption` (threads and counters are finitely many, limits are natural numbers), and those of the
gateways. TLC evaluates each of them on a run.

*Model-checked only.* `AdmittedAreAnswered`, which is liveness and not within the reach of the prover. Every other property of a passing run is a theorem.
The six violations are counterexamples, which need no proof.

## 7. Not modelled, and what is left

Not modelled: static scanners, report writers, generators of data, dashboards and score calculators (one pass over
files, nothing kept); smoke tests; the JavaScript and shell variants of the runtimes; the layout of
telemetry records; reads without effect (health and statistics endpoints, workflow prompts); prose and data.

Left: sessions of the MCP server's transport, when more than one request shares one; the hazards that `PROJECT.json` lists
with a note and without a property.

## 8. What is abstracted

Pattern matching (a body is what the patterns make of it), JSON, headers and CORS, metrics, logging,
configuration parsing, payload mappings of the adapters, and the response's headers: the handler
builds the response after it appended the `passed` line, so what the client receives may still
differ by what the HTTP server makes of it. `requests` bounds each wait on the socket and not the whole
call, so "the call times out" in section 4 assumes a provider that does not drip bytes for ever. The
HMAC is taken to be collision free, and whoever edits the file is taken not to recompute hashes.

In the other models: what a scan finds in a text is a number of hits, a set of families or a verdict chosen per text; a hash is
what it was computed over; times are ticks, levels and scores integers in the unit their module names; a wrapped
agent, node or tool is one step that returns. Two threads of CPython interleave between statements here, not between
bytecodes: a statement that reads and writes shared state is split in two where the code's own text does both (`x += 1`). Flask's
and Starlette's own threads and connections are taken to work.
