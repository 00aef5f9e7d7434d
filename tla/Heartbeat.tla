----------------------------- MODULE Heartbeat -----------------------------
(***************************************************************************)
(* HeartbeatMonitor, the heartbeat loop and SafeMode of gateway/main.py:   *)
(* the file HEARTBEAT.md, the task that checks and rewrites it, the flag   *)
(* that stops the gateway, and the operator's way out of safe mode.        *)
(*                                                                         *)
(* Time is a counter.  The monitor's calls contain no suspension point, so *)
(* no other coroutine runs between the loop's validate() and write_beat(); *)
(* another process may, and does here: the two are separate steps.         *)
(***************************************************************************)
EXTENDS Naturals

CONSTANTS
    Interval,      \* check_interval_seconds
    MaxStaleness,  \* max_staleness_seconds
    Hour,          \* 3600 s, in the same unit
    Slack,         \* how late the event loop may wake the task
    MaxTime,       \* bound on the clock
    MaxFaults,     \* bound on failing file operations and crashes
    MaxTampers     \* bound on what other processes do to the file

ASSUME HeartbeatAssumption ==
    /\ Interval \in Nat \ {0} /\ MaxStaleness \in Nat
    /\ Hour \in Nat \ {0} /\ Slack \in Nat
    /\ MaxTime \in Nat /\ MaxFaults \in Nat /\ MaxTampers \in Nat

VARIABLES
    now,       \* the clock
    beat,      \* what HEARTBEAT.md holds
    running,   \* the gateway process serves
    loop,      \* the heartbeat task
    due,       \* when the task wakes next
    safe,      \* SafeMode._active
    operator,  \* the operator's POST /safe-mode/deactivate
    faults, tampers,   \* counters the bounds cap
    calmAt,    \* history: the last instant with nothing to detect
    raced      \* history: the file changed between the loop's check and write

hbVars == <<now, beat, running, loop, due, safe, operator, faults, tampers,
            calmAt, raced>>

(* A file with a beat in it carries the time of the write; the other kinds *)
(* carry 0.  "malformed" is a last line that is not ALIVE:<time>:<hash>.   *)
Kinds == {"missing", "empty", "malformed", "beat"}
File(kind) == [kind |-> kind, at |-> 0]

HBTypeOK ==
    /\ now \in Nat
    /\ beat \in [kind : Kinds, at : Nat]
    /\ running \in BOOLEAN
    /\ loop \in {"off", "asleep", "checked", "dead"}
    /\ due \in Nat
    /\ safe \in BOOLEAN
    /\ operator \in {"idle", "posted", "admitted"}
    /\ faults \in Nat /\ tampers \in Nat /\ calmAt \in Nat
    /\ raced \in BOOLEAN

-----------------------------------------------------------------------------
(* HeartbeatMonitor *)

\* parts[1] of "ALIVE:2025-01-01T12:34:56+00:00:hash" split at the colons is
\* "2025-01-01T12": the timestamp validate() reads has lost its minutes.
ParsedTime(b) == (b.at \div Hour) * Hour

\* validate() of the file b at time t: its four checks.
Valid(b, t) == b.kind = "beat" /\ t - ParsedTime(b) <= MaxStaleness

\* write_beat(): the file is created if it has to be.
WriteBeat == beat' = [kind |-> "beat", at |-> now]

Fault == faults < MaxFaults /\ faults' = faults + 1

\* write_text() opens the file, which truncates or creates it, then writes:
\* an OSError, or a crash, leaves what the open left.
WriteBreaks == Fault /\ beat' \in {beat, File("empty")}

-----------------------------------------------------------------------------
(* The process *)

\* lifespan(), after the audit chain was verified: a fresh SafeMode, a first
\* beat if there is no file, and safe mode if the file does not validate.
Startup(chainValid) ==
    /\ ~running
    /\ running' = TRUE
    /\ IF beat.kind = "missing" THEN WriteBeat ELSE UNCHANGED beat
    /\ safe' = (~chainValid \/ ~Valid(beat', now))
    /\ loop' = "asleep"
    /\ due' = now + Interval
    /\ UNCHANGED <<now, operator, faults, tampers>>

\* initialize() cannot write the first beat: the application does not start.
StartupFails ==
    /\ ~running
    /\ beat.kind = "missing"
    /\ WriteBreaks
    /\ UNCHANGED <<now, running, loop, due, safe, operator, tampers>>

\* The process dies; an operator's request in flight dies with it.
HBCrash ==
    /\ running
    /\ running' = FALSE
    /\ loop' = "off"
    /\ due' = 0
    /\ safe' = FALSE
    /\ operator' = "idle"
    /\ IF loop = "checked" THEN WriteBreaks ELSE Fault /\ UNCHANGED beat
    /\ UNCHANGED <<now, tampers>>

-----------------------------------------------------------------------------
(* _heartbeat_loop *)

Sleep == loop' = "asleep" /\ due' = now + Interval

\* The task never looks at the file before it writes.
LoopWithoutCheck ==
    /\ running /\ loop = "asleep" /\ now >= due
    /\ loop' = "checked"
    /\ UNCHANGED <<now, beat, running, due, safe, operator, faults, tampers>>

\* The task reports a bad file and leaves safe mode alone.
LoopOnlyLogs ==
    /\ running /\ loop = "asleep" /\ now >= due
    /\ IF Valid(beat, now)
       THEN loop' = "checked" /\ UNCHANGED due
       ELSE Sleep
    /\ UNCHANGED <<now, beat, running, safe, operator, faults, tampers>>

\* The task clears safe mode when the file is valid again.
LoopForgives ==
    /\ running /\ loop = "asleep" /\ now >= due
    /\ IF Valid(beat, now)
       THEN loop' = "checked" /\ safe' = FALSE /\ UNCHANGED due
       ELSE Sleep /\ safe' = TRUE
    /\ UNCHANGED <<now, beat, running, operator, faults, tampers>>

\* The task wakes and validates: a bad file activates safe mode.
LoopChecks ==
    /\ running /\ loop = "asleep" /\ now >= due
    /\ IF Valid(beat, now)
       THEN loop' = "checked" /\ UNCHANGED <<due, safe>>
       ELSE Sleep /\ safe' = TRUE
    /\ UNCHANGED <<now, beat, running, operator, faults, tampers>>

\* The file was valid: write_beat(), and back to sleep.
LoopWrites ==
    /\ loop = "checked"
    /\ WriteBeat
    /\ Sleep
    /\ UNCHANGED <<now, running, safe, operator, faults, tampers>>

\* Neither call is guarded: an OSError (or undecodable bytes) in either ends
\* the task, and nothing awaits it.
LoopDies ==
    /\ running
    /\ \/ loop = "asleep" /\ now >= due /\ Fault /\ UNCHANGED beat
       \/ loop = "checked" /\ WriteBreaks
    /\ loop' = "dead"
    /\ UNCHANGED <<now, running, due, safe, operator, tampers>>

-----------------------------------------------------------------------------
(* POST /safe-mode/deactivate, with the right key *)

OperatorPosts ==
    /\ running
    /\ operator = "idle"
    /\ operator' = "posted"
    /\ UNCHANGED <<now, beat, running, loop, due, safe, faults, tampers>>

\* The middleware exempts /health, /metrics and /safe-mode/status, and not
\* this route: while safe mode is active it answers 503.
OperatorAdmitted ==
    /\ operator = "posted"
    /\ operator' = IF safe THEN "idle" ELSE "admitted"
    /\ UNCHANGED <<now, beat, running, loop, due, safe, faults, tampers>>

\* Out of safe mode, the rate limiter turns the operator away like anybody.
OperatorThrottled ==
    /\ operator = "posted"
    /\ ~safe
    /\ operator' = "idle"
    /\ UNCHANGED <<now, beat, running, loop, due, safe, faults, tampers>>

\* The body has arrived: SafeMode.deactivate().
OperatorDeactivates ==
    /\ operator = "admitted"
    /\ operator' = "idle"
    /\ safe' = FALSE
    /\ UNCHANGED <<now, beat, running, loop, due, faults, tampers>>

-----------------------------------------------------------------------------
(* The file in other hands, and the clock *)

Tamper == tampers < MaxTampers /\ tampers' = tampers + 1

FileSpoiled ==
    /\ Tamper
    /\ beat' \in {File("missing"), File("empty"), File("malformed")}
    /\ beat' # beat
    /\ UNCHANGED <<now, running, loop, due, safe, operator, faults>>

\* The README's first-run step: initialize() from another process.
FileInitialized ==
    /\ beat.kind = "missing"
    /\ Tamper
    /\ WriteBeat
    /\ UNCHANGED <<now, running, loop, due, safe, operator, faults>>

\* Time passes, but the task is woken no later than Slack after it is due.
Tick ==
    /\ now < MaxTime
    /\ running /\ loop = "asleep" => now < due + Slack
    /\ loop # "checked"
    /\ now' = now + 1
    /\ UNCHANGED <<beat, running, loop, due, safe, operator, faults, tampers>>

-----------------------------------------------------------------------------
\* Nothing for a live heartbeat task to detect: no gateway or no task, safe
\* mode already, or a file that validates.
Calm == ~running \/ loop = "dead" \/ safe \/ Valid(beat, now)

\* The history variables follow every step.
Observe ==
    /\ calmAt' = IF Calm' THEN now' ELSE calmAt
    /\ raced' = (/\ loop = "checked" /\ loop' = "checked"
                 /\ raced \/ beat' # beat)

HBInit ==
    /\ now \in 0 .. Hour - 1
    /\ beat = File("missing")
    /\ running = FALSE
    /\ loop = "off"
    /\ due = 0
    /\ safe = FALSE
    /\ operator = "idle"
    /\ faults = 0
    /\ tampers = 0
    /\ calmAt = now
    /\ raced = FALSE

\* What happens to the heartbeat while the process keeps running.
HBStep ==
    \/ StartupFails
    \/ LoopChecks
    \/ LoopWrites
    \/ LoopDies
    \/ OperatorPosts
    \/ OperatorAdmitted
    \/ OperatorThrottled
    \/ OperatorDeactivates
    \/ FileSpoiled
    \/ FileInitialized
    \/ Tick

HBNext ==
    /\ HBStep \/ HBCrash \/ Startup(TRUE) \/ Startup(FALSE)
    /\ Observe

\* The event loop runs what is ready; the operator keeps asking.
OperatorFairness ==
    /\ WF_hbVars(OperatorPosts /\ Observe)
    /\ WF_hbVars(OperatorAdmitted /\ Observe)
    /\ WF_hbVars(OperatorDeactivates /\ Observe)

HBSpec == HBInit /\ [][HBNext]_hbVars /\ OperatorFairness

-----------------------------------------------------------------------------
(* Properties *)

\* A lost heartbeat is noticed: while the task lives, no more than one
\* interval (and the loop's lateness) passes with the file missing, empty,
\* malformed or stale and the gateway out of safe mode, whether the file was
\* spoiled between two checks, between a check and a write, at start-up, or
\* while an admitted deactivation was clearing the flag.
LossDetected == now - calmAt <= Interval + Slack

\* The monitor never creates the file while the gateway runs (Bug #11766): a
\* missing file stays missing, unless it vanished in the instant between the
\* loop's check and its write.
NeverAutoCreates ==
    [][running /\ running' /\ tampers' = tampers
         /\ beat.kind = "missing" /\ ~raced
       => beat' = beat]_hbVars

\* Nothing automated leaves safe mode: not a valid heartbeat, not a health
\* check; only an operator's request with the key, or a new process.
OnlyOperatorLeavesSafeMode ==
    [][safe /\ ~safe' => operator = "admitted" \/ ~running']_hbVars

\* README: safe mode blocks all traffic "until an operator explicitly
\* deactivates it", so an operator who keeps asking gets out of it.
OperatorLeavesSafeMode == safe ~> ~safe

\* The documented staleness rule: safe mode is not entered over a heartbeat
\* that was written no more than max_staleness_seconds ago.
FreshBeatAccepted ==
    [][running /\ ~safe /\ safe'
       => ~(beat.kind = "beat" /\ now - beat.at <= MaxStaleness)]_hbVars
=============================================================================
