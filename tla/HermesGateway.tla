---------------------------- MODULE HermesGateway ----------------------------
(***************************************************************************)
(* The gateway of the Hermes runtime: a threaded Flask proxy with a kill   *)
(* switch that is a file, and an audit log whose last hash is a global     *)
(* that _write_audit reads, sets and files under no lock.                  *)
(*                                                                         *)
(* A thread is one request.  A line goes to the log in three steps, which  *)
(* threads interleave: the hash before it is read, its own is set, the     *)
(* line is written.  scripts/kill-switch.sh is a process of its own: it    *)
(* works on the same two files, of which the log is the one the gateway    *)
(* falls back to, and its lines carry no hash.                             *)
(***************************************************************************)
EXTENDS Integers, Sequences

CONSTANTS
    Chats,          \* POST /v1/messages and /v1/chat/completions
    Kills,          \* POST /hsr/kill
    Revivals,       \* POST /hsr/revive
    MaxMishaps      \* bound: writes that fail, restarts, runs of the script

ASSUME HermesAssumption == Chats \cap (Kills \cup Revivals) = {} /\ Kills \cap Revivals = {}

VARIABLES
    switchOn,       \* the kill switch file exists
    lastOf,         \* _previous_hash; 0 is "GENESIS"
    log,            \* the lines of AUDIT_PATH
    ragged,         \* the file ends without a newline
    made,           \* hashes made so far: a hash is its number
    thread,         \* what each request's thread is at
    unfiled,        \* history: hashes that never got a whole line
    tangled,        \* history: the log cannot tell the switch any more
    script,         \* what scripts/kill-switch.sh is at
    mishaps

hermesVars == <<switchOn, lastOf, log, ragged, made, thread, unfiled, tangled,
                script, mishaps>>

Threads == Chats \cup Kills \cup Revivals
SwitchLines == {"activated", "deactivated"}
NoHash == -1

\* at: the next thing the thread does; line: what it is filing, if anything;
\* pen: how far it is with that; shared: another pen was out meanwhile.
Fresh == [at |-> "new", line |-> "none", pen |-> "up", prev |-> 0, own |-> 0,
          shared |-> FALSE, stopped |-> FALSE, sent |-> FALSE, answer |-> "none"]

HermesInit ==
    /\ switchOn = FALSE /\ lastOf = 0 /\ log = <<>> /\ ragged = FALSE /\ made = 0
    /\ thread = [t \in Threads |-> Fresh]
    /\ unfiled = {} /\ tangled = FALSE
    /\ script = "idle" /\ mishaps = 0

Set(t, r) == thread' = [thread EXCEPT ![t] = r]
Ends(r, what) == [r EXCEPT !.at = "done", !.line = "none", !.pen = "up", !.answer = what]
Files(r, what) == [r EXCEPT !.at = "filing", !.line = what, !.shared = FALSE]
Mishap == mishaps < MaxMishaps /\ mishaps' = mishaps + 1
Pending(t) == thread[t].line \in SwitchLines
UnderWay == script \in SwitchLines \/ \E t \in Threads : Pending(t)

\* check_kill_switch: before every request outside /hsr/.
ChatChecked(t) ==
    /\ thread[t].at = "new"
    /\ IF switchOn THEN Set(t, Files(thread[t], "blocked"))
                   ELSE Set(t, [thread[t] EXCEPT !.at = "reading"])
    /\ UNCHANGED <<switchOn, lastOf, log, ragged, made, unfiled, tangled,
                   script, mishaps>>

\* A body that is no JSON, and one that is no object.
ChatUnreadable(t) ==
    /\ thread[t].at = "reading"
    /\ \E what \in {"unreadable", "error"} : Set(t, Ends(thread[t], what))
    /\ UNCHANGED <<switchOn, lastOf, log, ragged, made, unfiled, tangled,
                   script, mishaps>>

\* process_request: oversize or CRITICAL findings stop a request; HIGH ones
\* (PII, injection, tools outside the allowlist) are only noted.
Findings == {"none", "high", "critical", "oversize"}
Stops(findings) == findings \in {"critical", "oversize"}

ChatInspected(t) ==
    /\ thread[t].at = "reading"
    /\ \E findings \in Findings :
        LET r == [thread[t] EXCEPT !.stopped = Stops(findings)] IN
        Set(t, IF findings = "none" THEN [r EXCEPT !.at = "sending"]
                                    ELSE Files(r, "findings"))
    /\ UNCHANGED <<switchOn, lastOf, log, ragged, made, unfiled, tangled,
                   script, mishaps>>

ChatSends(t) ==
    /\ thread[t].at = "sending"
    /\ Set(t, [thread[t] EXCEPT !.at = "awaiting", !.sent = TRUE])
    /\ UNCHANGED <<switchOn, lastOf, log, ragged, made, unfiled, tangled,
                   script, mishaps>>

\* A RequestException, a timeout among them: 502, and no line.
ChatUnanswered(t) ==
    /\ thread[t].at = "awaiting"
    /\ Set(t, Ends(thread[t], "unreachable"))
    /\ UNCHANGED <<switchOn, lastOf, log, ragged, made, unfiled, tangled,
                   script, mishaps>>

ChatAnswered(t) ==
    /\ thread[t].at = "awaiting"
    /\ Set(t, Files(thread[t], "proxied"))
    /\ UNCHANGED <<switchOn, lastOf, log, ragged, made, unfiled, tangled,
                   script, mishaps>>

\* kill(): the file is written, then the line.
KillPosted(t) ==
    /\ thread[t].at = "new"
    /\ switchOn' = TRUE
    /\ tangled' = (tangled \/ UnderWay)
    /\ Set(t, Files(thread[t], "activated"))
    /\ UNCHANGED <<lastOf, log, ragged, made, unfiled, script, mishaps>>

\* write_text fails before it opened the file, or after.
KillFails(t) ==
    /\ thread[t].at = "new" 
    /\ switchOn' \in {switchOn, TRUE}
    /\ tangled' = (tangled \/ switchOn' # switchOn)
    /\ Set(t, Ends(thread[t], "error"))
    /\ Mishap
    /\ UNCHANGED <<lastOf, log, ragged, made, unfiled, script>>

\* revive(): exists(), and later unlink(), which raises when another was faster.
RevivalLooks(t) ==
    /\ thread[t].at = "new"
    /\ Set(t, IF switchOn THEN [thread[t] EXCEPT !.at = "unlinking"]
                          ELSE Ends(thread[t], "inactive"))
    /\ UNCHANGED <<switchOn, lastOf, log, ragged, made, unfiled, tangled,
                   script, mishaps>>

RevivalUnlinks(t) ==
    /\ thread[t].at = "unlinking"
    /\ IF switchOn
       THEN /\ Set(t, Files(thread[t], "deactivated"))
            /\ tangled' = (tangled \/ UnderWay)
       ELSE /\ Set(t, Ends(thread[t], "error"))
            /\ tangled' = tangled
    /\ switchOn' = FALSE
    /\ UNCHANGED <<lastOf, log, ragged, made, unfiled, script, mishaps>>

-----------------------------------------------------------------------------
\* _write_audit.
PenReads(t) ==
    /\ thread[t].at = "filing" /\ thread[t].pen = "up"
    /\ LET others == {u \in Threads \ {t} : thread[u].pen # "up"} IN
       thread' = [u \in Threads |->
           IF u = t THEN [thread[t] EXCEPT !.pen = "read", !.prev = lastOf,
                                           !.shared = others # {}]
           ELSE IF u \in others THEN [thread[u] EXCEPT !.shared = TRUE]
           ELSE thread[u]]
    /\ UNCHANGED <<switchOn, lastOf, log, ragged, made, unfiled, tangled,
                   script, mishaps>>

PenSets(t) ==
    /\ thread[t].pen = "read"
    /\ made' = made + 1 /\ lastOf' = made'
    /\ Set(t, [thread[t] EXCEPT !.pen = "set", !.own = made'])
    /\ UNCHANGED <<switchOn, log, ragged, unfiled, tangled,
                   script, mishaps>>

AuditLineOf(t) ==
    [what |-> thread[t].line, of |-> t, prev |-> thread[t].prev, own |-> thread[t].own,
     shared |-> thread[t].shared, whole |-> ~ragged]

\* What a thread does when its line is written.
AfterLine(r) ==
    CASE r.line = "blocked" -> Ends(r, "killed")
      [] r.line = "findings" -> IF r.stopped THEN Ends(r, "forbidden")
                                ELSE [r EXCEPT !.at = "sending", !.line = "none", !.pen = "up"]
      [] r.line = "proxied" -> [Ends(r, "released") EXCEPT !.at = "answering"]
      [] OTHER -> Ends(r, "ok")

PenWrites(t) ==
    /\ thread[t].pen = "set"
    /\ log' = Append(log, AuditLineOf(t)) /\ ragged' = FALSE
    /\ unfiled' = IF ragged THEN unfiled \cup {thread[t].own} ELSE unfiled
    /\ tangled' = (tangled \/ (ragged /\ Pending(t)))
    /\ Set(t, AfterLine(thread[t]))
    /\ UNCHANGED <<switchOn, lastOf, made, script, mishaps>>

\* open() or write() raises: nothing, or a part of the line, at most all but its
\* newline, is in the file; and the hash of a line that is not there, or that the
\* next one makes unreadable, is the one the next will name.
PenFails(t) ==
    /\ thread[t].pen = "set" 
    /\ ragged' \in {ragged, TRUE}
    /\ unfiled' = unfiled \cup {thread[t].own}
    /\ tangled' = (tangled \/ Pending(t))
    /\ Set(t, Ends(thread[t], "error"))
    /\ Mishap
    /\ UNCHANGED <<switchOn, lastOf, log, made, script>>

\* The response; a streamed one may break off.
ChatDelivered(t) ==
    /\ thread[t].at = "answering"
    /\ \E what \in {"released", "cut"} : Set(t, Ends(thread[t], what))
    /\ UNCHANGED <<switchOn, lastOf, log, ragged, made, unfiled, tangled,
                   script, mishaps>>

-----------------------------------------------------------------------------
\* The process ends and is started again: its first line begins at "GENESIS".
Reboots ==
    /\ Mishap
    /\ made' = made + 1 /\ lastOf' = made'
    /\ log' = Append(log, [what |-> "started", of |-> "main", prev |-> 0, own |-> made',
                           shared |-> FALSE, whole |-> ~ragged])
    /\ ragged' = FALSE
    /\ unfiled' = unfiled \cup {thread[t].own : t \in {u \in Threads : thread[u].pen = "set"}}
                          \cup (IF ragged THEN {made'} ELSE {})
    /\ tangled' = (tangled \/ \E t \in Threads : Pending(t))
    /\ thread' = [t \in Threads |->
           IF thread[t].at \in {"new", "done"} THEN thread[t] ELSE Ends(thread[t], "lost")]
    /\ UNCHANGED <<switchOn, script>>

\* scripts/kill-switch.sh writes or, once the operator has confirmed, removes the
\* file of the switch, and appends a line of its own to the log.
ScriptKills ==
    /\ script = "idle" /\ Mishap
    /\ switchOn' = TRUE /\ script' = "activated"
    /\ tangled' = (tangled \/ UnderWay)
    /\ UNCHANGED <<lastOf, log, ragged, made, thread, unfiled>>

ScriptAsks ==
    /\ script = "idle" /\ switchOn /\ Mishap
    /\ script' = "confirming"
    /\ UNCHANGED <<switchOn, lastOf, log, ragged, made, thread, unfiled, tangled>>

ScriptRevives ==
    /\ script = "confirming"
    /\ switchOn' = FALSE /\ script' = "deactivated"
    /\ tangled' = (tangled \/ UnderWay)
    /\ UNCHANGED <<lastOf, log, ragged, made, thread, unfiled, mishaps>>

\* A reason with a quote in it makes the line no JSON.  The request the script
\* sends to the gateway afterwards is one of Kills or Revivals.
ScriptLogs ==
    /\ script \in SwitchLines
    /\ \E whole \in {~ragged, FALSE} :
        /\ log' = Append(log, [what |-> script, of |-> "script", prev |-> NoHash, own |-> NoHash,
                               shared |-> FALSE, whole |-> whole])
        /\ tangled' = (tangled \/ ~whole)
    /\ ragged' = FALSE /\ script' = "idle"
    /\ UNCHANGED <<switchOn, lastOf, made, thread, unfiled, mishaps>>

\* Nothing is confirmed; or the script ends before its line, or goes on without it
\* when the line cannot be written.
ScriptStops ==
    /\ script # "idle" /\ script' = "idle"
    /\ IF script = "confirming"
       THEN UNCHANGED <<ragged, tangled>>
       ELSE ragged' \in {ragged, TRUE} /\ tangled' = TRUE
    /\ UNCHANGED <<switchOn, lastOf, log, made, thread, unfiled, mishaps>>

ChatSteps(t) ==
    \/ ChatChecked(t) \/ ChatUnreadable(t) \/ ChatInspected(t) \/ ChatSends(t)
    \/ ChatUnanswered(t) \/ ChatAnswered(t) \/ ChatDelivered(t)
KillSteps(t) == KillPosted(t) \/ KillFails(t)
RevivalSteps(t) == RevivalLooks(t) \/ RevivalUnlinks(t)
PenSteps(t) == PenReads(t) \/ PenSets(t) \/ PenWrites(t) \/ PenFails(t)

HermesNext ==
    \/ \E t \in Chats : ChatSteps(t)
    \/ \E t \in Kills : KillSteps(t)
    \/ \E t \in Revivals : RevivalSteps(t)
    \/ \E t \in Threads : PenSteps(t)
    \/ Reboots
    \/ ScriptKills \/ ScriptAsks \/ ScriptRevives \/ ScriptLogs \/ ScriptStops

HermesSpec == HermesInit /\ [][HermesNext]_hermesVars

-----------------------------------------------------------------------------
Hashed == {k \in DOMAIN log : log[k].own # NoHash}

HermesTypeOK ==
    /\ switchOn \in BOOLEAN /\ ragged \in BOOLEAN /\ tangled \in BOOLEAN
    /\ script \in {"idle", "confirming"} \cup SwitchLines
    /\ lastOf \in 0..made /\ unfiled \subseteq 1..made
    /\ \A k \in Hashed : log[k].own \in 1..made /\ log[k].prev \in 0..made

\* A line of the gateway that does not name its line before, the script's lines
\* passed over, says why: a process began, two threads wrote at once, or a line
\* between them never got into the file whole.  (_write_audit, lines 107-119)
ChainExplained ==
    \A j, k \in Hashed :
        j < k /\ (\A i \in Hashed : i <= j \/ k <= i) =>
            \/ log[k].prev = log[j].own
            \/ log[k].prev = 0
            \/ log[k].shared \/ log[j].shared
            \/ ~log[k].whole \/ log[k].prev \in unfiled

\* With no switch operation under way, and none that crossed another, failed, or
\* left no line that parses, the last line about the kill switch tells its state.
\* (activate_kill_switch and revive, lines 185-191 and 418-426)
SwitchOnRecord ==
    LET told == {k \in DOMAIN log : log[k].what \in SwitchLines} IN
    tangled \/ UnderWay
    \/ switchOn = \E k \in told : log[k].what = "activated" /\ \A j \in told : j <= k

\* What the client is told has its line: no response without "proxied", no refusal
\* without its reason; and no request that was stopped reaches the provider.
\* (proxy_messages, lines 299-370)
ChatsOnRecord ==
    \A t \in Chats :
        LET lines == {log[k].what : k \in {j \in DOMAIN log : log[j].of = t}} IN
        /\ thread[t].answer \in {"released", "cut"} => "proxied" \in lines
        /\ thread[t].answer = "forbidden" => "findings" \in lines /\ ~thread[t].sent
        /\ thread[t].answer = "killed" => "blocked" \in lines /\ ~thread[t].sent
        /\ "proxied" \in lines => thread[t].sent /\ ~thread[t].stopped

HermesTold == HermesTypeOK /\ ChainExplained /\ SwitchOnRecord /\ ChatsOnRecord
=============================================================================
