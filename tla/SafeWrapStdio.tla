---------------------------- MODULE SafeWrapStdio ----------------------------
(***************************************************************************)
(* mcp-safe-wrap: the STDIO wrapper.  One coroutine moves lines from the   *)
(* client to the wrapped server, another moves its answers back.  A line   *)
(* that is over the limit or flagged is dropped, and not answered.  When   *)
(* the client ends, the server's input stays open: the wrapper ends when   *)
(* the server does.  The standard error of the server is left out.         *)
(***************************************************************************)
EXTENDS Integers, Sequences

CONSTANTS
    LineLimit,         \* rate_limit: lines the bucket holds; 0 is no limit
    ScanLines, ScanReplies, BlockOnMatch,
    MaxLines           \* bound: lines of the client

ASSUME StdioAssumption ==
    /\ LineLimit \in Nat /\ MaxLines \in Nat
    /\ {ScanLines, ScanReplies, BlockOnMatch} \subseteq BOOLEAN

VARIABLES
    sent, clientOpen,     \* lines the client has written; its output is open
    read,                 \* lines the wrapper has read
    bucket,               \* tokens of _bucket
    inbox,                \* lines written to the server
    handled,              \* lines of the server's inbox it has answered
    outbox,               \* answers the wrapper has not read
    replies,              \* answers the client received
    upTask, downTask,     \* _client_to_server, _server_to_client run
    server,               \* the wrapped process runs
    findings              \* audit: flagged lines recorded

stdioVars == <<sent, clientOpen, read, bucket, inbox, handled, outbox, replies,
               upTask, downTask, server, findings>>

\* What a line holds: nothing of note, an injection, or no JSON object.
LineKinds == {"clean", "flagged", "raw"}
Line(n, kind) == [id |-> n, kind |-> kind]

StdioTypeOK ==
    /\ sent \in Seq([id : 1 .. MaxLines, kind : LineKinds]) /\ read \in 0 .. Len(sent)
    /\ handled \in 0 .. Len(inbox) /\ findings \in 0 .. 2 * MaxLines
    /\ bucket \in 0 .. LineLimit
    /\ {clientOpen, upTask, downTask, server} \subseteq BOOLEAN

ClientWrites(kind) ==
    /\ clientOpen /\ Len(sent) < MaxLines
    /\ sent' = Append(sent, Line(Len(sent) + 1, kind))
    /\ UNCHANGED <<clientOpen, read, bucket, inbox, handled, outbox, replies,
                   upTask, downTask, server, findings>>

ClientCloses ==
    /\ clientOpen /\ clientOpen' = FALSE
    /\ UNCHANGED <<sent, read, bucket, inbox, handled, outbox, replies,
                   upTask, downTask, server, findings>>

\* scan(): what is flagged in a message is redacted.
Sanitized(line, scans) == IF scans /\ line.kind = "flagged" THEN [line EXCEPT !.kind = "clean"] ELSE line

\* A flagged line is recorded, and forwarded all the same.
ForwardsFlagged(line) == TRUE

\* block_on_match drops a flagged line.
Forwards(line) == ~(ScanLines /\ BlockOnMatch /\ line.kind = "flagged")

\* One turn of _client_to_server: the limit, the scan, the write.  A write to
\* a server that has ended may be lost, or break the pipe and end the coroutine.
MovesUp ==
    LET line == sent[read + 1]
        limited == LineLimit > 0 /\ bucket = 0
        passes == ~limited /\ Forwards(line)
    IN  /\ upTask /\ read < Len(sent)
        /\ read' = read + 1
        /\ bucket' = IF LineLimit > 0 /\ ~limited THEN bucket - 1 ELSE bucket
        /\ findings' = IF ~limited /\ ScanLines /\ line.kind = "flagged" THEN findings + 1 ELSE findings
        /\ inbox' = IF passes /\ server THEN Append(inbox, Sanitized(line, ScanLines)) ELSE inbox
        /\ IF passes /\ ~server THEN upTask' \in BOOLEAN ELSE UNCHANGED upTask
        /\ UNCHANGED <<sent, clientOpen, handled, outbox, replies, downTask, server>>

\* readline() at the end of the client's output.
UpEnds ==
    /\ upTask /\ ~clientOpen /\ read = Len(sent)
    /\ upTask' = FALSE
    /\ UNCHANGED <<sent, clientOpen, read, bucket, inbox, handled, outbox, replies,
                   downTask, server, findings>>

BucketRefills ==
    /\ bucket < LineLimit /\ bucket' = bucket + 1
    /\ UNCHANGED <<sent, clientOpen, read, inbox, handled, outbox, replies,
                   upTask, downTask, server, findings>>

\* The server answers its lines in order; an answer may hold an injection.
ServerAnswers(kind) ==
    /\ server /\ handled < Len(inbox)
    /\ handled' = handled + 1
    /\ outbox' = Append(outbox, Line(inbox[handled + 1].id, kind))
    /\ UNCHANGED <<sent, clientOpen, read, bucket, inbox, replies, upTask, downTask, server, findings>>

ServerExits ==
    /\ server /\ server' = FALSE
    /\ UNCHANGED <<sent, clientOpen, read, bucket, inbox, handled, outbox, replies,
                   upTask, downTask, findings>>

\* One turn of _server_to_client: an answer is sanitized, never dropped.
MovesDown ==
    /\ downTask /\ outbox # <<>>
    /\ outbox' = Tail(outbox)
    /\ replies' = Append(replies, Sanitized(Head(outbox), ScanReplies))
    /\ findings' = IF ScanReplies /\ Head(outbox).kind = "flagged" THEN findings + 1 ELSE findings
    /\ UNCHANGED <<sent, clientOpen, read, bucket, inbox, handled, upTask, downTask, server>>

DownEnds ==
    /\ downTask /\ ~server /\ outbox = <<>>
    /\ downTask' = FALSE
    /\ UNCHANGED <<sent, clientOpen, read, bucket, inbox, handled, outbox, replies,
                   upTask, server, findings>>

StdioInit ==
    /\ sent = <<>> /\ clientOpen = TRUE /\ read = 0 /\ bucket = LineLimit
    /\ inbox = <<>> /\ handled = 0 /\ outbox = <<>> /\ replies = <<>>
    /\ upTask = TRUE /\ downTask = TRUE /\ server = TRUE /\ findings = 0

StdioNext ==
    \/ \E kind \in LineKinds : ClientWrites(kind) \/ ServerAnswers(kind)
    \/ ClientCloses \/ MovesUp \/ UpEnds \/ BucketRefills
    \/ ServerExits \/ MovesDown \/ DownEnds

StdioSpec == StdioInit /\ [][StdioNext]_stdioVars

-----------------------------------------------------------------------------
(* Properties *)

\* What the client receives answers lines it sent, each once and in order, and
\* neither side sees an injection the wrapper was to stop.
RelayInOrder ==
    /\ \A m, n \in 1 .. Len(replies) : m < n => replies[m].id < replies[n].id
    /\ \A n \in 1 .. Len(replies) :
           ScanLines /\ BlockOnMatch => sent[replies[n].id].kind # "flagged"
    /\ ScanReplies => \A n \in 1 .. Len(replies) : replies[n].kind # "flagged"
=============================================================================
