----------------------------- MODULE AuditChain -----------------------------
(***************************************************************************)
(* ImmutableAuditLog of gateway/main.py: the HMAC-chained JSONL file, the  *)
(* two fields that mirror it in memory (_seq, _last_hash), and everything  *)
(* that makes the two disagree: a write that fails before, during or after *)
(* the line reaches the file, a crash, a restart under another chain key,  *)
(* GET /health (which re-verifies the file and reloads the two fields),    *)
(* and an external hand on the file.                                       *)
(*                                                                         *)
(* append() and verify_chain() contain no suspension point, so each runs   *)
(* to its end on the event loop: one action per call and outcome.          *)
(*                                                                         *)
(* An entry_hash is the identity of the HMAC computation that produced it. *)
(* Entries carry a microsecond timestamp, so no two computations agree,    *)
(* and recomputing one gives the stored value exactly when the chain key,  *)
(* the previous hash and the entry's text are those it was computed with.  *)
(***************************************************************************)
EXTENDS Naturals, Sequences

CONSTANTS
    Keys,         \* chain keys; a singleton when AUDIT_CHAIN_KEY is set
    MaxEntries,   \* bound on the hashes computed
    MaxFailures,  \* bound on the appends that raise OSError
    MaxCrashes,   \* bound on the crashes
    MaxHands      \* bound on the external changes of the file

ASSUME AuditAssumption ==
    /\ Keys # {}
    /\ MaxEntries \in Nat /\ MaxFailures \in Nat
    /\ MaxCrashes \in Nat /\ MaxHands \in Nat

VARIABLES
    present,   \* log_path exists
    file,      \* its lines
    up,        \* the gateway process runs
    halted,    \* safe mode, entered at start-up on a broken chain
    key,       \* _chain_key of the current (or the last) process
    seq,       \* _seq
    last,      \* _last_hash
    minted,    \* history: hashes computed so far
    acked,     \* history: hashes append() returned, in order
    causes,    \* history: what could have damaged the chain
    failures, crashes, hands   \* counters the bounds cap

disk == <<present, file>>
memory == <<seq, last>>
counters == <<failures, crashes, hands>>
vars == <<present, file, up, halted, key, seq, last, minted, acked, causes,
          failures, crashes, hands>>

Genesis == 0

(* "bare" is a whole entry without its newline, "torn" a shorter fragment; *)
(* "bad" is a terminated line whose text is not what append() hashed.      *)
Text == {"ok", "bare", "torn", "bad"}
Line == [seq : Nat, prev : Nat, hash : Nat, key : Keys, text : Text]
Cause == {"hand", "partial write", "failed fsync"}

TypeOK ==
    /\ present \in BOOLEAN
    /\ file \in Seq(Line)
    /\ up \in BOOLEAN
    /\ halted \in BOOLEAN
    /\ key \in Keys
    /\ seq \in Nat
    /\ last \in Nat
    /\ minted \in Nat
    /\ acked \in Seq(Nat)
    /\ causes \in SUBSET Cause
    /\ failures \in Nat
    /\ crashes \in Nat
    /\ hands \in Nat

-----------------------------------------------------------------------------
(* verify_chain *)

\* The hash a verifier holds before it reads line i.
Before(f, i) == IF i = 1 THEN Genesis ELSE f[i - 1].hash

\* Line i parses and was chained to the line before it.  Lines are stripped,
\* so that a last entry without its newline is read like any other.
Linked(f, i) == f[i].text \in {"ok", "bare"} /\ f[i].prev = Before(f, i)

\* Every line recomputes to its stored hash under k.
Verifies(f, k) == \A i \in 1 .. Len(f) : Linked(f, i) /\ f[i].key = k

\* prev_hash after the last line.
TailHash(f) == Before(f, Len(f) + 1)

\* A restore that forgets the hash of the last line.
ResyncSeqOnly == seq' = Len(file) /\ last' = Genesis
\* A restore that counts the lines from zero.
ResyncOffByOne == seq' = Len(file) - 1 /\ last' = TailHash(file)

\* "Restore state": both fields are reloaded from the file just verified.
Resync == seq' = Len(file) /\ last' = TailHash(file)

-----------------------------------------------------------------------------
(* append *)

\* The entry append() builds: _seq was incremented first.
NewLine ==
    [seq |-> seq + 1, prev |-> last, hash |-> minted + 1, key |-> key,
     text |-> "ok"]

\* The file does not end with a newline.
Unsealed(f) == f # <<>> /\ f[Len(f)].text \in {"bare", "torn"}

\* A log reopened in mode "w".
WrittenAnew(f, l) == <<l>>

\* The file after write and flush.  Mode "a" continues an unterminated tail:
\* the two entries become one unreadable line.
Written(f, l) ==
    IF Unsealed(f) THEN [f EXCEPT ![Len(f)].text = "bad"] ELSE Append(f, l)

\* The files a write that stopped part-way can leave: short of the entry's
\* end, or short of the newline alone.
Fragments(f, l) ==
    IF Unsealed(f) THEN {[f EXCEPT ![Len(f)].text = "torn"]}
    ELSE {Append(f, [l EXCEPT !.text = t]) : t \in {"torn", "bare"}}

\* Behind the middleware, so never while safe mode is active.
CanAppend == up /\ ~halted /\ minted < MaxEntries

\* append() without its last assignment.
AppendForgetsHash ==
    /\ CanAppend
    /\ file' = Written(file, NewLine)
    /\ present' = TRUE
    /\ seq' = seq + 1
    /\ minted' = minted + 1
    /\ acked' = Append(acked, minted + 1)
    /\ UNCHANGED <<last, up, halted, key, causes, counters>>

AppendOk ==
    /\ CanAppend
    /\ file' = Written(file, NewLine)
    /\ present' = TRUE
    /\ seq' = seq + 1
    /\ last' = minted + 1
    /\ minted' = minted + 1
    /\ acked' = Append(acked, minted + 1)
    /\ UNCHANGED <<up, halted, key, causes, counters>>

\* append() raises OSError: _seq has moved and _last_hash has not.  Either
\* nothing reached the file (open failed, or write with the disk full), or a
\* part of the line did, or all of it and fsync failed.
AppendFails ==
    /\ CanAppend
    /\ failures < MaxFailures
    /\ failures' = failures + 1
    /\ seq' = seq + 1
    /\ minted' = minted + 1
    /\ \/ /\ UNCHANGED <<file, causes>>
          /\ (UNCHANGED present \/ present' = TRUE)
       \/ /\ file' \in Fragments(file, NewLine)
          /\ present' = TRUE
          /\ causes' = causes \union {"partial write"}
       \/ /\ file' = Written(file, NewLine)
          /\ present' = TRUE
          /\ causes' = causes \union {"failed fsync"}
    /\ UNCHANGED <<up, halted, key, last, acked, crashes, hands>>

-----------------------------------------------------------------------------
(* The process *)

\* The process dies, perhaps inside append(): what reached the file stays.
Crash ==
    /\ up
    /\ crashes < MaxCrashes
    /\ crashes' = crashes + 1
    /\ up' = FALSE
    /\ halted' = FALSE
    /\ seq' = 0
    /\ last' = Genesis
    /\ \/ UNCHANGED <<disk, minted, causes>>
       \/ /\ CanAppend
          /\ file' \in Fragments(file, NewLine)
          /\ present' = TRUE
          /\ minted' = minted + 1
          /\ causes' = causes \union {"partial write"}
       \/ /\ CanAppend
          /\ file' = Written(file, NewLine)
          /\ present' = TRUE
          /\ minted' = minted + 1
          /\ UNCHANGED causes
    /\ UNCHANGED <<key, acked, failures, hands>>

\* A start-up that sets a broken log aside and begins a new one.
StartRotating ==
    /\ ~up
    /\ up' = TRUE
    /\ \E k \in Keys :
          /\ key' = k
          /\ halted' = FALSE
          /\ IF Verifies(file, k)
             THEN Resync /\ UNCHANGED file
             ELSE seq' = 0 /\ last' = Genesis /\ file' = <<>>
    /\ UNCHANGED <<present, minted, acked, causes, counters>>

\* lifespan(): a new log object verifies the file.  On a break the gateway
\* goes on in safe mode with the fields as __init__ left them.
Start ==
    /\ ~up
    /\ up' = TRUE
    /\ \E k \in Keys :
          /\ key' = k
          /\ IF Verifies(file, k)
             THEN /\ Resync
                  /\ halted' = FALSE
                  /\ causes' = causes \ {"failed fsync"}
             ELSE /\ UNCHANGED <<seq, last, causes>>
                  /\ halted' = TRUE
    /\ UNCHANGED <<disk, minted, acked, counters>>

\* GET /health, open in safe mode too.  A missing file counts as valid and
\* leaves the fields alone; so does a broken chain.
HealthCheck ==
    /\ up
    /\ IF present /\ Verifies(file, key)
       THEN Resync /\ causes' = causes \ {"failed fsync"}
       ELSE UNCHANGED <<memory, causes>>
    /\ UNCHANGED <<disk, up, halted, key, minted, acked, counters>>

-----------------------------------------------------------------------------
(* Somebody else's hand on the file *)

Touch == hands < MaxHands /\ hands' = hands + 1 /\ causes' = causes \union {"hand"}

HandEdits ==
    /\ Touch
    /\ \E i \in 1 .. Len(file) :
          /\ file[i].text = "ok"
          /\ file' = [file EXCEPT ![i].text = "bad"]
    /\ UNCHANGED <<present, up, halted, key, memory, minted, acked, failures, crashes>>

HandTruncates ==
    /\ Touch
    /\ \E n \in 0 .. Len(file) : n < Len(file) /\ file' = SubSeq(file, 1, n)
    /\ UNCHANGED <<present, up, halted, key, memory, minted, acked, failures, crashes>>

HandRemoves ==
    /\ Touch
    /\ present
    /\ present' = FALSE
    /\ file' = <<>>
    /\ UNCHANGED <<up, halted, key, memory, minted, acked, failures, crashes>>

-----------------------------------------------------------------------------
Init ==
    /\ present = FALSE
    /\ file = <<>>
    /\ up = FALSE
    /\ halted = FALSE
    /\ key \in Keys
    /\ seq = 0
    /\ last = Genesis
    /\ minted = 0
    /\ acked = <<>>
    /\ causes = {}
    /\ failures = 0
    /\ crashes = 0
    /\ hands = 0

Next ==
    \/ AppendOk
    \/ AppendFails
    \/ Crash
    \/ Start
    \/ HealthCheck
    \/ HandEdits
    \/ HandTruncates
    \/ HandRemoves

Spec == Init /\ [][Next]_vars

-----------------------------------------------------------------------------
(* Properties *)

\* Every break has a reason.  Through any number of restarts, crashes between
\* lines, appends that failed before writing, and health checks, the file
\* verifies; only a write that stopped part-way, a line whose fsync failed and
\* that no verification has reloaded since, an external hand, or a restart under
\* another key makes verify_chain report a break.
BreaksAreExplained ==
    Verifies(file, key) \/ causes # {} \/ \E i \in 1 .. Len(file) : file[i].key # key

(* Why the breaks are explained: an undamaged file links throughout, and   *)
(* while the gateway serves, the hash in memory is the one the file ends   *)
(* with, so that the next line links too.                                  *)
AllLinked(f) == \A i \in 1 .. Len(f) : Linked(f, i)
InStep == up /\ ~halted => last = TailHash(file)
ChainInv == causes = {} => AllLinked(file) /\ InStep

(* Why acknowledged entries are found: hashes grow along the file whatever *)
(* happened to it, and a line that was acknowledged is dropped only by a   *)
(* hand or swallowed only by an unterminated tail.                         *)
HashesGrow ==
    /\ \A i \in 1 .. Len(file) : file[i].hash <= minted
    /\ \A i, j \in 1 .. Len(file) : i < j => file[i].hash < file[j].hash
Undamaged == causes \subseteq {"failed fsync"}
NoFragment == Undamaged => ~Unsealed(file)
AckedWritten ==
    Undamaged =>
        \A n \in 1 .. Len(acked) :
            \E i \in 1 .. Len(file) : file[i].hash = acked[n]

\* How many lines link to their predecessors before the first that does not.
LinkedLen(f) ==
    CHOOSE n \in 0 .. Len(f) :
        /\ \A i \in 1 .. n : Linked(f, i)
        /\ n < Len(f) => ~Linked(f, n + 1)

\* What append() returned can be verified later, in the order it was returned:
\* an undamaged file holds every acknowledged hash, and hashes grow along it,
\* whatever crashes and restarts came between.
AcknowledgedVerifiable ==
    causes = {} =>
        /\ \A n \in 1 .. Len(acked) :
              \E i \in 1 .. LinkedLen(file) : file[i].hash = acked[n]
        /\ \A i, j \in 1 .. Len(file) : i < j => file[i].hash < file[j].hash

\* A broken chain is never mended by the program: no append, restart or health
\* check turns a file that fails to link into one that links, so a break found
\* once is found by every later verification until somebody touches the file.
BrokenStaysBroken ==
    [][hands' = hands /\ LinkedLen(file) < Len(file)
         => LinkedLen(file') < Len(file')]_vars

\* The hashes of the linked lines, and whether the last of them lacks its
\* newline.
LinkedHashes == [i \in 1 .. LinkedLen(file) |-> file[i].hash]
InDoubt == Unsealed(file) /\ LinkedLen(file) = Len(file)
Log == INSTANCE AppendOnlyLog WITH log <- LinkedHashes, doubt <- InDoubt

\* The detailed log implements the append-only log: the program adds to the end
\* of what verifies, one entry a step, and takes back none that is terminated.
\* The one entry it does take back is a last one whose newline never reached
\* the disk: verify_chain accepts it, and the next write glues itself to it.
AppendOnly == Log!Spec

\* What the class's docstring says of the "seq" field ("monotonic sequence
\* number"): it grows along the file.  append() moves _seq before it writes,
\* and a verification sets _seq back to the number of lines.
SeqGrows ==
    hands = 0 => \A i, j \in 1 .. Len(file) : i < j => file[i].seq < file[j].seq
=============================================================================
