--------------------------- MODULE AppendOnlyLog ---------------------------
(***************************************************************************)
(* What the gateway's audit log promises a reader who re-verifies it: the  *)
(* entries that verify are extended at the end, one at a time, and nothing *)
(* the program does (a restart, a failed write, a health check) alters or  *)
(* reorders one of them.  The program drops one only from the end, and     *)
(* only one that was in doubt: written by a call that never returned, its  *)
(* newline missing.  Any other loss needs an external hand on the file,    *)
(* and what then still verifies is a prefix.                               *)
(***************************************************************************)
EXTENDS Naturals, Sequences

VARIABLES
    log,     \* the entries a verifier accepts, oldest first
    doubt,   \* the last of them is not terminated
    hands    \* how often somebody else touched the file

Init ==
    /\ log = <<>>
    /\ doubt = FALSE
    /\ hands = 0

\* The program appends one entry, terminated or not, after a terminated one.
Extend ==
    /\ ~doubt
    /\ Len(log') = Len(log) + 1
    /\ SubSeq(log', 1, Len(log)) = log
    /\ doubt' \in BOOLEAN
    /\ UNCHANGED hands

\* The program writes on after an entry in doubt, and neither can be read.
Withdraw ==
    /\ doubt
    /\ log' = SubSeq(log, 1, Len(log) - 1)
    /\ doubt' = FALSE
    /\ UNCHANGED hands

\* Somebody edits, truncates or removes the file: a prefix survives.
Hand ==
    /\ hands' = hands + 1
    /\ \E n \in 0 .. Len(log) : log' = SubSeq(log, 1, n)
    /\ doubt' \in BOOLEAN

Next == Extend \/ Withdraw \/ Hand

Spec == Init /\ [][Next]_<<log, doubt, hands>>
=============================================================================
