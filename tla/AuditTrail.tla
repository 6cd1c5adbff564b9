----------------------------- MODULE AuditTrail -----------------------------
(***************************************************************************)
(* What engine/compliance.py promises of the audit log: entries are only   *)
(* ever added at the end, and a checkpoint pins the length the log had     *)
(* when it was signed.                                                     *)
(***************************************************************************)
EXTENDS Naturals, Sequences

CONSTANT Bodies     \* what can be recorded, each at most once

VARIABLES
    entries,    \* the recorded bodies, oldest first
    pinned      \* length of the log at the newest checkpoint

trail == <<entries, pinned>>

Init == entries = <<>> /\ pinned = 0

Record(b) ==
    /\ \A i \in 1..Len(entries) : entries[i] # b
    /\ entries' = Append(entries, b)
    /\ UNCHANGED pinned

Checkpoint == pinned' = Len(entries) /\ UNCHANGED entries

Next == (\E b \in Bodies : Record(b)) \/ Checkpoint

Spec == Init /\ [][Next]_trail
=============================================================================
