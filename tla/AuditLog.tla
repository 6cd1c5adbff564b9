------------------------------ MODULE AuditLog ------------------------------
(***************************************************************************)
(* The hash-chained audit log of engine/compliance.py: _append,            *)
(* checkpoint_audit, verify_audit_chain and the part of enforce_retention  *)
(* that rewrites the log.  _audit_lock orders appends and checkpoints;     *)
(* retention and verification do not take it.                              *)
(*                                                                         *)
(* An entry is named by the request that records it.  SHA-256 is taken to  *)
(* be injective, so the hash of an entry is the sequence of all the bodies *)
(* it commits to, and the genesis hash is <<>>.  Signatures are abstracted *)
(* away: every checkpoint is one this deployment signed.                   *)
(***************************************************************************)
EXTENDS Threads, Integers, Sequences, FiniteSets

Operations == {"append", "checkpoint", "verify", "retain"}

\* What can befall a log; the properties name what they tolerate.
Incidents == {"overlap",    \* two requests have been in flight at once
              "death",      \* a thread failed in the middle of an operation
              "tear",       \* ... and left part of a line behind
              "loss",       \* lines disappeared from the disk
              "purge"}      \* retention decided to rewrite the log

Nobody == "nobody"
ASSUME NobodyAssumption == Nobody \notin Requests

VARIABLES
    file,       \* the lines of the audit log
    present,    \* the file exists
    checkpoint, \* the newest signed checkpoint
    lock,       \* who holds _audit_lock
    op,         \* the operation it performs
    head,       \* the head hash it read under the lock
    kept,       \* the lines retention decided to keep
    counted,    \* the entries verification counted
    answer,     \* what verification answered
    aged,       \* entries older than audit_log_days
    acked,      \* history: requests whose append returned
    happened    \* history: the incidents so far

log == <<file, present>>
locals == <<head, kept, counted>>
history == <<aged, acked, happened>>
vars == <<file, present, checkpoint, lock, pc, op, head, kept, counted, answer,
          aged, acked, happened>>

-----------------------------------------------------------------------------
Hash == Seq(Requests)
Genesis == <<>>
Entry(r, prev) == [kind |-> "entry", body |-> r, prev |-> prev]
EntryType == [kind : {"entry"}, body : Requests, prev : Hash]
Torn == [kind |-> "torn"]           \* an unterminated, partly written last line
Garbled == [kind |-> "garbled"]     \* a complete line that does not parse
Line == EntryType \cup {Torn, Garbled}

NoCheckpoint == [entries |-> 0, head |-> Genesis]
Parses(line) == line.kind = "entry"
InFlight == {"waiting", "writing", "counting", "purging", "read", "emptied",
             "verifying", "crosschecking"}

\* The file, the checkpoint and the local variables of every operation keep their
\* shape.
TypeOK ==
    /\ file \in Seq(Line)
    /\ present \in BOOLEAN
    /\ checkpoint \in [entries : Nat, head : Hash]
    /\ lock \in Requests \cup {Nobody}
    /\ pc \in [Requests -> {"idle", "done", "dead"} \cup InFlight]
    /\ op \in [Requests -> Operations \cup {"none"}]
    /\ head \in [Requests -> Hash]
    /\ kept \in [Requests -> Seq(Line)]
    /\ counted \in [Requests -> Nat]
    /\ answer \in [Requests -> {"none", "intact", "broken", "truncated"}]
    /\ aged \subseteq Requests /\ acked \subseteq Requests
    /\ happened \subseteq Incidents

Init ==
    /\ file = <<>> /\ present = FALSE
    /\ checkpoint = NoCheckpoint
    /\ lock = Nobody
    /\ pc = [r \in Requests |-> "idle"]
    /\ op = [r \in Requests |-> "none"]
    /\ head = [r \in Requests |-> Genesis]
    /\ kept = [r \in Requests |-> <<>>]
    /\ counted = [r \in Requests |-> 0]
    /\ answer = [r \in Requests |-> "none"]
    /\ aged = {} /\ acked = {} /\ happened = {}

-----------------------------------------------------------------------------
(* Hashes *)

\* The hash stored in an entry.
HashOf(entry) == Append(entry.prev, entry.body)

\* The hash of the last line that parses; lines that do not are skipped.
LastHash(f) ==
    LET parsed == {i \in DOMAIN f : Parses(f[i])} IN
    IF parsed = {} THEN Genesis
    ELSE HashOf(f[CHOOSE i \in parsed : \A j \in parsed : j <= i])

Before(f, i) == SubSeq(f, 1, i - 1)

\* The recomputation of verify_audit_chain over all lines.
Verifies(f) ==
    \A i \in DOMAIN f : Parses(f[i]) /\ f[i].prev = LastHash(Before(f, i))

-----------------------------------------------------------------------------
End(r, how) ==
    /\ GoTo(r, how)
    /\ head' = [head EXCEPT ![r] = Genesis]
    /\ kept' = [kept EXCEPT ![r] = <<>>]
    /\ counted' = [counted EXCEPT ![r] = 0]

Busy == \E q \in Requests : pc[q] \in InFlight
Note(incidents) == happened' = happened \cup incidents

\* Where an operation begins: retention checkpoints first when there is a log.
FirstStep(o) ==
    CASE o = "verify" -> "verifying"
      [] o = "retain" /\ ~present -> "purging"
      [] OTHER -> "waiting"

Begin(r, o) ==
    /\ pc[r] = "idle"
    /\ Note(IF Busy THEN {"overlap"} ELSE {})
    /\ op' = [op EXCEPT ![r] = o]
    /\ GoTo(r, FirstStep(o))
    /\ UNCHANGED <<log, checkpoint, lock, locals, answer, aged, acked>>

\* Faulty variant: nobody waits for the lock.
LockFree_Ignored == TRUE

LockFree == lock = Nobody

\* `with _audit_lock:` followed by _last_hash().
TakeLock(r) ==
    /\ pc[r] = "waiting" /\ LockFree
    /\ lock' = r
    /\ head' = [head EXCEPT ![r] = LastHash(file)]
    /\ GoTo(r, IF op[r] = "append" THEN "writing" ELSE "counting")
    /\ UNCHANGED <<log, checkpoint, op, kept, counted, answer, history>>

TailIsTorn == file # <<>> /\ file[Len(file)] = Torn

\* _append: the chained line is added at the end and flushed.  After a partial
\* line it completes that line instead, and neither parses.
WriteRecord(r) ==
    /\ pc[r] = "writing"
    /\ file' = IF TailIsTorn THEN [file EXCEPT ![Len(file)] = Garbled]
               ELSE Append(file, Entry(r, head[r]))
    /\ present' = TRUE
    /\ acked' = acked \cup {r}
    /\ lock' = Nobody
    /\ End(r, "done")
    /\ UNCHANGED <<checkpoint, op, answer, aged, happened>>

\* Faulty variant: the line breaks between entries are counted.
SignCheckpoint_OffByOne(r) ==
    /\ pc[r] = "counting"
    /\ checkpoint' = [entries |-> Len(file) - 1, head |-> head[r]]
    /\ lock' = Nobody
    /\ IF op[r] = "retain" THEN GoTo(r, "purging") /\ UNCHANGED locals
       ELSE End(r, "done")
    /\ UNCHANGED <<log, op, answer, history>>

\* checkpoint_audit: count the lines and sign the count with the head.
SignCheckpoint(r) ==
    /\ pc[r] = "counting"
    /\ checkpoint' = [entries |-> Len(file), head |-> head[r]]
    /\ lock' = Nobody
    /\ IF op[r] = "retain" THEN GoTo(r, "purging") /\ UNCHANGED locals
       ELSE End(r, "done")
    /\ UNCHANGED <<log, op, answer, history>>

-----------------------------------------------------------------------------
(* _purge_old_lines, without the lock *)

\* Faulty variant: what cannot be dated is dropped, and so is what is recent.
Keep_Inverted(line) == Parses(line) /\ line.body \in aged

\* A line that cannot be dated is kept.
Keep(line) == Parses(line) => line.body \notin aged

Terminated(line) == IF line = Torn THEN Garbled ELSE line

\* The lines to keep, in their order.
ToKeep == {i \in DOMAIN file : Keep(file[i])}
Rank(i, S) == Cardinality({j \in S : j <= i})
KeptLines ==
    [n \in 1..Cardinality(ToKeep) |->
        Terminated(file[CHOOSE i \in ToKeep : Rank(i, ToKeep) = n])]

\* The first pass decides what to keep; with nothing to purge the file is not
\* touched.
ReadForPurge(r) ==
    /\ pc[r] = "purging"
    /\ IF Len(KeptLines) = Len(file) THEN End(r, "done") /\ UNCHANGED happened
       ELSE /\ Note({"purge"})
            /\ kept' = [kept EXCEPT ![r] = KeptLines]
            /\ GoTo(r, "read")
            /\ UNCHANGED <<head, counted>>
    /\ UNCHANGED <<log, checkpoint, lock, op, answer, aged, acked>>

\* open(path, "w")
Truncate(r) ==
    /\ pc[r] = "read"
    /\ file' = <<>> /\ present' = TRUE
    /\ GoTo(r, "emptied")
    /\ UNCHANGED <<checkpoint, lock, op, locals, answer, history>>

\* writelines(kept): written from offset 0, over whatever was appended since
\* the file was emptied; a longer append leaves its tail behind.
Rewrite(r) ==
    /\ pc[r] = "emptied"
    /\ \/ kept[r] = <<>> /\ UNCHANGED file
       \/ kept[r] # <<>> /\ file' = kept[r]
       \/ kept[r] # <<>> /\ file # <<>> /\ file' = Append(kept[r], Garbled)
    /\ End(r, "done")
    /\ UNCHANGED <<present, checkpoint, lock, op, answer, history>>

-----------------------------------------------------------------------------
(* verify_audit_chain, without the lock *)

Answer(r, what) == answer' = [answer EXCEPT ![r] = what] /\ End(r, "done")

\* The pass over the log.
ReadLog(r) ==
    /\ pc[r] = "verifying"
    /\ \/ ~present /\ Answer(r, "intact")
       \/ present /\ ~Verifies(file) /\ Answer(r, "broken")
       \/ /\ present /\ Verifies(file)
          /\ counted' = [counted EXCEPT ![r] = Len(file)]
          /\ GoTo(r, "crosschecking")
          /\ UNCHANGED <<head, kept, answer>>
    /\ UNCHANGED <<log, checkpoint, lock, op, history>>

\* Faulty variant: a log that grew past its checkpoint is reported.
Short_Unequal(r) == checkpoint # NoCheckpoint /\ counted[r] # checkpoint.entries

Short(r) == counted[r] < checkpoint.entries

\* The newest checkpoint is read afterwards, and only its count is compared.
CrossCheck(r) ==
    /\ pc[r] = "crosschecking"
    /\ Answer(r, IF Short(r) THEN "truncated" ELSE "intact")
    /\ UNCHANGED <<log, checkpoint, lock, op, history>>

-----------------------------------------------------------------------------
(* Failures and time *)

\* Faulty variant: the lock is not released on the way out.
Die_KeepsLock(r) ==
    /\ pc[r] \in InFlight
    /\ Note({"death"})
    /\ End(r, "dead")
    /\ UNCHANGED <<log, checkpoint, lock, op, answer, aged, acked>>

\* A thread fails; `with` releases the lock.  A failed write (the disk is full,
\* the machine stops) may leave part of a line behind.
Die(r) ==
    /\ pc[r] \in InFlight
    /\ \/ UNCHANGED <<file, present>> /\ Note({"death"})
       \/ /\ pc[r] = "writing"
          /\ Note({"death", "tear"})
          /\ file' = IF TailIsTorn THEN file ELSE Append(file, Torn)
          /\ present' = TRUE
    /\ lock' = IF lock = r THEN Nobody ELSE lock
    /\ End(r, "dead")
    /\ UNCHANGED <<checkpoint, op, answer, aged, acked>>

\* The server comes back to an older copy of the log, or to none.
LoseTail(n) ==
    /\ ~Busy
    /\ file' = SubSeq(file, 1, n) /\ present' = (n > 0)
    /\ Note({"loss"})
    /\ UNCHANGED <<checkpoint, lock, pc, op, locals, answer, aged, acked>>

\* The oldest entry that is still within its retention window leaves it.
Age(r) ==
    /\ \E i \in DOMAIN file :
           /\ Parses(file[i]) /\ file[i].body = r /\ r \notin aged
           /\ \A j \in 1..(i - 1) : Parses(file[j]) => file[j].body \in aged
    /\ aged' = aged \cup {r}
    /\ UNCHANGED <<log, checkpoint, lock, pc, op, locals, answer, acked, happened>>

Work(r) ==
    \/ TakeLock(r) \/ WriteRecord(r) \/ SignCheckpoint(r)
    \/ ReadForPurge(r) \/ Truncate(r) \/ Rewrite(r)
    \/ ReadLog(r) \/ CrossCheck(r)

Next ==
    \/ \E r \in Requests :
           \/ \E o \in Operations : Begin(r, o)
           \/ Work(r) \/ Die(r) \/ Age(r)
    \/ \E n \in 0..(Len(file) - 1) : LoseTail(n)

Spec == Init /\ [][Next]_vars

-----------------------------------------------------------------------------
(* Properties *)

\* Nothing was taken from the log: no purge, no loss.
Whole == happened \cap {"purge", "loss"} = {}

\* However many writers race and fail, and whatever lines are lost at its end, the
\* entries that can be read form one chain from genesis: none is forked, and an
\* entry that follows a damaged line still commits to every readable entry before
\* it (compliance.py:131-142).
Linked ==
    "purge" \notin happened =>
        \A i \in DOMAIN file :
            Parses(file[i]) => file[i].prev = LastHash(Before(file, i))

\* Lines are never rewritten, except that the next append completes a torn one
\* (compliance.py:139-142).
AppendOnly ==
    [][Whole' => /\ Len(file') >= Len(file)
                 /\ \A i \in DOMAIN file : file[i] # Torn => file'[i] = file[i]]_vars

\* The newest checkpoint describes the log as it was at one instant: its head
\* is the hash of exactly the lines it counts (compliance.py:239-255).
CheckpointDescribesTheLog ==
    Whole => /\ checkpoint.entries <= Len(file)
             /\ checkpoint.head = LastHash(SubSeq(file, 1, checkpoint.entries))

\* compliance.py:277 "Reports integrity honestly": verification calls a log
\* modified only after a torn write or a purge, and truncated only after a loss,
\* a purge, or when it ran beside another request.  In particular a tail that
\* was lost and written anew is never taken for a modification.
HonestAnswers ==
    \A r \in Requests :
        /\ answer[r] = "broken" => happened \cap {"tear", "purge"} # {}
        /\ answer[r] = "truncated" => happened \cap {"loss", "purge", "overlap"} # {}

\* compliance.py:384 "keeping only lines newer than max_age_days": a record whose
\* append returned is readable until it leaves its window, also after purges, as
\* long as a purge meets no other request and does not fail half way.
Rewriting == \E r \in Requests : pc[r] = "emptied"
FreshRecordsSurvive ==
    /\ happened \cap {"loss", "tear"} = {}
    /\ "purge" \in happened => happened = {"purge"} /\ ~Rewriting
    => \A r \in acked \ aged :
           \E i \in DOMAIN file : Parses(file[i]) /\ file[i].body = r

\* _audit_lock is held by exactly the request that reads the head and writes or
\* counts: no two do so at once, whatever was purged or lost before, and nobody
\* waits for a request that ended or failed (compliance.py:131, 239).
HeldAtWork ==
    /\ lock \in Requests \cup {Nobody}
    /\ \A r \in Requests : pc[r] \in {"writing", "counting"} <=> lock = r

-----------------------------------------------------------------------------
\* The trail the log implements: the bodies of its lines, and the count of the
\* checkpoint.  A damaged line has no body.
A == INSTANCE AuditTrail WITH
        Bodies <- Requests,
        entries <- [i \in DOMAIN file |->
                       IF Parses(file[i]) THEN file[i].body ELSE Nobody],
        pinned <- checkpoint.entries

\* Without damage, loss or retention the log is the append-only trail, however
\* writers and checkpoints interleave and fail (compliance.py:131-142, 226-255).
ImplementsAuditTrail ==
    A!Init /\ [][Whole' /\ "tear" \notin happened' => A!Next]_(A!trail)
=============================================================================
