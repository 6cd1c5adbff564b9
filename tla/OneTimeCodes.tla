---------------------------- MODULE OneTimeCodes ----------------------------
(***************************************************************************)
(* The emailed codes of engine/auth.py: issue_otp and verify_otp, called   *)
(* concurrently by request threads for one email address and one purpose   *)
(* (the WHERE clauses keep addresses and purposes apart).  issue_otp is    *)
(* two autocommitted statements and verify_otp a read and a later write;   *)
(* nothing orders two calls.                                               *)
(*                                                                         *)
(* A row of otp_codes is named by its AUTOINCREMENT id, its index in the   *)
(* sequence `codes`.  Two issues never draw the same six digits here, so   *)
(* "the code of row i" is i and 0 stands for any other guess.              *)
(***************************************************************************)
EXTENDS Threads, Integers, Sequences

CONSTANTS
    Challenges,     \* sign-in challenges; one value stands for "none", which
                    \* is all the flows other than sign-in ever bind
    MaxAttempts     \* config auth.otp_max_attempts

ASSUME MaxAttemptsAssumption == MaxAttempts \in Nat \ {0}

VARIABLES
    codes,      \* the rows of otp_codes, oldest first
    call,       \* the call it serves
    target,     \* the row verify_otp read, 0 when none
    accepted,   \* history: <<r, i>> when verify_otp answered r's guess i "ok"
    overlapped  \* history: two calls have been in flight at once

vars == <<codes, pc, call, target, accepted, overlapped>>

\* state is "live" for used = 0, "used" for used = 1, "purged" once deleted.
CodeRow == [state : {"live", "used", "purged"}, tries : Nat, bound : Challenges,
            expired : BOOLEAN]

IssueCall == [kind : {"issue"}, challenge : Challenges]
VerifyCall == [kind : {"verify"}, challenge : Challenges, guess : Nat]
NoCall == [kind |-> "none"]

InFlight == {"issuing", "superseded", "verifying", "match", "miss", "foreign"}

\* The columns of otp_codes and the local variables of issue_otp and verify_otp
\* keep their ranges, and no request points at a row that was never inserted.
TypeOK ==
    /\ codes \in Seq(CodeRow)
    /\ pc \in [Requests -> {"idle", "done", "dead"} \cup InFlight]
    /\ call \in [Requests -> IssueCall \cup VerifyCall \cup {NoCall}]
    /\ target \in [Requests -> 0..Len(codes)]
    /\ accepted \subseteq Requests \X (1..Len(codes))
    /\ overlapped \in BOOLEAN

Init ==
    /\ codes = <<>>
    /\ pc = [r \in Requests |-> "idle"]
    /\ call = [r \in Requests |-> NoCall]
    /\ target = [r \in Requests |-> 0]
    /\ accepted = {}
    /\ overlapped = FALSE

Ids == 1..Len(codes)
Live(i) == codes[i].state = "live"
End(r, how) == GoTo(r, how) /\ target' = [target EXCEPT ![r] = 0]

\* Whether a call that starts now runs beside another one.
NoteOverlap ==
    overlapped' = (overlapped \/ \E q \in Requests : pc[q] \in InFlight)

-----------------------------------------------------------------------------
\* A thread picks up a request.  A guess names a code already emailed, or none.
Begin(r, c) ==
    /\ pc[r] = "idle"
    /\ NoteOverlap
    /\ call' = [call EXCEPT ![r] = c]
    /\ GoTo(r, IF c.kind = "issue" THEN "issuing" ELSE "verifying")
    /\ UNCHANGED <<codes, target, accepted>>

\* issue_otp, first statement: every earlier code of the address and purpose
\* is marked used.
Supersede(r) ==
    /\ pc[r] = "issuing"
    /\ codes' = [i \in Ids |-> IF Live(i) THEN [codes[i] EXCEPT !.state = "used"]
                               ELSE codes[i]]
    /\ GoTo(r, "superseded")
    /\ UNCHANGED <<call, target, accepted, overlapped>>

\* issue_otp, second statement: the new code, bound to the caller's challenge.
Insert(r) ==
    /\ pc[r] = "superseded"
    /\ codes' = Append(codes, [state |-> "live", tries |-> 0,
                               bound |-> call[r].challenge, expired |-> FALSE])
    /\ GoTo(r, "done")
    /\ UNCHANGED <<call, target, accepted, overlapped>>

\* `used = 0 ORDER BY id DESC LIMIT 1`.
Newest(i) == Live(i) /\ \A j \in Ids : Live(j) => j <= i

\* Faulty variant: one guess too many.
Unusable_Late(i) == codes[i].expired \/ codes[i].tries > MaxAttempts

\* The row is expired or out of attempts.
Unusable(i) == codes[i].expired \/ codes[i].tries >= MaxAttempts

\* Faulty variant: the binding to the sign-in is not compared.
Judge_AnySignIn(r, i) ==
    IF Unusable(i) THEN "done" ELSE IF call[r].guess = i THEN "match" ELSE "miss"

\* What verify_otp makes of the row it read.
Judge(r, i) ==
    IF Unusable(i) THEN "done"
    ELSE IF codes[i].bound # call[r].challenge THEN "foreign"
         ELSE IF call[r].guess = i THEN "match" ELSE "miss"

\* verify_otp: the SELECT and every decision taken on its answer.
Read(r) ==
    /\ pc[r] = "verifying"
    /\ \/ /\ \E i \in Ids :
                /\ Newest(i)
                /\ IF Judge(r, i) = "done" THEN End(r, "done")
                   ELSE /\ target' = [target EXCEPT ![r] = i]
                        /\ GoTo(r, Judge(r, i))
       \/ /\ \A i \in Ids : ~Live(i)
          /\ End(r, "done")
    /\ UNCHANGED <<codes, call, accepted, overlapped>>

\* Faulty variant: success does not mark the row used.
Record_NotMarked(r) ==
    /\ pc[r] \in {"match", "miss"}
    /\ codes' = IF codes[target[r]].state = "purged" THEN codes
                ELSE [codes EXCEPT ![target[r]].tries = @ + 1]
    /\ accepted' = IF pc[r] = "match" THEN accepted \cup {<<r, target[r]>>}
                   ELSE accepted
    /\ End(r, "done")
    /\ UNCHANGED <<call, overlapped>>

\* verify_otp: the closing UPDATE by row id.  attempts is incremented in place,
\* but used is overwritten with the outcome of this request.
Record(r) ==
    /\ pc[r] \in {"match", "miss"}
    /\ LET i == target[r]
           outcome == IF pc[r] = "match" THEN "used" ELSE "live"
       IN  /\ codes' = IF codes[i].state = "purged" THEN codes
                       ELSE [codes EXCEPT ![i].state = outcome,
                                          ![i].tries = @ + 1]
           /\ accepted' = IF pc[r] = "match" THEN accepted \cup {<<r, i>>}
                          ELSE accepted
    /\ End(r, "done")
    /\ UNCHANGED <<call, overlapped>>

\* A code presented for another sign-in only costs an attempt.
RecordForeign(r) ==
    /\ pc[r] = "foreign"
    /\ codes' = IF codes[target[r]].state = "purged" THEN codes
                ELSE [codes EXCEPT ![target[r]].tries = @ + 1]
    /\ End(r, "done")
    /\ UNCHANGED <<call, accepted, overlapped>>

\* The thread dies between two statements.
Die(r) ==
    /\ pc[r] \in InFlight
    /\ End(r, "dead")
    /\ UNCHANGED <<codes, call, accepted, overlapped>>

\* otp_ttl_minutes go by.
Expire(i) ==
    /\ ~codes[i].expired
    /\ codes' = [codes EXCEPT ![i].expired = TRUE]
    /\ UNCHANGED <<pc, call, target, accepted, overlapped>>

\* enforce_retention: DELETE ... WHERE used = 1 OR expires_at < now.
Purge ==
    /\ NoteOverlap
    /\ codes' = [i \in Ids |-> IF Live(i) /\ ~codes[i].expired THEN codes[i]
                               ELSE [codes[i] EXCEPT !.state = "purged"]]
    /\ UNCHANGED <<pc, call, target, accepted>>

-----------------------------------------------------------------------------
Calls == IssueCall \cup [kind : {"verify"}, challenge : Challenges, guess : 0..Len(codes)]

Next ==
    \/ \E r \in Requests :
           \/ \E c \in Calls : Begin(r, c)
           \/ Supersede(r) \/ Insert(r)
           \/ Read(r) \/ Record(r) \/ RecordForeign(r)
           \/ Die(r)
    \/ \E i \in Ids : Expire(i)
    \/ Purge

Spec == Init /\ [][Next]_vars

-----------------------------------------------------------------------------
(* Properties of the threaded server *)

\* A code is accepted only from the sign-in it was issued for, however issues
\* and verifications of several sign-ins interleave (auth.py:171-179, F7).
BoundToSignIn ==
    \A a \in accepted : codes[a[2]].bound = call[a[1]].challenge

\* Once the attempt budget of a code is spent and no request still holds the
\* row it read before that, the code is dead for good: no later issue, wrong
\* guess or late write revives its budget, and it is never accepted.
Exhausted(i) ==
    /\ codes[i].tries >= MaxAttempts
    /\ \A r \in Requests : target[r] # i
ExhaustedIsFinal ==
    [][\A i \in Ids : Exhausted(i) =>
          /\ Exhausted(i)'
          /\ \A r \in Requests : <<r, i>> \in accepted' => <<r, i>> \in accepted]_vars

\* auth.py:145 "Your one-time code is": a code is accepted at most once.
RedeemedAtMostOnce == \A a, b \in accepted : a[2] = b[2] => a = b

-----------------------------------------------------------------------------
(* What the module promises, kept until two calls first overlap *)

\* Refinement mapping.  A request that has judged a code in time may still
\* record its verdict after the code expires.
InHand(i) == \E r \in Requests : target[r] = i
Redeemable(i) == Newest(i) /\ (codes[i].expired => InHand(i))
LiveCode == IF \E i \in Ids : Redeemable(i)
            THEN CHOOSE i \in Ids : Redeemable(i) ELSE 0
T == INSTANCE OneTimeCode WITH
        issued <- Len(codes),
        live <- LiveCode,
        tries <- IF LiveCode = 0 THEN 0 ELSE codes[LiveCode].tries,
        redeemed <- {a[2] : a \in accepted}

\* Until two calls overlap, the statements of the two functions implement the
\* atomic token, also when a request dies between them: one code is live, it is
\* redeemed at most once and within its budget, and a spent one never comes back
\* (auth.py:118-184).
ImplementsOneTimeCode == T!Init /\ [][overlapped' \/ T!Next]_(T!token)
=============================================================================
