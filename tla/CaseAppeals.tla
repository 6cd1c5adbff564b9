----------------------------- MODULE CaseAppeals -----------------------------
(***************************************************************************)
(* The fraud desk: engine/cases.py and engine/appeals.py over the tables   *)
(* `cases`, `case_notes` and `appeals`, with the routes that call them and *)
(* the statements of enforce_retention that purge them.  Every statement   *)
(* commits by itself: a request reads, checks what it read, and writes     *)
(* later, and another request may run in between.                          *)
(*                                                                         *)
(* Of a reason code its outcome matters, and whether the evidence it calls *)
(* for was given.  "open" stands for `awaiting_customer` too.  Of a note   *)
(* the outcome it records is kept, or that it is a plain one.  A call that *)
(* is refused before it writes anything is no step.                        *)
(***************************************************************************)
EXTENDS Threads, Naturals, FiniteSets

CONSTANTS
    Ops,        \* the calls offered, some of Calls below
    People,     \* user accounts
    Analysts,   \* those with the admin role
    Cases,      \* rows that may be inserted into cases
    Appeals,    \* rows that may be inserted into appeals
    Outcomes,   \* outcomes of the taxonomy
    Decisions,  \* APPEALABLE
    AutoOpened, \* auto_open_on_decision
    MaxOpen     \* MAX_OPEN_PER_USER

Calls == {"submit", "withdraw", "claim", "review", "open", "detect",
          "comment", "status", "resolve", "reopen", "purge"}
FalsePositive == "false_positive"
NoOne == "no one"
None == "none"
Plain == "plain"

ASSUME OpsAssumption == Ops \subseteq Calls
ASSUME PeopleAssumption == Analysts \subseteq People /\ NoOne \notin People
ASSUME RowsAssumption == None \notin Cases \cup Appeals
ASSUME OutcomesAssumption == FalsePositive \in Outcomes /\ {None, Plain} \cap Outcomes = {}
ASSUME DecisionsAssumption == AutoOpened \subseteq Decisions /\ None \notin Decisions
ASSUME MaxOpenAssumption == MaxOpen \in Nat

VARIABLES
    cases,      \* the rows of cases; resolved_at is set when outcome is
    appeals,    \* the rows of appeals
    noted,      \* the notes of a case: the outcomes they record, and plain ones
    call,       \* what it was asked, and what it read
    given,      \* history: <<outcome, analyst>> of every resolution of a case
    overlapped  \* history: two requests have been in flight at once

vars == <<cases, appeals, noted, pc, call, given, overlapped>>

-----------------------------------------------------------------------------
Unresolved == {"open", "investigating"}
CaseRow == [status : {"absent", "resolved", "purged"} \cup Unresolved,
            user : People \cup {NoOne},
            outcome : Outcomes \cup {None},
            decision : Decisions \cup {None},
            recent : BOOLEAN,       \* created_at >= datetime('now','-1 hour')
            expired : BOOLEAN]      \* resolved_at is past appeal_days
NoCase == [status |-> "absent", user |-> NoOne, outcome |-> None,
           decision |-> None, recent |-> FALSE, expired |-> FALSE]

Waiting == {"submitted", "reviewing"}
Verdicts == {"upheld", "rejected"}
AppealRow == [status : {"absent", "withdrawn", "purged"} \cup Waiting \cup Verdicts,
              user : People \cup {NoOne},
              case : Cases \cup {None},
              reviewer : People \cup {NoOne},
              resolved : BOOLEAN,   \* resolved_at is set
              expired : BOOLEAN]
NoAppeal == [status |-> "absent", user |-> NoOne, case |-> None,
             reviewer |-> NoOne, resolved |-> FALSE, expired |-> FALSE]

CallType == [by : People \cup {NoOne}, appeal : Appeals \cup {None},
             case : Cases \cup {None}, outcome : Outcomes \cup {None},
             decision : Decisions \cup {None}, evidenced : BOOLEAN]
NoCall == [by |-> NoOne, appeal |-> None, case |-> None, outcome |-> None,
           decision |-> None, evidenced |-> FALSE]

InFlight == {"filing", "attaching", "withdrawing", "claiming", "investigating",
             "answering", "checking", "resolving", "noting", "reverting",
             "reopening", "renoting", "commenting", "opening",
             "purging appeals", "purging cases"}

\* The rows, what each request knows, and the history.
RowsOK ==
    /\ cases \in [Cases -> CaseRow]
    /\ appeals \in [Appeals -> AppealRow]
    /\ noted \in [Cases -> SUBSET (Outcomes \cup {Plain})]
    /\ pc \in [Requests -> {"idle", "done", "failed", "dead"} \cup InFlight]
    /\ call \in [Requests -> CallType]
    /\ given \in [Cases -> SUBSET (Outcomes \X People)]
TypeOK == RowsOK /\ overlapped \in BOOLEAN

Init ==
    /\ cases = [c \in Cases |-> NoCase]
    /\ appeals = [a \in Appeals |-> NoAppeal]
    /\ noted = [c \in Cases |-> {}]
    /\ pc = [r \in Requests |-> "idle"]
    /\ call = [r \in Requests |-> NoCall]
    /\ given = [c \in Cases |-> {}]
    /\ overlapped = FALSE

-----------------------------------------------------------------------------
Stored(row) == row.status \notin {"absent", "purged"}
Quiet == \A r \in Requests : pc[r] \notin InFlight

Start(r, op) ==
    /\ pc[r] = "idle" /\ op \in Ops
    /\ overlapped' = (overlapped \/ ~Quiet)
End(r, how) == GoTo(r, how) /\ call' = [call EXCEPT ![r] = NoCall]
Ask(r, where, what) == GoTo(r, where) /\ call' = [call EXCEPT ![r] = what]

\* UPDATE ... WHERE id = ?: nothing happens when the row is gone.
UpdateCase(c, row) ==
    cases' = IF Stored(cases[c]) THEN [cases EXCEPT ![c] = row] ELSE cases
UpdateAppeal(a, row) ==
    appeals' = IF Stored(appeals[a]) THEN [appeals EXCEPT ![a] = row] ELSE appeals

\* INSERT INTO cases.  created_at is local time with a "T", datetime('now') is
\* UTC with a blank: as strings they compare by their dates.  So a case may be found
\* for a day, or not at all, where an hour was meant (cases.py:98-99).
InsertCase(c, p, d) ==
    /\ cases[c].status = "absent"
    /\ \E recent \in BOOLEAN :
           cases' = [cases EXCEPT ![c] =
                       [NoCase EXCEPT !.status = "open", !.user = p, !.decision = d,
                                      !.recent = recent]]

\* INSERT INTO case_notes.
AddNote(c, what) == noted' = [noted EXCEPT ![c] = @ \cup what]

\* The note that ends most calls, or is the whole of one.
Comment(r) ==
    LET c == call[r].case IN
    /\ pc[r] = "commenting" /\ Stored(cases[c])
    /\ AddNote(c, {Plain})
    /\ End(r, "done")
    /\ UNCHANGED <<cases, appeals, given, overlapped>>

-----------------------------------------------------------------------------
(* appeals.submit *)

WaitingAppeals(p) ==
    {a \in Appeals : appeals[a].user = p /\ appeals[a].status \in Waiting}

MayFile(p) == Cardinality(WaitingAppeals(p)) < MaxOpen

CountOpen(r, p) ==
    /\ Start(r, "submit") /\ MayFile(p)
    /\ Ask(r, "filing", [NoCall EXCEPT !.by = p])
    /\ UNCHANGED <<cases, appeals, noted, given>>

\* A subscriber may leave the decision out, or name another than the one made.
OpenAppealCase(r, c, d) ==
    /\ pc[r] = "filing"
    /\ InsertCase(c, call[r].by, d) /\ AddNote(c, {Plain})
    /\ Ask(r, "attaching", [call[r] EXCEPT !.case = c])
    /\ UNCHANGED <<appeals, given, overlapped>>

FileAppeal(r, a) ==
    /\ pc[r] = "attaching" /\ appeals[a].status = "absent"
    /\ appeals' = [appeals EXCEPT ![a] =
                     [NoAppeal EXCEPT !.status = "submitted", !.user = call[r].by,
                                      !.case = call[r].case]]
    /\ GoTo(r, "commenting")
    /\ UNCHANGED <<cases, noted, call, given, overlapped>>

-----------------------------------------------------------------------------
(* appeals.withdraw *)

ReadForWithdraw(r, a) ==
    /\ Start(r, "withdraw") /\ appeals[a].status \in Waiting
    /\ Ask(r, "withdrawing", [NoCall EXCEPT !.by = appeals[a].user, !.appeal = a,
                                            !.case = appeals[a].case])
    /\ UNCHANGED <<cases, appeals, noted, given>>

Withdraw(r) ==
    LET a == call[r].appeal IN
    /\ pc[r] = "withdrawing"
    /\ UpdateAppeal(a, [appeals[a] EXCEPT !.status = "withdrawn",
                                          !.resolved = TRUE, !.expired = FALSE])
    /\ GoTo(r, "commenting")
    /\ UNCHANGED <<cases, noted, call, given, overlapped>>

-----------------------------------------------------------------------------
(* appeals.start_review *)

ReadForClaim(r, p, a) ==
    /\ Start(r, "claim") /\ appeals[a].status = "submitted"
    /\ Ask(r, "claiming", [NoCall EXCEPT !.by = p, !.appeal = a,
                                         !.case = appeals[a].case])
    /\ UNCHANGED <<cases, appeals, noted, given>>

Claim(r) ==
    LET a == call[r].appeal IN
    /\ pc[r] = "claiming"
    /\ UpdateAppeal(a, [appeals[a] EXCEPT !.status = "reviewing",
                                          !.reviewer = call[r].by])
    /\ GoTo(r, "investigating")
    /\ UNCHANGED <<cases, noted, call, given, overlapped>>

\* cases.set_status, which does not look at the status the case has.
Investigate(r) ==
    LET c == call[r].case IN
    /\ pc[r] = "investigating"
    /\ IF Stored(cases[c])
       THEN /\ UpdateCase(c, [cases[c] EXCEPT !.status = "investigating"])
            /\ GoTo(r, "commenting") /\ UNCHANGED call
       ELSE End(r, "done") /\ UNCHANGED cases
    /\ UNCHANGED <<appeals, noted, given, overlapped>>

-----------------------------------------------------------------------------
(* appeals.review and cases.resolve *)

\* Faulty variant: only a verdict counts as an answer.
Answerable_Withdrawn(a) == appeals[a].status \in Waiting \cup {"withdrawn"}

Answerable(a) == appeals[a].status \in Waiting

\* The outcome of the reason code fixes the verdict: a false positive upholds.
ReadForReview(r, p, a, o) ==
    /\ Start(r, "review") /\ Answerable(a) /\ appeals[a].user # p
    /\ \E evidenced \in BOOLEAN :
           Ask(r, "answering", [NoCall EXCEPT !.by = p, !.appeal = a, !.outcome = o,
                                              !.case = appeals[a].case,
                                              !.evidenced = evidenced])
    /\ UNCHANGED <<cases, appeals, noted, given>>

VerdictOf(o) == IF o = FalsePositive THEN "upheld" ELSE "rejected"

AnswerAppeal(r) ==
    LET a == call[r].appeal IN
    /\ pc[r] = "answering"
    /\ UpdateAppeal(a, [appeals[a] EXCEPT !.status = VerdictOf(call[r].outcome),
                                          !.reviewer = call[r].by,
                                          !.resolved = TRUE, !.expired = FALSE])
    /\ GoTo(r, "checking")
    /\ UNCHANGED <<cases, noted, call, given, overlapped>>

\* Faulty variant: one's own case may be resolved.
Resolvable_Own(c, p) == cases[c].status \in Unresolved

\* The checks of cases.resolve on the row it read.
Resolvable(c, p) == cases[c].status \in Unresolved /\ cases[c].user # p

CheckCase(r) ==
    /\ pc[r] = "checking"
    /\ GoTo(r, IF call[r].evidenced /\ Resolvable(call[r].case, call[r].by)
               THEN "resolving" ELSE "reverting")
    /\ UNCHANGED <<cases, appeals, noted, call, given, overlapped>>

ReadForResolve(r, p, c, o) ==
    /\ Start(r, "resolve") /\ Resolvable(c, p)
    /\ Ask(r, "resolving", [NoCall EXCEPT !.by = p, !.case = c, !.outcome = o])
    /\ UNCHANGED <<cases, appeals, noted, given>>

ResolveCase(r) ==
    LET c == call[r].case IN
    /\ pc[r] = "resolving" /\ Stored(cases[c])
    /\ UpdateCase(c, [cases[c] EXCEPT !.status = "resolved",
                                      !.outcome = call[r].outcome, !.expired = FALSE])
    /\ given' = [given EXCEPT ![c] = @ \cup {<<call[r].outcome, call[r].by>>}]
    /\ GoTo(r, "noting")
    /\ UNCHANGED <<appeals, noted, call, overlapped>>

\* The case was purged since it was read: the UPDATE finds no row, and the note
\* that follows it violates its foreign key.
MissCase(r) ==
    /\ pc[r] \in {"resolving", "reopening", "commenting"}
    /\ ~Stored(cases[call[r].case])
    /\ End(r, "failed")
    /\ UNCHANGED <<cases, appeals, noted, given, overlapped>>

NoteOutcome(r) ==
    LET c == call[r].case IN
    /\ pc[r] = "noting"
    /\ AddNote(c, {call[r].outcome})
    /\ End(r, "done")
    /\ UNCHANGED <<cases, appeals, given, overlapped>>

\* Faulty variants of the compensation: it is left out; it forgets resolved_at.
Revert_Not(r) ==
    /\ pc[r] = "reverting"
    /\ End(r, "done")
    /\ UNCHANGED <<cases, appeals, noted, given, overlapped>>

Revert_KeepsStamp(r) ==
    LET a == call[r].appeal IN
    /\ pc[r] = "reverting"
    /\ UpdateAppeal(a, [appeals[a] EXCEPT !.status = "reviewing", !.reviewer = NoOne])
    /\ End(r, "done")
    /\ UNCHANGED <<cases, noted, given, overlapped>>

\* The case could not be resolved, so the answer is taken back.
Revert(r) ==
    LET a == call[r].appeal IN
    /\ pc[r] = "reverting"
    /\ UpdateAppeal(a, [appeals[a] EXCEPT !.status = "reviewing", !.reviewer = NoOne,
                                          !.resolved = FALSE, !.expired = FALSE])
    /\ End(r, "done")
    /\ UNCHANGED <<cases, noted, given, overlapped>>

-----------------------------------------------------------------------------
(* The case queue *)

\* POST /cases, which records no decision and need not have a note.
OpenCase(r, c, p) ==
    /\ Start(r, "open")
    /\ InsertCase(c, p, None)
    /\ \E what \in SUBSET {Plain} : AddNote(c, what)
    /\ End(r, "done")
    /\ UNCHANGED <<appeals, given>>

\* What the SELECT of auto_open_for_decision finds.
UnderInvestigation(p, d) ==
    \E c \in Cases : /\ cases[c].user = p /\ cases[c].decision = d
                     /\ cases[c].status \in Unresolved /\ cases[c].recent

\* auto_open_for_decision: look for a case of the same decision, or open one.
LookForCase(r, p, d) ==
    /\ Start(r, "detect")
    /\ IF UnderInvestigation(p, d)
       THEN End(r, "done")
       ELSE Ask(r, "opening", [NoCall EXCEPT !.by = p, !.decision = d])
    /\ UNCHANGED <<cases, appeals, noted, given>>

OpenDetectorCase(r, c) ==
    /\ pc[r] = "opening"
    /\ InsertCase(c, call[r].by, call[r].decision) /\ AddNote(c, {Plain})
    /\ End(r, "done")
    /\ UNCHANGED <<appeals, given, overlapped>>

\* POST /cases/<id>/notes, and assign, whose other column nothing here reads.
ReadForComment(r, c) ==
    /\ Start(r, "comment") /\ Stored(cases[c])
    /\ Ask(r, "commenting", [NoCall EXCEPT !.case = c])
    /\ UNCHANGED <<cases, appeals, noted, given>>

SetStatus(r, c, s) ==
    /\ Start(r, "status") /\ Stored(cases[c])
    /\ UpdateCase(c, [cases[c] EXCEPT !.status = s])
    /\ Ask(r, "commenting", [NoCall EXCEPT !.case = c])
    /\ UNCHANGED <<appeals, noted, given>>

ReadForReopen(r, c) ==
    /\ Start(r, "reopen") /\ Stored(cases[c])
    /\ Ask(r, "reopening", [NoCall EXCEPT !.case = c, !.outcome = cases[c].outcome])
    /\ UNCHANGED <<cases, appeals, noted, given>>

ReopenCase(r) ==
    LET c == call[r].case IN
    /\ pc[r] = "reopening" /\ Stored(cases[c])
    /\ UpdateCase(c, [cases[c] EXCEPT !.status = "investigating", !.outcome = None,
                                      !.expired = FALSE])
    /\ GoTo(r, "renoting")
    /\ UNCHANGED <<appeals, noted, call, given, overlapped>>

\* "Reopened (was ...)".
NoteReopened(r) ==
    LET c == call[r].case IN
    /\ pc[r] = "renoting"
    /\ AddNote(c, IF call[r].outcome = None THEN {Plain} ELSE {call[r].outcome})
    /\ End(r, "done")
    /\ UNCHANGED <<cases, appeals, given, overlapped>>

-----------------------------------------------------------------------------
(* enforce_retention, one DELETE after the other *)

PurgeNotes(r) ==
    /\ Start(r, "purge")
    /\ noted' = [c \in Cases |-> IF cases[c].expired THEN {} ELSE noted[c]]
    /\ given' = [c \in Cases |-> IF cases[c].expired THEN {} ELSE given[c]]
    /\ GoTo(r, "purging appeals")
    /\ UNCHANGED <<cases, appeals, call>>

PurgeAppeals(r) ==
    /\ pc[r] = "purging appeals"
    /\ appeals' = [a \in Appeals |-> IF appeals[a].expired
                                     THEN [NoAppeal EXCEPT !.status = "purged"]
                                     ELSE appeals[a]]
    /\ GoTo(r, "purging cases")
    /\ UNCHANGED <<cases, noted, call, given, overlapped>>

\* Faulty variant: a case is deleted under the appeal that refers to it.
Referenced_Never(c) == FALSE

\* By an appeal, or by a note written since the notes were purged.
Referenced(c) ==
    \/ \E a \in Appeals : Stored(appeals[a]) /\ appeals[a].case = c
    \/ noted[c] # {}

\* One row that may not go fails the whole statement, and the call with it.
PurgeCases(r) ==
    /\ pc[r] = "purging cases"
    /\ IF \E c \in Cases : cases[c].expired /\ Referenced(c)
       THEN End(r, "failed") /\ UNCHANGED cases
       ELSE /\ cases' = [c \in Cases |-> IF cases[c].expired
                                         THEN [NoCase EXCEPT !.status = "purged"]
                                         ELSE cases[c]]
            /\ End(r, "done")
    /\ UNCHANGED <<appeals, noted, given, overlapped>>

\* The date of a case is over.
Wait ==
    /\ Quiet /\ "detect" \in Ops
    /\ \E c \in Cases : cases[c].recent /\ cases' = [cases EXCEPT ![c].recent = FALSE]
    /\ UNCHANGED <<appeals, noted, pc, call, given, overlapped>>

\* appeal_days go by.
Age ==
    /\ Quiet /\ "purge" \in Ops
    /\ cases' = [c \in Cases |-> [cases[c] EXCEPT !.recent = FALSE,
                                                  !.expired = (cases[c].outcome # None)]]
    /\ appeals' = [a \in Appeals |-> [appeals[a] EXCEPT !.expired = appeals[a].resolved]]
    /\ <<cases', appeals'>> # <<cases, appeals>>
    /\ UNCHANGED <<noted, pc, call, given, overlapped>>

Die(r) ==
    /\ pc[r] \in InFlight
    /\ End(r, "dead")
    /\ UNCHANGED <<cases, appeals, noted, given, overlapped>>

-----------------------------------------------------------------------------
Subscriber(r) ==
    \/ \E p \in People : CountOpen(r, p)
    \/ \E c \in Cases, d \in Decisions \cup {None} : OpenAppealCase(r, c, d)
    \/ \E a \in Appeals : FileAppeal(r, a) \/ ReadForWithdraw(r, a)
    \/ Withdraw(r)

Reviewer(r) ==
    \/ \E p \in Analysts, a \in Appeals :
           \/ ReadForClaim(r, p, a)
           \/ \E o \in Outcomes : ReadForReview(r, p, a, o)
    \/ Claim(r) \/ Investigate(r) \/ AnswerAppeal(r) \/ CheckCase(r) \/ Revert(r)

Desk(r) ==
    \/ \E c \in Cases :
           \/ \E p \in Analysts, o \in Outcomes : ReadForResolve(r, p, c, o)
           \/ \E p \in People \cup {NoOne} : OpenCase(r, c, p)
           \/ OpenDetectorCase(r, c) \/ ReadForComment(r, c)
           \/ \E s \in Unresolved : SetStatus(r, c, s)
           \/ ReadForReopen(r, c)
    \/ \E p \in People, d \in AutoOpened : LookForCase(r, p, d)
    \/ ResolveCase(r) \/ MissCase(r) \/ NoteOutcome(r) \/ ReopenCase(r) \/ NoteReopened(r)
    \/ Comment(r)

Retention(r) == PurgeNotes(r) \/ PurgeAppeals(r) \/ PurgeCases(r)

Next ==
    \/ \E r \in Requests :
           Subscriber(r) \/ Reviewer(r) \/ Desk(r) \/ Retention(r) \/ Die(r)
    \/ Wait \/ Age

Spec == Init /\ [][Next]_vars

-----------------------------------------------------------------------------
(* Properties *)

\* The thread of a request that dies stops between two statements.
NobodyDied == \A r \in Requests : pc[r] # "dead"

BeingReviewed(a) ==
    \E r \in Requests : /\ call[r].appeal = a
                        /\ pc[r] \in {"checking", "resolving", "noting", "reverting"}

\* appeals.py:206-208: a verdict that stands was noted on the appeal's case as
\* an outcome of that kind, also when reviews, withdrawals and reopenings race.
VerdictIsBacked ==
    NobodyDied =>
        \A a \in Appeals :
            appeals[a].status \in Verdicts /\ ~appeals[a].expired /\ ~BeingReviewed(a)
            => \E o \in noted[appeals[a].case] \cap Outcomes :
                   VerdictOf(o) = appeals[a].status

\* cases.py:270-272: every outcome a case was ever given is in its notes, or
\* the request that gave it is about to write it there.
OutcomeIsNoted ==
    NobodyDied =>
        \A c \in Cases : \A g \in given[c] :
            \/ g[1] \in noted[c]
            \/ \E r \in Requests :
                   pc[r] = "noting" /\ call[r].case = c /\ call[r].outcome = g[1]

\* cases.py:26-28: nobody ever gave an outcome to a case about their own
\* account, nor stands as the reviewer of a verdict on their own appeal.
SeparationOfDuties ==
    /\ \A c \in Cases : \A g \in given[c] :
           Stored(cases[c]) => g[2] # cases[c].user
    /\ \A a \in Appeals :
           appeals[a].status \in Verdicts => appeals[a].reviewer # appeals[a].user

\* appeals.py:152,176: until requests overlap, an answered or withdrawn appeal
\* stays as it is until retention deletes it, even if the request that answers
\* it dies half way.
AnsweredStaysAnswered ==
    [][\A a \in Appeals :
          /\ ~overlapped'
          /\ appeals[a].status \in Verdicts \cup {"withdrawn"} /\ ~BeingReviewed(a)
          => appeals'[a].status \in {appeals[a].status, "purged"}]_vars

\* test_appeals_feedback.py:334: until requests overlap, an appeal nobody answered
\* is never purged, also when an answer to it was given and taken back.
UnansweredIsKept ==
    [][\A a \in Appeals :
          ~overlapped' /\ appeals[a].status \in Waiting
          => appeals'[a].status # "purged"]_vars

\* compliance.py:506: no appeal is left behind without its case, however purges
\* interleave with the requests that reopen and resolve it.
AppealsHaveTheirCase ==
    \A a \in Appeals : Stored(appeals[a]) => Stored(cases[appeals[a].case])

\* compliance.py:498-500: "an open case must never be purged".
OpenCaseIsKept ==
    [][\A c \in Cases :
          cases[c].status \in Unresolved => cases'[c].status # "purged"]_vars
=============================================================================
