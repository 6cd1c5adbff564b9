-------------------------- MODULE CaseAppealsProofs --------------------------
(***************************************************************************)
(* Theorems about CaseAppeals for any number of requests, people and rows, *)
(* with every interleaving and every failure the model has.                *)
(***************************************************************************)
EXTENDS CaseAppeals, TLAPS

Deciding == {"answering", "checking", "resolving", "noting"}

\* An appeal, and a request about to file or decide one, knows a case.
Attached ==
    /\ \A a \in Appeals : Stored(appeals[a]) => appeals[a].case \in Cases
    /\ \A r \in Requests :
           pc[r] \in Deciding \cup {"attaching"} => call[r].case \in Cases

\* A request that decides an appeal is not deciding its own.
Answering ==
    \A r \in Requests :
        /\ pc[r] \in Deciding => call[r].by \in People /\ call[r].outcome \in Outcomes
        /\ pc[r] = "answering" =>
               LET a == call[r].appeal IN
               /\ a \in Appeals /\ appeals[a].status # "absent"
               /\ Stored(appeals[a]) => appeals[a].user # call[r].by

\* Nor is one that resolves a case.
Resolving ==
    \A r \in Requests :
        pc[r] \in {"resolving", "noting"} =>
            LET c == call[r].case IN
            /\ cases[c].status # "absent"
            /\ Stored(cases[c]) => cases[c].user # call[r].by

\* Rows that were never inserted have no history.
NoHistory == \A c \in Cases : cases[c].status = "absent" => given[c] = {}

Inv == RowsOK /\ Attached /\ Answering /\ Resolving /\ NoHistory /\ SeparationOfDuties

-----------------------------------------------------------------------------
(* What a statement does to the two tables *)

\* Rows are not inserted, and keep their owner as long as they are there.
CasesKept ==
    /\ cases' \in [Cases -> CaseRow]
    /\ \A c \in Cases : /\ cases'[c].status = "absent" => cases[c].status = "absent"
                        /\ Stored(cases'[c]) => /\ Stored(cases[c])
                                                /\ cases'[c].user = cases[c].user

\* Likewise for appeals; a verdict that appears is not the owner's.
AppealsKept ==
    /\ appeals' \in [Appeals -> AppealRow]
    /\ \A a \in Appeals :
           /\ appeals'[a].status = "absent" => appeals[a].status = "absent"
           /\ Stored(appeals'[a]) => /\ Stored(appeals[a])
                                     /\ appeals'[a].user = appeals[a].user
                                     /\ appeals'[a].case = appeals[a].case
           /\ appeals'[a].status \in Verdicts => appeals'[a].reviewer # appeals'[a].user

CallsKept(r) ==
    /\ pc' \in [Requests -> {"idle", "done", "failed", "dead"} \cup InFlight]
    /\ call' \in [Requests -> CallType]
    /\ \A q \in Requests \ {r} : pc'[q] = pc[q] /\ call'[q] = call[q]

\* What is left to show of the request that moved.
Entitled(r) ==
    /\ pc'[r] \in Deciding \cup {"attaching"} => call'[r].case \in Cases
    /\ pc'[r] \in Deciding => call'[r].by \in People /\ call'[r].outcome \in Outcomes
    /\ pc'[r] = "answering" =>
           /\ call'[r].appeal \in Appeals
           /\ appeals'[call'[r].appeal].status # "absent"
           /\ Stored(appeals'[call'[r].appeal])
              => appeals'[call'[r].appeal].user # call'[r].by
    /\ pc'[r] \in {"resolving", "noting"} =>
           /\ cases'[call'[r].case].status # "absent"
           /\ Stored(cases'[call'[r].case])
              => cases'[call'[r].case].user # call'[r].by

\* A request that is answered, fails or dies.
LEMMA EndKeeps ==
  ASSUME Inv, NEW r \in Requests, NEW how \in {"done", "failed", "dead"}, End(r, how)
  PROVE  CallsKept(r) /\ Entitled(r) /\ pc'[r] = how
  BY DEF End, GoTo, CallsKept, Entitled, Deciding, Inv, RowsOK, CallType, NoCall

LEMMA CasesUnchanged == ASSUME Inv, UNCHANGED cases PROVE CasesKept
  BY DEF Inv, RowsOK, CasesKept

LEMMA AppealsUnchanged == ASSUME Inv, UNCHANGED appeals PROVE AppealsKept
  BY DEF Inv, RowsOK, AppealsKept, SeparationOfDuties

\* An UPDATE of a case that leaves its owner alone.
LEMMA CaseUpdated ==
  ASSUME Inv, NEW c \in Cases \cup {None}, NEW row, UpdateCase(c, row),
         c \in Cases => /\ row \in CaseRow
                        /\ row.status \notin {"absent", "purged"}
                        /\ row.user = cases[c].user
  PROVE  CasesKept
  <1>1. CASE c \in Cases /\ Stored(cases[c])
    BY <1>1 DEF Inv, RowsOK, CasesKept, UpdateCase, Stored
  <1>2. CASE c \notin Cases \/ ~Stored(cases[c])
    <2>1. cases' = cases
      BY <1>2 DEF Inv, RowsOK, UpdateCase
    <2> QED
      BY <2>1, CasesUnchanged
  <1> QED
    BY <1>1, <1>2

\* An UPDATE of an appeal that leaves its owner and its case alone.
LEMMA AppealUpdated ==
  ASSUME Inv, NEW a \in Appeals \cup {None}, NEW row, UpdateAppeal(a, row),
         a \in Appeals => /\ row \in AppealRow
                          /\ row.status \notin {"absent", "purged"}
                          /\ row.user = appeals[a].user /\ row.case = appeals[a].case
                          /\ Stored(appeals[a]) /\ row.status \in Verdicts
                             => row.reviewer # row.user
  PROVE  AppealsKept
  <1>1. CASE a \in Appeals /\ Stored(appeals[a])
    BY <1>1 DEF Inv, RowsOK, AppealsKept, UpdateAppeal, Stored, SeparationOfDuties
  <1>2. CASE a \notin Appeals \/ ~Stored(appeals[a])
    <2>1. appeals' = appeals
      BY <1>2 DEF Inv, RowsOK, UpdateAppeal
    <2> QED
      BY <2>1, AppealsUnchanged
  <1> QED
    BY <1>1, <1>2

\* A step that keeps both tables, and a request entitled to where it goes,
\* preserve the invariant.
LEMMA KeptStep ==
  ASSUME Inv, NEW r \in Requests, CasesKept, AppealsKept, CallsKept(r), Entitled(r),
         noted' \in [Cases -> SUBSET (Outcomes \cup {Plain})],
         given' \in [Cases -> SUBSET (Outcomes \X People)],
         \A c \in Cases : \A g \in given'[c] :
             \/ g \in given[c]
             \/ /\ cases[c].status # "absent"
                /\ Stored(cases[c]) => g[2] # cases[c].user
  PROVE  Inv'
  <1>1. RowsOK'
    BY DEF Inv, RowsOK, CasesKept, AppealsKept, CallsKept
  <1>2. Attached'
    BY DEF Inv, Attached, AppealsKept, CallsKept, Entitled
  <1>3. Answering'
    <2> SUFFICES ASSUME NEW q \in Requests \ {r},
                        pc[q] = "answering"
                 PROVE  LET a == call[q].appeal IN
                        /\ a \in Appeals /\ appeals'[a].status # "absent"
                        /\ Stored(appeals'[a]) => appeals'[a].user # call[q].by
      BY DEF Inv, Answering, CallsKept, Entitled
    <2> QED
      BY DEF Inv, Answering, AppealsKept
  <1>4. Resolving'
    <2> SUFFICES ASSUME NEW q \in Requests \ {r},
                        pc[q] \in {"resolving", "noting"}
                 PROVE  LET c == call[q].case IN
                        /\ cases'[c].status # "absent"
                        /\ Stored(cases'[c]) => cases'[c].user # call[q].by
      BY DEF Resolving, CallsKept, Entitled
    <2>1. call[q].case \in Cases
      BY DEF Inv, Attached, Deciding
    <2> QED
      BY <2>1 DEF Inv, Resolving, CasesKept
  <1>5. NoHistory'
    BY DEF Inv, NoHistory, CasesKept
  <1>6. SeparationOfDuties'
    BY DEF Inv, SeparationOfDuties, CasesKept, AppealsKept
  <1> QED
    BY <1>1, <1>2, <1>3, <1>4, <1>5, <1>6 DEF Inv

\* Inserting a case touches no row, and no request was about to resolve it.
LEMMA InsertStep ==
  ASSUME Inv, NEW r \in Requests, NEW c \in Cases, NEW p \in People \cup {NoOne},
         NEW d \in Decisions \cup {None}, InsertCase(c, p, d), AppealsKept, CallsKept(r),
         pc'[r] \in {"attaching", "done"}, pc'[r] = "attaching" => call'[r].case \in Cases,
         NEW what \in SUBSET {Plain}, AddNote(c, what), UNCHANGED <<appeals, given>>
  PROVE  Inv'
  <1>1. /\ cases[c].status = "absent"
        /\ cases' \in [Cases -> CaseRow] /\ cases'[c].status # "absent"
        /\ \A e \in Cases \ {c} : cases'[e] = cases[e]
    <2>1. PICK recent \in BOOLEAN :
              cases' = [cases EXCEPT ![c] =
                          [NoCase EXCEPT !.status = "open", !.user = p, !.decision = d,
                                         !.recent = recent]]
      BY DEF InsertCase
    <2> DEFINE row == [NoCase EXCEPT !.status = "open", !.user = p, !.decision = d,
                                     !.recent = recent]
    <2>2. row \in CaseRow /\ row.status = "open"
      BY DEF CaseRow, NoCase, Unresolved
    <2>3. cases' = [cases EXCEPT ![c] = row] /\ cases[c].status = "absent"
      BY <2>1 DEF InsertCase
    <2> HIDE DEF row
    <2> QED
      BY <2>2, <2>3 DEF Inv, RowsOK
  <1>2. RowsOK'
    <2>1. noted' \in [Cases -> SUBSET (Outcomes \cup {Plain})]
      BY DEF AddNote, Inv, RowsOK
    <2> QED
      BY <1>1, <2>1 DEF Inv, RowsOK, CallsKept
  <1>3. Attached'
    BY DEF Inv, Attached, CallsKept, Deciding
  <1>4. Answering'
    BY DEF Inv, Answering, CallsKept, Deciding
  <1>5. Resolving'
    <2> SUFFICES ASSUME NEW q \in Requests \ {r},
                        pc[q] \in {"resolving", "noting"}
                 PROVE  LET e == call[q].case IN
                        /\ cases'[e].status # "absent"
                        /\ Stored(cases'[e]) => cases'[e].user # call[q].by
      BY DEF Resolving, CallsKept
    <2>1. call[q].case \in Cases \ {c}
      BY <1>1 DEF Inv, Attached, Resolving, Deciding
    <2> QED
      BY <1>1, <2>1 DEF Inv, Resolving
  <1>6. given[c] = {}
    BY <1>1 DEF Inv, NoHistory
  <1>7. NoHistory'
    BY <1>1 DEF Inv, NoHistory
  <1>8. SeparationOfDuties'
    BY <1>1, <1>6 DEF Inv, SeparationOfDuties
  <1> QED
    BY <1>2, <1>3, <1>4, <1>5, <1>7, <1>8 DEF Inv

LEMMA InvInit == Init => Inv
  BY DEF Init, Inv, RowsOK, Attached, Answering, Resolving, NoHistory,
         SeparationOfDuties, NoCase, NoAppeal, NoCall, CaseRow, AppealRow, CallType,
         Unresolved, Waiting, Verdicts, Stored, Deciding

-----------------------------------------------------------------------------
(* The steps *)

LEMMA SubscriberStep ==
  ASSUME Inv, NEW r \in Requests, Subscriber(r)
  PROVE  Inv'
  <1> USE DEF GoTo, End, Ask
  <1>1. ASSUME NEW p \in People, CountOpen(r, p)
        PROVE  Inv'
    <2>1. CallsKept(r) /\ pc'[r] = "filing"
      BY <1>1 DEF CountOpen, CallsKept, Inv, RowsOK, CallType, NoCall, InFlight
    <2>2. Entitled(r)
      BY <2>1 DEF Entitled, Deciding
    <2>3. UNCHANGED <<cases, appeals, noted, given>>
      BY <1>1 DEF CountOpen
    <2> QED
      BY <2>1, <2>2, <2>3, CasesUnchanged, AppealsUnchanged, KeptStep DEF Inv, RowsOK
  <1>2. ASSUME NEW c \in Cases, NEW d \in Decisions \cup {None}, OpenAppealCase(r, c, d)
        PROVE  Inv'
    <2>0. /\ pc \in [Requests -> {"idle", "done", "failed", "dead"} \cup InFlight]
          /\ call \in [Requests -> CallType] /\ [call[r] EXCEPT !.case = c] \in CallType
      BY DEF Inv, RowsOK, CallType
    <2>1. CallsKept(r) /\ pc'[r] = "attaching" /\ call'[r].case = c
      BY <1>2, <2>0 DEF OpenAppealCase, CallsKept, CallType, InFlight
    <2>2. call[r].by \in People \cup {NoOne}
      BY DEF Inv, RowsOK, CallType
    <2> QED
      BY <1>2, <2>1, <2>2, AppealsUnchanged, InsertStep DEF OpenAppealCase
  <1>3. ASSUME NEW a \in Appeals, FileAppeal(r, a)
        PROVE  Inv'
    <2>1. /\ CallsKept(r) /\ pc'[r] = "commenting"
          /\ UNCHANGED <<cases, noted, given>>
      BY <1>3 DEF FileAppeal, CallsKept, Inv, RowsOK, InFlight
    <2>2. call[r].case \in Cases /\ call[r].by \in People \cup {NoOne}
      BY <1>3 DEF FileAppeal, Inv, Attached, RowsOK, CallType
    <2>3. /\ appeals[a].status = "absent"
          /\ appeals' \in [Appeals -> AppealRow]
          /\ appeals'[a].status = "submitted" /\ appeals'[a].case \in Cases
          /\ \A b \in Appeals \ {a} : appeals'[b] = appeals[b]
      BY <1>3, <2>2 DEF FileAppeal, Inv, RowsOK, AppealRow, NoAppeal, Waiting
    <2>4. RowsOK' /\ NoHistory' /\ Resolving'
      BY <2>1, <2>3 DEF Inv, RowsOK, CallsKept, NoHistory, Resolving
    <2>5. Attached'
      BY <2>1, <2>3 DEF Inv, Attached, CallsKept, Deciding
    <2>6. Answering'
      <3> SUFFICES ASSUME NEW q \in Requests \ {r}, pc[q] = "answering"
                   PROVE  LET b == call[q].appeal IN
                          /\ b \in Appeals /\ appeals'[b].status # "absent"
                          /\ Stored(appeals'[b]) => appeals'[b].user # call[q].by
        BY <2>1 DEF Inv, Answering, CallsKept, Deciding
      <3>1. call[q].appeal \in Appeals \ {a}
        BY <2>3 DEF Inv, Answering
      <3> QED
        BY <2>3, <3>1 DEF Inv, Answering
    <2>7. SeparationOfDuties'
      BY <2>1, <2>3 DEF Inv, SeparationOfDuties, Verdicts
    <2> QED
      BY <2>4, <2>5, <2>6, <2>7 DEF Inv
  <1>4. ASSUME NEW a \in Appeals, ReadForWithdraw(r, a)
        PROVE  Inv'
    <2>0. appeals[a] \in AppealRow
      BY DEF Inv, RowsOK
    <2>1. CallsKept(r) /\ pc'[r] = "withdrawing"
      BY <1>4, <2>0 DEF ReadForWithdraw, CallsKept, Inv, RowsOK, CallType, NoCall,
                        InFlight, AppealRow
    <2>2. Entitled(r)
      BY <2>1 DEF Entitled, Deciding
    <2>3. UNCHANGED <<cases, appeals, noted, given>>
      BY <1>4 DEF ReadForWithdraw
    <2> QED
      BY <2>1, <2>2, <2>3, CasesUnchanged, AppealsUnchanged, KeptStep DEF Inv, RowsOK
  <1>5. ASSUME Withdraw(r)
        PROVE  Inv'
    <2> DEFINE a == call[r].appeal
    <2>1. /\ CallsKept(r) /\ pc'[r] = "commenting"
          /\ UNCHANGED <<cases, noted, given>>
      BY <1>5 DEF Withdraw, CallsKept, Inv, RowsOK, InFlight
    <2>2. a \in Appeals \cup {None}
      BY DEF Inv, RowsOK, CallType
    <2>3. AppealsKept
      <3> DEFINE row == [appeals[a] EXCEPT !.status = "withdrawn",
                                           !.resolved = TRUE, !.expired = FALSE]
      <3>1. UpdateAppeal(a, row)
        BY <1>5 DEF Withdraw
      <3>2. ASSUME a \in Appeals
            PROVE  /\ row \in AppealRow
                   /\ row.status \notin {"absent", "purged"} \cup Verdicts
                   /\ row.user = appeals[a].user /\ row.case = appeals[a].case
        <4>1. appeals[a] \in AppealRow
          BY <3>2 DEF Inv, RowsOK
        <4> QED
          BY <4>1 DEF AppealRow, Verdicts
      <3> HIDE DEF row, a
      <3> QED
        BY <2>2, <3>1, <3>2, AppealUpdated
    <2>4. Entitled(r)
      BY <2>1 DEF Entitled, Deciding
    <2> QED
      BY <2>1, <2>3, <2>4, CasesUnchanged, KeptStep DEF Inv, RowsOK
  <1> QED
    BY <1>1, <1>2, <1>3, <1>4, <1>5 DEF Subscriber

LEMMA ReviewerStep ==
  ASSUME Inv, NEW r \in Requests, Reviewer(r)
  PROVE  Inv'
  <1> USE DEF GoTo, End, Ask
  <1>1. ASSUME NEW p \in Analysts, NEW a \in Appeals, ReadForClaim(r, p, a)
        PROVE  Inv'
    <2>1. appeals[a] \in AppealRow /\ p \in People
      BY PeopleAssumption DEF Inv, RowsOK
    <2>2. CallsKept(r) /\ pc'[r] = "claiming"
      BY <1>1, <2>1 DEF ReadForClaim, CallsKept, Inv, RowsOK, CallType, NoCall,
                        InFlight, AppealRow
    <2>3. Entitled(r)
      BY <2>2 DEF Entitled, Deciding
    <2>4. UNCHANGED <<cases, appeals, noted, given>>
      BY <1>1 DEF ReadForClaim
    <2> QED
      BY <2>2, <2>3, <2>4, CasesUnchanged, AppealsUnchanged, KeptStep DEF Inv, RowsOK
  <1>2. ASSUME NEW p \in Analysts, NEW a \in Appeals, NEW o \in Outcomes,
               ReadForReview(r, p, a, o)
        PROVE  Inv'
    <2>1. /\ appeals[a] \in AppealRow /\ p \in People
          /\ appeals[a].status \in Waiting /\ appeals[a].user # p
      BY <1>2, PeopleAssumption DEF ReadForReview, Answerable, Inv, RowsOK
    <2>2. Stored(appeals[a]) /\ appeals[a].case \in Cases
      BY <2>1 DEF Stored, Waiting, Inv, Attached
    <2>3. PICK e \in BOOLEAN :
              Ask(r, "answering", [NoCall EXCEPT !.by = p, !.appeal = a, !.outcome = o,
                                                 !.case = appeals[a].case,
                                                 !.evidenced = e])
      BY <1>2 DEF ReadForReview
    <2>4. CallsKept(r)
      BY <2>1, <2>2, <2>3 DEF CallsKept, Inv, RowsOK, CallType, NoCall, InFlight
    <2>5. UNCHANGED <<cases, appeals, noted, given>>
      BY <1>2 DEF ReadForReview
    <2>6. /\ pc'[r] = "answering" /\ call'[r].by = p /\ call'[r].appeal = a
          /\ call'[r].case = appeals[a].case /\ call'[r].outcome = o
      BY <2>3 DEF Inv, RowsOK, NoCall
    <2>7. Entitled(r)
      BY <2>1, <2>2, <2>5, <2>6 DEF Entitled, Deciding, Stored
    <2> QED
      BY <2>4, <2>5, <2>7, CasesUnchanged, AppealsUnchanged, KeptStep DEF Inv, RowsOK
  <1>3. ASSUME Claim(r)
        PROVE  Inv'
    <2> DEFINE a == call[r].appeal
               row == [appeals[a] EXCEPT !.status = "reviewing", !.reviewer = call[r].by]
    <2>1. /\ CallsKept(r) /\ pc'[r] = "investigating"
          /\ UNCHANGED <<cases, noted, given>>
      BY <1>3 DEF Claim, CallsKept, Inv, RowsOK, InFlight
    <2>2. a \in Appeals \cup {None} /\ call[r].by \in People \cup {NoOne}
      BY DEF Inv, RowsOK, CallType
    <2>3. ASSUME a \in Appeals
          PROVE  /\ row \in AppealRow
                 /\ row.status \notin {"absent", "purged"} \cup Verdicts
                 /\ row.user = appeals[a].user /\ row.case = appeals[a].case
      <3>1. appeals[a] \in AppealRow
        BY <2>3 DEF Inv, RowsOK
      <3> QED
        BY <2>2, <3>1 DEF AppealRow, Verdicts, Waiting
    <2>4. UpdateAppeal(a, row)
      BY <1>3 DEF Claim
    <2>5. Entitled(r)
      BY <2>1 DEF Entitled, Deciding
    <2> HIDE DEF a, row
    <2>6. AppealsKept
      BY <2>2, <2>3, <2>4, AppealUpdated
    <2> QED
      BY <2>1, <2>5, <2>6, CasesUnchanged, KeptStep DEF Inv, RowsOK
  <1>4. ASSUME Investigate(r)
        PROVE  Inv'
    <2> DEFINE c == call[r].case
               row == [cases[c] EXCEPT !.status = "investigating"]
    <2>1. /\ CallsKept(r) /\ pc'[r] \in {"commenting", "done"}
          /\ UNCHANGED <<appeals, noted, given>>
      <3>1. CASE Stored(cases[c])
        BY <1>4, <3>1 DEF Investigate, CallsKept, Inv, RowsOK, InFlight
      <3>2. CASE ~Stored(cases[c])
        BY <1>4, <3>2, EndKeeps DEF Investigate
      <3> QED
        BY <3>1, <3>2
    <2>2. c \in Cases \cup {None}
      BY DEF Inv, RowsOK, CallType
    <2>3. ASSUME c \in Cases
          PROVE  /\ row \in CaseRow /\ row.status \notin {"absent", "purged"}
                 /\ row.user = cases[c].user
      <3>1. cases[c] \in CaseRow
        BY <2>3 DEF Inv, RowsOK
      <3> QED
        BY <3>1 DEF CaseRow, Unresolved
    <2>4. UpdateCase(c, row) \/ UNCHANGED cases
      BY <1>4 DEF Investigate
    <2>5. Entitled(r)
      BY <2>1 DEF Entitled, Deciding
    <2> HIDE DEF c, row
    <2>6. CasesKept
      BY <2>2, <2>3, <2>4, CaseUpdated, CasesUnchanged
    <2> QED
      BY <2>1, <2>5, <2>6, AppealsUnchanged, KeptStep DEF Inv, RowsOK
  <1>5. ASSUME AnswerAppeal(r)
        PROVE  Inv'
    <2> DEFINE a == call[r].appeal
               row == [appeals[a] EXCEPT !.status = VerdictOf(call[r].outcome),
                                         !.reviewer = call[r].by,
                                         !.resolved = TRUE, !.expired = FALSE]
    <2>1. /\ CallsKept(r) /\ pc'[r] = "checking" /\ call'[r] = call[r]
          /\ UNCHANGED <<cases, noted, given>>
      BY <1>5 DEF AnswerAppeal, CallsKept, Inv, RowsOK, InFlight
    <2>2. /\ a \in Appeals /\ call[r].by \in People /\ call[r].outcome \in Outcomes
          /\ call[r].case \in Cases
          /\ Stored(appeals[a]) => appeals[a].user # call[r].by
      BY <1>5 DEF AnswerAppeal, Inv, Answering, Attached, Deciding
    <2>3. /\ row \in AppealRow /\ row.status \notin {"absent", "purged"}
          /\ row.user = appeals[a].user /\ row.case = appeals[a].case
          /\ Stored(appeals[a]) => row.reviewer # row.user
      <3>1. appeals[a] \in AppealRow
        BY <2>2 DEF Inv, RowsOK
      <3> QED
        BY <2>2, <3>1 DEF AppealRow, Verdicts, VerdictOf
    <2>4. UpdateAppeal(a, row)
      BY <1>5 DEF AnswerAppeal
    <2>5. Entitled(r)
      BY <2>1, <2>2 DEF Entitled, Deciding
    <2> HIDE DEF a, row
    <2>6. AppealsKept
      BY <2>2, <2>3, <2>4, AppealUpdated
    <2> QED
      BY <2>1, <2>5, <2>6, CasesUnchanged, KeptStep DEF Inv, RowsOK
  <1>6. ASSUME CheckCase(r)
        PROVE  Inv'
    <2>1. /\ CallsKept(r) /\ call'[r] = call[r]
          /\ pc'[r] \in {"resolving", "reverting"}
          /\ UNCHANGED <<cases, appeals, noted, given>>
      BY <1>6 DEF CheckCase, CallsKept, Inv, RowsOK, InFlight
    <2>2. /\ call[r].by \in People /\ call[r].outcome \in Outcomes
          /\ call[r].case \in Cases
      BY <1>6 DEF CheckCase, Inv, Answering, Attached, Deciding
    <2>3. pc'[r] = "resolving" => Resolvable(call[r].case, call[r].by)
      BY <1>6 DEF CheckCase, Inv, RowsOK
    <2>4. Entitled(r)
      BY <2>1, <2>2, <2>3 DEF Entitled, Deciding, Resolvable, Unresolved
    <2> QED
      BY <2>1, <2>4, CasesUnchanged, AppealsUnchanged, KeptStep DEF Inv, RowsOK
  <1>7. ASSUME Revert(r)
        PROVE  Inv'
    <2> DEFINE a == call[r].appeal
               row == [appeals[a] EXCEPT !.status = "reviewing", !.reviewer = NoOne,
                                         !.resolved = FALSE, !.expired = FALSE]
    <2>1. /\ CallsKept(r) /\ pc'[r] = "done"
          /\ UNCHANGED <<cases, noted, given>>
      BY <1>7 DEF Revert, CallsKept, Inv, RowsOK, CallType, NoCall
    <2>2. a \in Appeals \cup {None}
      BY DEF Inv, RowsOK, CallType
    <2>3. ASSUME a \in Appeals
          PROVE  /\ row \in AppealRow
                 /\ row.status \notin {"absent", "purged"} \cup Verdicts
                 /\ row.user = appeals[a].user /\ row.case = appeals[a].case
      <3>1. appeals[a] \in AppealRow
        BY <2>3 DEF Inv, RowsOK
      <3> QED
        BY <3>1 DEF AppealRow, Verdicts, Waiting
    <2>4. UpdateAppeal(a, row)
      BY <1>7 DEF Revert
    <2>5. Entitled(r)
      BY <2>1 DEF Entitled, Deciding
    <2> HIDE DEF a, row
    <2>6. AppealsKept
      BY <2>2, <2>3, <2>4, AppealUpdated
    <2> QED
      BY <2>1, <2>5, <2>6, CasesUnchanged, KeptStep DEF Inv, RowsOK
  <1> QED
    BY <1>1, <1>2, <1>3, <1>4, <1>5, <1>6, <1>7 DEF Reviewer

LEMMA DeskStep ==
  ASSUME Inv, NEW r \in Requests, Desk(r)
  PROVE  Inv'
  <1> USE DEF GoTo, End, Ask
  <1>1. ASSUME NEW c \in Cases, NEW p \in Analysts, NEW o \in Outcomes,
               ReadForResolve(r, p, c, o)
        PROVE  Inv'
    <2>1. p \in People /\ Resolvable(c, p)
      BY <1>1, PeopleAssumption DEF ReadForResolve
    <2>2. /\ CallsKept(r) /\ pc'[r] = "resolving" /\ call'[r].by = p
          /\ call'[r].case = c /\ call'[r].outcome = o
          /\ UNCHANGED <<cases, appeals, noted, given>>
      BY <1>1, <2>1 DEF ReadForResolve, CallsKept, Inv, RowsOK, CallType, NoCall, InFlight
    <2>3. Entitled(r)
      BY <2>1, <2>2 DEF Entitled, Deciding, Resolvable, Unresolved
    <2> QED
      BY <2>2, <2>3, CasesUnchanged, AppealsUnchanged, KeptStep DEF Inv, RowsOK
  <1>2. ASSUME NEW c \in Cases, NEW p \in People \cup {NoOne}, OpenCase(r, c, p)
        PROVE  Inv'
    <2>1. /\ CallsKept(r) /\ pc'[r] = "done"
          /\ UNCHANGED <<appeals, given>>
      BY <1>2 DEF OpenCase, CallsKept, Inv, RowsOK, CallType, NoCall
    <2>2. PICK what \in SUBSET {Plain} : AddNote(c, what)
      BY <1>2 DEF OpenCase
    <2> QED
      BY <1>2, <2>1, <2>2, AppealsUnchanged, InsertStep DEF OpenCase
  <1>3. ASSUME NEW c \in Cases, OpenDetectorCase(r, c)
        PROVE  Inv'
    <2>1. /\ CallsKept(r) /\ pc'[r] = "done"
          /\ UNCHANGED <<appeals, given>>
      BY <1>3 DEF OpenDetectorCase, CallsKept, Inv, RowsOK, CallType, NoCall
    <2>2. call[r].by \in People \cup {NoOne} /\ call[r].decision \in Decisions \cup {None}
      BY DEF Inv, RowsOK, CallType
    <2>3. InsertCase(c, call[r].by, call[r].decision) /\ AddNote(c, {Plain})
      BY <1>3 DEF OpenDetectorCase
    <2> QED
      BY <2>1, <2>2, <2>3, AppealsUnchanged, InsertStep
  <1>4. ASSUME NEW c \in Cases, NEW t \in Unresolved, SetStatus(r, c, t)
        PROVE  Inv'
    <2> DEFINE row == [cases[c] EXCEPT !.status = t]
    <2>1. /\ CallsKept(r) /\ pc'[r] = "commenting"
          /\ UNCHANGED <<appeals, noted, given>>
      BY <1>4 DEF SetStatus, CallsKept, Inv, RowsOK, CallType, NoCall, InFlight
    <2>2. /\ row \in CaseRow /\ row.status \notin {"absent", "purged"}
          /\ row.user = cases[c].user
      <3>1. cases[c] \in CaseRow
        BY DEF Inv, RowsOK
      <3> QED
        BY <3>1 DEF CaseRow, Unresolved
    <2>3. UpdateCase(c, row)
      BY <1>4 DEF SetStatus
    <2>4. Entitled(r)
      BY <2>1 DEF Entitled, Deciding
    <2> HIDE DEF row
    <2>5. CasesKept
      BY <2>2, <2>3, CaseUpdated
    <2> QED
      BY <2>1, <2>4, <2>5, AppealsUnchanged, KeptStep DEF Inv, RowsOK
  <1>5. ASSUME NEW c \in Cases, ReadForReopen(r, c)
        PROVE  Inv'
    <2>1. cases[c].outcome \in Outcomes \cup {None}
      BY DEF Inv, RowsOK, CaseRow
    <2>2. /\ CallsKept(r) /\ pc'[r] = "reopening"
          /\ UNCHANGED <<cases, appeals, noted, given>>
      BY <1>5, <2>1 DEF ReadForReopen, CallsKept, Inv, RowsOK, CallType, NoCall, InFlight
    <2>3. Entitled(r)
      BY <2>2 DEF Entitled, Deciding
    <2> QED
      BY <2>2, <2>3, CasesUnchanged, AppealsUnchanged, KeptStep DEF Inv, RowsOK
  <1>6. ASSUME NEW p \in People, NEW d \in AutoOpened, LookForCase(r, p, d)
        PROVE  Inv'
    <2>1. [NoCall EXCEPT !.by = p, !.decision = d] \in CallType /\ NoCall \in CallType
      BY DecisionsAssumption DEF CallType, NoCall
    <2>2. /\ CallsKept(r) /\ pc'[r] \in {"opening", "done"}
          /\ UNCHANGED <<cases, appeals, noted, given>>
      BY <1>6, <2>1 DEF LookForCase, CallsKept, Inv, RowsOK, InFlight
    <2>3. Entitled(r)
      BY <2>2 DEF Entitled, Deciding
    <2> QED
      BY <2>2, <2>3, CasesUnchanged, AppealsUnchanged, KeptStep DEF Inv, RowsOK
  <1>7. ASSUME ResolveCase(r)
        PROVE  Inv'
    <2> DEFINE c == call[r].case
               row == [cases[c] EXCEPT !.status = "resolved",
                                       !.outcome = call[r].outcome, !.expired = FALSE]
    <2>1. /\ CallsKept(r) /\ pc'[r] = "noting" /\ call'[r] = call[r]
          /\ UNCHANGED <<appeals, noted>>
      BY <1>7 DEF ResolveCase, CallsKept, Inv, RowsOK, InFlight
    <2>2. /\ c \in Cases /\ call[r].by \in People /\ call[r].outcome \in Outcomes
          /\ cases[c].status # "absent"
          /\ Stored(cases[c]) => cases[c].user # call[r].by
      BY <1>7 DEF ResolveCase, Inv, Answering, Resolving, Attached, Deciding
    <2>3. /\ row \in CaseRow /\ row.status \notin {"absent", "purged"}
          /\ row.user = cases[c].user
      <3>1. cases[c] \in CaseRow
        BY <2>2 DEF Inv, RowsOK
      <3> QED
        BY <2>2, <3>1 DEF CaseRow
    <2>4. /\ UpdateCase(c, row)
          /\ given' = [given EXCEPT ![c] = @ \cup {<<call[r].outcome, call[r].by>>}]
      BY <1>7 DEF ResolveCase
    <2> HIDE DEF row
    <2>5. CasesKept
      BY <2>2, <2>3, <2>4, CaseUpdated
    <2>6. Entitled(r)
      BY <2>1, <2>2, <2>5 DEF Entitled, Deciding, CasesKept
    <2>7. given' \in [Cases -> SUBSET (Outcomes \X People)]
      BY <2>2, <2>4 DEF Inv, RowsOK
    <2>8. \A d \in Cases : \A g \in given'[d] :
             \/ g \in given[d]
             \/ /\ cases[d].status # "absent"
                /\ Stored(cases[d]) => g[2] # cases[d].user
      <3> SUFFICES ASSUME NEW d \in Cases, NEW g \in given'[d], g \notin given[d]
                   PROVE  /\ cases[d].status # "absent"
                          /\ Stored(cases[d]) => g[2] # cases[d].user
        OBVIOUS
      <3>1. d = c /\ g = <<call[r].outcome, call[r].by>>
        BY <2>2, <2>4 DEF Inv, RowsOK
      <3> QED
        BY <2>2, <3>1
    <2> QED
      BY <2>1, <2>5, <2>6, <2>7, <2>8, AppealsUnchanged, KeptStep DEF Inv, RowsOK
  <1>8. ASSUME NoteOutcome(r) \/ NoteReopened(r) \/ Comment(r)
        PROVE  Inv'
    <2>1. End(r, "done") /\ UNCHANGED <<cases, appeals, given>>
      BY <1>8 DEF NoteOutcome, NoteReopened, Comment
    <2>2. /\ call[r].outcome \in Outcomes \cup {None}
          /\ pc[r] = "noting" => call[r].outcome \in Outcomes
      BY DEF Inv, RowsOK, CallType, Answering, Deciding
    <2>3. noted' \in [Cases -> SUBSET (Outcomes \cup {Plain})]
      BY <1>8, <2>2 DEF NoteOutcome, NoteReopened, Comment, AddNote, Inv, RowsOK
    <2>4. CallsKept(r) /\ Entitled(r)
      BY <2>1, EndKeeps
    <2> QED
      BY <2>1, <2>3, <2>4, CasesUnchanged, AppealsUnchanged, KeptStep DEF Inv, RowsOK
  <1>9. ASSUME ReopenCase(r)
        PROVE  Inv'
    <2> DEFINE c == call[r].case
               row == [cases[c] EXCEPT !.status = "investigating", !.outcome = None,
                                       !.expired = FALSE]
    <2>1. /\ CallsKept(r) /\ pc'[r] = "renoting"
          /\ UNCHANGED <<appeals, noted, given>>
      BY <1>9 DEF ReopenCase, CallsKept, Inv, RowsOK, InFlight
    <2>2. c \in Cases \cup {None}
      BY DEF Inv, RowsOK, CallType
    <2>3. ASSUME c \in Cases
          PROVE  /\ row \in CaseRow /\ row.status \notin {"absent", "purged"}
                 /\ row.user = cases[c].user
      <3>1. cases[c] \in CaseRow
        BY <2>3 DEF Inv, RowsOK
      <3> QED
        BY <3>1 DEF CaseRow, Unresolved
    <2>4. UpdateCase(c, row)
      BY <1>9 DEF ReopenCase
    <2>5. Entitled(r)
      BY <2>1 DEF Entitled, Deciding
    <2> HIDE DEF c, row
    <2>6. CasesKept
      BY <2>2, <2>3, <2>4, CaseUpdated
    <2> QED
      BY <2>1, <2>5, <2>6, AppealsUnchanged, KeptStep DEF Inv, RowsOK
  <1>10. ASSUME MissCase(r)
         PROVE  Inv'
    <2>1. End(r, "failed") /\ UNCHANGED <<cases, appeals, noted, given>>
      BY <1>10 DEF MissCase
    <2>2. CallsKept(r) /\ Entitled(r)
      BY <2>1, EndKeeps
    <2> QED
      BY <2>1, <2>2, CasesUnchanged, AppealsUnchanged, KeptStep DEF Inv, RowsOK
  <1>11. ASSUME NEW c \in Cases, ReadForComment(r, c)
         PROVE  Inv'
    <2>1. CallsKept(r) /\ pc'[r] = "commenting" /\ UNCHANGED <<cases, appeals, noted, given>>
      BY <1>11 DEF ReadForComment, CallsKept, Inv, RowsOK, CallType, NoCall, InFlight
    <2>2. Entitled(r)
      BY <2>1 DEF Entitled, Deciding
    <2> QED
      BY <2>1, <2>2, CasesUnchanged, AppealsUnchanged, KeptStep DEF Inv, RowsOK
  <1> QED
    BY <1>1, <1>2, <1>3, <1>4, <1>5, <1>6, <1>7, <1>8, <1>9, <1>10, <1>11 DEF Desk

LEMMA RetentionStep ==
  ASSUME Inv, NEW r \in Requests, Retention(r) \/ Die(r)
  PROVE  Inv'
  <1>1. ASSUME PurgeNotes(r)
        PROVE  Inv'
    <2>1. CallsKept(r) /\ Entitled(r)
      BY <1>1 DEF PurgeNotes, GoTo, CallsKept, Entitled, Deciding, Inv, RowsOK, InFlight
    <2>2. UNCHANGED <<cases, appeals>>
      BY <1>1 DEF PurgeNotes
    <2>3. /\ noted' \in [Cases -> SUBSET (Outcomes \cup {Plain})]
          /\ given' \in [Cases -> SUBSET (Outcomes \X People)]
          /\ \A c \in Cases : given'[c] \subseteq given[c]
      BY <1>1 DEF PurgeNotes, Inv, RowsOK
    <2> QED
      BY <2>1, <2>2, <2>3, CasesUnchanged, AppealsUnchanged, KeptStep
  <1>2. ASSUME PurgeAppeals(r)
        PROVE  Inv'
    <2>1. CallsKept(r) /\ Entitled(r)
      BY <1>2 DEF PurgeAppeals, GoTo, CallsKept, Entitled, Deciding, Inv, RowsOK, InFlight
    <2>2. AppealsKept
      BY <1>2 DEF PurgeAppeals, AppealsKept, Inv, RowsOK, AppealRow, NoAppeal, Stored,
                  SeparationOfDuties, Verdicts
    <2>3. UNCHANGED <<cases, noted, given>>
      BY <1>2 DEF PurgeAppeals
    <2> QED
      BY <2>1, <2>2, <2>3, CasesUnchanged, KeptStep DEF Inv, RowsOK
  <1>3. ASSUME PurgeCases(r)
        PROVE  Inv'
    <2>1. CallsKept(r) /\ Entitled(r)
      BY <1>3, EndKeeps DEF PurgeCases
    <2>2. CasesKept
      <3>1. CASE UNCHANGED cases
        BY <3>1, CasesUnchanged
      <3>2. CASE cases' = [c \in Cases |-> IF cases[c].expired
                                           THEN [NoCase EXCEPT !.status = "purged"]
                                           ELSE cases[c]]
        BY <3>2 DEF Inv, RowsOK, CaseRow, NoCase, CasesKept, Stored
      <3> QED
        BY <1>3, <3>1, <3>2 DEF PurgeCases
    <2>3. UNCHANGED <<appeals, noted, given>>
      BY <1>3 DEF PurgeCases
    <2> QED
      BY <2>1, <2>2, <2>3, AppealsUnchanged, KeptStep DEF Inv, RowsOK
  <1>4. ASSUME Die(r)
        PROVE  Inv'
    <2>1. CallsKept(r) /\ Entitled(r)
      BY <1>4, EndKeeps DEF Die
    <2>2. UNCHANGED <<cases, appeals, noted, given>>
      BY <1>4 DEF Die
    <2> QED
      BY <2>1, <2>2, CasesUnchanged, AppealsUnchanged, KeptStep DEF Inv, RowsOK
  <1> QED
    BY <1>1, <1>2, <1>3, <1>4 DEF Retention

\* What time changes of a row.
LEMMA CaseAges ==
  ASSUME NEW row \in CaseRow, NEW b \in BOOLEAN, NEW new,
         new = [row EXCEPT !.recent = FALSE, !.expired = b]
  PROVE  new \in CaseRow /\ new.status = row.status /\ new.user = row.user
  BY DEF CaseRow

\* A date that is over changes nothing that is looked at here.
LEMMA Waited ==
  ASSUME Inv, Wait
  PROVE  /\ cases' \in [Cases -> CaseRow]
         /\ \A c \in Cases : /\ cases'[c].status = cases[c].status
                             /\ cases'[c].user = cases[c].user
                             /\ cases'[c].expired = cases[c].expired
         /\ \A r \in Requests : pc[r] \notin InFlight
         /\ UNCHANGED <<appeals, noted, pc, call, given, overlapped>>
  <1>1. PICK d \in Cases : cases' = [cases EXCEPT ![d].recent = FALSE]
    BY DEF Wait
  <1>2. \A c \in Cases : cases[c] \in CaseRow
    BY DEF Inv, RowsOK
  <1>3. [cases[d] EXCEPT !.recent = FALSE] \in CaseRow
    BY <1>2 DEF CaseRow
  <1>4. /\ cases'[d] = [cases[d] EXCEPT !.recent = FALSE]
        /\ \A c \in Cases \ {d} : cases'[c] = cases[c]
    BY <1>1 DEF Inv, RowsOK
  <1>5. /\ cases'[d].status = cases[d].status /\ cases'[d].user = cases[d].user
        /\ cases'[d].expired = cases[d].expired
    BY <1>2, <1>4 DEF CaseRow
  <1>6. cases' \in [Cases -> CaseRow]
    BY <1>1, <1>3 DEF Inv, RowsOK
  <1> QED
    BY <1>4, <1>5, <1>6 DEF Wait, Quiet

\* Time changes neither owners nor verdicts.
LEMMA AgeStep ==
  ASSUME Inv, Wait \/ Age
  PROVE  Inv'
  <1>1. /\ cases' \in [Cases -> CaseRow]
        /\ \A c \in Cases : /\ cases'[c].status = cases[c].status
                            /\ cases'[c].user = cases[c].user
    <2>1. CASE Wait
      BY <2>1, Waited
    <2>2. CASE Age
      <3>1. cases' = [c \in Cases |->
                        [cases[c] EXCEPT !.recent = FALSE,
                                         !.expired = (cases[c].outcome # None)]]
        BY <2>2 DEF Age
      <3>2. \A c \in Cases : cases[c] \in CaseRow /\ (cases[c].outcome # None) \in BOOLEAN
        BY DEF Inv, RowsOK
      <3>3. ASSUME NEW c \in Cases
            PROVE  /\ cases'[c] \in CaseRow
                   /\ cases'[c].status = cases[c].status
                   /\ cases'[c].user = cases[c].user
        <4>1. cases'[c] = [cases[c] EXCEPT !.recent = FALSE,
                                           !.expired = (cases[c].outcome # None)]
          BY <3>1, Zenon
        <4> QED
          BY <3>2, <4>1, CaseAges
      <3> QED
        BY <3>1, <3>3
    <2> QED
      BY <2>1, <2>2
  <1>2. /\ appeals' \in [Appeals -> AppealRow]
        /\ \A a \in Appeals : /\ appeals'[a].status = appeals[a].status
                              /\ appeals'[a].user = appeals[a].user
                              /\ appeals'[a].case = appeals[a].case
                              /\ appeals'[a].reviewer = appeals[a].reviewer
    <2>1. CASE Wait
      BY <2>1, Waited DEF Inv, RowsOK
    <2>2. CASE Age
      <3>1. appeals' = [a \in Appeals |-> [appeals[a] EXCEPT !.expired = appeals[a].resolved]]
        BY <2>2 DEF Age
      <3>2. ASSUME NEW row \in AppealRow
            PROVE  LET new == [row EXCEPT !.expired = row.resolved] IN
                   /\ new \in AppealRow
                   /\ new.status = row.status /\ new.user = row.user
                   /\ new.case = row.case /\ new.reviewer = row.reviewer
        BY DEF AppealRow
      <3>3. \A a \in Appeals : appeals[a] \in AppealRow
        BY DEF Inv, RowsOK
      <3> QED
        BY <3>1, <3>2, <3>3
    <2> QED
      BY <2>1, <2>2
  <1>3. /\ UNCHANGED <<noted, pc, call, given>>
        /\ \A r \in Requests : pc[r] \notin InFlight
    BY DEF Age, Wait, Quiet
  <1>4. RowsOK' /\ NoHistory'
    BY <1>1, <1>2, <1>3 DEF Inv, RowsOK, NoHistory
  <1>5. Attached'
    BY <1>2, <1>3 DEF Inv, Attached, Stored
  <1>6. Answering' /\ Resolving'
    BY <1>3 DEF Answering, Resolving, Deciding, InFlight
  <1>7. SeparationOfDuties'
    BY <1>1, <1>2, <1>3 DEF Inv, SeparationOfDuties, Stored
  <1> QED
    BY <1>4, <1>5, <1>6, <1>7 DEF Inv

LEMMA InvStep == Inv /\ [Next]_vars => Inv'
  <1> SUFFICES ASSUME Inv, [Next]_vars PROVE Inv'
    OBVIOUS
  <1>1. CASE UNCHANGED vars
    BY <1>1 DEF vars, Inv, RowsOK, Attached, Answering, Resolving, NoHistory,
                SeparationOfDuties, Stored
  <1> QED
    BY <1>1, SubscriberStep, ReviewerStep, DeskStep, RetentionStep, AgeStep DEF Next

THEOREM InvHolds == Spec => []Inv
  BY InvInit, InvStep, PTL DEF Spec

-----------------------------------------------------------------------------
\* What a request does from its idle, its last or its dead state.
LEMMA RequestStep ==
  ASSUME NEW r \in Requests, Inv, overlapped \in BOOLEAN,
         Subscriber(r) \/ Reviewer(r) \/ Desk(r) \/ Retention(r) \/ Die(r)
  PROVE  overlapped' \in BOOLEAN /\ \A q \in Requests : pc[q] = "dead" => pc'[q] = "dead"
  <1> USE DEF Start, GoTo, End, Ask, InFlight, Inv, RowsOK
  <1>1. CASE Subscriber(r)
    BY <1>1 DEF Subscriber, CountOpen, OpenAppealCase, FileAppeal, ReadForWithdraw,
                Withdraw
  <1>2. CASE Reviewer(r)
    BY <1>2 DEF Reviewer, ReadForClaim, ReadForReview, Claim, Investigate,
                AnswerAppeal, CheckCase, Revert
  <1>3. CASE Desk(r)
    BY <1>3 DEF Desk, ReadForResolve, OpenCase, OpenDetectorCase, SetStatus,
                ReadForReopen, LookForCase, ResolveCase, MissCase, NoteOutcome,
                ReopenCase, NoteReopened, ReadForComment, Comment
  <1>4. CASE Retention(r) \/ Die(r)
    BY <1>4 DEF Retention, PurgeNotes, PurgeAppeals, PurgeCases, Die
  <1> QED
    BY <1>1, <1>2, <1>3, <1>4

\* Type correctness of CaseAppeals.
THEOREM TypeCorrect == Spec => []TypeOK
  <1>1. Init => Inv /\ TypeOK
    BY InvInit DEF Init, Inv, TypeOK
  <1>2. Inv /\ TypeOK /\ [Next]_vars => Inv' /\ TypeOK'
    <2> SUFFICES ASSUME Inv, TypeOK, [Next]_vars PROVE overlapped' \in BOOLEAN
      BY InvStep DEF Inv, TypeOK
    <2>1. CASE Wait \/ Age \/ UNCHANGED vars
      BY <2>1 DEF Wait, Age, vars, TypeOK
    <2> QED
      BY <2>1, RequestStep DEF Next, TypeOK
  <1> QED
    BY <1>1, <1>2, PTL DEF Spec

\* Nobody decides about themselves, whatever else the fraud desk and the
\* subscribers do meanwhile, and even if requests die half way.
THEOREM SeparationOfDutiesHolds == Spec => []SeparationOfDuties
  <1>1. Inv => SeparationOfDuties
    BY DEF Inv
  <1> QED
    BY <1>1, InvHolds, PTL

-----------------------------------------------------------------------------
\* Only ResolveCase adds to the history of outcomes, and only NoteOutcome ends
\* the debt it incurs.
LEMMA NotedStep ==
  ASSUME Inv, TypeOK, OutcomeIsNoted, [Next]_vars
  PROVE  OutcomeIsNoted'
  <1> SUFFICES ASSUME NobodyDied' PROVE OutcomeIsNoted'
    BY DEF OutcomeIsNoted
  <1>0. NobodyDied
    <2>1. CASE Wait \/ Age \/ UNCHANGED vars
      BY <2>1 DEF Wait, Age, vars, NobodyDied
    <2> QED
      BY <2>1, RequestStep DEF Next, NobodyDied, TypeOK
  <1> SUFFICES ASSUME NEW c \in Cases, NEW g \in given'[c]
               PROVE  \/ g[1] \in noted'[c]
                      \/ \E r \in Requests : /\ pc'[r] = "noting" /\ call'[r].case = c
                                             /\ call'[r].outcome = g[1]
    BY DEF OutcomeIsNoted
  <1> DEFINE Owed == \E r \in Requests : /\ pc'[r] = "noting" /\ call'[r].case = c
                                         /\ call'[r].outcome = g[1]
  <1>1. ASSUME UNCHANGED <<noted, given>>,
               \A q \in Requests : pc[q] = "noting" => pc'[q] = pc[q] /\ call'[q] = call[q]
        PROVE  g[1] \in noted'[c] \/ Owed
    BY <1>0, <1>1 DEF OutcomeIsNoted
  <1>2. ASSUME NEW r \in Requests, ResolveCase(r)
        PROVE  g[1] \in noted'[c] \/ Owed
    <2>1. /\ noted' = noted /\ call' = call
          /\ pc' = [pc EXCEPT ![r] = "noting"]
          /\ given' = [given EXCEPT ![call[r].case] =
                         @ \cup {<<call[r].outcome, call[r].by>>}]
      BY <1>2 DEF ResolveCase, GoTo
    <2>2. CASE g \in given[c]
      BY <1>0, <2>1, <2>2 DEF OutcomeIsNoted, Inv, RowsOK
    <2>3. CASE g \notin given[c]
      <3>1. c = call[r].case /\ g = <<call[r].outcome, call[r].by>>
        BY <2>1, <2>3 DEF Inv, RowsOK
      <3> QED
        BY <2>1, <3>1 DEF Inv, RowsOK
    <2> QED
      BY <2>2, <2>3
  <1>3. ASSUME NEW r \in Requests, NoteOutcome(r)
        PROVE  g[1] \in noted'[c] \/ Owed
    <2>1. /\ given' = given
          /\ noted' = [noted EXCEPT ![call[r].case] = @ \cup {call[r].outcome}]
          /\ \A q \in Requests \ {r} : pc'[q] = pc[q] /\ call'[q] = call[q]
      BY <1>3 DEF NoteOutcome, AddNote, End, GoTo, Inv, RowsOK
    <2>2. noted[c] \subseteq noted'[c]
      BY <2>1 DEF Inv, RowsOK
    <2>3. \A q \in Requests :
              /\ pc[q] = "noting" /\ call[q].case = c /\ call[q].outcome = g[1]
              => g[1] \in noted'[c] \/ Owed
      <3> SUFFICES ASSUME NEW q \in Requests, pc[q] = "noting", call[q].case = c,
                          call[q].outcome = g[1]
                   PROVE  g[1] \in noted'[c] \/ Owed
        OBVIOUS
      <3>1. CASE q = r
        BY <2>1, <3>1 DEF Inv, RowsOK
      <3>2. CASE q # r
        BY <2>1, <3>2
      <3> QED
        BY <3>1, <3>2
    <2> QED
      BY <1>0, <2>1, <2>2, <2>3 DEF OutcomeIsNoted
  <1>4. ASSUME NEW r \in Requests, NEW S, NEW d, AddNote(d, S), given' = given,
               \A q \in Requests : pc[q] = "noting" => pc'[q] = pc[q] /\ call'[q] = call[q]
        PROVE  g[1] \in noted'[c] \/ Owed
    <2>1. noted[c] \subseteq noted'[c]
      BY <1>4 DEF AddNote, Inv, RowsOK
    <2> QED
      BY <1>0, <1>4, <2>1 DEF OutcomeIsNoted
  <1>5. ASSUME NEW r \in Requests, PurgeNotes(r)
        PROVE  g[1] \in noted'[c] \/ Owed
    <2>1. /\ given'[c] = IF cases[c].expired THEN {} ELSE given[c]
          /\ noted'[c] = IF cases[c].expired THEN {} ELSE noted[c]
          /\ \A q \in Requests : pc[q] = "noting" => pc'[q] = pc[q] /\ call'[q] = call[q]
      BY <1>5 DEF PurgeNotes, Start, GoTo, Inv, RowsOK
    <2> QED
      BY <1>0, <2>1 DEF OutcomeIsNoted
  <1>6. ASSUME NEW r \in Requests, Subscriber(r)
        PROVE  g[1] \in noted'[c] \/ Owed
    <2>1. ASSUME NEW e \in Cases, NEW d \in Decisions \cup {None}, OpenAppealCase(r, e, d)
          PROVE  g[1] \in noted'[c] \/ Owed
      BY <1>4, <2>1 DEF OpenAppealCase, GoTo, Ask, Inv, RowsOK
    <2> QED
      BY <1>1, <1>6, <2>1 DEF Subscriber, CountOpen, FileAppeal, ReadForWithdraw, Withdraw,
                              Start, GoTo, End, Ask, Inv, RowsOK
  <1>7. ASSUME NEW r \in Requests, Reviewer(r)
        PROVE  g[1] \in noted'[c] \/ Owed
    BY <1>1, <1>7 DEF Reviewer, ReadForClaim, ReadForReview, Claim, Investigate,
                      AnswerAppeal, CheckCase, Revert, Start, GoTo, End, Ask, Inv, RowsOK
  <1>8. ASSUME NEW r \in Requests, Desk(r), ~ResolveCase(r), ~NoteOutcome(r)
        PROVE  g[1] \in noted'[c] \/ Owed
    <2>1. ASSUME NEW e \in Cases, OpenDetectorCase(r, e)
          PROVE  g[1] \in noted'[c] \/ Owed
      BY <1>4, <2>1 DEF OpenDetectorCase, GoTo, End, Inv, RowsOK
    <2>2. ASSUME NEW e \in Cases, NEW p \in People \cup {NoOne}, OpenCase(r, e, p)
          PROVE  g[1] \in noted'[c] \/ Owed
      BY <1>4, <2>2 DEF OpenCase, Start, GoTo, End, Inv, RowsOK
    <2>3. CASE NoteReopened(r) \/ Comment(r)
      <3>1. /\ \E S : AddNote(call[r].case, S)
            /\ pc[r] \in {"renoting", "commenting"} /\ End(r, "done") /\ given' = given
        BY <2>3 DEF NoteReopened, Comment
      <3> QED
        BY <1>4, <3>1 DEF GoTo, End, Inv, RowsOK
    <2> QED
      BY <1>1, <1>8, <2>1, <2>2, <2>3
      DEF Desk, ReadForResolve, SetStatus, ReadForReopen, LookForCase, MissCase,
          ReopenCase, ReadForComment, Start, GoTo, End, Ask, Inv, RowsOK
  <1>9. ASSUME NEW r \in Requests, PurgeAppeals(r) \/ PurgeCases(r)
        PROVE  g[1] \in noted'[c] \/ Owed
    BY <1>1, <1>9 DEF PurgeAppeals, PurgeCases, GoTo, End, Inv, RowsOK
  <1>11. ASSUME NEW r \in Requests, Die(r)
        PROVE  FALSE
    BY <1>11 DEF Die, End, GoTo, NobodyDied, Inv, RowsOK
  <1>10. CASE Wait \/ Age \/ UNCHANGED vars
    BY <1>1, <1>10 DEF Wait, Age, vars
  <1> QED
    BY <1>2, <1>3, <1>4, <1>5, <1>6, <1>7, <1>8, <1>9, <1>10, <1>11 DEF Next, Retention

\* As long as no request dies between the two statements, no outcome a case
\* ever had is lost from its notes, however often it is resolved and reopened
\* and by however many analysts at once.
THEOREM OutcomeIsNotedHolds == Spec => []OutcomeIsNoted
  <1>1. Init => Inv /\ OutcomeIsNoted
    BY InvInit DEF Init, OutcomeIsNoted
  <1>2. Inv /\ TypeOK /\ OutcomeIsNoted /\ [Next]_vars => Inv' /\ OutcomeIsNoted'
    BY InvStep, NotedStep
  <1> QED
    BY <1>1, <1>2, TypeCorrect, PTL DEF Spec

-----------------------------------------------------------------------------
(* What the step of a request does, whatever it is *)

Step(r) == Subscriber(r) \/ Reviewer(r) \/ Desk(r) \/ Retention(r) \/ Die(r)

\* A row of appeals: filed, withdrawn, taken up, answered, taken back or purged.
Changed(r, a) ==
    LET old == appeals[a]  new == appeals'[a] IN
    \/ new = old
    \/ /\ pc[r] = "attaching" /\ old.status = "absent" /\ new.status = "submitted"
       /\ new.case = call[r].case /\ new.resolved = FALSE /\ new.expired = FALSE
    \/ /\ Stored(old) /\ new.case = old.case /\ call[r].appeal = a
       /\ \/ pc[r] = "withdrawing" /\ new.status = "withdrawn"
          \/ /\ pc[r] = "claiming" /\ new.status = "reviewing"
             /\ new.resolved = old.resolved /\ new.expired = old.expired
          \/ /\ pc[r] = "answering" /\ new.status = VerdictOf(call[r].outcome)
             /\ new.resolved = TRUE /\ pc'[r] = "checking" /\ call'[r] = call[r]
          \/ /\ pc[r] = "reverting" /\ new.status = "reviewing"
             /\ new.resolved = FALSE /\ new.expired = FALSE
    \/ old.expired /\ new.status = "purged"

\* A row of cases does not expire, and stays unless it had expired and no appeal
\* refers to it.
Remains(c) ==
    /\ cases'[c].expired => cases[c].expired
    /\ Stored(cases[c]) => Stored(cases'[c]) \/ (cases[c].expired /\ ~Referenced(c))

\* What an UPDATE leaves of a row of appeals.
LEMMA AppealWritten ==
  ASSUME Inv, NEW b \in Appeals \cup {None}, NEW row, UpdateAppeal(b, row), NEW a \in Appeals
  PROVE  appeals'[a] = IF a = b /\ Stored(appeals[a]) THEN row ELSE appeals[a]
  BY RowsAssumption DEF UpdateAppeal, Inv, RowsOK

LEMMA CaseWritten ==
  ASSUME Inv, NEW d \in Cases \cup {None}, NEW row, UpdateCase(d, row), NEW c \in Cases
  PROVE  cases'[c] = IF c = d /\ Stored(cases[c]) THEN row ELSE cases[c]
  BY RowsAssumption DEF UpdateCase, Inv, RowsOK

LEMMA AppealFields ==
  ASSUME NEW x \in AppealRow, NEW s, NEW p, NEW t \in BOOLEAN, NEW u \in BOOLEAN
  PROVE  /\ LET y == [x EXCEPT !.status = s, !.resolved = t, !.expired = u]
            IN  y.status = s /\ y.case = x.case /\ y.resolved = t /\ y.expired = u
         /\ LET y == [x EXCEPT !.status = s, !.reviewer = p, !.resolved = t, !.expired = u]
            IN  y.status = s /\ y.case = x.case /\ y.resolved = t /\ y.expired = u
         /\ LET y == [x EXCEPT !.status = s, !.reviewer = p]
            IN  /\ y.status = s /\ y.case = x.case
                /\ y.resolved = x.resolved /\ y.expired = x.expired
  BY DEF AppealRow

LEMMA CaseFields ==
  ASSUME NEW x \in CaseRow, NEW s, NEW o
  PROVE  /\ LET y == [x EXCEPT !.status = s, !.outcome = o, !.expired = FALSE]
            IN  y.status = s /\ y.expired = FALSE
         /\ LET y == [x EXCEPT !.status = s]
            IN  y.status = s /\ (y.expired => x.expired)
  <1>1. ASSUME NEW y, y = [x EXCEPT !.status = s]
        PROVE  y.status = s /\ y.expired = x.expired
    BY <1>1 DEF CaseRow
  <1>2. ASSUME NEW y, y = [x EXCEPT !.status = s, !.outcome = o, !.expired = FALSE]
        PROVE  y.status = s /\ y.expired = FALSE
    BY <1>2 DEF CaseRow
  <1> QED
    BY <1>1, <1>2, Zenon

\* What an INSERT leaves of the rows of cases.
LEMMA CaseInserted ==
  ASSUME Inv, NEW c \in Cases, NEW p, NEW d, InsertCase(c, p, d)
  PROVE  /\ cases'[c].status = "open" /\ cases'[c].expired = FALSE
         /\ \A e \in Cases \ {c} : cases'[e] = cases[e]
  <1>1. PICK recent \in BOOLEAN :
            cases' = [cases EXCEPT ![c] =
                        [NoCase EXCEPT !.status = "open", !.user = p, !.decision = d,
                                       !.recent = recent]]
    BY DEF InsertCase
  <1> DEFINE row == [NoCase EXCEPT !.status = "open", !.user = p, !.decision = d,
                                   !.recent = recent]
  <1>2. row.status = "open" /\ row.expired = FALSE
    BY DEF NoCase
  <1>3. cases' = [cases EXCEPT ![c] = row]
    BY <1>1
  <1> HIDE DEF row
  <1> QED
    BY <1>2, <1>3 DEF Inv, RowsOK

LEMMA StepAppeals ==
  ASSUME Inv, NEW r \in Requests, Step(r), NEW a \in Appeals
  PROVE  Changed(r, a)
  <1>0. appeals[a] \in AppealRow /\ call[r].appeal \in Appeals \cup {None}
    BY DEF Inv, RowsOK, CallType
  <1>1. CASE UNCHANGED appeals
    BY <1>1 DEF Changed
  <1>2. ASSUME NEW b \in Appeals, FileAppeal(r, b)
        PROVE  Changed(r, a)
    BY <1>2 DEF FileAppeal, NoAppeal, Changed, Inv, RowsOK
  <1>3. CASE Withdraw(r)
    <2> DEFINE row == [appeals[a] EXCEPT !.status = "withdrawn", !.resolved = TRUE,
                                         !.expired = FALSE]
    <2>1. appeals'[a] = IF a = call[r].appeal /\ Stored(appeals[a]) THEN row ELSE appeals[a]
      BY <1>0, <1>3, AppealWritten DEF Withdraw
    <2>2. row.status = "withdrawn" /\ row.case = appeals[a].case
      BY <1>0, AppealFields
    <2> HIDE DEF row
    <2> QED
      BY <1>3, <2>1, <2>2 DEF Withdraw, Changed
  <1>4. CASE Claim(r)
    <2> DEFINE row == [appeals[a] EXCEPT !.status = "reviewing", !.reviewer = call[r].by]
    <2>1. appeals'[a] = IF a = call[r].appeal /\ Stored(appeals[a]) THEN row ELSE appeals[a]
      BY <1>0, <1>4, AppealWritten DEF Claim
    <2>2. /\ row.status = "reviewing" /\ row.case = appeals[a].case
          /\ row.resolved = appeals[a].resolved /\ row.expired = appeals[a].expired
      BY <1>0, AppealFields
    <2> HIDE DEF row
    <2> QED
      BY <1>4, <2>1, <2>2 DEF Claim, Changed
  <1>5. CASE AnswerAppeal(r)
    <2> DEFINE row == [appeals[a] EXCEPT !.status = VerdictOf(call[r].outcome),
                                         !.reviewer = call[r].by,
                                         !.resolved = TRUE, !.expired = FALSE]
    <2>1. appeals'[a] = IF a = call[r].appeal /\ Stored(appeals[a]) THEN row ELSE appeals[a]
      BY <1>0, <1>5, AppealWritten DEF AnswerAppeal
    <2>2. /\ row.status = VerdictOf(call[r].outcome) /\ row.case = appeals[a].case
          /\ row.resolved = TRUE
      BY <1>0, AppealFields
    <2>3. pc'[r] = "checking" /\ call'[r] = call[r] /\ pc[r] = "answering"
      BY <1>5 DEF AnswerAppeal, GoTo, Inv, RowsOK
    <2> HIDE DEF row
    <2> QED
      BY <2>1, <2>2, <2>3 DEF Changed
  <1>6. CASE Revert(r)
    <2> DEFINE row == [appeals[a] EXCEPT !.status = "reviewing", !.reviewer = NoOne,
                                         !.resolved = FALSE, !.expired = FALSE]
    <2>1. appeals'[a] = IF a = call[r].appeal /\ Stored(appeals[a]) THEN row ELSE appeals[a]
      BY <1>0, <1>6, AppealWritten DEF Revert
    <2>2. /\ row.status = "reviewing" /\ row.case = appeals[a].case
          /\ row.resolved = FALSE /\ row.expired = FALSE
      BY <1>0, AppealFields
    <2> HIDE DEF row
    <2> QED
      BY <1>6, <2>1, <2>2 DEF Revert, Changed
  <1>7. CASE PurgeAppeals(r)
    BY <1>7 DEF PurgeAppeals, Changed, NoAppeal
  <1>8. CASE UNCHANGED appeals \/ Withdraw(r) \/ Claim(r) \/ AnswerAppeal(r) \/ Revert(r)
             \/ PurgeAppeals(r) \/ \E b \in Appeals : FileAppeal(r, b)
    BY <1>1, <1>2, <1>3, <1>4, <1>5, <1>6, <1>7, <1>8
  <1>9. CASE ~(UNCHANGED appeals \/ Withdraw(r) \/ Claim(r) \/ AnswerAppeal(r) \/ Revert(r)
               \/ PurgeAppeals(r) \/ \E b \in Appeals : FileAppeal(r, b))
    <2>1. CASE Subscriber(r) \/ Reviewer(r)
      BY <1>9, <2>1 DEF Subscriber, CountOpen, OpenAppealCase, ReadForWithdraw, Reviewer,
                        ReadForClaim, ReadForReview, Investigate, CheckCase
    <2>2. CASE Desk(r)
      BY <1>9, <2>2 DEF Desk, ReadForResolve, OpenCase, OpenDetectorCase, SetStatus,
                        ReadForReopen, LookForCase, ResolveCase, MissCase, NoteOutcome,
                        ReopenCase, NoteReopened, ReadForComment, Comment
    <2>3. CASE Retention(r) \/ Die(r)
      BY <1>9, <2>3 DEF Retention, PurgeNotes, PurgeCases, Die
    <2> QED
      BY <2>1, <2>2, <2>3 DEF Step
  <1> QED
    BY <1>8, <1>9

LEMMA StepCases ==
  ASSUME Inv, NEW r \in Requests, Step(r), NEW c \in Cases
  PROVE  Remains(c)
  <1>0. cases[c] \in CaseRow /\ call[r].case \in Cases \cup {None}
    BY DEF Inv, RowsOK, CallType
  <1>1. CASE UNCHANGED cases
    BY <1>1, Zenon DEF Remains
  <1>2. ASSUME NEW d \in Cases, NEW p, NEW b, InsertCase(d, p, b)
        PROVE  Remains(c)
    <2>1. cases'[d].status = "open" /\ cases'[d].expired = FALSE
          /\ \A e \in Cases \ {d} : cases'[e] = cases[e]
      BY <1>2, CaseInserted
    <2>2. CASE c = d
      BY <2>1, <2>2 DEF Remains, Stored
    <2>3. CASE c # d
      <3>1. cases'[c] = cases[c]
        BY <2>1, <2>3
      <3> QED
        BY <3>1, Zenon DEF Remains
    <2> QED
      BY <2>2, <2>3
  <1>3. ASSUME NEW d \in Cases \cup {None}, NEW s \in Unresolved \cup {"resolved"},
               \/ UpdateCase(d, [cases[d] EXCEPT !.status = s])
               \/ \E o : UpdateCase(d, [cases[d] EXCEPT !.status = s, !.outcome = o,
                                                        !.expired = FALSE])
        PROVE  Remains(c)
    <2>1. CASE UpdateCase(d, [cases[d] EXCEPT !.status = s])
      <3> DEFINE row == [cases[c] EXCEPT !.status = s]
      <3>1. cases'[c] = IF c = d /\ Stored(cases[c]) THEN row ELSE cases[c]
        BY <2>1, CaseWritten
      <3>2. row.status = s /\ (row.expired => cases[c].expired)
        BY <1>0, CaseFields
      <3> HIDE DEF row
      <3> QED
        BY <1>3, <3>1, <3>2 DEF Remains, Stored, Unresolved
    <2>2. CASE \E o : UpdateCase(d, [cases[d] EXCEPT !.status = s, !.outcome = o,
                                                     !.expired = FALSE])
      <3>0. PICK o : UpdateCase(d, [cases[d] EXCEPT !.status = s, !.outcome = o,
                                                    !.expired = FALSE])
        BY <2>2
      <3> DEFINE row == [cases[c] EXCEPT !.status = s, !.outcome = o, !.expired = FALSE]
      <3>1. cases'[c] = IF c = d /\ Stored(cases[c]) THEN row ELSE cases[c]
        BY <3>0, CaseWritten
      <3>2. row.status = s /\ row.expired = FALSE
        BY <1>0, CaseFields
      <3> HIDE DEF row
      <3> QED
        BY <1>3, <3>1, <3>2 DEF Remains, Stored, Unresolved
    <2> QED
      BY <1>3, <2>1, <2>2
  <1>4. CASE PurgeCases(r)
    <2>1. CASE \E d \in Cases : cases[d].expired /\ Referenced(d)
      BY <1>1, <1>4, <2>1 DEF PurgeCases
    <2>2. CASE ~\E d \in Cases : cases[d].expired /\ Referenced(d)
      <3>1. cases'[c] = IF cases[c].expired THEN [NoCase EXCEPT !.status = "purged"]
                                            ELSE cases[c]
        BY <1>4, <2>2 DEF PurgeCases
      <3>2. [NoCase EXCEPT !.status = "purged"].expired = FALSE
        BY DEF NoCase
      <3>3. CASE cases[c].expired
        BY <2>2, <3>3 DEF Remains
      <3>4. CASE ~cases[c].expired
        <4>1. cases'[c] = cases[c]
          BY <3>1, <3>4
        <4> QED
          BY <4>1, Zenon DEF Remains
      <3> QED
        BY <3>3, <3>4
    <2> QED
      BY <2>1, <2>2
  <1>5. CASE Subscriber(r) \/ Reviewer(r)
    <2>1. ASSUME NEW d \in Cases, NEW e \in Decisions \cup {None}, OpenAppealCase(r, d, e)
          PROVE  Remains(c)
      BY <2>1, <1>2 DEF OpenAppealCase
    <2>2. CASE Investigate(r)
      <3>1. CASE Stored(cases[call[r].case])
        BY <2>2, <1>0, <1>3, <3>1 DEF Investigate, Unresolved
      <3>2. CASE ~Stored(cases[call[r].case])
        BY <1>1, <2>2, <3>2 DEF Investigate
      <3> QED
        BY <3>1, <3>2
    <2> QED
      BY <1>1, <1>5, <2>1, <2>2
      DEF Subscriber, CountOpen, FileAppeal, ReadForWithdraw, Withdraw, Reviewer,
          ReadForClaim, ReadForReview, Claim, AnswerAppeal, CheckCase, Revert
  <1>6. CASE Desk(r)
    <2>1. ASSUME NEW d \in Cases, NEW p \in People \cup {NoOne},
                 OpenCase(r, d, p) \/ OpenDetectorCase(r, d)
          PROVE  Remains(c)
      BY <2>1, <1>2 DEF OpenCase, OpenDetectorCase
    <2>2. ASSUME NEW d \in Cases, NEW s \in Unresolved, SetStatus(r, d, s)
          PROVE  Remains(c)
      BY <2>2, <1>3 DEF SetStatus
    <2>3. CASE ResolveCase(r) \/ ReopenCase(r)
      BY <2>3, <1>0, <1>3 DEF ResolveCase, ReopenCase, Unresolved
    <2> QED
      BY <1>1, <1>6, <2>1, <2>2, <2>3
      DEF Desk, ReadForResolve, ReadForReopen, LookForCase, MissCase, NoteOutcome,
          NoteReopened, ReadForComment, Comment
  <1>7. CASE Retention(r) \/ Die(r)
    BY <1>1, <1>4, <1>7 DEF Retention, PurgeNotes, PurgeAppeals, Die
  <1> QED
    BY <1>5, <1>6, <1>7 DEF Step

\* The other requests stand where they stood, and notes go only when their case
\* has expired.
LEMMA StepOthers ==
  ASSUME Inv, NEW r \in Requests, Step(r)
  PROVE  /\ \A q \in Requests \ {r} : pc'[q] = pc[q] /\ call'[q] = call[q]
         /\ \A c \in Cases : noted[c] \subseteq noted'[c] \/ cases[c].expired
         /\ \/ pc[r] \in InFlight /\ overlapped' = overlapped
            \/ overlapped' = (overlapped \/ ~Quiet)
  <1> USE DEF Start, GoTo, End, Ask, InFlight, Inv, RowsOK
  <1>0. ASSUME NEW d, NEW S, AddNote(d, S)
        PROVE  \A c \in Cases : noted[c] \subseteq noted'[c]
    BY <1>0 DEF AddNote
  <1>1. CASE Subscriber(r)
    <2>1. ASSUME NEW d \in Cases, NEW e \in Decisions \cup {None}, OpenAppealCase(r, d, e)
          PROVE  \A c \in Cases : noted[c] \subseteq noted'[c]
      BY <1>0, <2>1 DEF OpenAppealCase
    <2> QED
      BY <1>1, <2>1 DEF Subscriber, CountOpen, OpenAppealCase, FileAppeal,
                        ReadForWithdraw, Withdraw
  <1>2. CASE Reviewer(r)
    BY <1>2 DEF Reviewer, ReadForClaim, ReadForReview, Claim, Investigate,
                AnswerAppeal, CheckCase, Revert
  <1>3. CASE Desk(r)
    <2>1. CASE NoteOutcome(r) \/ NoteReopened(r) \/ Comment(r)
      <3>1. PICK S : AddNote(call[r].case, S)
        BY <2>1 DEF NoteOutcome, NoteReopened, Comment
      <3>2. \A c \in Cases : noted[c] \subseteq noted'[c]
        BY <1>0, <3>1
      <3> QED
        BY <2>1, <3>2 DEF NoteOutcome, NoteReopened, Comment
    <2>2. ASSUME NEW d \in Cases, NEW p \in People \cup {NoOne},
                 OpenCase(r, d, p) \/ OpenDetectorCase(r, d)
          PROVE  \A c \in Cases : noted[c] \subseteq noted'[c]
      BY <1>0, <2>2 DEF OpenCase, OpenDetectorCase
    <2>3. CASE ~(NoteOutcome(r) \/ NoteReopened(r) \/ Comment(r))
      BY <1>3, <2>2, <2>3 DEF Desk, ReadForResolve, OpenCase, OpenDetectorCase, SetStatus,
                              ReadForReopen, LookForCase, ResolveCase, ReopenCase, MissCase,
                              ReadForComment
    <2> QED
      BY <2>1, <2>3
  <1>4. CASE Retention(r) \/ Die(r)
    BY <1>4 DEF Retention, PurgeNotes, PurgeAppeals, PurgeCases, Die
  <1> QED
    BY <1>1, <1>2, <1>3, <1>4 DEF Step

\* What a request knows on arriving where it reads, or acts on what it has read.
Arrives(r) ==
    /\ pc'[r] = "attaching" =>
         Stored(cases'[call'[r].case]) /\ cases'[call'[r].case].expired = FALSE
    /\ pc'[r] = "withdrawing" =>
         appeals' = appeals /\ appeals[call'[r].appeal].status \in Waiting
    /\ pc'[r] = "claiming" =>
         appeals' = appeals /\ appeals[call'[r].appeal].status = "submitted"
    /\ pc'[r] = "answering" =>
         /\ appeals' = appeals /\ appeals[call'[r].appeal].status \in Waiting
         /\ call'[r].case = appeals[call'[r].appeal].case
    /\ pc'[r] = "checking" => pc[r] = "answering" /\ call'[r] = call[r]
    /\ pc'[r] = "resolving" =>
         (pc[r] = "checking" /\ call'[r] = call[r]) \/ call'[r].appeal = None
    /\ pc'[r] = "reverting" => pc[r] = "checking" /\ call'[r] = call[r]
    /\ pc'[r] = "noting" =>
         /\ pc[r] = "resolving" /\ call'[r] = call[r]
         /\ cases'[call[r].case].expired = FALSE

\* How a review goes on, unless the request dies.
GoesOn(r) ==
    /\ pc[r] = "checking" => pc'[r] \in {"resolving", "reverting"} /\ call'[r] = call[r]
    /\ pc[r] = "resolving" =>
         \/ pc'[r] = "noting" /\ call'[r] = call[r]
         \/ ~Stored(cases[call[r].case])
    /\ pc[r] = "noting" =>
         /\ UNCHANGED <<cases, appeals>>
         /\ call[r].outcome \in noted'[call[r].case]
    /\ pc[r] = "reverting" =>
         \A a \in Appeals :
             call[r].appeal = a /\ Stored(appeals[a]) => appeals'[a].status = "reviewing"

LEMMA StepArrives ==
  ASSUME Inv, NEW r \in Requests, Step(r)
  PROVE  Arrives(r)
  <1> USE DEF Start, GoTo, End, Ask
  <1>0. /\ pc \in [Requests -> {"idle", "done", "failed", "dead"} \cup InFlight]
        /\ call \in [Requests -> CallType]
    BY DEF Inv, RowsOK
  <1>1. CASE pc'[r] \in {"done", "failed", "dead"}
    BY <1>1 DEF Arrives
  <1>2. ASSUME NEW c \in Cases, NEW d \in Decisions \cup {None}, OpenAppealCase(r, c, d)
        PROVE  Arrives(r)
    <2>1. pc'[r] = "attaching" /\ call'[r].case = c /\ InsertCase(c, call[r].by, d)
      BY <1>0, <1>2 DEF OpenAppealCase, CallType
    <2>2. cases'[c].status = "open" /\ cases'[c].expired = FALSE
      BY <2>1, CaseInserted
    <2> QED
      BY <2>1, <2>2 DEF Arrives, Stored
  <1>3. ASSUME NEW p \in People, CountOpen(r, p)
        PROVE  Arrives(r)
    BY <1>0, <1>3 DEF CountOpen, Arrives
  <1>4. ASSUME NEW a \in Appeals, ReadForWithdraw(r, a)
        PROVE  Arrives(r)
    BY <1>0, <1>4 DEF ReadForWithdraw, NoCall, Arrives
  <1>5. ASSUME NEW p \in Analysts, NEW a \in Appeals, ReadForClaim(r, p, a)
        PROVE  Arrives(r)
    BY <1>0, <1>5 DEF ReadForClaim, NoCall, Arrives
  <1>6. ASSUME NEW p \in Analysts, NEW a \in Appeals, NEW o \in Outcomes,
               ReadForReview(r, p, a, o)
        PROVE  Arrives(r)
    BY <1>0, <1>6 DEF ReadForReview, Answerable, NoCall, Arrives
  <1>7. CASE Claim(r) \/ AnswerAppeal(r) \/ CheckCase(r)
    BY <1>0, <1>7 DEF Claim, AnswerAppeal, CheckCase, Arrives
  <1>8. ASSUME NEW p \in Analysts, NEW c \in Cases, NEW o \in Outcomes,
               ReadForResolve(r, p, c, o)
        PROVE  Arrives(r)
    BY <1>0, <1>8 DEF ReadForResolve, NoCall, Arrives
  <1>9. ASSUME NEW p \in People, NEW d \in AutoOpened, LookForCase(r, p, d)
        PROVE  Arrives(r)
    BY <1>0, <1>9 DEF LookForCase, Arrives
  <1>10. ASSUME NEW c \in Cases, ReadForReopen(r, c) \/ ReadForComment(r, c)
                                \/ \E t \in Unresolved : SetStatus(r, c, t)
         PROVE  Arrives(r)
    BY <1>0, <1>10 DEF ReadForReopen, ReadForComment, SetStatus, Arrives
  <1>11. CASE ResolveCase(r)
    <2> DEFINE c == call[r].case
               row == [cases[c] EXCEPT !.status = "resolved",
                                       !.outcome = call[r].outcome, !.expired = FALSE]
    <2>1. /\ pc[r] = "resolving" /\ pc'[r] = "noting" /\ call'[r] = call[r]
          /\ UpdateCase(c, row) /\ Stored(cases[c])
      BY <1>0, <1>11 DEF ResolveCase
    <2>2. c \in Cases
      BY <2>1 DEF Inv, Attached, Deciding
    <2>3. cases[c] \in CaseRow
      BY <2>2 DEF Inv, RowsOK
    <2>4. row.expired = FALSE
      BY <2>3, CaseFields
    <2> HIDE DEF row
    <2>5. cases'[c] = row
      BY <2>1, <2>2, CaseWritten
    <2> QED
      BY <2>1, <2>4, <2>5 DEF Arrives
  <1>12. CASE \/ ReopenCase(r) \/ PurgeNotes(r) \/ PurgeAppeals(r) \/ Withdraw(r)
              \/ Investigate(r) \/ \E a \in Appeals : FileAppeal(r, a)
    BY <1>0, <1>12 DEF ReopenCase, PurgeNotes, PurgeAppeals, Withdraw, Investigate,
                       FileAppeal, Arrives
  <1>13. CASE Subscriber(r)
    BY <1>2, <1>3, <1>4, <1>12, <1>13 DEF Subscriber
  <1>14. CASE Reviewer(r)
    BY <1>0, <1>1, <1>5, <1>6, <1>7, <1>12, <1>14 DEF Reviewer, Revert
  <1>15. CASE Desk(r)
    BY <1>0, <1>1, <1>8, <1>9, <1>10, <1>11, <1>12, <1>15
    DEF Desk, OpenCase, OpenDetectorCase, MissCase, NoteOutcome, NoteReopened, Comment
  <1>16. CASE Retention(r) \/ Die(r)
    BY <1>0, <1>1, <1>12, <1>16 DEF Retention, PurgeCases, Die
  <1> QED
    BY <1>13, <1>14, <1>15, <1>16 DEF Step

LEMMA StepGoesOn ==
  ASSUME Inv, NEW r \in Requests, Step(r), pc'[r] # "dead"
  PROVE  GoesOn(r)
  <1> USE DEF Start, GoTo, End, Ask
  <1>0. /\ pc \in [Requests -> {"idle", "done", "failed", "dead"} \cup InFlight]
        /\ call \in [Requests -> CallType]
    BY DEF Inv, RowsOK
  <1>1. CASE pc[r] \notin {"checking", "resolving", "noting", "reverting"}
    BY <1>1 DEF GoesOn
  <1>2. CASE CheckCase(r) \/ ResolveCase(r) \/ MissCase(r)
    BY <1>0, <1>2 DEF CheckCase, ResolveCase, MissCase, GoesOn
  <1>3. CASE NoteOutcome(r)
    <2>1. call[r].case \in Cases /\ pc[r] = "noting" /\ UNCHANGED <<cases, appeals>>
      BY <1>3 DEF NoteOutcome, Inv, Attached, Deciding
    <2>2. call[r].outcome \in noted'[call[r].case]
      BY <1>3, <2>1 DEF NoteOutcome, AddNote, Inv, RowsOK
    <2> QED
      BY <2>1, <2>2 DEF GoesOn
  <1>4. CASE Revert(r)
    <2> SUFFICES ASSUME NEW a \in Appeals, call[r].appeal = a, Stored(appeals[a])
                 PROVE  appeals'[a].status = "reviewing"
      BY <1>4 DEF Revert, GoesOn
    <2> DEFINE row == [appeals[a] EXCEPT !.status = "reviewing", !.reviewer = NoOne,
                                         !.resolved = FALSE, !.expired = FALSE]
    <2>1. UpdateAppeal(a, row)
      BY <1>4 DEF Revert
    <2>2. row.status = "reviewing"
      BY AppealFields DEF Inv, RowsOK
    <2> HIDE DEF row
    <2> QED
      BY <2>1, <2>2, AppealWritten
  <1>5. CASE Subscriber(r)
    BY <1>0, <1>1, <1>5 DEF Subscriber, CountOpen, OpenAppealCase, FileAppeal,
                            ReadForWithdraw, Withdraw
  <1>6. CASE Reviewer(r)
    BY <1>0, <1>1, <1>2, <1>4, <1>6
    DEF Reviewer, ReadForClaim, ReadForReview, Claim, Investigate, AnswerAppeal
  <1>7. CASE Desk(r)
    BY <1>0, <1>1, <1>2, <1>3, <1>7
    DEF Desk, ReadForResolve, OpenCase, OpenDetectorCase, SetStatus, ReadForReopen,
        LookForCase, ReopenCase, NoteReopened, ReadForComment, Comment
  <1>8. CASE Retention(r) \/ Die(r)
    BY <1>0, <1>1, <1>8 DEF Retention, PurgeNotes, PurgeAppeals, PurgeCases, Die
  <1> QED
    BY <1>5, <1>6, <1>7, <1>8 DEF Step

-----------------------------------------------------------------------------
(* No appeal without its case, no verdict without a note *)

\* An appeal about to be filed has a case that retention cannot take yet.
Attaching(r) ==
    pc[r] = "attaching" =>
        Stored(cases[call[r].case]) /\ ~cases[call[r].case].expired

HasCase(a) == Stored(appeals[a]) => Stored(cases[appeals[a].case])

CaseInv == (\A r \in Requests : Attaching(r)) /\ (\A a \in Appeals : HasCase(a))

Reviewing == {"answering", "checking", "resolving", "noting", "reverting"}

\* A request that reviews an appeal knows its case, and the outcome about to be
\* noted was given since the last time anything expired.
Informed(r) ==
    /\ pc[r] \in Reviewing /\ call[r].appeal \in Appeals =>
         /\ appeals[call[r].appeal].status # "absent"
         /\ Stored(appeals[call[r].appeal]) => appeals[call[r].appeal].case = call[r].case
    /\ pc[r] = "noting" => ~cases[call[r].case].expired

\* A verdict's case has an outcome of its kind in its notes, which retention
\* leaves alone.
Backed(a) ==
    /\ ~cases[appeals[a].case].expired
    /\ \E o \in noted[appeals[a].case] \cap Outcomes : VerdictOf(o) = appeals[a].status

\* A request that will note such an outcome, or take the verdict back.
Settling(r, a) ==
    /\ call[r].appeal = a
    /\ \/ pc[r] = "reverting"
       \/ /\ pc[r] \in {"checking", "resolving", "noting"}
          /\ VerdictOf(call[r].outcome) = appeals[a].status

Given(a) ==
    appeals[a].status \in Verdicts =>
        /\ appeals[a].resolved
        /\ appeals[a].expired \/ Backed(a) \/ \E r \in Requests : Settling(r, a)

VerdictInv ==
    /\ \A r \in Requests : Informed(r)
    /\ NobodyDied => \A a \in Appeals : Given(a)

\* A row of appeals that is there was there, with the same case, or was filed.
LEMMA CaseOfAppeal ==
  ASSUME NEW r \in Requests, NEW a \in Appeals, Changed(r, a), Stored(appeals'[a])
  PROVE  \/ Stored(appeals[a]) /\ appeals'[a].case = appeals[a].case
         \/ /\ appeals[a].status = "absent" /\ pc[r] = "attaching"
            /\ appeals'[a].case = call[r].case
  BY DEF Changed, Stored

LEMMA CaseInvStep ==
  ASSUME Inv, CaseInv, NEW r \in Requests, Step(r)
  PROVE  CaseInv'
  <1>1. \A c \in Cases : Remains(c)
    BY StepCases
  <1>2. ASSUME NEW q \in Requests
        PROVE  Attaching(q)'
    <2>1. CASE q = r
      BY <2>1, StepArrives DEF Arrives, Attaching
    <2>2. CASE q # r
      <3>1. pc'[q] = pc[q] /\ call'[q] = call[q]
        BY <2>2, StepOthers
      <3>2. pc[q] = "attaching" => call[q].case \in Cases
        BY DEF Inv, Attached
      <3> QED
        BY <1>1, <3>1, <3>2 DEF CaseInv, Attaching, Remains
    <2> QED
      BY <2>1, <2>2
  <1>3. ASSUME NEW a \in Appeals
        PROVE  HasCase(a)'
    <2> SUFFICES ASSUME Stored(appeals'[a])
                 PROVE  Stored(cases'[appeals'[a].case])
      BY DEF HasCase
    <2>1. CASE Stored(appeals[a]) /\ appeals'[a].case = appeals[a].case
      <3>1. appeals[a].case \in Cases /\ Referenced(appeals[a].case)
        BY <2>1 DEF Inv, Attached, Referenced
      <3> QED
        BY <1>1, <2>1, <3>1 DEF CaseInv, HasCase, Remains
    <2>2. CASE pc[r] = "attaching" /\ appeals'[a].case = call[r].case
      <3>1. call[r].case \in Cases
        BY <2>2 DEF Inv, Attached
      <3> QED
        BY <1>1, <2>2, <3>1 DEF CaseInv, Attaching, Remains
    <2> QED
      BY <2>1, <2>2, StepAppeals, CaseOfAppeal
  <1> QED
    BY <1>2, <1>3 DEF CaseInv

\* Time goes by while nobody is at work: rows expire, and stay.
LEMMA Ageing ==
  ASSUME Inv, Age
  PROVE  /\ \A c \in Cases : cases'[c].status = cases[c].status
         /\ \A a \in Appeals : /\ appeals'[a].status = appeals[a].status
                               /\ appeals'[a].case = appeals[a].case
                               /\ appeals'[a].resolved = appeals[a].resolved
                               /\ appeals'[a].expired = appeals[a].resolved
         /\ \A r \in Requests : pc[r] \notin InFlight
         /\ UNCHANGED <<noted, pc, call, overlapped>>
  <1>1. cases' = [c \in Cases |-> [cases[c] EXCEPT !.recent = FALSE,
                                                  !.expired = (cases[c].outcome # None)]]
    BY DEF Age
  <1>2. appeals' = [a \in Appeals |-> [appeals[a] EXCEPT !.expired = appeals[a].resolved]]
    BY DEF Age
  <1>4. ASSUME NEW row \in AppealRow
        PROVE  LET new == [row EXCEPT !.expired = row.resolved] IN
               /\ new.status = row.status /\ new.case = row.case
               /\ new.resolved = row.resolved /\ new.expired = row.resolved
    BY DEF AppealRow
  <1>5. /\ \A c \in Cases : cases[c] \in CaseRow /\ (cases[c].outcome # None) \in BOOLEAN
        /\ \A a \in Appeals : appeals[a] \in AppealRow
    BY DEF Inv, RowsOK
  <1>6. ASSUME NEW c \in Cases
        PROVE  cases'[c].status = cases[c].status
    <2>1. cases'[c] = [cases[c] EXCEPT !.recent = FALSE,
                                       !.expired = (cases[c].outcome # None)]
      BY <1>1, Zenon
    <2> QED
      BY <1>5, <2>1, CaseAges
  <1>7. \A a \in Appeals : /\ appeals'[a].status = appeals[a].status
                           /\ appeals'[a].case = appeals[a].case
                           /\ appeals'[a].resolved = appeals[a].resolved
                           /\ appeals'[a].expired = appeals[a].resolved
    BY <1>2, <1>4, <1>5
  <1> QED
    BY <1>6, <1>7 DEF Age, Quiet

LEMMA CaseInvAges ==
  ASSUME Inv, CaseInv, Wait \/ Age
  PROVE  CaseInv'
  <1>1. ASSUME NEW r \in Requests
        PROVE  Attaching(r)'
    BY Ageing, Waited DEF Attaching, InFlight
  <1>2. ASSUME NEW a \in Appeals
        PROVE  HasCase(a)'
    BY Ageing, Waited DEF CaseInv, HasCase, Stored, Inv, Attached
  <1> QED
    BY <1>1, <1>2 DEF CaseInv

LEMMA CaseInvHolds == Spec => []CaseInv
  <1>1. Init => CaseInv
    BY DEF Init, CaseInv, Attaching, HasCase, Stored, NoAppeal
  <1>2. Inv /\ CaseInv /\ [Next]_vars => CaseInv'
    <2> SUFFICES ASSUME Inv, CaseInv, [Next]_vars PROVE CaseInv'
      OBVIOUS
    <2>1. CASE UNCHANGED vars
      BY <2>1 DEF vars, CaseInv, Attaching, HasCase, Stored
    <2> QED
      BY <2>1, CaseInvStep, CaseInvAges DEF Next, Step
  <1> QED
    BY <1>1, <1>2, InvHolds, PTL DEF Spec

\* Whatever purges do while cases are opened, resolved and reopened, no appeal
\* is left without its case.
THEOREM AppealsHaveTheirCaseHolds == Spec => []AppealsHaveTheirCase
  <1>1. CaseInv => AppealsHaveTheirCase
    BY DEF CaseInv, HasCase, AppealsHaveTheirCase
  <1> QED
    BY <1>1, CaseInvHolds, PTL

\* A request is informed on arriving at a review, and stays so.
LEMMA InformedStep ==
  ASSUME Inv, NEW r \in Requests, Step(r), \A q \in Requests : Informed(q),
         NEW q \in Requests
  PROVE  Informed(q)'
  <1>1. ASSUME NEW a \in Appeals, appeals[a].status # "absent"
        PROVE  /\ appeals'[a].status # "absent"
               /\ Stored(appeals'[a]) =>
                    Stored(appeals[a]) /\ appeals'[a].case = appeals[a].case
    BY <1>1, StepAppeals, CaseOfAppeal DEF Changed, VerdictOf
  <1>2. CASE q # r
    <2>1. pc'[q] = pc[q] /\ call'[q] = call[q] /\ Informed(q)
      BY <1>2, StepOthers
    <2>2. pc[q] = "noting" => (cases'[call[q].case].expired => cases[call[q].case].expired)
      BY StepCases DEF Remains, Inv, Attached, Deciding
    <2> QED
      BY <1>1, <2>1, <2>2 DEF Informed
  <1>3. CASE q = r
    <2>0. Arrives(r) /\ Informed(r)
      BY StepArrives
    <2>1. CASE pc'[r] = "answering"
      BY <1>3, <2>0, <2>1 DEF Arrives, Informed, Waiting, Stored
    <2>2. CASE pc'[r] = "checking"
      BY <1>1, <1>3, <2>0, <2>2 DEF Arrives, Informed, Reviewing
    <2>3. CASE pc'[r] \in {"resolving", "reverting"}
      BY <1>1, <1>3, <2>0, <2>3, RowsAssumption DEF Arrives, Informed, Reviewing
    <2>4. CASE pc'[r] = "noting"
      BY <1>1, <1>3, <2>0, <2>4 DEF Arrives, Informed, Reviewing
    <2> QED
      BY <1>3, <2>1, <2>2, <2>3, <2>4 DEF Informed, Reviewing
  <1> QED
    BY <1>2, <1>3

\* A verdict is given by the request that will note its outcome or take it back,
\* and a request that settles one goes on to do so.
LEMMA GivenStep ==
  ASSUME Inv, CaseInv, NEW r \in Requests, Step(r), pc'[r] # "dead",
         \A q \in Requests : Informed(q), NEW a \in Appeals, Given(a)
  PROVE  Given(a)'
  <1> SUFFICES ASSUME appeals'[a].status \in Verdicts
               PROVE  /\ appeals'[a].resolved
                      /\ appeals'[a].expired \/ Backed(a)' \/ \E q \in Requests : Settling(q, a)'
    BY DEF Given
  <1>0. Changed(r, a) /\ GoesOn(r) /\ \A c \in Cases : Remains(c)
    BY StepAppeals, StepGoesOn, StepCases
  <1>1. CASE appeals'[a] = appeals[a]
    <2>1. /\ Stored(appeals[a]) /\ appeals[a].case \in Cases
          /\ Stored(cases[appeals[a].case])
      BY <1>1 DEF Inv, Attached, CaseInv, HasCase, Stored, Verdicts
    <2>2. appeals[a].resolved
      BY <1>1 DEF Given
    <2>3. CASE appeals[a].expired
      BY <1>1, <2>2, <2>3
    <2>4. CASE Backed(a)
      <3>1. noted[appeals[a].case] \subseteq noted'[appeals[a].case]
        BY <2>1, <2>4, StepOthers DEF Backed
      <3>2. ~cases'[appeals[a].case].expired
        BY <1>0, <2>1, <2>4 DEF Backed, Remains
      <3> QED
        BY <1>1, <2>2, <2>4, <3>1, <3>2 DEF Backed
    <2>5. ASSUME NEW q \in Requests, Settling(q, a)
          PROVE  Backed(a)' \/ Settling(q, a)'
      <3>1. CASE q # r
        BY <1>1, <2>5, <3>1, StepOthers DEF Settling
      <3>2. CASE q = r
        <4>1. /\ call[r].appeal = a /\ call[r].case = appeals[a].case
              /\ pc[r] = "noting" => ~cases[call[r].case].expired
          BY <2>1, <2>5, <3>2 DEF Informed, Settling, Reviewing
        <4>2. CASE pc[r] = "reverting"
          BY <1>0, <1>1, <2>1, <4>1, <4>2 DEF GoesOn, Verdicts
        <4>3. CASE pc[r] = "checking"
          BY <1>0, <1>1, <2>5, <3>2, <4>3 DEF GoesOn, Settling
        <4>4. CASE pc[r] = "resolving"
          BY <1>0, <1>1, <2>1, <2>5, <3>2, <4>1, <4>4 DEF GoesOn, Settling
        <4>5. CASE pc[r] = "noting"
          <5>1. VerdictOf(call[r].outcome) = appeals[a].status
            BY <2>5, <3>2, <4>5 DEF Settling
          <5>2. cases' = cases /\ call[r].outcome \in noted'[call[r].case] \cap Outcomes
            BY <1>0, <4>5 DEF GoesOn, Inv, Answering, Deciding
          <5> QED
            BY <1>1, <4>1, <4>5, <5>1, <5>2 DEF Backed
        <4> QED
          BY <2>5, <3>2, <4>2, <4>3, <4>4, <4>5 DEF Settling
      <3> QED
        BY <3>1, <3>2
    <2> QED
      BY <1>1, <2>2, <2>3, <2>4, <2>5 DEF Given
  <1>2. CASE appeals'[a] # appeals[a]
    <2>1. /\ pc'[r] = "checking" /\ call'[r] = call[r] /\ call[r].appeal = a
          /\ appeals'[a].status = VerdictOf(call[r].outcome) /\ appeals'[a].resolved = TRUE
      BY <1>0, <1>2 DEF Changed, Verdicts
    <2>2. Settling(r, a)'
      BY <2>1 DEF Settling
    <2> QED
      BY <2>1, <2>2
  <1> QED
    BY <1>1, <1>2

LEMMA VerdictInvHolds == Spec => []VerdictInv
  <1>1. Init => VerdictInv
    BY DEF Init, VerdictInv, Informed, Given, Reviewing, NoAppeal, Verdicts
  <1>2. Inv /\ TypeOK /\ CaseInv /\ VerdictInv /\ [Next]_vars => VerdictInv'
    <2> SUFFICES ASSUME Inv, TypeOK, CaseInv, VerdictInv, [Next]_vars PROVE VerdictInv'
      OBVIOUS
    <2>1. CASE UNCHANGED vars
      BY <2>1 DEF vars, VerdictInv, Informed, NobodyDied, Given, Backed, Settling, Stored
    <2>2. CASE Age
      <3>1. ASSUME NEW r \in Requests
            PROVE  Informed(r)'
        BY <2>2, Ageing DEF Informed, Reviewing, InFlight
      <3>2. ASSUME NEW a \in Appeals, NobodyDied'
            PROVE  Given(a)'
        <4>1. Given(a)
          BY <2>2, <3>2, Ageing DEF VerdictInv, NobodyDied
        <4> QED
          BY <2>2, <4>1, Ageing DEF Given
      <3> QED
        BY <3>1, <3>2 DEF VerdictInv
    <2>4. CASE Wait
      <3>1. ASSUME NEW r \in Requests
            PROVE  Informed(r)'
        BY <2>4, Waited DEF Informed, Reviewing, InFlight
      <3>2. ASSUME NEW a \in Appeals, NobodyDied'
            PROVE  Given(a)'
        <4>1. Given(a)
          BY <2>4, <3>2, Waited DEF VerdictInv, NobodyDied
        <4>2. appeals[a].status \in Verdicts => appeals[a].case \in Cases
          BY DEF Inv, Attached, Stored, Verdicts
        <4> QED
          BY <2>4, <4>1, <4>2, Waited DEF Given, Backed, Settling
      <3> QED
        BY <3>1, <3>2 DEF VerdictInv
    <2>3. ASSUME NEW r \in Requests, Step(r)
          PROVE  VerdictInv'
      <3>1. \A q \in Requests : Informed(q)'
        BY <2>3, InformedStep DEF VerdictInv
      <3>2. ASSUME NobodyDied'
            PROVE  NobodyDied /\ pc'[r] # "dead"
        BY <2>3, <3>2, RequestStep DEF Step, NobodyDied, TypeOK
      <3>3. ASSUME NobodyDied', NEW a \in Appeals
            PROVE  Given(a)'
        BY <2>3, <3>2, <3>3, GivenStep DEF VerdictInv
      <3> QED
        BY <3>1, <3>3 DEF VerdictInv
    <2> QED
      BY <2>1, <2>2, <2>3, <2>4 DEF Next, Step
  <1> QED
    BY <1>1, <1>2, InvHolds, TypeCorrect, CaseInvHolds, PTL DEF Spec

\* As long as no request dies half way, a verdict that stands has an outcome of
\* its kind in the notes of its case, whatever answers, withdrawals, reopenings
\* and purges race.
THEOREM VerdictIsBackedHolds == Spec => []VerdictIsBacked
  <1>1. VerdictInv => VerdictIsBacked
    BY DEF VerdictInv, VerdictIsBacked, Given, Backed, Settling, BeingReviewed
  <1> QED
    BY <1>1, VerdictInvHolds, PTL

-----------------------------------------------------------------------------
(* Until two requests overlap *)

\* What a request has read is still so.
Current(r) ==
    /\ pc[r] \in {"withdrawing", "answering"} => appeals[call[r].appeal].status \in Waiting
    /\ pc[r] = "claiming" => appeals[call[r].appeal].status = "submitted"

Unanswered(a) ==
    appeals[a].status \in Waiting => ~appeals[a].resolved /\ ~appeals[a].expired

AloneInv ==
    ~overlapped =>
        /\ \A r, q \in Requests : pc[r] \in InFlight /\ pc[q] \in InFlight => r = q
        /\ \A r \in Requests : Current(r)
        /\ \A a \in Appeals : Unanswered(a)

\* The request that moves is the only one at work.
LEMMA Solo ==
  ASSUME Inv, AloneInv, NEW r \in Requests, Step(r), ~overlapped', overlapped \in BOOLEAN
  PROVE  ~overlapped /\ \A q \in Requests \ {r} : pc[q] \notin InFlight /\ pc'[q] \notin InFlight
  <1>1. \/ pc[r] \in InFlight /\ ~overlapped
        \/ ~overlapped /\ Quiet
    BY StepOthers
  <1>2. \A q \in Requests \ {r} : pc[q] \notin InFlight
    BY <1>1 DEF AloneInv, Quiet
  <1> QED
    BY <1>1, <1>2, StepOthers

LEMMA AloneStep ==
  ASSUME Inv, AloneInv, NEW r \in Requests, Step(r), overlapped \in BOOLEAN
  PROVE  AloneInv'
  <1> SUFFICES ASSUME ~overlapped'
               PROVE  /\ \A p, q \in Requests : pc'[p] \in InFlight /\ pc'[q] \in InFlight => p = q
                      /\ \A q \in Requests : Current(q)'
                      /\ \A a \in Appeals : Unanswered(a)'
    BY DEF AloneInv
  <1>1. ~overlapped /\ \A q \in Requests \ {r} : pc[q] \notin InFlight /\ pc'[q] \notin InFlight
    BY Solo
  <1>2. ASSUME NEW q \in Requests
        PROVE  Current(q)'
    <2>1. CASE q = r
      <3>1. Arrives(r)
        BY StepArrives
      <3> QED
        BY <2>1, <3>1 DEF Arrives, Current
    <2>2. CASE q # r
      BY <1>1, <2>2 DEF Current, InFlight
    <2> QED
      BY <2>1, <2>2
  <1>3. ASSUME NEW a \in Appeals
        PROVE  Unanswered(a)'
    <2>1. Changed(r, a) /\ Current(r) /\ Unanswered(a)
      BY <1>1, StepAppeals DEF AloneInv
    <2> QED
      BY <2>1 DEF Changed, Current, Unanswered, Waiting, VerdictOf
  <1> QED
    BY <1>1, <1>2, <1>3

LEMMA AloneInvHolds == Spec => []AloneInv
  <1>1. Init => AloneInv
    BY DEF Init, AloneInv, Current, Unanswered, NoAppeal, InFlight, Waiting
  <1>2. Inv /\ TypeOK /\ AloneInv /\ [Next]_vars => AloneInv'
    <2> SUFFICES ASSUME Inv, TypeOK, AloneInv, [Next]_vars PROVE AloneInv'
      OBVIOUS
    <2>1. CASE UNCHANGED vars
      BY <2>1 DEF vars, AloneInv, Current, Unanswered
    <2>2. CASE Age
      <3>1. ASSUME NEW r \in Requests
            PROVE  Current(r)'
        BY <2>2, Ageing DEF Current, InFlight
      <3>2. ASSUME NEW a \in Appeals, ~overlapped
            PROVE  Unanswered(a)'
        BY <2>2, <3>2, Ageing DEF AloneInv, Unanswered
      <3> QED
        BY <2>2, <3>1, <3>2, Ageing DEF AloneInv
    <2>3. CASE Wait
      BY <2>3, Waited DEF AloneInv, Current, Unanswered, InFlight
    <2> QED
      BY <2>1, <2>2, <2>3, AloneStep DEF Next, Step, TypeOK
  <1> QED
    BY <1>1, <1>2, InvHolds, TypeCorrect, PTL DEF Spec

\* Until requests overlap, an answered or withdrawn appeal stays as it is until
\* it is purged, even if the request that answered it died.
THEOREM AnsweredStaysAnsweredHolds == Spec => AnsweredStaysAnswered
  <1>1. ASSUME Inv, TypeOK, AloneInv, [Next]_vars, NEW a \in Appeals, ~overlapped',
               appeals[a].status \in Verdicts \cup {"withdrawn"}, ~BeingReviewed(a)
        PROVE  appeals'[a].status \in {appeals[a].status, "purged"}
    <2>1. CASE UNCHANGED vars
      BY <2>1 DEF vars
    <2>2. CASE Wait \/ Age
      BY <1>1, <2>2, Ageing, Waited
    <2>3. ASSUME NEW r \in Requests, Step(r)
          PROVE  appeals'[a].status \in {appeals[a].status, "purged"}
      <3>1. Changed(r, a) /\ Current(r)
        BY <1>1, <2>3, Solo, StepAppeals DEF AloneInv, TypeOK
      <3> QED
        BY <1>1, <3>1 DEF Changed, Current, Waiting, Verdicts, BeingReviewed
    <2> QED
      BY <1>1, <2>1, <2>2, <2>3 DEF Next, Step
  <1>2. Inv /\ TypeOK /\ AloneInv /\ [Next]_vars =>
          [\A a \in Appeals :
              /\ ~overlapped'
              /\ appeals[a].status \in Verdicts \cup {"withdrawn"} /\ ~BeingReviewed(a)
              => appeals'[a].status \in {appeals[a].status, "purged"}]_vars
    BY <1>1
  <1> QED
    BY <1>2, InvHolds, TypeCorrect, AloneInvHolds, PTL DEF Spec, AnsweredStaysAnswered

\* Until requests overlap, an appeal that nobody answered is not purged.
THEOREM UnansweredIsKeptHolds == Spec => UnansweredIsKept
  <1>1. ASSUME Inv, TypeOK, AloneInv, [Next]_vars, NEW a \in Appeals, ~overlapped',
               appeals[a].status \in Waiting
        PROVE  appeals'[a].status # "purged"
    <2>1. CASE UNCHANGED vars
      BY <1>1, <2>1 DEF vars, Waiting
    <2>2. CASE Wait \/ Age
      BY <1>1, <2>2, Ageing, Waited DEF Waiting
    <2>3. ASSUME NEW r \in Requests, Step(r)
          PROVE  appeals'[a].status # "purged"
      <3>1. Changed(r, a) /\ Unanswered(a)
        BY <1>1, <2>3, Solo, StepAppeals DEF AloneInv, TypeOK
      <3> QED
        BY <1>1, <3>1 DEF Changed, Unanswered, Waiting, VerdictOf
    <2> QED
      BY <1>1, <2>1, <2>2, <2>3 DEF Next, Step
  <1>2. Inv /\ TypeOK /\ AloneInv /\ [Next]_vars =>
          [\A a \in Appeals : ~overlapped' /\ appeals[a].status \in Waiting
              => appeals'[a].status # "purged"]_vars
    BY <1>1
  <1> QED
    BY <1>2, InvHolds, TypeCorrect, AloneInvHolds, PTL DEF Spec, UnansweredIsKept
=============================================================================
