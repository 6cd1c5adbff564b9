----------------------------- MODULE CodesProofs ----------------------------
(***************************************************************************)
(* Theorems about the two kinds of code that stand in for a factor: the    *)
(* emailed ones of OneTimeCodes, for any number of requests, sign-ins and  *)
(* attempts, and the sheets of RecoveryCodes, for any number of requests   *)
(* and codes and any size of the sheet; and that each keeps its promises   *)
(* when the same threads serve both.                                       *)
(***************************************************************************)
EXTENDS SecondFactors, SequenceTheorems, TLAPS

(* Emailed codes *)

\* What a request knows by where it stands: past the read it has a row in hand,
\* a match was found on a row of its own sign-in, and an accepted code is one.
Judged ==
    /\ \A r \in Requests : pc[r] \in {"match", "miss", "foreign"} <=> target[r] # 0
    /\ \A r \in Requests :
           pc[r] = "match" => codes[target[r]].bound = call[r].challenge
    /\ \A r \in Requests : pc[r] \in {"issuing", "superseded"} => call[r] \in IssueCall
    /\ \A a \in accepted :
           pc[a[1]] # "idle" /\ codes[a[2]].bound = call[a[1]].challenge

CodeInv == TypeOK /\ Judged

LEMMA Rows == codes \in Seq(CodeRow)
              => /\ Len(codes) \in Nat /\ codes \in [Ids -> CodeRow]
                 /\ \A i \in Ids : codes[i] \in CodeRow
  BY LenProperties DEF Ids

LEMMA RowsOf ==
    ASSUME codes \in Seq(CodeRow), NEW f \in [Ids -> CodeRow]
    PROVE  f \in Seq(CodeRow) /\ Len(f) = Len(codes)
  <1>1. Len(codes) \in Nat
    BY Rows
  <1>2. f \in Seq(CodeRow)
    BY <1>1 DEF Ids
  <1> QED
    BY <1>1, <1>2, LenProperties DEF Ids

\* A row that has a guess recorded against it, in the state it is left in.
Costs(i, s) ==
    /\ codes' \in Seq(CodeRow) /\ Len(codes') = Len(codes)
    /\ \A j \in Ids \ {i} : codes'[j] = codes[j]
    /\ codes'[i] \in CodeRow
    /\ codes'[i].state = s /\ codes'[i].tries = codes[i].tries + 1
    /\ codes'[i].bound = codes[i].bound /\ codes'[i].expired = codes[i].expired

LEMMA Written ==
    ASSUME codes \in Seq(CodeRow), NEW i \in Ids, NEW s \in {"live", "used", "purged"},
           codes' = [codes EXCEPT ![i].state = s, ![i].tries = @ + 1]
    PROVE  Costs(i, s)
  <1>1. codes \in [Ids -> CodeRow] /\ codes[i] \in CodeRow
    BY Rows
  <1>2. [codes[i] EXCEPT !.state = s, !.tries = @ + 1] \in CodeRow
    <2>1. codes[i].tries + 1 \in Nat
      BY <1>1 DEF CodeRow
    <2> QED
      BY <1>1, <2>1 DEF CodeRow
  <1>3. codes' = [codes EXCEPT ![i] = [@ EXCEPT !.state = s, !.tries = @ + 1]]
    BY <1>1 DEF CodeRow
  <1>4. codes' \in [Ids -> CodeRow]
    BY <1>1, <1>2, <1>3
  <1>5. codes'[i] = [codes[i] EXCEPT !.state = s, !.tries = @ + 1]
    BY <1>1, <1>3
  <1>6. \A j \in Ids \ {i} : codes'[j] = codes[j]
    BY <1>1, <1>3
  <1> QED
    BY <1>1, <1>2, <1>4, <1>5, <1>6, RowsOf DEF Costs, CodeRow

LEMMA WrittenInState ==
    ASSUME codes \in Seq(CodeRow), NEW i \in Ids,
           codes' = [codes EXCEPT ![i].tries = @ + 1]
    PROVE  Costs(i, codes[i].state)
  <1>1. codes \in [Ids -> CodeRow] /\ codes[i] \in CodeRow
    BY Rows
  <1>2. [codes[i] EXCEPT !.tries = @ + 1] \in CodeRow
    <2>1. codes[i].tries + 1 \in Nat
      BY <1>1 DEF CodeRow
    <2> QED
      BY <1>1, <2>1 DEF CodeRow
  <1>3. codes' \in [Ids -> CodeRow]
    BY <1>1, <1>2
  <1>4. codes'[i] = [codes[i] EXCEPT !.tries = @ + 1]
    BY <1>1
  <1>5. \A j \in Ids \ {i} : codes'[j] = codes[j]
    BY <1>1
  <1> QED
    BY <1>1, <1>2, <1>3, <1>4, <1>5, RowsOf DEF Costs, CodeRow

\* Recording a verdict costs the row it is about one try, unless it is gone.
LEMMA RecordCosts ==
    ASSUME CodeInv, NEW r \in Requests, Record(r)
    PROVE  /\ target[r] \in Ids
           /\ IF codes[target[r]].state = "purged" THEN codes' = codes
              ELSE Costs(target[r], IF pc[r] = "match" THEN "used" ELSE "live")
  <1>1. target[r] \in Ids
    BY Rows DEF CodeInv, TypeOK, Judged, Record, Ids
  <1>2. codes \in Seq(CodeRow)
    BY DEF CodeInv, TypeOK
  <1> QED
    BY <1>1, <1>2, Written DEF Record

LEMMA ForeignCosts ==
    ASSUME CodeInv, NEW r \in Requests, RecordForeign(r)
    PROVE  /\ target[r] \in Ids
           /\ IF codes[target[r]].state = "purged" THEN codes' = codes
              ELSE Costs(target[r], codes[target[r]].state)
  <1>1. target[r] \in Ids
    BY Rows DEF CodeInv, TypeOK, Judged, RecordForeign, Ids
  <1>2. codes \in Seq(CodeRow)
    BY DEF CodeInv, TypeOK
  <1> QED
    BY <1>1, <1>2, WrittenInState DEF RecordForeign

\* Rows only come to the table; none changes its sign-in or gets a try back.
Grows ==
    /\ codes' \in Seq(CodeRow) /\ Len(codes) <= Len(codes')
    /\ \A i \in Ids : /\ codes'[i].bound = codes[i].bound
                      /\ codes'[i].tries >= codes[i].tries

LEMMA Redrawn ==
    ASSUME codes \in Seq(CodeRow), NEW f \in [Ids -> CodeRow], codes' = f,
           \A i \in Ids : f[i].bound = codes[i].bound /\ f[i].tries = codes[i].tries
    PROVE  Grows
  <1>1. /\ codes' \in Seq(CodeRow) /\ Len(codes') = Len(codes) /\ Len(codes) \in Nat
        /\ \A i \in Ids : codes[i].tries \in Nat
    BY Rows, RowsOf DEF CodeRow
  <1> QED
    BY <1>1 DEF Grows

LEMMA CostGrows ==
    ASSUME codes \in Seq(CodeRow), NEW i \in Ids, NEW s, Costs(i, s)
    PROVE  Grows
  <1>1. /\ Len(codes) \in Nat /\ \A j \in Ids : codes[j].tries \in Nat
    BY Rows DEF CodeRow
  <1> QED
    BY <1>1 DEF Costs, Grows

LEMMA RowsGrow == CodeInv /\ [Next]_vars => Grows
  <1> SUFFICES ASSUME CodeInv, [Next]_vars PROVE Grows
    OBVIOUS
  <1>0. /\ codes \in Seq(CodeRow) /\ Len(codes) \in Nat /\ codes \in [Ids -> CodeRow]
        /\ \A i \in Ids : codes[i] \in CodeRow
    BY Rows DEF CodeInv, TypeOK
  <1>1. CASE codes' = codes
    BY <1>0, <1>1 DEF Grows, CodeRow
  <1>2. ASSUME NEW r \in Requests, Supersede(r) PROVE Grows
    <2> DEFINE f == [i \in Ids |-> IF Live(i) THEN [codes[i] EXCEPT !.state = "used"]
                                   ELSE codes[i]]
    <2>1. f \in [Ids -> CodeRow]
      BY <1>0 DEF CodeRow
    <2>2. \A i \in Ids : f[i].bound = codes[i].bound /\ f[i].tries = codes[i].tries
      BY <1>0 DEF CodeRow
    <2>3. codes' = f
      BY <1>2 DEF Supersede
    <2> QED
      BY <1>0, <2>1, <2>2, <2>3, Redrawn
  <1>3. ASSUME NEW r \in Requests, Insert(r) PROVE Grows
    <2>1. call[r].challenge \in Challenges
      BY <1>3 DEF Insert, CodeInv, Judged, IssueCall
    <2>2. [state |-> "live", tries |-> 0, bound |-> call[r].challenge,
           expired |-> FALSE] \in CodeRow
      BY <2>1 DEF CodeRow
    <2>3. /\ codes' \in Seq(CodeRow) /\ Len(codes') = Len(codes) + 1
          /\ \A i \in Ids : codes'[i] = codes[i]
      BY <1>0, <1>3, <2>2, AppendProperties DEF Insert, Ids
    <2> QED
      BY <1>0, <2>3 DEF Grows, CodeRow
  <1>4. ASSUME NEW r \in Requests, Record(r) PROVE Grows
    BY <1>0, <1>1, <1>4, RecordCosts, CostGrows
  <1>5. ASSUME NEW r \in Requests, RecordForeign(r) PROVE Grows
    BY <1>0, <1>1, <1>5, ForeignCosts, CostGrows
  <1>6. ASSUME NEW i \in Ids, Expire(i) PROVE Grows
    <2> DEFINE f == [codes EXCEPT ![i].expired = TRUE]
    <2>1. [codes[i] EXCEPT !.expired = TRUE] \in CodeRow
      BY <1>0 DEF CodeRow
    <2>2. f \in [Ids -> CodeRow]
      BY <1>0, <2>1
    <2>3. \A j \in Ids : f[j].bound = codes[j].bound /\ f[j].tries = codes[j].tries
      BY <1>0 DEF CodeRow
    <2>4. codes' = f
      BY <1>6 DEF Expire
    <2> QED
      BY <1>0, <2>2, <2>3, <2>4, Redrawn
  <1>7. ASSUME Purge PROVE Grows
    <2> DEFINE f == [i \in Ids |-> IF Live(i) /\ ~codes[i].expired THEN codes[i]
                                   ELSE [codes[i] EXCEPT !.state = "purged"]]
    <2>1. f \in [Ids -> CodeRow]
      BY <1>0 DEF CodeRow
    <2>2. \A i \in Ids : f[i].bound = codes[i].bound /\ f[i].tries = codes[i].tries
      BY <1>0 DEF CodeRow
    <2>3. codes' = f
      BY <1>7 DEF Purge
    <2> QED
      BY <1>0, <2>1, <2>2, <2>3, Redrawn
  <1>8. ASSUME NEW r \in Requests, NEW c \in Calls, Begin(r, c) PROVE Grows
    BY <1>1, <1>8 DEF Begin
  <1>9. ASSUME NEW r \in Requests, Read(r) \/ Die(r) PROVE Grows
    BY <1>1, <1>9 DEF Read, Die
  <1> QED
    BY <1>1, <1>2, <1>3, <1>4, <1>5, <1>6, <1>7, <1>8, <1>9 DEF Next, vars

LEMMA CodeInvInit == Init => CodeInv
  <1> SUFFICES ASSUME Init PROVE CodeInv
    OBVIOUS
  <1>1. <<>> \in Seq(CodeRow) /\ Len(<<>>) = 0
    BY EmptySeq
  <1>2. codes \in Seq(CodeRow) /\ Len(codes) = 0
    BY <1>1 DEF Init
  <1>3. TypeOK
    <2>1. /\ pc \in [Requests -> {"idle", "done", "dead"} \cup InFlight]
          /\ call \in [Requests -> IssueCall \cup VerifyCall \cup {NoCall}]
          /\ target \in [Requests -> 0..Len(codes)]
          /\ accepted = {} /\ overlapped = FALSE
      BY <1>2 DEF Init
    <2> QED
      BY <1>2, <2>1 DEF TypeOK
  <1>4. Judged
    BY DEF Init, Judged
  <1> QED
    BY <1>3, <1>4 DEF CodeInv

\* One request moves and knows what its new position requires; the others know
\* what they knew.
LEMMA Moves ==
    ASSUME CodeInv, Grows, NEW r \in Requests,
           NEW where \in {"done", "dead"} \cup InFlight, NEW t \in 0..Len(codes),
           NEW c \in IssueCall \cup VerifyCall \cup {NoCall},
           pc' = [pc EXCEPT ![r] = where],
           target' = [target EXCEPT ![r] = t],
           call' = [call EXCEPT ![r] = c],
           pc[r] = "idle" \/ c = call[r],
           where \in {"match", "miss", "foreign"} <=> t # 0,
           where = "match" => codes[t].bound = c.challenge,
           where \in {"issuing", "superseded"} => c \in IssueCall,
           \/ accepted' = accepted
           \/ pc[r] = "match" /\ accepted' = accepted \cup {<<r, target[r]>>},
           overlapped' \in BOOLEAN
    PROVE  CodeInv'
  <1>1. /\ pc \in [Requests -> {"idle", "done", "dead"} \cup InFlight]
        /\ call \in [Requests -> IssueCall \cup VerifyCall \cup {NoCall}]
        /\ target \in [Requests -> 0..Len(codes)]
        /\ accepted \subseteq Requests \X Ids
    BY DEF CodeInv, TypeOK, Ids
  <1>2. /\ codes' \in Seq(CodeRow) /\ Len(codes) \in Nat /\ Len(codes') \in Nat
        /\ Len(codes) <= Len(codes')
        /\ \A i \in Ids : codes'[i].bound = codes[i].bound
    BY Rows, LenProperties DEF CodeInv, TypeOK, Grows
  <1>3. 0..Len(codes) \subseteq 0..Len(codes') /\ Ids \subseteq Ids'
    BY <1>2 DEF Ids
  <1>4. accepted' \subseteq Requests \X Ids
    BY <1>1 DEF CodeInv, Judged, Ids
  <1>5. TypeOK'
    <2>1. pc' \in [Requests -> {"idle", "done", "dead"} \cup InFlight]
      BY <1>1
    <2>2. call' \in [Requests -> IssueCall \cup VerifyCall \cup {NoCall}]
      BY <1>1
    <2>3. target' \in [Requests -> 0..Len(codes')]
      BY <1>1, <1>3
    <2>4. accepted' \subseteq Requests \X (1..Len(codes'))
      BY <1>3, <1>4 DEF Ids
    <2> QED
      BY <1>2, <2>1, <2>2, <2>3, <2>4 DEF TypeOK, InFlight, CodeRow, IssueCall,
         VerifyCall, NoCall
  <1>6. Judged'
    <2>1. \A q \in Requests :
              /\ pc'[q] = IF q = r THEN where ELSE pc[q]
              /\ target'[q] = IF q = r THEN t ELSE target[q]
              /\ call'[q] = IF q = r THEN c ELSE call[q]
      BY <1>1
    <2>2. \A q \in Requests : pc'[q] \in {"match", "miss", "foreign"} <=> target'[q] # 0
      BY <2>1 DEF CodeInv, Judged
    <2>3. \A q \in Requests :
              pc'[q] = "match" => codes'[target'[q]].bound = call'[q].challenge
      <3>1. ASSUME NEW q \in Requests, pc'[q] = "match"
            PROVE  target'[q] \in Ids /\ codes[target'[q]].bound = call'[q].challenge
        BY <1>1, <1>2, <2>1, <2>2, <3>1 DEF CodeInv, Judged, Ids
      <3> QED
        BY <1>2, <3>1
    <2>4. \A q \in Requests : pc'[q] \in {"issuing", "superseded"} => call'[q] \in IssueCall
      BY <2>1 DEF CodeInv, Judged
    <2>5. ASSUME NEW a \in accepted'
          PROVE  pc'[a[1]] # "idle" /\ codes'[a[2]].bound = call'[a[1]].challenge
      <3>0. where # "idle"
        BY DEF InFlight
      <3>1. a[1] \in Requests /\ a[2] \in Ids
        BY <1>4
      <3>2. CASE a \in accepted
        <4>1. pc[a[1]] # "idle" /\ codes[a[2]].bound = call[a[1]].challenge
          BY <3>2 DEF CodeInv, Judged
        <4>2. call'[a[1]] = call[a[1]] /\ pc'[a[1]] # "idle"
          BY <2>1, <3>0, <3>1, <4>1
        <4> QED
          BY <1>2, <3>1, <4>1, <4>2
      <3>3. CASE a \notin accepted
        <4>1. pc[r] = "match" /\ a = <<r, target[r]>>
          BY <3>3
        <4>2. codes[target[r]].bound = call[r].challenge /\ call'[r] = call[r]
          BY <2>1, <4>1 DEF CodeInv, Judged
        <4> QED
          BY <1>2, <2>1, <3>0, <3>1, <4>1, <4>2
      <3> QED
        BY <3>2, <3>3
    <2> QED
      BY <2>2, <2>3, <2>4, <2>5 DEF Judged
  <1> QED
    BY <1>5, <1>6 DEF CodeInv

\* Nobody moves.
LEMMA Stays ==
    ASSUME CodeInv, Grows, UNCHANGED <<pc, call, target, accepted>>,
           overlapped' \in BOOLEAN
    PROVE  CodeInv'
  <1>1. /\ target \in [Requests -> 0..Len(codes)] /\ accepted \subseteq Requests \X Ids
        /\ Len(codes) \in Nat
    BY Rows DEF CodeInv, TypeOK, Ids
  <1>2. /\ codes' \in Seq(CodeRow) /\ Len(codes') \in Nat /\ Len(codes) <= Len(codes')
        /\ \A i \in Ids : codes'[i].bound = codes[i].bound
    BY LenProperties DEF Grows
  <1>3. 0..Len(codes) \subseteq 0..Len(codes') /\ Ids \subseteq 1..Len(codes')
    BY <1>1, <1>2 DEF Ids
  <1>4. TypeOK'
    <2>1. /\ target' \in [Requests -> 0..Len(codes')]
          /\ accepted' \subseteq Requests \X (1..Len(codes'))
      BY <1>1, <1>3
    <2> QED
      BY <1>2, <2>1 DEF CodeInv, TypeOK, InFlight, CodeRow, IssueCall, VerifyCall, NoCall
  <1>5. \A r \in Requests : pc[r] = "match" => target[r] \in Ids
    BY <1>1 DEF CodeInv, Judged, Ids
  <1>6. Judged'
    BY <1>1, <1>2, <1>5 DEF CodeInv, Judged, IssueCall
  <1> QED
    BY <1>4, <1>6 DEF CodeInv

LEMMA CodeInvStep == CodeInv /\ [Next]_vars => CodeInv'
  <1> SUFFICES ASSUME CodeInv, [Next]_vars PROVE CodeInv'
    OBVIOUS
  <1>0. /\ Grows /\ Len(codes) \in Nat /\ overlapped \in BOOLEAN
        /\ pc \in [Requests -> {"idle", "done", "dead"} \cup InFlight]
        /\ call \in [Requests -> IssueCall \cup VerifyCall \cup {NoCall}]
        /\ target \in [Requests -> 0..Len(codes)]
    BY RowsGrow, Rows DEF CodeInv, TypeOK
  <1>z. 0 \in 0..Len(codes) /\ \A i \in Ids : i \in 0..Len(codes) /\ i # 0
    BY <1>0 DEF Ids
  <1>m. \A q \in Requests : /\ call[q] \in IssueCall \cup VerifyCall \cup {NoCall}
                            /\ call = [call EXCEPT ![q] = call[q]]
                            /\ target = [target EXCEPT ![q] = target[q]]
    BY <1>0
  <1>1. ASSUME NEW r \in Requests, NEW c \in Calls, Begin(r, c) PROVE CodeInv'
    <2>1. c \in IssueCall \cup VerifyCall
      BY <1>0 DEF Calls, VerifyCall
    <2>2. target[r] = 0
      BY <1>1 DEF Begin, CodeInv, Judged
    <2> DEFINE where == IF c.kind = "issue" THEN "issuing" ELSE "verifying"
    <2>3. where \in InFlight /\ (where \in {"issuing", "superseded"} => c \in IssueCall)
      BY <2>1 DEF InFlight, IssueCall, VerifyCall
    <2>4. /\ pc[r] = "idle" /\ pc' = [pc EXCEPT ![r] = where]
          /\ call' = [call EXCEPT ![r] = c] /\ target' = [target EXCEPT ![r] = 0]
          /\ accepted' = accepted /\ overlapped' \in BOOLEAN
      BY <1>0, <1>1, <1>m, <2>2 DEF Begin, GoTo, NoteOverlap
    <2>5. where \notin {"match", "miss", "foreign"}
      OBVIOUS
    <2> HIDE DEF where
    <2> QED
      BY <1>0, <1>z, <2>1, <2>3, <2>4, <2>5, Moves
  <1>2. ASSUME NEW r \in Requests, Supersede(r) PROVE CodeInv'
    <2>1. target[r] = 0 /\ call[r] \in IssueCall
      BY <1>2 DEF Supersede, CodeInv, Judged
    <2> QED
      BY <1>0, <1>2, <1>z, <1>m, <2>1, Moves DEF Supersede, GoTo, InFlight
  <1>3. ASSUME NEW r \in Requests, Insert(r) PROVE CodeInv'
    <2>1. target[r] = 0
      BY <1>3 DEF Insert, CodeInv, Judged
    <2> QED
      BY <1>0, <1>3, <1>z, <1>m, <2>1, Moves DEF Insert, GoTo
  <1>4. ASSUME NEW r \in Requests, Read(r) PROVE CodeInv'
    <2>1. UNCHANGED <<call, accepted, overlapped>>
      BY <1>4 DEF Read
    <2>2. CASE End(r, "done")
      BY <1>0, <1>z, <1>m, <2>1, <2>2, Moves DEF End, GoTo
    <2>3. ASSUME NEW i \in Ids, Judge(r, i) # "done",
                 target' = [target EXCEPT ![r] = i], GoTo(r, Judge(r, i))
          PROVE  CodeInv'
      <3>1. /\ Judge(r, i) \in {"foreign", "match", "miss"}
            /\ Judge(r, i) = "match" => codes[i].bound = call[r].challenge
        BY <2>3 DEF Judge
      <3> QED
        BY <1>0, <1>z, <1>m, <2>1, <2>3, <3>1, Moves DEF GoTo, InFlight
    <2> QED
      BY <1>4, <2>2, <2>3 DEF Read
  <1>5. ASSUME NEW r \in Requests, Record(r) PROVE CodeInv'
    BY <1>0, <1>5, <1>z, <1>m, Moves DEF Record, End, GoTo
  <1>6. ASSUME NEW r \in Requests, RecordForeign(r) PROVE CodeInv'
    BY <1>0, <1>6, <1>z, <1>m, Moves DEF RecordForeign, End, GoTo
  <1>7. ASSUME NEW r \in Requests, Die(r) PROVE CodeInv'
    BY <1>0, <1>7, <1>z, <1>m, Moves DEF Die, End, GoTo
  <1>8. ASSUME NEW i \in Ids, Expire(i) PROVE CodeInv'
    BY <1>0, <1>8, Stays DEF Expire
  <1>9. ASSUME Purge PROVE CodeInv'
    BY <1>0, <1>9, Stays DEF Purge, NoteOverlap
  <1>10. CASE UNCHANGED vars
    BY <1>0, <1>10, Stays DEF vars
  <1> QED
    BY <1>1, <1>2, <1>3, <1>4, <1>5, <1>6, <1>7, <1>8, <1>9, <1>10 DEF Next

THEOREM CodeInvHolds == Spec => []CodeInv
  BY CodeInvInit, CodeInvStep, PTL DEF Spec

\* Type correctness of OneTimeCodes: no request ever points at a row that was
\* not inserted, and rows keep their columns' ranges.
THEOREM TypeCorrect == Spec => []TypeOK
  <1>1. CodeInv => TypeOK
    BY DEF CodeInv
  <1> QED
    BY <1>1, CodeInvHolds, PTL

\* A code is accepted only from the sign-in it was issued for (auth.py:171-179).
THEOREM BoundToSignInHolds == Spec => []BoundToSignIn
  <1>1. CodeInv => BoundToSignIn
    BY DEF CodeInv, Judged, BoundToSignIn
  <1> QED
    BY <1>1, CodeInvHolds, PTL

\* Only a read of a row with tries left takes it in hand, and only a row in hand
\* is accepted.
LEMMA TakesInHand ==
    ASSUME CodeInv, [Next]_vars, NEW i \in Ids, codes[i].tries >= MaxAttempts,
           \A r \in Requests : target[r] # i
    PROVE  /\ \A r \in Requests : target'[r] # i
           /\ \A r \in Requests : <<r, i>> \in accepted' => <<r, i>> \in accepted
  <1> DEFINE Kept == /\ \A r \in Requests : target'[r] # i
                     /\ \A r \in Requests : <<r, i>> \in accepted' => <<r, i>> \in accepted
  <1>0. target \in [Requests -> 0..Len(codes)] /\ i # 0
    BY Rows DEF CodeInv, TypeOK, Ids
  <1>1. ASSUME UNCHANGED target, UNCHANGED accepted PROVE Kept
    BY <1>1
  <1>2. ASSUME NEW r \in Requests, NEW how, End(r, how), UNCHANGED accepted PROVE Kept
    BY <1>0, <1>2 DEF End
  <1>3. ASSUME NEW r \in Requests, Read(r) PROVE Kept
    <2>1. UNCHANGED accepted
      BY <1>3 DEF Read
    <2>2. ASSUME NEW j \in Ids, Judge(r, j) # "done",
                 target' = [target EXCEPT ![r] = j]
          PROVE  Kept
      <3>1. j # i
        BY <2>2 DEF Judge, Unusable
      <3> QED
        BY <1>0, <2>1, <2>2, <3>1
    <2> QED
      BY <1>2, <1>3, <2>1, <2>2 DEF Read
  <1>4. ASSUME NEW r \in Requests, Record(r) PROVE Kept
    <2>1. /\ target' = [target EXCEPT ![r] = 0]
          /\ accepted' \subseteq accepted \cup {<<r, target[r]>>}
      BY <1>4 DEF Record, End
    <2> QED
      BY <1>0, <2>1
  <1>5. ASSUME NEW r \in Requests, RecordForeign(r) \/ Die(r) PROVE Kept
    BY <1>2, <1>5 DEF RecordForeign, Die
  <1>6. ASSUME NEW r \in Requests, Supersede(r) \/ Insert(r) PROVE Kept
    BY <1>1, <1>6 DEF Supersede, Insert
  <1>7. ASSUME NEW r \in Requests, NEW c \in Calls, Begin(r, c) PROVE Kept
    BY <1>1, <1>7 DEF Begin
  <1>8. ASSUME NEW j \in Ids, Expire(j) PROVE Kept
    BY <1>1, <1>8 DEF Expire
  <1>9. CASE UNCHANGED vars
    BY <1>1, <1>9 DEF vars
  <1>10. CASE Purge
    BY <1>1, <1>10 DEF Purge
  <1> QED
    BY <1>3, <1>4, <1>5, <1>6, <1>7, <1>8, <1>9, <1>10 DEF Next

\* A spent budget is spent for good, and its code is never accepted.
THEOREM ExhaustedIsFinalHolds == Spec => ExhaustedIsFinal
  <1>1. ASSUME CodeInv, [Next]_vars, NEW i \in Ids, Exhausted(i)
        PROVE  /\ Exhausted(i)'
               /\ \A r \in Requests : <<r, i>> \in accepted' => <<r, i>> \in accepted
    <2>1. codes[i].tries \in Nat /\ codes'[i].tries >= codes[i].tries
      BY RowsGrow, <1>1, Rows DEF Grows, CodeInv, TypeOK, CodeRow
    <2>2. codes'[i].tries \in Int
      <3>1. codes' \in Seq(CodeRow) /\ i \in 1..Len(codes')
        BY <1>1, RowsGrow, Rows, LenProperties DEF Grows, Ids, CodeInv, TypeOK
      <3>2. codes'[i] \in CodeRow
        BY <3>1, ElementOfSeq
      <3> QED
        BY <3>2 DEF CodeRow
    <2>3. codes'[i].tries >= MaxAttempts
      BY <1>1, <2>1, <2>2, MaxAttemptsAssumption DEF Exhausted
    <2> QED
      BY <1>1, <2>3, TakesInHand DEF Exhausted
  <1>2. CodeInv /\ [Next]_vars
        => [\A i \in Ids : Exhausted(i) =>
               /\ Exhausted(i)'
               /\ \A r \in Requests : <<r, i>> \in accepted' => <<r, i>> \in accepted]_vars
    BY <1>1
  <1> QED
    BY <1>2, CodeInvHolds, PTL DEF Spec, ExhaustedIsFinal

\* While calls have not overlapped one request is at work, and what it relies
\* on holds: no row but the newest is live, there is none between the two
\* statements of an issue, and a row in hand is live and has tries left.
AloneAtWork ==
    \A q, r \in Requests : pc[q] \in InFlight /\ pc[r] \in InFlight => q = r
OneLive == \A i \in Ids : Live(i) => i = Len(codes)
NoneBetween == \A r \in Requests : pc[r] = "superseded" => \A i \in Ids : ~Live(i)
StillGood ==
    \A r \in Requests :
        target[r] # 0 => Live(target[r]) /\ codes[target[r]].tries < MaxAttempts
Token == AloneAtWork /\ OneLive /\ NoneBetween /\ StillGood
TokenInv == ~overlapped => Token

\* What an outsider sees of the newest row: it can be redeemed.
Held == /\ Len(codes) # 0 /\ Live(Len(codes))
        /\ codes[Len(codes)].expired => InHand(Len(codes))

LEMMA LiveCodeIs ==
    CodeInv /\ OneLive => LiveCode = IF Held THEN Len(codes) ELSE 0
  <1> SUFFICES ASSUME CodeInv, OneLive
               PROVE  LiveCode = IF Held THEN Len(codes) ELSE 0
    OBVIOUS
  <1>0. Len(codes) \in Nat
    BY Rows DEF CodeInv, TypeOK
  <1>1. \A i \in Ids : Redeemable(i) <=> Held /\ i = Len(codes)
    BY <1>0 DEF OneLive, Redeemable, Newest, Held, Ids
  <1>2. CASE Held
    <2>1. Len(codes) \in Ids
      BY <1>0, <1>2 DEF Held, Ids
    <2>2. \A i \in Ids : Redeemable(i) <=> i = Len(codes)
      BY <1>1, <1>2
    <2>3. Redeemable(Len(codes)) /\ (CHOOSE i \in Ids : Redeemable(i)) = Len(codes)
      BY <2>1, <2>2
    <2> QED
      BY <1>2, <2>1, <2>3 DEF LiveCode
  <1>3. CASE ~Held
    BY <1>1, <1>3 DEF LiveCode
  <1> QED
    BY <1>2, <1>3


\* A request at work is the only one, and no other has a row in hand.
LEMMA OthersRest ==
    ASSUME CodeInv, Token, NEW r \in Requests, pc[r] \in InFlight
    PROVE  \A q \in Requests \ {r} : pc[q] \notin InFlight /\ target[q] = 0
  BY DEF CodeInv, Judged, Token, AloneAtWork, InFlight

LEMMA TokenMoves ==
    ASSUME CodeInv, NEW r \in Requests, NEW where, NEW t,
           \A q \in Requests \ {r} : pc[q] \notin InFlight,
           pc' = [pc EXCEPT ![r] = where], target' = [target EXCEPT ![r] = t],
           OneLive',
           where = "superseded" => \A i \in Ids' : ~Live(i)',
           t # 0 => codes'[t].state = "live" /\ codes'[t].tries < MaxAttempts
    PROVE  Token'
  <1>1. \A q \in Requests : /\ pc'[q] = IF q = r THEN where ELSE pc[q]
                            /\ target'[q] = IF q = r THEN t ELSE target[q]
    BY DEF CodeInv, TypeOK
  <1>2. \A q \in Requests \ {r} : target[q] = 0
    BY DEF CodeInv, Judged, InFlight
  <1>3. AloneAtWork'
    BY <1>1 DEF AloneAtWork, InFlight
  <1>4. NoneBetween'
    BY <1>1 DEF NoneBetween, InFlight
  <1>5. StillGood'
    BY <1>1, <1>2 DEF StillGood, Live
  <1> QED
    BY <1>3, <1>4, <1>5 DEF Token

\* What each statement does to the rows while calls have not overlapped.
LEMMA SupersedeClears ==
    ASSUME CodeInv, NEW r \in Requests, Supersede(r)
    PROVE  Len(codes') = Len(codes) /\ Ids' = Ids /\ \A i \in Ids : ~Live(i)'
  <1>1. /\ codes \in Seq(CodeRow) /\ codes \in [Ids -> CodeRow]
        /\ \A i \in Ids : codes[i] \in CodeRow
    BY Rows DEF CodeInv, TypeOK
  <1>2. codes' \in [Ids -> CodeRow] /\ \A i \in Ids : codes'[i].state # "live"
    BY <1>1 DEF Supersede, CodeRow, Live
  <1> QED
    BY <1>1, <1>2, RowsOf DEF Live, Ids

LEMMA InsertAdds ==
    ASSUME CodeInv, NEW r \in Requests, Insert(r)
    PROVE  /\ Len(codes') = Len(codes) + 1 /\ Len(codes) \in Nat
           /\ \A i \in Ids : codes'[i] = codes[i]
           /\ codes'[Len(codes')].state = "live"
           /\ codes'[Len(codes')].tries = 0 /\ ~codes'[Len(codes')].expired
  <1>1. codes \in Seq(CodeRow) /\ Len(codes) \in Nat
    BY Rows DEF CodeInv, TypeOK
  <1>2. call[r].challenge \in Challenges
    BY DEF Insert, CodeInv, Judged, IssueCall
  <1>3. [state |-> "live", tries |-> 0, bound |-> call[r].challenge,
         expired |-> FALSE] \in CodeRow
    BY <1>2 DEF CodeRow
  <1> QED
    BY <1>1, <1>3, AppendProperties DEF Insert, Ids

LEMMA ExpireAges ==
    ASSUME CodeInv, NEW i \in Ids, Expire(i)
    PROVE  /\ Len(codes') = Len(codes) /\ Ids' = Ids
           /\ \A j \in Ids : /\ codes'[j].state = codes[j].state
                             /\ codes'[j].tries = codes[j].tries
                             /\ codes'[j].expired = (j = i \/ codes[j].expired)
  <1>1. /\ codes \in Seq(CodeRow) /\ codes \in [Ids -> CodeRow]
        /\ \A j \in Ids : codes[j] \in CodeRow
    BY Rows DEF CodeInv, TypeOK
  <1>2. [codes[i] EXCEPT !.expired = TRUE] \in CodeRow
    BY <1>1 DEF CodeRow
  <1>3. codes' = [codes EXCEPT ![i] = [@ EXCEPT !.expired = TRUE]]
    BY DEF Expire
  <1>4. codes' \in [Ids -> CodeRow] /\ \A j \in Ids \ {i} : codes'[j] = codes[j]
    BY <1>1, <1>2, <1>3
  <1>5. codes'[i] = [codes[i] EXCEPT !.expired = TRUE]
    BY <1>1, <1>3
  <1>6. \A j \in Ids : codes[j].expired \in BOOLEAN
    BY <1>1 DEF CodeRow
  <1>7. \A j \in Ids : /\ codes'[j].state = codes[j].state
                       /\ codes'[j].tries = codes[j].tries
    <2>1. codes'[i].state = codes[i].state /\ codes'[i].tries = codes[i].tries
      BY <1>1, <1>5 DEF CodeRow
    <2> QED
      BY <1>4, <2>1
  <1>8. \A j \in Ids : codes'[j].expired = (j = i \/ codes[j].expired)
    BY <1>1, <1>4, <1>5, <1>6 DEF CodeRow
  <1> QED
    BY <1>1, <1>4, <1>7, <1>8, RowsOf DEF Ids

LEMMA PurgeKeeps ==
    ASSUME CodeInv, Purge
    PROVE  /\ Len(codes') = Len(codes) /\ Ids' = Ids
           /\ \A j \in Ids : IF Live(j) /\ ~codes[j].expired THEN codes'[j] = codes[j]
                             ELSE codes'[j].state = "purged"
  <1>1. /\ codes \in Seq(CodeRow) /\ codes \in [Ids -> CodeRow]
        /\ \A j \in Ids : codes[j] \in CodeRow
    BY Rows DEF CodeInv, TypeOK
  <1>2. /\ codes' \in [Ids -> CodeRow]
        /\ \A j \in Ids : IF Live(j) /\ ~codes[j].expired THEN codes'[j] = codes[j]
                          ELSE codes'[j].state = "purged"
    BY <1>1 DEF Purge, CodeRow, Live
  <1> QED
    BY <1>1, <1>2, RowsOf DEF Ids

LEMMA TokenInit == Init => TokenInv
  <1> SUFFICES ASSUME Init PROVE TokenInv
    OBVIOUS
  <1>1. Len(codes) = 0 /\ Ids = {}
    BY EmptySeq DEF Init, Ids
  <1> QED
    BY <1>1 DEF Init, TokenInv, Token, AloneAtWork, OneLive, NoneBetween, StillGood,
       InFlight

LEMMA TokenStep ==
    ASSUME CodeInv, Token, [Next]_vars, overlapped' = FALSE
    PROVE  Token'
  <1>0. /\ Len(codes) \in Nat /\ codes \in Seq(CodeRow)
        /\ \A i \in Ids : codes[i] \in CodeRow
        /\ target \in [Requests -> 0..Len(codes)]
    BY Rows DEF CodeInv, TypeOK
  <1>m. \A q \in Requests : target = [target EXCEPT ![q] = target[q]]
    BY <1>0
  <1>l. Ids' = 1..Len(codes')
    BY DEF Ids
  <1>1. ASSUME NEW r \in Requests, NEW c \in Calls, Begin(r, c) PROVE Token'
    <2>1. /\ codes' = codes /\ target' = [target EXCEPT ![r] = 0]
          /\ \E where \in {"issuing", "verifying"} : pc' = [pc EXCEPT ![r] = where]
      BY <1>1, <1>m DEF Begin, GoTo, CodeInv, Judged
    <2>2. \A q \in Requests : pc[q] \notin InFlight
      BY <1>1 DEF Begin, NoteOverlap
    <2>3. OneLive'
      BY <2>1 DEF Token, OneLive, Live, Ids
    <2> QED
      BY <2>1, <2>2, <2>3, TokenMoves
  <1>2. ASSUME NEW r \in Requests, Supersede(r) PROVE Token'
    <2>1. /\ pc[r] \in InFlight /\ pc' = [pc EXCEPT ![r] = "superseded"]
          /\ target' = [target EXCEPT ![r] = 0]
      BY <1>2, <1>m DEF Supersede, GoTo, CodeInv, Judged, InFlight
    <2>2. Ids' = Ids /\ \A i \in Ids : ~Live(i)'
      BY <1>2, SupersedeClears
    <2>3. OneLive'
      BY <2>2 DEF OneLive
    <2> QED
      BY <2>1, <2>2, <2>3, OthersRest, TokenMoves
  <1>3. ASSUME NEW r \in Requests, Insert(r) PROVE Token'
    <2>1. /\ pc[r] \in InFlight /\ pc' = [pc EXCEPT ![r] = "done"]
          /\ target' = [target EXCEPT ![r] = 0] /\ \A i \in Ids : ~Live(i)
      BY <1>3, <1>m DEF Insert, GoTo, CodeInv, Judged, InFlight, Token, NoneBetween
    <2>2. Len(codes') = Len(codes) + 1 /\ \A i \in Ids : codes'[i] = codes[i]
      BY <1>3, InsertAdds
    <2>3. OneLive'
      BY <1>0, <2>1, <2>2 DEF OneLive, Live, Ids
    <2> QED
      BY <2>1, <2>3, OthersRest, TokenMoves
  <1>4. ASSUME NEW r \in Requests, Read(r) PROVE Token'
    <2>1. pc[r] \in InFlight /\ codes' = codes
      BY <1>4 DEF Read, InFlight
    <2>2. OneLive'
      BY <2>1 DEF Token, OneLive, Live, Ids
    <2>3. CASE End(r, "done")
      BY <2>1, <2>2, <2>3, OthersRest, TokenMoves DEF End, GoTo
    <2>4. ASSUME NEW i \in Ids, Newest(i), Judge(r, i) # "done",
                 target' = [target EXCEPT ![r] = i], GoTo(r, Judge(r, i))
          PROVE  Token'
      <3>1. /\ Judge(r, i) \in {"foreign", "match", "miss"}
            /\ codes[i].state = "live" /\ ~(codes[i].tries >= MaxAttempts)
        BY <2>4 DEF Judge, Unusable, Newest, Live
      <3>2. codes[i].tries \in Nat
        BY <1>0 DEF CodeRow
      <3>3. codes'[i].state = "live" /\ codes'[i].tries < MaxAttempts
        BY <2>1, <3>1, <3>2, MaxAttemptsAssumption
      <3>4. pc' = [pc EXCEPT ![r] = Judge(r, i)] /\ Judge(r, i) # "superseded"
        BY <2>4, <3>1 DEF GoTo
      <3> QED
        BY <2>1, <2>2, <2>4, <3>3, <3>4, OthersRest, TokenMoves
    <2> QED
      BY <1>4, <2>3, <2>4 DEF Read
  <1>5. ASSUME NEW r \in Requests, Record(r) \/ RecordForeign(r) PROVE Token'
    <2>1. /\ pc[r] \in InFlight /\ pc' = [pc EXCEPT ![r] = "done"]
          /\ target' = [target EXCEPT ![r] = 0]
      BY <1>5 DEF Record, RecordForeign, End, GoTo, InFlight
    <2>2. /\ target[r] \in Ids /\ Live(target[r])
          /\ \E s : codes' = codes \/ Costs(target[r], s)
      <3>1. target[r] # 0
        BY <1>5 DEF Record, RecordForeign, CodeInv, Judged
      <3> QED
        BY <1>5, <3>1, RecordCosts, ForeignCosts DEF Token, StillGood
    <2>3. /\ Len(codes') = Len(codes)
          /\ \A i \in Ids : codes'[i].state = "live" => Live(i)
      BY <2>2 DEF Costs, Live
    <2>4. OneLive'
      BY <2>3 DEF Token, OneLive, Live, Ids
    <2> QED
      BY <2>1, <2>4, OthersRest, TokenMoves
  <1>6. ASSUME NEW r \in Requests, Die(r) PROVE Token'
    <2>1. /\ pc[r] \in InFlight /\ pc' = [pc EXCEPT ![r] = "dead"]
          /\ target' = [target EXCEPT ![r] = 0] /\ codes' = codes
      BY <1>6 DEF Die, End, GoTo
    <2>2. OneLive'
      BY <2>1 DEF Token, OneLive, Live, Ids
    <2> QED
      BY <2>1, <2>2, OthersRest, TokenMoves
  <1>7. ASSUME NEW i \in Ids, Expire(i) PROVE Token'
    <2>1. /\ Len(codes') = Len(codes) /\ Ids' = Ids /\ UNCHANGED <<pc, target>>
          /\ \A j \in Ids : /\ codes'[j].state = codes[j].state
                            /\ codes'[j].tries = codes[j].tries
      BY <1>7, ExpireAges DEF Expire
    <2>2. \A r \in Requests : target[r] # 0 => target[r] \in Ids
      BY <1>0 DEF Ids
    <2> QED
      BY <2>1, <2>2 DEF Token, AloneAtWork, OneLive, NoneBetween, StillGood, Live
  <1>8. ASSUME Purge PROVE Token'
    <2>1. \A r \in Requests : pc[r] \notin InFlight /\ target[r] = 0
      BY <1>8 DEF Purge, NoteOverlap, CodeInv, Judged, InFlight
    <2>2. /\ Len(codes') = Len(codes) /\ Ids' = Ids /\ UNCHANGED <<pc, target>>
          /\ \A j \in Ids : Live(j)' => Live(j)
      BY <1>8, PurgeKeeps DEF Purge, Live
    <2> QED
      BY <2>1, <2>2 DEF Token, AloneAtWork, OneLive, NoneBetween, StillGood, InFlight
  <1>9. CASE UNCHANGED vars
    BY <1>9 DEF vars, Token, AloneAtWork, OneLive, NoneBetween, StillGood, Live, Ids
  <1> QED
    BY <1>1, <1>2, <1>3, <1>4, <1>5, <1>6, <1>7, <1>8, <1>9 DEF Next

LEMMA OverlapStays == CodeInv /\ overlapped /\ [Next]_vars => overlapped'
  <1> SUFFICES ASSUME CodeInv, overlapped, [Next]_vars PROVE overlapped'
    OBVIOUS
  <1> QED
    BY DEF Next, vars, Begin, NoteOverlap, Supersede, Insert, Read, Record,
       RecordForeign, Die, Expire, Purge

LEMMA LiveCodeThen ==
    CodeInv' /\ OneLive' => LiveCode' = IF Held' THEN Len(codes') ELSE 0
  <1>1. CodeInv' /\ OneLive' => (LiveCode = IF Held THEN Len(codes) ELSE 0)'
    BY LiveCodeIs, PTL
  <1> QED
    BY <1>1

\* Steps that the abstract token does not notice.
LEMMA Unnoticed ==
    ASSUME Len(codes') = Len(codes), accepted' = accepted, LiveCode' = LiveCode,
           LiveCode # 0 => codes'[LiveCode].tries = codes[LiveCode].tries
    PROVE  UNCHANGED T!token
  BY DEF T!token

\* Steps after which no code can be redeemed.
LEMMA Lapses ==
    ASSUME Len(codes') = Len(codes), accepted' = accepted, LiveCode' = 0
    PROVE  T!Next \/ UNCHANGED T!token
  <1>1. CASE LiveCode = 0
    BY <1>1, Unnoticed
  <1>2. CASE LiveCode # 0
    BY <1>2 DEF T!Next, T!Lapse
  <1> QED
    BY <1>1, <1>2

\* Every step of the threads is a step of the token or none.
LEMMA TokenRefines ==
    ASSUME CodeInv, Token, CodeInv', Token', [Next]_vars, overlapped' = FALSE
    PROVE  T!Next \/ UNCHANGED T!token
  <1> DEFINE Goal == T!Next \/ UNCHANGED T!token
             n == Len(codes)
  <1>0. /\ n \in Nat /\ (n # 0 => n \in Ids) /\ \A i \in Ids : i # 0
        /\ \A i \in Ids : codes[i] \in CodeRow
        /\ target \in [Requests -> 0..n]
    BY Rows DEF CodeInv, TypeOK, Ids
  <1>L. LiveCode = IF Held THEN n ELSE 0
    BY LiveCodeIs DEF Token
  <1>M. LiveCode' = IF Held' THEN Len(codes') ELSE 0
    BY LiveCodeThen DEF Token
  <1>H. Held' <=> /\ Len(codes') # 0 /\ codes'[Len(codes')].state = "live"
                  /\ codes'[Len(codes')].expired => \E r \in Requests : target'[r] = Len(codes')
    BY DEF Held, Live, InHand
  <1>h. Held <=> /\ n # 0 /\ codes[n].state = "live"
                 /\ codes[n].expired => \E r \in Requests : target[r] = n
    BY DEF Held, Live, InHand
  <1>s. ASSUME codes' = codes, accepted' = accepted, target' = target PROVE Goal
    BY <1>L, <1>M, <1>H, <1>h, <1>s, Unnoticed
  <1>1. ASSUME NEW r \in Requests, NEW c \in Calls, Begin(r, c) PROVE Goal
    BY <1>1, <1>s DEF Begin
  <1>2. ASSUME NEW r \in Requests, Supersede(r) PROVE Goal
    <2>1. Len(codes') = n /\ (n # 0 => codes'[n].state # "live")
      BY <1>0, <1>2, SupersedeClears DEF Live
    <2>2. LiveCode' = 0
      BY <1>M, <1>H, <2>1
    <2> QED
      BY <1>2, <2>1, <2>2, Lapses DEF Supersede
  <1>3. ASSUME NEW r \in Requests, Insert(r) PROVE Goal
    <2>1. /\ Len(codes') = n + 1 /\ codes'[n + 1].state = "live"
          /\ codes'[n + 1].tries = 0 /\ ~codes'[n + 1].expired /\ accepted' = accepted
      BY <1>3, InsertAdds DEF Insert
    <2>2. LiveCode' = n + 1 /\ n + 1 # 0
      BY <1>0, <1>M, <1>H, <2>1
    <2>3. T!Issue
      BY <2>1, <2>2 DEF T!Issue
    <2> QED
      BY <2>3 DEF T!Next
  <1>4. ASSUME NEW r \in Requests, Read(r) PROVE Goal
    <2>1. /\ codes' = codes /\ accepted' = accepted
          /\ \A q \in Requests : target[q] = 0
      <3>1. pc[r] \in InFlight /\ target[r] = 0
        BY <1>4 DEF Read, InFlight, CodeInv, Judged
      <3> QED
        BY <1>4, <3>1, OthersRest DEF Read
    <2>2. CASE End(r, "done")
      BY <1>0, <1>s, <2>1, <2>2 DEF End
    <2>3. ASSUME NEW i \in Ids, Newest(i), Judge(r, i) # "done",
                 target' = [target EXCEPT ![r] = i]
          PROVE  Goal
      <3>1. i = n /\ codes[n].state = "live" /\ ~codes[n].expired
        BY <2>3 DEF Newest, Token, OneLive, Judge, Unusable, Live
      <3>2. LiveCode' = n /\ LiveCode = n
        BY <1>0, <1>L, <1>M, <1>H, <1>h, <2>1, <3>1
      <3> QED
        BY <2>1, <3>2, Unnoticed
    <2> QED
      BY <1>4, <2>2, <2>3 DEF Read
  <1>w. ASSUME NEW r \in Requests, target[r] # 0
        PROVE  /\ target[r] = n /\ n \in Ids /\ codes[n].state = "live"
               /\ codes[n].tries < MaxAttempts /\ codes[n].tries \in Nat
               /\ LiveCode = n /\ n # 0
    <2>1. target[r] \in Ids /\ Live(target[r]) /\ codes[target[r]].tries < MaxAttempts
      BY <1>0, <1>w DEF Token, StillGood, Ids
    <2>2. target[r] = n
      BY <2>1 DEF Token, OneLive
    <2>3. codes[n].tries \in Nat
      BY <1>0, <2>1, <2>2 DEF CodeRow
    <2> QED
      BY <1>0, <1>L, <1>h, <2>1, <2>2, <2>3 DEF Live
  <1>5. ASSUME NEW r \in Requests, Record(r) PROVE Goal
    <2>1. target[r] # 0
      BY <1>5 DEF Record, CodeInv, Judged
    <2>2. Costs(n, IF pc[r] = "match" THEN "used" ELSE "live")
      BY <1>5, <1>w, <2>1, RecordCosts
    <2>3. Len(codes') = n /\ codes'[n].tries = codes[n].tries + 1
      BY <2>2 DEF Costs
    <2>4. CASE pc[r] = "match"
      <3>1. codes'[n].state = "used" /\ accepted' = accepted \cup {<<r, n>>}
        BY <1>5, <1>w, <2>1, <2>2, <2>4 DEF Costs, Record
      <3>2. LiveCode' = 0
        BY <1>M, <1>H, <2>3, <3>1
      <3>3. {a[2] : a \in accepted'} = {a[2] : a \in accepted} \cup {n}
        <4>1. <<r, n>> \in accepted' /\ <<r, n>>[2] = n
          BY <3>1
        <4>2. \A a \in accepted' : a \in accepted \/ a[2] = n
          BY <3>1
        <4>3. accepted \subseteq accepted'
          BY <3>1
        <4> QED
          BY <4>1, <4>2, <4>3
      <3>4. T!Redeem
        BY <1>w, <2>1, <2>3, <3>2, <3>3 DEF T!Redeem
      <3> QED
        BY <3>4 DEF T!Next
    <2>5. CASE pc[r] # "match"
      <3>1. accepted' = accepted
        BY <1>5, <2>5 DEF Record
      <3>2. LiveCode' = n \/ LiveCode' = 0
        BY <1>M, <2>3
      <3>3. T!Miss
        BY <1>w, <2>1, <2>3, <3>1, <3>2 DEF T!Miss
      <3> QED
        BY <3>3 DEF T!Next
    <2> QED
      BY <2>4, <2>5
  <1>6. ASSUME NEW r \in Requests, RecordForeign(r) PROVE Goal
    <2>1. target[r] # 0 /\ accepted' = accepted
      BY <1>6 DEF RecordForeign, CodeInv, Judged
    <2>2. Costs(n, "live")
      BY <1>6, <1>w, <2>1, ForeignCosts
    <2>3. Len(codes') = n /\ codes'[n].tries = codes[n].tries + 1
      BY <2>2 DEF Costs
    <2>4. LiveCode' = n \/ LiveCode' = 0
      BY <1>M, <2>3
    <2>5. T!Miss
      BY <1>w, <2>1, <2>3, <2>4 DEF T!Miss
    <2> QED
      BY <2>5 DEF T!Next
  <1>7. ASSUME NEW r \in Requests, Die(r) PROVE Goal
    <2>1. codes' = codes /\ accepted' = accepted
      BY <1>7 DEF Die
    <2>2. \A q \in Requests : target'[q] = 0
      BY <1>0, <1>7, OthersRest DEF Die, End
    <2>3. LiveCode' = LiveCode \/ LiveCode' = 0
      BY <1>0, <1>L, <1>M, <1>H, <1>h, <2>1, <2>2
    <2> QED
      BY <2>1, <2>3, Unnoticed, Lapses
  <1>8. ASSUME NEW i \in Ids, Expire(i) PROVE Goal
    <2>1. /\ Len(codes') = n /\ accepted' = accepted /\ target' = target
          /\ n # 0 => /\ codes'[n].state = codes[n].state
                      /\ codes'[n].tries = codes[n].tries
                      /\ codes'[n].expired = (n = i \/ codes[n].expired)
      BY <1>0, <1>8, ExpireAges DEF Expire
    <2>2. LiveCode' = LiveCode \/ LiveCode' = 0
      BY <1>0, <1>L, <1>M, <1>H, <1>h, <2>1
    <2>3. LiveCode # 0 => codes'[LiveCode].tries = codes[LiveCode].tries
      BY <1>L, <1>h, <2>1
    <2> QED
      BY <2>1, <2>2, <2>3, Unnoticed, Lapses
  <1>9. ASSUME Purge PROVE Goal
    <2>1. \A q \in Requests : target[q] = 0
      BY <1>9 DEF Purge, NoteOverlap, CodeInv, Judged, InFlight
    <2>2. /\ Len(codes') = n /\ accepted' = accepted /\ target' = target
          /\ n # 0 => IF Live(n) /\ ~codes[n].expired THEN codes'[n] = codes[n]
                      ELSE codes'[n].state = "purged"
      BY <1>0, <1>9, PurgeKeeps DEF Purge
    <2>3. LiveCode' = LiveCode
      BY <1>0, <1>L, <1>M, <1>H, <1>h, <2>1, <2>2 DEF Live
    <2>4. LiveCode # 0 => codes'[LiveCode].tries = codes[LiveCode].tries
      BY <1>0, <1>L, <1>h, <2>1, <2>2 DEF Live
    <2> QED
      BY <2>2, <2>3, <2>4, Unnoticed
  <1>10. CASE UNCHANGED vars
    BY <1>10, <1>s DEF vars
  <1> QED
    BY <1>1, <1>2, <1>3, <1>4, <1>5, <1>6, <1>7, <1>8, <1>9, <1>10 DEF Next

\* Until two calls overlap, issue_otp and verify_otp are the atomic token, also
\* when a request dies between their statements (auth.py:118-184).
THEOREM ImplementsOneTimeCodeHolds == Spec => ImplementsOneTimeCode
  <1>1. Init => T!Init
    <2> SUFFICES ASSUME Init PROVE T!Init
      OBVIOUS
    <2>1. Len(codes) = 0 /\ Ids = {} /\ accepted = {}
      BY EmptySeq DEF Init, Ids
    <2>2. LiveCode = 0
      BY <2>1 DEF LiveCode
    <2> QED
      BY <2>1, <2>2 DEF T!Init
  <1>2. CodeInv /\ TokenInv /\ [Next]_vars => TokenInv'
    <2> SUFFICES ASSUME CodeInv, TokenInv, [Next]_vars, ~overlapped'
                 PROVE  Token'
      BY DEF TokenInv
    <2>1. overlapped' = FALSE
      BY CodeInvStep DEF CodeInv, TypeOK
    <2>2. Token
      BY OverlapStays DEF TokenInv
    <2> QED
      BY <2>1, <2>2, TokenStep
  <1>3. CodeInv /\ TokenInv /\ CodeInv' /\ TokenInv' /\ [Next]_vars
        => [overlapped' \/ T!Next]_(T!token)
    <2> SUFFICES ASSUME CodeInv, TokenInv, CodeInv', TokenInv', [Next]_vars, ~overlapped'
                 PROVE  T!Next \/ UNCHANGED T!token
      OBVIOUS
    <2>1. overlapped' = FALSE
      BY DEF CodeInv, TypeOK
    <2>2. Token /\ Token'
      BY OverlapStays DEF TokenInv
    <2> QED
      BY <2>1, <2>2, TokenRefines
  <1> QED
    BY <1>1, <1>2, <1>3, TokenInit, CodeInvHolds, PTL DEF Spec, ImplementsOneTimeCode

-----------------------------------------------------------------------------
(* Recovery codes *)

\* The table holds drawn codes only, its unused ones are the sheet's, and a
\* code that was accepted is not unused.
TableMatches ==
    /\ \A c \in Codes : table[c] # "absent" => c \in drawn
    /\ \A c \in Codes : table[c] = "unused" => c \in sheet
    /\ \A s \in spent : s[2] \in drawn /\ table[s[2]] # "unused"

\* A sign-in past consume is recorded, with the code it was given.
ClaimsMatch ==
    /\ \A r \in Requests : pc[r] = "claimed" => <<r, entered[r]>> \in spent
    /\ \A r \in sessions : pc[r] = "done" /\ <<r, entered[r]>> \in spent

RecoveryInv == RecoveryTypeOK /\ TableMatches /\ ClaimsMatch /\ SpentOnce

LEMMA RecoveryInvInit == RecoveryInit => RecoveryInv
  BY DEF RecoveryInit, RecoveryInv, RecoveryTypeOK, TableMatches, ClaimsMatch, SpentOnce

LEMMA RecoveryInvStep == RecoveryInv /\ [RecoveryNext]_recovery => RecoveryInv'
  <1> SUFFICES ASSUME RecoveryInv, [RecoveryNext]_recovery PROVE RecoveryInv'
    OBVIOUS
  <1> USE DEF RecoveryInv, GoTo, drawing
  <1>1. ASSUME NEW r \in Requests,
               BeginGenerate(r) \/ ShowCodes(r) \/ Refuse(r) \/ RecoveryDie(r)
        PROVE  RecoveryInv'
    <2>1. /\ UNCHANGED <<table, sheet, drawn, entered, spent, sessions>>
          /\ pc[r] # "done"
          /\ \E where \in {"generating", "done", "refused", "dead"} :
                 pc' = [pc EXCEPT ![r] = where]
      BY <1>1 DEF BeginGenerate, ShowCodes, Refuse, RecoveryDie
    <2>2. RecoveryTypeOK'
      BY <2>1 DEF RecoveryTypeOK
    <2>3. ClaimsMatch'
      BY <2>1 DEF RecoveryTypeOK, ClaimsMatch
    <2> QED
      BY <2>1, <2>2, <2>3 DEF TableMatches, SpentOnce
  <1>2. ASSUME NEW r \in Requests, NEW c \in Codes \cup {NoCode}, BeginLogin(r, c)
        PROVE  RecoveryInv'
    <2>1. RecoveryTypeOK'
      BY <1>2 DEF BeginLogin, RecoveryTypeOK
    <2>2. ClaimsMatch'
      BY <1>2 DEF BeginLogin, RecoveryTypeOK, ClaimsMatch
    <2> QED
      BY <1>2, <2>1, <2>2 DEF BeginLogin, TableMatches, SpentOnce
  <1>3. ASSUME NEW r \in Requests, NEW fresh \in SUBSET Codes, Generate(r, fresh)
        PROVE  RecoveryInv'
    <2>1. RecoveryTypeOK'
      BY <1>3 DEF Generate, Replaced, RecoveryTypeOK
    <2>2. TableMatches'
      <3>1. ASSUME NEW s \in spent
            PROVE  s[2] \in drawn' /\ table'[s[2]] # "unused"
        <4>1. s[2] \in Codes /\ s[2] \in drawn
          BY DEF RecoveryTypeOK, TableMatches
        <4>2. s[2] \notin fresh
          BY <1>3, <4>1 DEF Generate
        <4> QED
          BY <1>3, <4>1, <4>2 DEF Generate, Replaced
      <3>2. /\ \A c \in Codes : table'[c] # "absent" => c \in drawn'
            /\ \A c \in Codes : table'[c] = "unused" => c \in sheet'
        BY <1>3 DEF Generate, Replaced
      <3> QED
        BY <1>3, <3>1, <3>2 DEF Generate, TableMatches
    <2>3. ClaimsMatch'
      BY <1>3 DEF Generate, RecoveryTypeOK, ClaimsMatch
    <2> QED
      BY <1>3, <2>1, <2>2, <2>3 DEF Generate, SpentOnce
  <1>4. ASSUME NEW r \in Requests, Claim(r)
        PROVE  RecoveryInv'
    <2> DEFINE c == entered[r]
    <2>1. c \in Codes /\ table[c] = "unused" /\ c \in drawn
      BY <1>4 DEF Claim, Unspent, TableMatches
    <2>2. \A s \in spent : s[2] # c
      BY <2>1 DEF TableMatches
    <2>3. RecoveryTypeOK'
      BY <1>4, <2>1 DEF Claim, RecoveryTypeOK
    <2>4. TableMatches'
      <3>1. \A s \in spent' : s \in spent \/ s = <<r, c>>
        BY <1>4 DEF Claim
      <3>2. \A d \in Codes : table'[d] = IF d = c THEN "used" ELSE table[d]
        BY <1>4, <2>1 DEF Claim, RecoveryTypeOK
      <3>3. sheet' = sheet /\ drawn' = drawn
        BY <1>4 DEF Claim
      <3> QED
        BY <2>1, <3>1, <3>2, <3>3 DEF TableMatches, RecoveryTypeOK
    <2>5. ClaimsMatch'
      BY <1>4 DEF Claim, RecoveryTypeOK, ClaimsMatch
    <2>6. SpentOnce'
      BY <1>4, <2>2 DEF Claim, SpentOnce
    <2> QED
      BY <2>3, <2>4, <2>5, <2>6
  <1>5. ASSUME NEW r \in Requests, OpenSession(r)
        PROVE  RecoveryInv'
    <2>1. RecoveryTypeOK'
      BY <1>5 DEF OpenSession, RecoveryTypeOK
    <2>2. ClaimsMatch'
      BY <1>5 DEF OpenSession, RecoveryTypeOK, ClaimsMatch
    <2> QED
      BY <1>5, <2>1, <2>2 DEF OpenSession, TableMatches, SpentOnce
  <1>6. ASSUME NEW c \in Codes, PurgeSpent(c)
        PROVE  RecoveryInv'
    <2>1. RecoveryTypeOK'
      BY <1>6 DEF PurgeSpent, RecoveryTypeOK
    <2>2. \A d \in Codes : table'[d] = IF d = c THEN "absent" ELSE table[d]
      BY <1>6 DEF PurgeSpent, RecoveryTypeOK
    <2>3. TableMatches'
      BY <1>6, <2>2 DEF PurgeSpent, TableMatches, RecoveryTypeOK
    <2> QED
      BY <1>6, <2>1, <2>3 DEF PurgeSpent, ClaimsMatch, SpentOnce
  <1>7. CASE UNCHANGED recovery
    BY <1>7 DEF recovery, RecoveryTypeOK, TableMatches, ClaimsMatch, SpentOnce
  <1> QED
    BY <1>1, <1>2, <1>3, <1>4, <1>5, <1>6, <1>7 DEF RecoveryNext

THEOREM RecoveryInvHolds == RecoverySpec => []RecoveryInv
  BY RecoveryInvInit, RecoveryInvStep, PTL DEF RecoverySpec

\* Type correctness of RecoveryCodes.
THEOREM RecoveryTypeCorrect == RecoverySpec => []RecoveryTypeOK
  <1>1. RecoveryInv => RecoveryTypeOK
    BY DEF RecoveryInv
  <1> QED
    BY <1>1, RecoveryInvHolds, PTL

\* A code is accepted at most once, by one request.
THEOREM SpentOnceHolds == RecoverySpec => []SpentOnce
  <1>1. RecoveryInv => SpentOnce
    BY DEF RecoveryInv
  <1> QED
    BY <1>1, RecoveryInvHolds, PTL

\* Every session rests on a code of its own.
THEOREM SessionsArePaidForHolds == RecoverySpec => []SessionsArePaidFor
  <1>1. RecoveryInv => SessionsArePaidFor
    <2> SUFFICES ASSUME RecoveryInv, NEW q \in sessions, NEW r \in sessions,
                        entered[q] = entered[r]
                 PROVE  q = r
      BY DEF RecoveryInv, ClaimsMatch, SessionsArePaidFor
    <2>1. <<q, entered[q]>> \in spent /\ <<r, entered[r]>> \in spent
      BY DEF RecoveryInv, ClaimsMatch
    <2>2. <<q, entered[q]>> = <<r, entered[r]>>
      BY <2>1 DEF RecoveryInv, SpentOnce
    <2> QED
      BY <2>2
  <1> QED
    BY <1>1, RecoveryInvHolds, PTL

LEMMA SheetStep ==
    ASSUME RecoveryInv, [RecoveryNext]_recovery
    PROVE  /\ \A s \in spent' \ spent : s[2] \in sheet
           /\ \A c \in drawn : table[c] # "unused" => table'[c] # "unused"
  <1> USE DEF RecoveryInv, drawing
  <1>1. ASSUME NEW r \in Requests, Claim(r)
        PROVE  /\ \A s \in spent' \ spent : s[2] \in sheet
               /\ \A c \in drawn : table[c] # "unused" => table'[c] # "unused"
    <2>1. entered[r] \in sheet /\ spent' = spent \cup {<<r, entered[r]>>}
      BY <1>1 DEF Claim, Unspent, TableMatches
    <2>2. \A c \in Codes : table'[c] = IF c = entered[r] THEN "used" ELSE table[c]
      BY <1>1 DEF Claim, RecoveryTypeOK
    <2> QED
      BY <2>1, <2>2 DEF RecoveryTypeOK
  <1>2. ASSUME NEW r \in Requests, NEW fresh \in SUBSET Codes, Generate(r, fresh)
        PROVE  /\ spent' = spent
               /\ \A c \in drawn : table'[c] # "unused"
    BY <1>2 DEF Generate, Replaced, RecoveryTypeOK
  <1>3. ASSUME NEW c \in Codes, PurgeSpent(c)
        PROVE  /\ spent' = spent
               /\ \A d \in Codes : table[d] # "unused" => table'[d] # "unused"
    BY <1>3 DEF PurgeSpent, RecoveryTypeOK
  <1>4. ASSUME NEW r \in Requests, NEW c \in Codes \cup {NoCode},
               \/ BeginGenerate(r) \/ BeginLogin(r, c) \/ ShowCodes(r)
               \/ Refuse(r) \/ OpenSession(r) \/ RecoveryDie(r)
        PROVE  spent' = spent /\ table' = table
    BY <1>4 DEF BeginGenerate, BeginLogin, ShowCodes, Refuse, OpenSession, RecoveryDie
  <1>5. CASE UNCHANGED recovery
    BY <1>5 DEF recovery
  <1>6. CASE RecoveryNext
    <2>1. drawn \subseteq Codes
      BY DEF RecoveryTypeOK
    <2>2. ASSUME NEW r \in Requests, BeginGenerate(r) \/ ShowCodes(r)
                    \/ Refuse(r) \/ OpenSession(r) \/ RecoveryDie(r)
          PROVE  spent' = spent /\ table' = table
      BY <2>2 DEF BeginGenerate, ShowCodes, Refuse, OpenSession, RecoveryDie
    <2> QED
      BY <1>1, <1>2, <1>3, <1>4, <1>6, <2>1, <2>2 DEF RecoveryNext
  <1> QED
    BY <1>5, <1>6

\* A new sheet voids the previous one at once.
THEOREM OldSheetIsVoidHolds == RecoverySpec => OldSheetIsVoid
  <1>1. RecoveryInv /\ [RecoveryNext]_recovery => [\A s \in spent' \ spent : s[2] \in sheet]_recovery
    BY SheetStep
  <1> QED
    BY <1>1, RecoveryInvHolds, PTL DEF RecoverySpec, OldSheetIsVoid

\* A code that left its sheet never becomes usable again.
THEOREM NeverUsableAgainHolds == RecoverySpec => NeverUsableAgain
  <1>1. RecoveryInv /\ [RecoveryNext]_recovery
        => [\A c \in drawn : table[c] # "unused" => table'[c] # "unused"]_recovery
    BY SheetStep
  <1> QED
    BY <1>1, RecoveryInvHolds, PTL DEF RecoverySpec, NeverUsableAgain

-----------------------------------------------------------------------------
(* Both kinds of code.  To either of them, a thread that serves the other  *)
(* has not begun: what is proved above of each alone holds of both.        *)

Mails(r) == call[r] # NoCall

\* The threads as each of the two sees them.
mailing == [r \in Requests |-> IF Mails(r) THEN pc[r] ELSE "idle"]
signing == [r \in Requests |-> IF Mails(r) THEN "idle" ELSE pc[r]]
Emailed == INSTANCE OneTimeCodes WITH pc <- mailing
Printed == INSTANCE RecoveryCodes WITH pc <- signing

OnASheet == {"generating", "replaced", "claiming", "claimed"}
Positions == {"idle", "done", "dead", "refused"} \cup OnASheet \cup InFlight

\* A thread serves one kind of call.
Apart ==
    /\ pc \in [Requests -> Positions]
    /\ call = [r \in Requests |-> call[r]]
    /\ \A r \in Requests :
           /\ pc[r] \in InFlight => Mails(r)
           /\ pc[r] \in {"idle"} \cup OnASheet => ~Mails(r)

LEMMA CallsAreCalls == NoCall \notin Calls
  <1>1. \A c \in Calls : c.kind \in {"issue", "verify"}
    BY DEF Calls, IssueCall
  <1>2. NoCall.kind = "none"
    BY DEF NoCall
  <1> QED
    BY <1>1, <1>2

\* A thread at work on an emailed code moves on.
LEMMA MailMoves ==
  ASSUME Apart, NEW r \in Requests, NEW where \in Positions, pc[r] \in InFlight,
         where \notin {"idle"} \cup OnASheet,
         GoTo(r, where), UNCHANGED call
  PROVE  /\ Apart' /\ mailing[r] = pc[r]
         /\ mailing' = [mailing EXCEPT ![r] = where] /\ UNCHANGED signing
  <1>1. Mails(r) /\ (\A q \in Requests : Mails(q)' <=> Mails(q))
    BY DEF Apart, Mails, NoCall
  <1>2. pc' = [pc EXCEPT ![r] = where]
    BY DEF GoTo
  <1> QED
    BY <1>1, <1>2 DEF Apart, mailing, signing, Mails, NoCall

\* A thread at work on a recovery code moves on.
LEMMA SheetMoves ==
  ASSUME Apart, NEW r \in Requests, NEW where \in Positions, pc[r] \in {"idle"} \cup OnASheet,
         where \notin {"idle"} \cup InFlight,
         GoTo(r, where), UNCHANGED call
  PROVE  /\ Apart' /\ signing[r] = pc[r]
         /\ signing' = [signing EXCEPT ![r] = where] /\ UNCHANGED mailing
  <1>1. ~Mails(r) /\ (\A q \in Requests : Mails(q)' <=> Mails(q))
    BY DEF Apart, Mails, NoCall
  <1>2. pc' = [pc EXCEPT ![r] = where]
    BY DEF GoTo
  <1> QED
    BY <1>1, <1>2 DEF Apart, mailing, signing, Mails, NoCall

\* A thread begins with an emailed code.
LEMMA MailBegins ==
  ASSUME Apart, NEW r \in Requests, NEW c \in Calls, pc[r] = "idle",
         NEW where \in InFlight, GoTo(r, where), call' = [call EXCEPT ![r] = c]
  PROVE  /\ Apart' /\ mailing[r] = "idle"
         /\ mailing' = [mailing EXCEPT ![r] = where] /\ UNCHANGED signing
  <1>1. /\ ~Mails(r) /\ Mails(r)'
        /\ \A q \in Requests \ {r} : Mails(q)' <=> Mails(q)
    BY CallsAreCalls DEF Apart, Mails, NoCall
  <1>2. pc' = [pc EXCEPT ![r] = where] /\ call' = [call EXCEPT ![r] = c]
    BY DEF GoTo
  <1> QED
    BY <1>1, <1>2 DEF Apart, mailing, signing, Mails, Positions, InFlight, OnASheet

\* Who is at work on an emailed code is so in either view.
LEMMA SameOverlap ==
  ASSUME Apart
  PROVE  (\E q \in Requests : pc[q] \in InFlight) <=> \E q \in Requests : mailing[q] \in InFlight
  BY DEF Apart, mailing, InFlight

\* A step about emailed codes, as each of the two sees it.
LEMMA MailCall ==
  ASSUME Apart, Next, UNCHANGED printed
  PROVE  Apart' /\ Emailed!Next /\ UNCHANGED <<signing, printed>>
  <1> USE DEF Emailed!Ids, Ids, Emailed!End, Emailed!GoTo, End
  <1>1. ASSUME NEW r \in Requests, NEW c \in Calls, Begin(r, c)
        PROVE  Apart' /\ Emailed!Begin(r, c) /\ UNCHANGED signing
    <2> DEFINE where == IF c.kind = "issue" THEN "issuing" ELSE "verifying"
    <2>1. pc[r] = "idle" /\ where \in InFlight /\ GoTo(r, where) /\ call' = [call EXCEPT ![r] = c]
      BY <1>1 DEF Begin, InFlight
    <2> HIDE DEF where
    <2>2. /\ Apart' /\ mailing[r] = "idle"
          /\ mailing' = [mailing EXCEPT ![r] = where] /\ UNCHANGED signing
      BY <2>1, MailBegins
    <2>3. Emailed!NoteOverlap
      BY <1>1, SameOverlap DEF Begin, NoteOverlap, Emailed!NoteOverlap, InFlight, Emailed!InFlight
    <2> QED
      BY <1>1, <2>2, <2>3 DEF where, Begin, Emailed!Begin
  <1>2. ASSUME NEW r \in Requests, Supersede(r)
        PROVE  Apart' /\ Emailed!Supersede(r) /\ UNCHANGED signing
    <2>1. pc[r] \in InFlight /\ GoTo(r, "superseded") /\ UNCHANGED call
      BY <1>2 DEF Supersede, InFlight
    <2>2. /\ Apart' /\ mailing[r] = pc[r] /\ UNCHANGED signing
          /\ mailing' = [mailing EXCEPT ![r] = "superseded"]
      BY <2>1, MailMoves DEF Positions, InFlight, OnASheet
    <2> QED
      BY <1>2, <2>2 DEF Supersede, Emailed!Supersede, Live, Emailed!Live
  <1>3. ASSUME NEW r \in Requests, Insert(r)
        PROVE  Apart' /\ Emailed!Insert(r) /\ UNCHANGED signing
    <2>1. pc[r] \in InFlight /\ GoTo(r, "done") /\ UNCHANGED call
      BY <1>3 DEF Insert, InFlight
    <2>2. /\ Apart' /\ mailing[r] = pc[r] /\ UNCHANGED signing
          /\ mailing' = [mailing EXCEPT ![r] = "done"]
      BY <2>1, MailMoves DEF Positions, InFlight, OnASheet
    <2> QED
      BY <1>3, <2>2 DEF Insert, Emailed!Insert
  <1>4. ASSUME NEW r \in Requests, Read(r)
        PROVE  Apart' /\ Emailed!Read(r) /\ UNCHANGED signing
    <2>0. \A i : /\ Judge(r, i) \in {"done", "match", "miss", "foreign"}
                 /\ Emailed!Judge(r, i) = Judge(r, i)
                 /\ Newest(i) <=> Emailed!Newest(i)
      BY DEF Judge, Emailed!Judge, Unusable, Emailed!Unusable, Newest, Emailed!Newest,
             Live, Emailed!Live
    <2>1. PICK where \in {"done", "match", "miss", "foreign"} : GoTo(r, where)
      BY <1>4, <2>0 DEF Read
    <2>2. pc[r] \in InFlight /\ UNCHANGED call
      BY <1>4 DEF Read, InFlight
    <2>3. /\ Apart' /\ mailing[r] = pc[r] /\ UNCHANGED signing
          /\ mailing' = [mailing EXCEPT ![r] = where]
      BY <2>1, <2>2, MailMoves DEF Positions, InFlight, OnASheet
    <2>4. \A w \in {"done", "match", "miss", "foreign"} :
              GoTo(r, w) => mailing' = [mailing EXCEPT ![r] = w]
      BY <2>2, MailMoves DEF Positions, InFlight, OnASheet
    <2> QED
      BY <1>4, <2>0, <2>3, <2>4 DEF Read, Emailed!Read, Live, Emailed!Live
  <1>5. ASSUME NEW r \in Requests, Record(r)
        PROVE  Apart' /\ Emailed!Record(r) /\ UNCHANGED signing
    <2>1. pc[r] \in InFlight /\ GoTo(r, "done") /\ UNCHANGED call
      BY <1>5 DEF Record, InFlight
    <2>2. /\ Apart' /\ mailing[r] = pc[r] /\ UNCHANGED signing
          /\ mailing' = [mailing EXCEPT ![r] = "done"]
      BY <2>1, MailMoves DEF Positions, InFlight, OnASheet
    <2> QED
      BY <1>5, <2>2 DEF Record, Emailed!Record
  <1>6. ASSUME NEW r \in Requests, RecordForeign(r)
        PROVE  Apart' /\ Emailed!RecordForeign(r) /\ UNCHANGED signing
    <2>1. pc[r] \in InFlight /\ GoTo(r, "done") /\ UNCHANGED call
      BY <1>6 DEF RecordForeign, InFlight
    <2>2. /\ Apart' /\ mailing[r] = pc[r] /\ UNCHANGED signing
          /\ mailing' = [mailing EXCEPT ![r] = "done"]
      BY <2>1, MailMoves DEF Positions, InFlight, OnASheet
    <2> QED
      BY <1>6, <2>2 DEF RecordForeign, Emailed!RecordForeign
  <1>7. ASSUME NEW r \in Requests, Die(r)
        PROVE  Apart' /\ Emailed!Die(r) /\ UNCHANGED signing
    <2>1. pc[r] \in InFlight /\ GoTo(r, "dead") /\ UNCHANGED call
      BY <1>7 DEF Die
    <2>2. /\ Apart' /\ mailing[r] = pc[r] /\ UNCHANGED signing
          /\ mailing' = [mailing EXCEPT ![r] = "dead"]
      BY <2>1, MailMoves DEF Positions, InFlight, OnASheet
    <2> QED
      BY <1>7, <2>1, <2>2 DEF Die, Emailed!Die, InFlight, Emailed!InFlight
  <1>8. ASSUME UNCHANGED <<pc, call>>
        PROVE  Apart' /\ UNCHANGED <<mailing, signing>>
    BY <1>8 DEF Apart, mailing, signing, Mails
  <1>9. ASSUME NEW i \in Ids, Expire(i)
        PROVE  Apart' /\ Emailed!Expire(i) /\ UNCHANGED signing
    BY <1>8, <1>9 DEF Expire, Emailed!Expire
  <1>10. ASSUME Purge
         PROVE  Apart' /\ Emailed!Purge /\ UNCHANGED signing
    <2>1. Emailed!NoteOverlap
      BY <1>10, SameOverlap DEF Purge, NoteOverlap, Emailed!NoteOverlap, InFlight, Emailed!InFlight
    <2> QED
      BY <1>8, <1>10, <2>1 DEF Purge, Emailed!Purge, Live, Emailed!Live
  <1>11. Calls = Emailed!Calls
    BY DEF Calls, Emailed!Calls, IssueCall, Emailed!IssueCall
  <1>12. CASE \E r \in Requests, c \in Calls : Begin(r, c)
    BY <1>1, <1>11, <1>12 DEF Emailed!Next
  <1> QED
    BY <1>2, <1>3, <1>4, <1>5, <1>6, <1>7, <1>9, <1>10, <1>12 DEF Next, Emailed!Next

\* A step about recovery codes, as each of the two sees it.
LEMMA SheetCall ==
  ASSUME Apart, RecoveryNext, UNCHANGED emailed
  PROVE  Apart' /\ Printed!RecoveryNext /\ UNCHANGED <<mailing, emailed>>
  <1> USE DEF Printed!GoTo, drawing, Printed!drawing
  <1>0. UNCHANGED call
    BY DEF emailed
  <1>1. ASSUME NEW r \in Requests, BeginGenerate(r)
        PROVE  Apart' /\ Printed!BeginGenerate(r) /\ UNCHANGED mailing
    BY <1>0, <1>1, SheetMoves DEF BeginGenerate, Printed!BeginGenerate, Positions, OnASheet, InFlight
  <1>2. ASSUME NEW r \in Requests, NEW c \in Codes \cup {NoCode}, BeginLogin(r, c)
        PROVE  Apart' /\ Printed!BeginLogin(r, c) /\ UNCHANGED mailing
    BY <1>0, <1>2, SheetMoves DEF BeginLogin, Printed!BeginLogin, Positions, OnASheet, InFlight
  <1>3. ASSUME NEW r \in Requests, NEW fresh \in SUBSET Codes, Generate(r, fresh)
        PROVE  Apart' /\ Printed!Generate(r, fresh) /\ UNCHANGED mailing
    <2>1. /\ Apart' /\ signing[r] = pc[r] /\ UNCHANGED mailing
          /\ signing' = [signing EXCEPT ![r] = "replaced"]
      BY <1>0, <1>3, SheetMoves DEF Generate, Positions, OnASheet, InFlight
    <2>2. Cardinality(fresh) = Printed!Cardinality(fresh)
      BY Zenon DEF Cardinality, Printed!Cardinality
    <2> QED
      BY <1>3, <2>1, <2>2 DEF Generate, Printed!Generate, Replaced, Printed!Replaced
  <1>4. ASSUME NEW r \in Requests, ShowCodes(r)
        PROVE  Apart' /\ Printed!ShowCodes(r) /\ UNCHANGED mailing
    BY <1>0, <1>4, SheetMoves DEF ShowCodes, Printed!ShowCodes, Positions, OnASheet, InFlight
  <1>5. ASSUME NEW r \in Requests, Claim(r)
        PROVE  Apart' /\ Printed!Claim(r) /\ UNCHANGED mailing
    BY <1>0, <1>5, SheetMoves
    DEF Claim, Printed!Claim, Unspent, Printed!Unspent, Positions, OnASheet, InFlight
  <1>6. ASSUME NEW r \in Requests, Refuse(r)
        PROVE  Apart' /\ Printed!Refuse(r) /\ UNCHANGED mailing
    BY <1>0, <1>6, SheetMoves
    DEF Refuse, Printed!Refuse, Unspent, Printed!Unspent, Positions, OnASheet, InFlight
  <1>7. ASSUME NEW r \in Requests, OpenSession(r)
        PROVE  Apart' /\ Printed!OpenSession(r) /\ UNCHANGED mailing
    BY <1>0, <1>7, SheetMoves DEF OpenSession, Printed!OpenSession, Positions, OnASheet, InFlight
  <1>8. ASSUME NEW r \in Requests, RecoveryDie(r)
        PROVE  Apart' /\ Printed!RecoveryDie(r) /\ UNCHANGED mailing
    BY <1>0, <1>8, SheetMoves DEF RecoveryDie, Printed!RecoveryDie, Positions, OnASheet, InFlight
  <1>9. ASSUME NEW c \in Codes, PurgeSpent(c)
        PROVE  Apart' /\ Printed!PurgeSpent(c) /\ UNCHANGED mailing
    BY <1>0, <1>9 DEF PurgeSpent, Printed!PurgeSpent, Apart, mailing, signing, Mails
  <1> QED
    BY <1>1, <1>2, <1>3, <1>4, <1>5, <1>6, <1>7, <1>8, <1>9
    DEF RecoveryNext, Printed!RecoveryNext, Printed!NoCode, NoCode

LEMMA BothInit ==
  ASSUME Init, RecoveryInit
  PROVE  Apart /\ Emailed!Init /\ Printed!RecoveryInit
  BY DEF Init, RecoveryInit, Apart, Emailed!Init, Printed!RecoveryInit, mailing, signing, Mails,
         Positions, InFlight, OnASheet, NoCall, Emailed!NoCall, NoCode, Printed!NoCode

\* A thread never serves calls of both kinds.
THEOREM ApartHolds == SecondFactors => []Apart
  <1>1. FactorsInit => Apart
    BY BothInit DEF FactorsInit
  <1>2. Apart /\ [FactorsNext]_factors => Apart'
    BY MailCall, SheetCall DEF FactorsNext, factors, emailed, Apart, Mails
  <1> QED
    BY <1>1, <1>2, PTL DEF SecondFactors

\* auth.py and recovery_codes.py are served by the same threads, and each does as
\* if it were alone: whatever is proved of OneTimeCodes or of RecoveryCodes holds of
\* the two together.
THEOREM EachAsIfAlone == SecondFactors => Emailed!Spec /\ Printed!RecoverySpec
  <1>1. FactorsInit => Emailed!Init /\ Printed!RecoveryInit
    BY BothInit DEF FactorsInit
  <1>2. ASSUME Apart, [FactorsNext]_factors
        PROVE  [Emailed!Next]_(Emailed!vars) /\ [Printed!RecoveryNext]_(Printed!recovery)
    <2>1. CASE Next /\ UNCHANGED printed
      BY <1>2, <2>1, MailCall
      DEF printed, Printed!recovery, Printed!drawing
    <2>2. CASE RecoveryNext /\ UNCHANGED emailed
      BY <1>2, <2>2, SheetCall DEF emailed, Emailed!vars
    <2>3. CASE UNCHANGED factors
      BY <2>3 DEF factors, emailed, printed, Emailed!vars, Printed!recovery, Printed!drawing,
                  mailing, signing, Mails
    <2> QED
      BY <1>2, <2>1, <2>2, <2>3 DEF FactorsNext
  <1> QED
    BY <1>1, <1>2, ApartHolds, PTL DEF SecondFactors, Emailed!Spec, Printed!RecoverySpec
=============================================================================
