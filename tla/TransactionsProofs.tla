------------------------- MODULE TransactionsProofs -------------------------
(***************************************************************************)
(* Theorems about Transactions for any set of users and of requests, any   *)
(* amounts, threshold and opening balance.                                 *)
(***************************************************************************)
EXTENDS Transactions, TLAPS

-----------------------------------------------------------------------------
(* Frame lemmas: what each action does to the tables. *)

\* A request acts only once it has arrived, and its call then never changes.
CallsMatch ==
    \A r \in Requests :
        /\ pc[r] # "idle" => call[r] \in Call
        /\ pc[r] \in {"decided", "recorded"} => call[r] \in PayCall
        /\ pc[r] = "verified" => call[r] \in ReleaseCall

\* A payment's row appears only when its request commits.
RowsFollow ==
    \A r \in Requests : pc[r] \in {"idle", "loaded", "decided"} => rows[r] = NoRow

Shape == TypeOK /\ CallsMatch /\ RowsFollow

\* Expanding a record-valued type is left to this fact.
LEMMA CallTypes ==
    ASSUME NEW c \in Call
    PROVE  /\ c.user \in Users
           /\ c.kind \in {"pay", "release"}
           /\ c.kind = "pay" => c \in PayCall /\ c.amount \in Amounts
           /\ c.kind = "release" => c \in ReleaseCall /\ c.row \in Requests
  BY DEF Call, PayCall, ReleaseCall

LEMMA RowTypes ==
    ASSUME NEW x \in RowType \cup {NoRow}
    PROVE  /\ x.status = "none" <=> x = NoRow
           /\ x # NoRow => x \in RowType
           /\ x \in RowType => /\ x.user \in Users
                               /\ x.amount \in Amounts
                               /\ x.status \in Statuses
  BY DEF RowType, NoRow, Statuses

LEMMA RowMade ==
    ASSUME NEW u \in Users, NEW a \in Amounts, NEW s \in Statuses
    PROVE  /\ Row(u, a, s) \in RowType
           /\ Row(u, a, s) # NoRow
           /\ Row(u, a, s).status = s
           /\ Row(u, a, s).user = u
           /\ Row(u, a, s).amount = a
  BY DEF Row, RowType, NoRow, Statuses

LEMMA DebitEffect ==
    ASSUME balance \in [Users -> Int], NEW u \in Users, NEW a \in Amounts,
           Debit(u, a)
    PROVE  /\ balance' \in [Users -> Int]
           /\ balance'[u] = balance[u] - a
           /\ \A v \in Users : v # u => balance'[v] = balance[v]
  <1>1. a \in Int /\ balance[u] - a \in Int
    BY AmountsAssumption
  <1> QED
    BY <1>1 DEF Debit

-----------------------------------------------------------------------------
LEMMA ShapeInit == Init => Shape
  BY OpeningAssumption
     DEF Init, Shape, TypeOK, CallsMatch, RowsFollow, NoView, NoVerdict, InFlight

\* The shape of the state is inductive.
LEMMA ShapeStep == Shape /\ [Next]_vars => Shape'
  <1> SUFFICES ASSUME Shape, [Next]_vars
               PROVE  Shape'
    OBVIOUS
  <1> USE DEF Shape, TypeOK, CallsMatch, RowsFollow, money, account, GoTo, End,
              NoView, NoVerdict, InFlight, Ended
  <1>1. ASSUME NEW r \in Requests, NEW c \in Call, Arrive(r, c)
        PROVE  Shape'
    BY <1>1, CallTypes DEF Arrive
  <1>2. ASSUME NEW r \in Requests, RefuseOnView(r)
        PROVE  Shape'
    BY <1>2 DEF RefuseOnView
  <1>3. ASSUME NEW r \in Requests, Decide(r)
        PROVE  Shape'
    <2>1. call[r] \in PayCall
      BY <1>3, CallTypes DEF Decide
    <2>2. MustHold(r) \in BOOLEAN
      BY DEF MustHold
    <2> QED
      BY <1>3, <2>1, <2>2 DEF Decide
  <1>4. ASSUME NEW r \in Requests, InsertHeld(r)
        PROVE  Shape'
    <2>1. call[r].user \in Users /\ call[r].amount \in Amounts
      BY <1>4 DEF InsertHeld, PayCall
    <2>2. Row(call[r].user, call[r].amount, "held") \in RowType
      BY <2>1, RowMade DEF Statuses
    <2> QED
      BY <1>4, <2>2 DEF InsertHeld
  <1>5. ASSUME NEW r \in Requests, DebitAndInsert(r)
        PROVE  Shape'
    <2>1. call[r].user \in Users /\ call[r].amount \in Amounts
      BY <1>5 DEF DebitAndInsert, PayCall
    <2>2. Row(call[r].user, call[r].amount, "posted") \in RowType
      BY <2>1, RowMade DEF Statuses
    <2>3. balance' \in [Users -> Int]
      BY <1>5, <2>1, DebitEffect DEF DebitAndInsert
    <2>4. TypeOK'
      BY <1>5, <2>2, <2>3 DEF DebitAndInsert
    <2>5. CallsMatch' /\ RowsFollow'
      BY <1>5, <2>1 DEF DebitAndInsert
    <2> QED
      BY <2>4, <2>5
  <1>6. ASSUME NEW r \in Requests, LoseRace(r)
        PROVE  Shape'
    BY <1>6 DEF LoseRace
  <1>7. ASSUME NEW r \in Requests, Announce(r)
        PROVE  Shape'
    BY <1>7 DEF Announce
  <1>8. ASSUME NEW r \in Requests, CheckReleaseCode(r)
        PROVE  Shape'
    <2>1. call[r] \in ReleaseCall /\ call[r] \in Call
      BY <1>8, CallTypes DEF CheckReleaseCode
    <2>2. \/ GoTo(r, "verified") /\ UNCHANGED <<view, verdict>>
          \/ End(r, "refused")
      BY <1>8, Zenon DEF CheckReleaseCode
    <2>3. UNCHANGED <<money, account, alerts, call, covered>>
      BY <1>8 DEF CheckReleaseCode
    <2>4. CASE GoTo(r, "verified") /\ UNCHANGED <<view, verdict>>
      BY <1>8, <2>1, <2>3, <2>4 DEF CheckReleaseCode
    <2>5. CASE End(r, "refused")
      BY <2>1, <2>3, <2>5
    <2> QED
      BY <2>2, <2>4, <2>5
  <1>9. ASSUME NEW r \in Requests, ReleaseHeld(r)
        PROVE  Shape'
    <2> DEFINE t == call[r].row
    <2>1. t \in Requests /\ call[r].user \in Users
      BY <1>9 DEF ReleaseHeld, ReleaseCall
    <2>2. rows[t] \in RowType
      BY <1>9, <2>1, RowTypes DEF ReleaseHeld, Claimable, NoRow
    <2>3. Row(rows[t].user, rows[t].amount, "released") \in RowType
      BY <2>2, RowMade, RowTypes DEF Statuses
    <2>4. balance' \in [Users -> Int]
      BY <1>9, <2>1, <2>2, RowTypes, DebitEffect DEF ReleaseHeld
    <2>5. pc[t] \notin {"idle", "loaded", "decided"}
      BY <1>9, <2>1 DEF ReleaseHeld, Claimable, NoRow
    <2> QED
      BY <1>9, <2>1, <2>3, <2>4, <2>5 DEF ReleaseHeld
  <1>10. ASSUME NEW r \in Requests, ReleaseFails(r)
         PROVE  Shape'
    BY <1>10 DEF ReleaseFails
  <1>11. ASSUME NEW r \in Requests, Die(r)
         PROVE  Shape'
    BY <1>11 DEF Die
  <1>12. ASSUME NEW u \in Users, NEW on \in BOOLEAN, SetFrozen(u, on)
         PROVE  Shape'
    BY <1>12 DEF SetFrozen
  <1>13. ASSUME NEW u \in Users, RecordSimChange(u)
         PROVE  Shape'
    BY <1>13 DEF RecordSimChange
  <1>14. ASSUME NEW u \in Users, SimWindowEnds(u)
         PROVE  Shape'
    BY <1>14 DEF SimWindowEnds
  <1>15. CASE UNCHANGED vars
    BY <1>15 DEF vars
  <1> QED
    BY <1>1, <1>2, <1>3, <1>4, <1>5, <1>6, <1>7, <1>8, <1>9, <1>10, <1>11,
       <1>12, <1>13, <1>14, <1>15 DEF Next, Pay, Release

\* Every reachable state has the declared types, and calls and rows appear in
\* step with the requests they belong to.
THEOREM ShapeHolds == Spec => []Shape
  BY ShapeInit, ShapeStep, PTL DEF Spec

\* Type correctness of Transactions.
THEOREM TypeCorrect == Spec => []TypeOK
  <1>1. Shape => TypeOK
    BY DEF Shape
  <1> QED
    BY <1>1, ShapeHolds, PTL

-----------------------------------------------------------------------------
(* Refinement: every step of a request is a step of the ledger, or none. *)

LEMMA LedgerInit == Init => L!Init
  BY DEF Init, L!Init, NoRow, L!NoRow

LEMMA LedgerStep == Shape /\ [Next]_vars => [L!Next]_(L!ledger)
  <1> SUFFICES ASSUME Shape, [Next]_vars
               PROVE  L!Next \/ UNCHANGED <<balance, frozen, rows>>
    BY DEF L!ledger
  <1> USE DEF money, account
  <1>1. ASSUME NEW r \in Requests, InsertHeld(r)
        PROVE  L!Next
    <2>1. /\ call[r].user \in Users /\ call[r].amount \in Amounts
          /\ rows[r] = NoRow
      BY <1>1 DEF InsertHeld, PayCall, Shape, CallsMatch, RowsFollow
    <2>2. L!Hold(r, call[r].user, call[r].amount)
      BY <1>1, <2>1 DEF InsertHeld, L!Hold, Row, L!Row, NoRow, L!NoRow
    <2> QED
      BY <2>1, <2>2 DEF L!Next
  <1>2. ASSUME NEW r \in Requests, DebitAndInsert(r)
        PROVE  L!Next
    <2>1. /\ call[r].user \in Users /\ call[r].amount \in Amounts
          /\ rows[r] = NoRow
      BY <1>2 DEF DebitAndInsert, PayCall, Shape, CallsMatch, RowsFollow
    <2>2. L!Payable(call[r].user, call[r].amount)
      BY <1>2 DEF DebitAndInsert, Debitable, L!Payable
    <2>3. L!Post(r, call[r].user, call[r].amount)
      BY <1>2, <2>1, <2>2
         DEF DebitAndInsert, Debit, L!Post, Row, L!Row, NoRow, L!NoRow
    <2> QED
      BY <2>1, <2>3 DEF L!Next
  <1>3. ASSUME NEW r \in Requests, ReleaseHeld(r)
        PROVE  L!Next
    <2> DEFINE t == call[r].row
    <2>1. t \in Requests
      BY <1>3 DEF ReleaseHeld, ReleaseCall, Shape, CallsMatch
    <2>2. rows[t].status = "held" /\ rows[t].user = call[r].user
      BY <1>3 DEF ReleaseHeld, Claimable
    <2>3. L!Payable(rows[t].user, rows[t].amount)
      BY <1>3, <2>2 DEF ReleaseHeld, Debitable, L!Payable
    <2>4. balance' = [balance EXCEPT ![rows[t].user] = @ - rows[t].amount]
      BY <1>3, <2>2 DEF ReleaseHeld, Debit
    <2>5. rows' = [rows EXCEPT ![t] = L!Row(@.user, @.amount, "released")]
      BY <1>3 DEF ReleaseHeld, Row, L!Row
    <2>6. L!Release(t)
      BY <1>3, <2>2, <2>3, <2>4, <2>5 DEF ReleaseHeld, L!Release
    <2> QED
      BY <2>1, <2>6 DEF L!Next
  <1>4. ASSUME NEW u \in Users, NEW on \in BOOLEAN, SetFrozen(u, on)
        PROVE  L!Next
    <2>1. L!SetFrozen(u, on)
      BY <1>4 DEF SetFrozen, L!SetFrozen
    <2> QED
      BY <2>1 DEF L!Next
  <1>5. ASSUME NEW r \in Requests,
               \/ \E c \in Call : Arrive(r, c)
               \/ RefuseOnView(r) \/ Decide(r) \/ LoseRace(r) \/ Announce(r)
               \/ CheckReleaseCode(r) \/ ReleaseFails(r) \/ Die(r)
        PROVE  UNCHANGED <<balance, frozen, rows>>
    BY <1>5 DEF Arrive, RefuseOnView, Decide, LoseRace, Announce,
                CheckReleaseCode, ReleaseFails, Die
  <1>6. ASSUME NEW u \in Users, RecordSimChange(u) \/ SimWindowEnds(u)
        PROVE  UNCHANGED <<balance, frozen, rows>>
    BY <1>6 DEF RecordSimChange, SimWindowEnds
  <1>7. CASE UNCHANGED vars
    BY <1>7 DEF vars
  <1> QED
    BY <1>1, <1>2, <1>3, <1>4, <1>5, <1>6, <1>7 DEF Next, Pay, Release

\* The interleaved request handlers implement the atomic ledger.
THEOREM RefinesLedger == Spec => ImplementsLedger
  BY LedgerInit, LedgerStep, ShapeHolds, PTL DEF Spec, ImplementsLedger, L!Spec

-----------------------------------------------------------------------------
(* What a ledger step cannot do, and therefore no step of a request can. *)

\* A step of the ledger leaves the money alone, or settles exactly one row
\* and takes its amount out of its owner's unfrozen, sufficient balance.
LedgerMoves ==
    \/ UNCHANGED <<balance, rows>>
    \/ \E r \in Requests :
          /\ rows[r] = NoRow /\ rows'[r].status = "held"
          /\ \A q \in Requests : q # r => rows'[q] = rows[q]
          /\ UNCHANGED balance
    \/ \E r \in Requests, u \in Users, a \in Amounts :
          /\ rows[r].status \notin Settled
          /\ \A q \in Requests : q # r => rows'[q] = rows[q]
          /\ ~frozen[u] /\ balance[u] >= a
          /\ Debit(u, a)

LEMMA LedgerStepMoves ==
    ASSUME TypeOK, [L!Next]_(L!ledger)
    PROVE  LedgerMoves
  <1>1. ASSUME NEW r \in Requests, NEW u \in Users, NEW a \in Amounts,
               L!Hold(r, u, a)
        PROVE  LedgerMoves
    BY <1>1 DEF L!Hold, LedgerMoves, TypeOK, NoRow, L!NoRow, L!Row
  <1>2. ASSUME NEW r \in Requests, NEW u \in Users, NEW a \in Amounts,
               L!Post(r, u, a)
        PROVE  LedgerMoves
    <2>1. /\ rows[r].status \notin Settled
          /\ \A q \in Requests : q # r => rows'[q] = rows[q]
          /\ ~frozen[u] /\ balance[u] >= a
          /\ Debit(u, a)
      BY <1>2 DEF L!Post, L!Payable, TypeOK, Settled, L!NoRow, Debit
    <2> QED
      BY <2>1 DEF LedgerMoves
  <1>3. ASSUME NEW r \in Requests, L!Release(r)
        PROVE  LedgerMoves
    <2> DEFINE u == rows[r].user
               a == rows[r].amount
    <2>1. rows[r] \in RowType
      BY <1>3, RowTypes DEF L!Release, TypeOK, NoRow
    <2>2. u \in Users /\ a \in Amounts
      BY <2>1, RowTypes
    <2>3. /\ rows[r].status \notin Settled
          /\ \A q \in Requests : q # r => rows'[q] = rows[q]
          /\ ~frozen[u] /\ balance[u] >= a
          /\ Debit(u, a)
      BY <1>3 DEF L!Release, L!Payable, TypeOK, Settled, Debit
    <2> QED
      BY <2>2, <2>3 DEF LedgerMoves
  <1>4. ASSUME NEW u \in Users, NEW on \in BOOLEAN, L!SetFrozen(u, on)
        PROVE  LedgerMoves
    BY <1>4 DEF L!SetFrozen, LedgerMoves
  <1>5. CASE UNCHANGED L!ledger
    BY <1>5 DEF L!ledger, LedgerMoves
  <1> QED
    BY <1>1, <1>2, <1>3, <1>4, <1>5 DEF L!Next

LEMMA MoneyStep == Shape /\ [Next]_vars => LedgerMoves
  BY LedgerStep, LedgerStepMoves DEF Shape

\* No interleaving of payments and releases overdraws an account.
THEOREM NoOverdraftHolds == Spec => []NoOverdraft
  <1>1. Init => NoOverdraft
    <2>1. OpeningBalance >= 0
      BY OpeningAssumption
    <2>2. Init => \A u \in Users : balance[u] = OpeningBalance
      BY DEF Init
    <2> QED
      BY <2>1, <2>2 DEF NoOverdraft
  <1>2. Shape /\ NoOverdraft /\ [Next]_vars => NoOverdraft'
    <2> SUFFICES ASSUME Shape, NoOverdraft, [Next]_vars, NEW v \in Users
                 PROVE  balance'[v] >= 0
      BY DEF NoOverdraft
    <2>1. CASE UNCHANGED balance
      BY <2>1 DEF NoOverdraft
    <2>2. ASSUME NEW u \in Users, NEW a \in Amounts, balance[u] >= a, Debit(u, a)
          PROVE  balance'[v] >= 0
      <3>1. balance[u] \in Int /\ balance[v] \in Int /\ a \in Int /\ balance[v] >= 0
        BY AmountsAssumption DEF Shape, TypeOK, NoOverdraft
      <3> QED
        BY <2>2, <3>1, DebitEffect DEF Shape, TypeOK
    <2> QED
      BY <2>1, <2>2, MoneyStep DEF LedgerMoves
  <1> QED
    BY <1>1, <1>2, ShapeHolds, PTL DEF Spec

\* Money never leaves a frozen account, whatever the requests had read.
THEOREM FrozenKeepsItsMoneyHolds == Spec => FrozenKeepsItsMoney
  <1>1. Shape /\ [Next]_vars =>
            [\A u \in Users : frozen[u] => balance'[u] = balance[u]]_vars
    <2> SUFFICES ASSUME Shape, [Next]_vars, NEW v \in Users, frozen[v]
                 PROVE  balance'[v] = balance[v]
      OBVIOUS
    <2>1. ASSUME NEW u \in Users, NEW a \in Amounts, ~frozen[u], Debit(u, a)
          PROVE  balance'[v] = balance[v]
      BY <2>1, DebitEffect DEF Shape, TypeOK
    <2> QED
      BY <2>1, MoneyStep DEF LedgerMoves
  <1> QED
    BY <1>1, ShapeHolds, PTL DEF Spec, FrozenKeepsItsMoney

\* A posted or released row never changes again.
THEOREM SettledIsFinalHolds == Spec => SettledIsFinal
  <1>1. Shape /\ [Next]_vars =>
            [\A r \in Requests :
                rows[r].status \in Settled => rows'[r] = rows[r]]_vars
    BY MoneyStep DEF LedgerMoves, NoRow, Settled
  <1> QED
    BY <1>1, ShapeHolds, PTL DEF Spec, SettledIsFinal

-----------------------------------------------------------------------------
(* Releases and holds *)

\* A release that was answered "ok" left its row released, which no later
\* release can claim: this is what makes OneReleasePerHold inductive.
AnsweredReleases ==
    \A r \in Requests :
        pc[r] = "done" /\ call[r].kind = "release"
        => rows[call[r].row].status = "released"

ReleaseInv == Shape /\ AnsweredReleases /\ OneReleasePerHold

LEMMA ReleaseStep == ReleaseInv /\ [Next]_vars => ReleaseInv'
  <1> SUFFICES ASSUME ReleaseInv, [Next]_vars
               PROVE  AnsweredReleases' /\ OneReleasePerHold'
    BY ShapeStep DEF ReleaseInv
  <1>1. \A r \in Requests : rows[r].status = "released" => rows'[r] = rows[r]
    BY MoneyStep DEF ReleaseInv, LedgerMoves, NoRow, Settled
  <1>2. \A q \in Requests : pc[q] = "done" /\ call[q].kind = "release"
                           => call[q].row \in Requests
    BY CallTypes DEF ReleaseInv, Shape, CallsMatch
  \* A step that answers no release leaves both parts as they are.
  <1>3. ASSUME \A q \in Requests :
                  pc'[q] = "done" /\ call'[q].kind = "release"
                  => pc[q] = "done" /\ call'[q] = call[q]
        PROVE  AnsweredReleases' /\ OneReleasePerHold'
    <2>1. AnsweredReleases'
      BY <1>1, <1>2, <1>3 DEF ReleaseInv, AnsweredReleases
    <2>2. OneReleasePerHold'
      BY <1>3 DEF ReleaseInv, OneReleasePerHold
    <2> QED
      BY <2>1, <2>2
  <1>4. ASSUME NEW r \in Requests, ReleaseHeld(r)
        PROVE  AnsweredReleases' /\ OneReleasePerHold'
    <2> DEFINE t == call[r].row
    <2>1. t \in Requests /\ rows[t].status = "held"
      BY <1>4 DEF ReleaseHeld, Claimable, ReleaseInv, Shape, CallsMatch, ReleaseCall
    <2>2. rows'[t].status = "released"
      BY <1>4, <2>1 DEF ReleaseHeld, Row, ReleaseInv, Shape, TypeOK
    <2>3. /\ call' = call
          /\ \A q \in Requests : q # r => pc'[q] = pc[q]
      BY <1>4 DEF ReleaseHeld, End, GoTo, ReleaseInv, Shape, TypeOK
    <2>4. \A q \in Requests : pc[q] = "done" /\ call[q].kind = "release"
                             => call[q].row # t
      BY <2>1 DEF ReleaseInv, AnsweredReleases
    <2>5. AnsweredReleases'
      BY <1>1, <1>2, <2>2, <2>3 DEF ReleaseInv, AnsweredReleases
    <2>6. OneReleasePerHold'
      BY <2>3, <2>4 DEF ReleaseInv, OneReleasePerHold
    <2> QED
      BY <2>5, <2>6
  <1>5. ASSUME NEW r \in Requests, NEW c \in Call, Arrive(r, c)
        PROVE  AnsweredReleases' /\ OneReleasePerHold'
    BY <1>3, <1>5 DEF Arrive, GoTo, ReleaseInv, Shape, TypeOK
  <1>6. ASSUME NEW r \in Requests, Announce(r)
        PROVE  AnsweredReleases' /\ OneReleasePerHold'
    <2>1. call[r].kind = "pay"
      BY <1>6 DEF Announce, ReleaseInv, Shape, CallsMatch, PayCall
    <2> QED
      BY <1>3, <1>6, <2>1 DEF Announce, End, GoTo, ReleaseInv, Shape, TypeOK
  <1>7. ASSUME NEW r \in Requests, CheckReleaseCode(r)
        PROVE  AnsweredReleases' /\ OneReleasePerHold'
    <2>1. call' = call
      BY <1>7 DEF CheckReleaseCode
    <2>2. GoTo(r, "verified") \/ GoTo(r, "refused")
      BY <1>7, Zenon DEF CheckReleaseCode, End
    <2> QED
      BY <1>3, <2>1, <2>2 DEF GoTo, ReleaseInv, Shape, TypeOK
  <1>8. ASSUME NEW r \in Requests,
               \/ RefuseOnView(r) \/ Decide(r) \/ InsertHeld(r)
               \/ DebitAndInsert(r) \/ LoseRace(r) \/ ReleaseFails(r) \/ Die(r)
        PROVE  AnsweredReleases' /\ OneReleasePerHold'
    <2>1. call' = call
      BY <1>8 DEF RefuseOnView, Decide, InsertHeld, DebitAndInsert, LoseRace,
                  ReleaseFails, Die
    <2>2. \/ GoTo(r, "refused") \/ GoTo(r, "decided") \/ GoTo(r, "recorded")
          \/ GoTo(r, "dead")
      BY <1>8, Zenon DEF RefuseOnView, Decide, InsertHeld, DebitAndInsert, LoseRace,
                  ReleaseFails, Die, End
    <2> QED
      BY <1>3, <2>1, <2>2 DEF GoTo, ReleaseInv, Shape, TypeOK
  <1>9. ASSUME NEW u \in Users,
               \/ \E on \in BOOLEAN : SetFrozen(u, on)
               \/ RecordSimChange(u) \/ SimWindowEnds(u)
        PROVE  AnsweredReleases' /\ OneReleasePerHold'
    BY <1>3, <1>9 DEF SetFrozen, RecordSimChange, SimWindowEnds
  <1>10. CASE UNCHANGED vars
    BY <1>3, <1>10 DEF vars
  <1> QED
    BY <1>4, <1>5, <1>6, <1>7, <1>8, <1>9, <1>10 DEF Next, Pay, Release

\* Two requests are never both told that they released the same payment.
THEOREM OneReleasePerHoldHolds == Spec => []OneReleasePerHold
  <1>1. Init => ReleaseInv
    BY ShapeInit DEF Init, ReleaseInv, AnsweredReleases, OneReleasePerHold
  <1>2. ReleaseInv => OneReleasePerHold
    BY DEF ReleaseInv
  <1> QED
    BY <1>1, <1>2, ReleaseStep, PTL DEF Spec

\* What keeps a covered large payment from being posted: while it is covered
\* the window is open, so the hold it is about to act on was decided inside it.
Barred(r) ==
    /\ pc[r] # "idle"
    /\ simChanged[call[r].user]
    /\ pc[r] = "decided" /\ ~verdict[r].held => call[r].amount < HoldThreshold
    /\ rows[r].status = "posted" => rows[r].amount < HoldThreshold

CoverInv == Shape /\ \A r \in covered : Barred(r)

LEMMA CoverStep == CoverInv /\ [Next]_vars => CoverInv'
  <1> SUFFICES ASSUME CoverInv, [Next]_vars, NEW q \in covered'
               PROVE  Barred(q)'
    BY ShapeStep DEF CoverInv
  <1> USE DEF CoverInv, Barred, Shape, TypeOK, GoTo, End, money, account
  <1>1. ASSUME NEW r \in Requests, NEW c \in Call, Arrive(r, c)
        PROVE  Barred(q)'
    <2>1. rows[r].status # "posted"
      BY <1>1 DEF Arrive, RowsFollow, NoRow
    <2> QED
      BY <1>1, <2>1 DEF Arrive
  <1>2. ASSUME NEW r \in Requests, Decide(r)
        PROVE  Barred(q)'
    <2>1. call[r] \in PayCall
      BY <1>2, CallTypes DEF Decide, CallsMatch
    <2>2. call[r].amount \in Int /\ HoldThreshold \in Int
      BY <2>1, AmountsAssumption, ThresholdAssumption DEF PayCall
    <2>3. PICK flagged \in BOOLEAN :
             verdict' = [verdict EXCEPT ![r] = [held |-> MustHold(r),
                                                flagged |-> flagged]]
      BY <1>2 DEF Decide
    <2>4. CASE q = r
      <3>1. verdict'[q].held <=> call[r].amount >= HoldThreshold
        BY <1>2, <2>3, <2>4 DEF Decide, MustHold
      <3> QED
        BY <1>2, <2>2, <2>4, <3>1 DEF Decide
    <2>5. CASE q # r
      BY <1>2, <2>3, <2>5 DEF Decide
    <2> QED
      BY <2>4, <2>5
  <1>3. ASSUME NEW r \in Requests, DebitAndInsert(r)
        PROVE  Barred(q)'
    BY <1>3 DEF DebitAndInsert, Row
  <1>4. ASSUME NEW r \in Requests, ReleaseHeld(r)
        PROVE  Barred(q)'
    <2>1. rows'[q].status = "posted" => rows'[q] = rows[q]
      BY <1>4 DEF ReleaseHeld, Row
    <2> QED
      BY <1>4, <2>1 DEF ReleaseHeld
  <1>5. ASSUME NEW r \in Requests, InsertHeld(r)
        PROVE  Barred(q)'
    BY <1>5 DEF InsertHeld, Row
  <1>6. ASSUME NEW r \in Requests,
               \/ RefuseOnView(r) \/ LoseRace(r) \/ Announce(r)
               \/ CheckReleaseCode(r) \/ ReleaseFails(r) \/ Die(r)
        PROVE  Barred(q)'
    <2>1. UNCHANGED <<rows, simChanged, call, covered>>
      BY <1>6 DEF RefuseOnView, LoseRace, Announce, CheckReleaseCode,
                  ReleaseFails, Die
    <2>2. \/ GoTo(r, "refused") \/ GoTo(r, "verified") \/ GoTo(r, "done")
          \/ GoTo(r, "dead")
      BY <1>6, Zenon DEF RefuseOnView, LoseRace, Announce, CheckReleaseCode,
                  ReleaseFails, Die, End
    <2>3. \/ verdict' = verdict
          \/ verdict' = [verdict EXCEPT ![r] = NoVerdict]
      BY <1>6, Zenon DEF RefuseOnView, LoseRace, Announce, CheckReleaseCode,
                  ReleaseFails, Die, End
    <2> QED
      BY <2>1, <2>2, <2>3
  <1>7. ASSUME NEW u \in Users,
               \/ \E on \in BOOLEAN : SetFrozen(u, on)
               \/ RecordSimChange(u) \/ SimWindowEnds(u)
        PROVE  Barred(q)'
    <2>1. call[q] \in Call \/ q \notin covered
      BY DEF CallsMatch
    <2> QED
      BY <1>7, <2>1, CallTypes DEF SetFrozen, RecordSimChange, SimWindowEnds
  <1>8. CASE UNCHANGED vars
    BY <1>8 DEF vars
  <1> QED
    BY <1>1, <1>2, <1>3, <1>4, <1>5, <1>6, <1>7, <1>8 DEF Next, Pay, Release

\* A large payment that arrives inside a SIM-change window is not posted
\* directly while the window lasts.
THEOREM CoveredLargePaymentsWaitHolds == Spec => []CoveredLargePaymentsWait
  <1>1. Init => CoverInv
    BY ShapeInit DEF Init, CoverInv
  <1>2. CoverInv => CoveredLargePaymentsWait
    BY DEF CoverInv, Barred, CoveredLargePaymentsWait
  <1> QED
    BY <1>1, <1>2, CoverStep, PTL DEF Spec

-----------------------------------------------------------------------------
(* Held payments are announced *)

\* A row is parked by a request that knows it, and is announced, unless that
\* request died, before it is answered.
Parked == {"held", "released"}
Announced(r) == r \in alerts \/ pc[r] = "dead" \/ (pc[r] = "recorded" /\ verdict[r].held)
AnnounceInv == Shape /\ \A r \in Requests : rows[r].status \in Parked => Announced(r)

LEMMA AnnounceStep == AnnounceInv /\ [Next]_vars => AnnounceInv'
  <1> SUFFICES ASSUME AnnounceInv, [Next]_vars, NEW q \in Requests,
                      rows'[q].status \in Parked
               PROVE  Announced(q)'
    BY ShapeStep DEF AnnounceInv
  <1> USE DEF AnnounceInv, Announced, Shape, TypeOK, GoTo, End, money, account
  <1>1. ASSUME NEW r \in Requests, InsertHeld(r)
        PROVE  Announced(q)'
    <2>1. CASE q = r
      BY <1>1, <2>1 DEF InsertHeld
    <2>2. CASE q # r
      BY <1>1, <2>2 DEF InsertHeld
    <2> QED
      BY <2>1, <2>2
  <1>2. ASSUME NEW r \in Requests, Announce(r)
        PROVE  Announced(q)'
    BY <1>2 DEF Announce
  <1>3. ASSUME NEW r \in Requests, DebitAndInsert(r)
        PROVE  Announced(q)'
    <2>1. CASE q = r
      BY <1>3, <2>1 DEF DebitAndInsert, Row, Parked
    <2>2. CASE q # r
      BY <1>3, <2>2 DEF DebitAndInsert
    <2> QED
      BY <2>1, <2>2
  <1>4. ASSUME NEW r \in Requests, ReleaseHeld(r)
        PROVE  Announced(q)'
    <2>1. rows[q].status \in Parked
      BY <1>4 DEF ReleaseHeld, Claimable, Parked
    <2>2. r # q \/ q \in alerts
      BY <1>4, <2>1 DEF ReleaseHeld
    <2> QED
      BY <1>4, <2>1, <2>2 DEF ReleaseHeld
  \* Any other step leaves the rows and the alerts, and moves at most one request
  \* that is not about to announce, or lets it die.
  <1>5. ASSUME NEW r \in Requests, NEW where, rows' = rows, alerts' = alerts,
               pc' = [pc EXCEPT ![r] = where], where = "dead" \/ pc[r] # "recorded",
               pc[r] # "dead", \A p \in Requests : p # r => verdict'[p] = verdict[p]
        PROVE  Announced(q)'
    BY <1>5
  <1>6. ASSUME NEW r \in Requests, NEW c \in Call, Arrive(r, c)
        PROVE  Announced(q)'
    BY <1>5, <1>6 DEF Arrive
  <1>7. ASSUME NEW r \in Requests, Decide(r)
        PROVE  Announced(q)'
    BY <1>5, <1>7 DEF Decide
  <1>8. ASSUME NEW r \in Requests,
               RefuseOnView(r) \/ LoseRace(r) \/ ReleaseFails(r) \/ Die(r)
        PROVE  Announced(q)'
    BY <1>5, <1>8 DEF RefuseOnView, LoseRace, ReleaseFails, Die, InFlight
  <1>9. ASSUME NEW r \in Requests, CheckReleaseCode(r)
        PROVE  Announced(q)'
    BY <1>5, <1>9 DEF CheckReleaseCode
  <1>10. ASSUME NEW u \in Users,
                \/ \E on \in BOOLEAN : SetFrozen(u, on)
                \/ RecordSimChange(u) \/ SimWindowEnds(u)
         PROVE  Announced(q)'
    BY <1>10 DEF SetFrozen, RecordSimChange, SimWindowEnds
  <1>11. CASE UNCHANGED vars
    BY <1>11 DEF vars
  <1> QED
    BY <1>1, <1>2, <1>3, <1>4, <1>6, <1>7, <1>8, <1>9, <1>10, <1>11 DEF Next, Pay, Release

\* A parked payment is announced before its request is answered.
THEOREM HeldIsAnnouncedHolds == Spec => []HeldIsAnnounced
  <1>1. Init => AnnounceInv
    BY ShapeInit DEF Init, AnnounceInv, NoRow, Parked
  <1>2. AnnounceInv => HeldIsAnnounced
    BY DEF AnnounceInv, HeldIsAnnounced, Announced, Parked
  <1> QED
    BY <1>1, <1>2, AnnounceStep, PTL DEF Spec
=============================================================================
