---------------------------- MODULE Transactions ----------------------------
(***************************************************************************)
(* engine/transactions.py and the routes that drive it.                    *)
(*                                                                         *)
(* Flask serves every request on its own thread and SQLite runs in         *)
(* autocommit mode, so a request is a process that alternates between      *)
(* single atomic statements (or one BEGIN IMMEDIATE block) and local work  *)
(* on what it read before.  In particular the `user` dictionary is read    *)
(* once, by require_auth, and may be stale by the time it is used.         *)
(*                                                                         *)
(* A request makes one call: "pay" (POST /transactions) or "release"       *)
(* (POST /transactions/<id>/release/confirm).  A payment inserts at most   *)
(* one row of `transactions`, which is named here by the request itself.   *)
(* The 7-day look-back over `sim_events` is abstracted to one flag per     *)
(* user: some SIM change lies inside the window.                           *)
(***************************************************************************)
EXTENDS Threads, Integers

CONSTANTS
    Users,          \* subscribers
    Amounts,        \* whole-rupee amounts the route's validator lets through
    HoldThreshold,  \* config transactions.hold_threshold_amount
    OpeningBalance  \* balance of a new account

ASSUME AmountsAssumption == Amounts \subseteq Nat \ {0}
ASSUME ThresholdAssumption == HoldThreshold \in Nat
ASSUME OpeningAssumption == OpeningBalance \in Nat

VARIABLES
    balance,    \* users.balance
    frozen,     \* users.frozen
    simChanged, \* a SIM change is recorded inside the look-back window
    rows,       \* the transactions table, by inserting request
    alerts,     \* requests whose payment has raised its dashboard alert
    call,       \* the call a request serves
    view,       \* the user dictionary the request read on arrival
    verdict,    \* assess()'s local held and flagged
    covered     \* history: requests that began inside the SIM-change window still open

money == <<balance, rows>>
account == <<frozen, simChanged>>
vars == <<balance, frozen, simChanged, rows, alerts, pc, call, view, verdict,
          covered>>

-----------------------------------------------------------------------------
NoRow == [status |-> "none"]
Statuses == {"held", "posted", "released"}
Settled == {"posted", "released"}
Row(u, amount, status) == [user |-> u, amount |-> amount, status |-> status]
RowType == [user : Users, amount : Amounts, status : Statuses]

PayCall == [kind : {"pay"}, user : Users, amount : Amounts]
ReleaseCall == [kind : {"release"}, user : Users, row : Requests]
Call == PayCall \cup ReleaseCall
NoCall == [kind |-> "none"]

NoView == [frozen |-> FALSE, balance |-> 0]
NoVerdict == [held |-> FALSE, flagged |-> FALSE]

Ended == {"done", "refused", "dead"}
InFlight == {"loaded", "decided", "recorded", "verified"}

\* Every table and every request's local variables keep their shape; in particular
\* a row has one of the three statuses the code writes.
TypeOK ==
    /\ balance \in [Users -> Int]
    /\ frozen \in [Users -> BOOLEAN]
    /\ simChanged \in [Users -> BOOLEAN]
    /\ rows \in [Requests -> RowType \cup {NoRow}]
    /\ alerts \subseteq Requests
    /\ pc \in [Requests -> {"idle"} \cup InFlight \cup Ended]
    /\ call \in [Requests -> Call \cup {NoCall}]
    /\ view \in [Requests -> [frozen : BOOLEAN, balance : Int]]
    /\ verdict \in [Requests -> [held : BOOLEAN, flagged : BOOLEAN]]
    /\ covered \subseteq Requests

Init ==
    /\ balance = [u \in Users |-> OpeningBalance]
    /\ frozen = [u \in Users |-> FALSE]
    /\ simChanged = [u \in Users |-> FALSE]
    /\ rows = [r \in Requests |-> NoRow]
    /\ alerts = {}
    /\ pc = [r \in Requests |-> "idle"]
    /\ call = [r \in Requests |-> NoCall]
    /\ view = [r \in Requests |-> NoView]
    /\ verdict = [r \in Requests |-> NoVerdict]
    /\ covered = {}

-----------------------------------------------------------------------------
(* Requests *)

\* The end of a request; what it held in local variables is gone.
End(r, how) ==
    /\ GoTo(r, how)
    /\ view' = [view EXCEPT ![r] = NoView]
    /\ verdict' = [verdict EXCEPT ![r] = NoVerdict]

\* require_auth reads the session and, in one SELECT, the user it belongs to.
Arrive(r, c) ==
    /\ pc[r] = "idle"
    /\ call' = [call EXCEPT ![r] = c]
    /\ view' = [view EXCEPT ![r] = [frozen |-> frozen[c.user],
                                   balance |-> balance[c.user]]]
    /\ covered' = IF simChanged[c.user] THEN covered \cup {r} ELSE covered
    /\ GoTo(r, "loaded")
    /\ UNCHANGED <<money, account, alerts, verdict>>

\* The two early refusals of assess(), both decided on the dictionary read
\* on arrival.
RefusedOnView(r) == view[r].frozen \/ call[r].amount > view[r].balance

RefuseOnView(r) ==
    /\ pc[r] = "loaded" /\ call[r].kind = "pay"
    /\ RefusedOnView(r)
    /\ End(r, "refused")
    /\ UNCHANGED <<money, account, alerts, call, covered>>

\* Faulty variant: "above the threshold" where the code says "at or above".
MustHold_Above(r) == simChanged[call[r].user] /\ call[r].amount > HoldThreshold

\* The cooling-off rule.
MustHold(r) == simChanged[call[r].user] /\ call[r].amount >= HoldThreshold

\* Score the payment.  The hold is decided here, on the sim_events read now;
\* whether the score reaches flag_threshold depends on the personal baseline,
\* the hour and the burst count, any of which may or may not fire.
Decide(r) ==
    /\ pc[r] = "loaded" /\ call[r].kind = "pay"
    /\ ~RefusedOnView(r)
    /\ \E flagged \in BOOLEAN :
           verdict' = [verdict EXCEPT ![r] = [held |-> MustHold(r),
                                              flagged |-> flagged]]
    /\ GoTo(r, "decided")
    /\ UNCHANGED <<money, account, alerts, call, view, covered>>

\* Faulty variant: what was checked on arrival is not checked again.
Debitable_AnyBalance(u, amount) == amount \in Amounts /\ ~frozen[u]
\* The WHERE clause of the conditional debit:
\* `WHERE id = ? AND balance >= ? AND frozen = 0`.
Debitable(u, amount) == balance[u] >= amount /\ ~frozen[u]

Debit(u, amount) == balance' = [balance EXCEPT ![u] = @ - amount]

\* The BEGIN IMMEDIATE block of assess(), which no other writer interleaves:
\* a held payment is only inserted, ...
InsertHeld(r) ==
    /\ pc[r] = "decided" /\ verdict[r].held
    /\ rows' = [rows EXCEPT ![r] = Row(call[r].user, call[r].amount, "held")]
    /\ GoTo(r, "recorded")
    /\ UNCHANGED <<balance, account, alerts, call, view, verdict, covered>>

\* Faulty variant: the balance read on arrival is written back, less the
\* amount, instead of being decremented in place.
DebitAndInsert_WriteBack(r) ==
    /\ pc[r] = "decided" /\ ~verdict[r].held
    /\ Debitable(call[r].user, call[r].amount)
    /\ balance' = [balance EXCEPT ![call[r].user] = view[r].balance - call[r].amount]
    /\ rows' = [rows EXCEPT ![r] = Row(call[r].user, call[r].amount, "posted")]
    /\ GoTo(r, "recorded")
    /\ UNCHANGED <<account, alerts, call, view, verdict, covered>>

\* ... any other is debited and inserted together, ...
DebitAndInsert(r) ==
    /\ pc[r] = "decided" /\ ~verdict[r].held
    /\ Debitable(call[r].user, call[r].amount)
    /\ Debit(call[r].user, call[r].amount)
    /\ rows' = [rows EXCEPT ![r] = Row(call[r].user, call[r].amount, "posted")]
    /\ GoTo(r, "recorded")
    /\ UNCHANGED <<account, alerts, call, view, verdict, covered>>

\* ... or, when the debit matches no row, refused ("lost_race").
LoseRace(r) ==
    /\ pc[r] = "decided" /\ ~verdict[r].held
    /\ ~Debitable(call[r].user, call[r].amount)
    /\ End(r, "refused")
    /\ UNCHANGED <<money, account, alerts, call, covered>>

\* Faulty variant: only the score decides whether the user hears of it.
Announce_FlaggedOnly(r) ==
    /\ pc[r] = "recorded"
    /\ alerts' = IF verdict[r].flagged THEN alerts \cup {r} ELSE alerts
    /\ End(r, "done")
    /\ UNCHANGED <<money, account, call, covered>>

\* After the commit: a critical alert for a held or flagged payment, then the
\* answer.
Announce(r) ==
    /\ pc[r] = "recorded"
    /\ alerts' = IF verdict[r].held \/ verdict[r].flagged THEN alerts \cup {r}
                 ELSE alerts
    /\ End(r, "done")
    /\ UNCHANGED <<money, account, call, covered>>

\* txn_release_confirm checks the emailed code (see OneTimeCodes) ...
CheckReleaseCode(r) ==
    /\ pc[r] = "loaded" /\ call[r].kind = "release"
    /\ \E accepted \in BOOLEAN :
           IF accepted THEN GoTo(r, "verified") /\ UNCHANGED <<view, verdict>>
           ELSE End(r, "refused")
    /\ UNCHANGED <<money, account, alerts, call, covered>>

\* Faulty variant: the row is claimed whatever its status.
Claimable_AnyStatus(r) ==
    /\ rows[call[r].row] # NoRow
    /\ rows[call[r].row].user = call[r].user

\* `WHERE id = ? AND user_id = ?` together with `status = 'held'`.
Claimable(r) ==
    /\ rows[call[r].row].status = "held"
    /\ rows[call[r].row].user = call[r].user

\* ... and release_held claims and debits in one BEGIN IMMEDIATE block, ...
ReleaseHeld(r) ==
    /\ pc[r] = "verified"
    /\ Claimable(r)
    /\ LET h == rows[call[r].row] IN
           /\ Debitable(call[r].user, h.amount)
           /\ Debit(call[r].user, h.amount)
           /\ rows' = [rows EXCEPT ![call[r].row] = Row(h.user, h.amount, "released")]
    /\ End(r, "done")
    /\ UNCHANGED <<account, alerts, call, covered>>

\* ... which is rolled back whole when either finds no row.
ReleaseFails(r) ==
    /\ pc[r] = "verified"
    /\ ~(Claimable(r) /\ Debitable(call[r].user, rows[call[r].row].amount))
    /\ End(r, "refused")
    /\ UNCHANGED <<money, account, alerts, call, covered>>

\* A request may die between two statements: the process stops, or SQLite
\* gives up waiting for the write lock and the exception ends the request.
Die(r) ==
    /\ pc[r] \in InFlight
    /\ End(r, "dead")
    /\ UNCHANGED <<money, account, alerts, call, covered>>

-----------------------------------------------------------------------------
(* The rest of the system, as far as payments can see it *)

\* auth.set_frozen, by the user's own routes or by an administrator.
SetFrozen(u, on) ==
    /\ frozen' = [frozen EXCEPT ![u] = on]
    /\ UNCHANGED <<money, simChanged, alerts, pc, call, view, verdict, covered>>

\* simulate_sim_swap inserts a sim_events row.
RecordSimChange(u) ==
    /\ simChanged' = [simChanged EXCEPT ![u] = TRUE]
    /\ UNCHANGED <<money, frozen, alerts, pc, call, view, verdict, covered>>

\* The newest SIM change falls out of the look-back window.
SimWindowEnds(u) ==
    /\ simChanged' = [simChanged EXCEPT ![u] = FALSE]
    /\ covered' = {r \in covered : call[r].user # u}
    /\ UNCHANGED <<money, frozen, alerts, pc, call, view, verdict>>

-----------------------------------------------------------------------------
Pay(r) ==
    \/ RefuseOnView(r) \/ Decide(r)
    \/ InsertHeld(r) \/ DebitAndInsert(r) \/ LoseRace(r)
    \/ Announce(r)

Release(r) == CheckReleaseCode(r) \/ ReleaseHeld(r) \/ ReleaseFails(r)

Next ==
    \/ \E r \in Requests :
           \/ \E c \in Call : Arrive(r, c)
           \/ Pay(r) \/ Release(r) \/ Die(r)
    \/ \E u \in Users :
           \/ \E on \in BOOLEAN : SetFrozen(u, on)
           \/ RecordSimChange(u) \/ SimWindowEnds(u)

Spec == Init /\ [][Next]_vars

-----------------------------------------------------------------------------
(* Properties *)

\* However many payments and releases of one account race, its balance never
\* goes below zero: the stale check on arrival is not what protects it, the
\* conditional debit is (transactions.py:143-158, finding F14).
NoOverdraft == \A u \in Users : balance[u] >= 0

\* Money does not leave a frozen account, even through a payment or release
\* whose request read the account before the freeze.
FrozenKeepsItsMoney ==
    [][\A u \in Users : frozen[u] => balance'[u] = balance[u]]_vars

\* A settled row is final: no retry, failed release or late request moves it
\* back to "held" or changes whose it is and what it cost.
SettledIsFinal ==
    [][\A r \in Requests : rows[r].status \in Settled => rows'[r] = rows[r]]_vars

\* Of all requests that release one held payment, one at most is told it
\* succeeded (transactions.py:215-221, finding F15).
OneReleasePerHold ==
    \A r1, r2 \in Requests :
        /\ pc[r1] = "done" /\ call[r1].kind = "release"
        /\ pc[r2] = "done" /\ call[r2].kind = "release"
        /\ call[r1].row = call[r2].row
        => r1 = r2

\* A large payment that arrives inside a SIM-change window is never posted
\* directly while that window lasts: it is parked, or refused
\* (transactions.py:128-132).
CoveredLargePaymentsWait ==
    \A r \in covered :
        rows[r].status = "posted" => rows[r].amount < HoldThreshold

\* Every parked payment raises its alert before its request is answered, even one
\* that was released in between; only a request that died after the commit leaves
\* one nobody is told about (transactions.py:185-193).
HeldIsAnnounced ==
    \A r \in Requests :
        rows[r].status \in {"held", "released"} =>
            r \in alerts \/ pc[r] \in {"recorded", "dead"}

L == INSTANCE Ledger WITH Attempts <- Requests

\* The interleaved handlers of payments and releases implement the atomic ledger:
\* each settles at most one row, in the step that debits it.
ImplementsLedger == L!Spec
=============================================================================
