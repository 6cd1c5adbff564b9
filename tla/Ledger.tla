------------------------------- MODULE Ledger -------------------------------
(***************************************************************************)
(* What the containment ledger of engine/transactions.py promises, without *)
(* threads: every payment attempt is at most one row of `transactions`,    *)
(* and a row takes its amount out of the owner's balance exactly once, in  *)
(* the same step in which it is settled ("posted" straight away, or        *)
(* "released" after a hold), never from a frozen account and never beyond  *)
(* the balance.  Transactions.tla shows that the interleaved request       *)
(* handlers implement this.                                                *)
(***************************************************************************)
EXTENDS Integers

CONSTANTS
    Users,          \* subscribers (rows of `users`)
    Attempts,       \* payment attempts; a row is named by its attempt
    Amounts,        \* whole-rupee amounts the API accepts
    OpeningBalance  \* balance of a new account

VARIABLES
    balance,        \* balance[u], column users.balance
    frozen,         \* frozen[u], column users.frozen
    rows            \* rows[a], the row of `transactions` attempt a inserted

ledger == <<balance, frozen, rows>>

NoRow == [status |-> "none"]
Settled == {"posted", "released"}
Row(u, amount, status) == [user |-> u, amount |-> amount, status |-> status]

Init ==
    /\ balance = [u \in Users |-> OpeningBalance]
    /\ frozen = [u \in Users |-> FALSE]
    /\ rows = [a \in Attempts |-> NoRow]

Payable(u, amount) == ~frozen[u] /\ balance[u] >= amount

\* Park a payment: no money moves.
Hold(a, u, amount) ==
    /\ rows[a] = NoRow
    /\ rows' = [rows EXCEPT ![a] = Row(u, amount, "held")]
    /\ UNCHANGED <<balance, frozen>>

\* Record and pay in one step.
Post(a, u, amount) ==
    /\ rows[a] = NoRow
    /\ Payable(u, amount)
    /\ rows' = [rows EXCEPT ![a] = Row(u, amount, "posted")]
    /\ balance' = [balance EXCEPT ![u] = @ - amount]
    /\ UNCHANGED frozen

\* Settle a parked payment.
Release(a) ==
    /\ rows[a].status = "held"
    /\ Payable(rows[a].user, rows[a].amount)
    /\ rows' = [rows EXCEPT ![a] = Row(@.user, @.amount, "released")]
    /\ balance' = [balance EXCEPT ![rows[a].user] = @ - rows[a].amount]
    /\ UNCHANGED frozen

SetFrozen(u, on) ==
    /\ frozen' = [frozen EXCEPT ![u] = on]
    /\ UNCHANGED <<balance, rows>>

Next ==
    \/ \E a \in Attempts, u \in Users, amount \in Amounts :
           Hold(a, u, amount) \/ Post(a, u, amount)
    \/ \E a \in Attempts : Release(a)
    \/ \E u \in Users, on \in BOOLEAN : SetFrozen(u, on)

Spec == Init /\ [][Next]_ledger
=============================================================================
