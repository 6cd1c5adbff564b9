--------------------------- MODULE MCTransactions ---------------------------
(***************************************************************************)
(* A small instance of Transactions for TLC.                               *)
(***************************************************************************)
EXTENDS Transactions, TLC

\* Threads and subscribers are interchangeable.
Interchangeable == Permutations(Requests) \cup Permutations(Users)
=============================================================================
