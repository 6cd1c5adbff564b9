------------------------------- MODULE MCSignIn -------------------------------
(***************************************************************************)
(* A small instance of SignIn for TLC.                                     *)
(***************************************************************************)
EXTENDS SignIn, TLC

\* Threads and devices are interchangeable.
Interchangeable == Permutations(Requests) \cup Permutations(Devices)
=============================================================================
