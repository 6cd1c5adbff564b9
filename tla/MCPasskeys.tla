------------------------------ MODULE MCPasskeys ------------------------------
(***************************************************************************)
(* A small instance of Passkeys for TLC: account a1 has a passkey whose    *)
(* key was cloned, and a third authenticator, one that does not count, can *)
(* be registered.                                                          *)
(***************************************************************************)
EXTENDS Passkeys, TLC

CONSTANTS r1, r2

MCKeyOf == [d \in Authenticators |-> IF d = "other" THEN "k2" ELSE "k1"]
MCEnrolled == {[id |-> 1, account |-> "a1", key |-> "k1", count |-> 0]}
Symmetry == Permutations(Requests)
=============================================================================
