--------------------------- MODULE MCSecondFactors ---------------------------
(***************************************************************************)
(* Small instances of SecondFactors for TLC.                               *)
(***************************************************************************)
EXTENDS SecondFactors, TLC

\* Request threads and challenges are interchangeable; so are recovery codes, but
\* comparing their permutations as well costs more than it saves.
Interchangeable == Permutations(Requests) \cup Permutations(Challenges)
=============================================================================
