---------------------------- MODULE MCCaseAppeals ----------------------------
(***************************************************************************)
(* Small instances of CaseAppeals for TLC.                                 *)
(***************************************************************************)
EXTENDS CaseAppeals, TLC

\* Requests, the rows of a table and people of one role are interchangeable.
Interchangeable ==
    Permutations(Requests) \cup Permutations(Cases) \cup Permutations(Appeals)
        \cup Permutations(Analysts) \cup Permutations(People \ Analysts)
=============================================================================
