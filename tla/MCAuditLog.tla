----------------------------- MODULE MCAuditLog -----------------------------
(***************************************************************************)
(* Small instances of AuditLog for TLC.                                    *)
(***************************************************************************)
EXTENDS AuditLog, TLC

\* Request threads are interchangeable.
Interchangeable == Permutations(Requests)
=============================================================================
