---------------------------- MODULE SecondFactors ----------------------------
(***************************************************************************)
(* The two kinds of code that stand in for the second factor, served side  *)
(* by side: a request thread takes a call about the emailed codes of       *)
(* engine/auth.py or one about the sheet of engine/recovery_codes.py, and  *)
(* the statements of both interleave.                                      *)
(***************************************************************************)
EXTENDS OneTimeCodes, RecoveryCodes

emailed == <<codes, call, target, accepted, overlapped>>
printed == <<table, sheet, drawn, entered, spent, sessions>>
factors == <<pc, emailed, printed>>

FactorsInit == Init /\ RecoveryInit

FactorsNext ==
    \/ Next /\ UNCHANGED printed
    \/ RecoveryNext /\ UNCHANGED emailed

SecondFactors == FactorsInit /\ [][FactorsNext]_factors
=============================================================================
