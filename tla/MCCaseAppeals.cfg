SPECIFICATION Spec
CONSTANTS
    Requests = {r1, r2, r3, r4}
    Ops = {"submit", "withdraw", "claim", "review", "open", "detect", "comment", "status", "resolve", "reopen", "purge"}
    People = {s, n, m}
    Analysts = {n, m}
    Cases = {c1}
    Appeals = {a1}
    Outcomes = {"false_positive", "confirmed_fraud"}
    Decisions = {"BLOCK"}
    AutoOpened = {"BLOCK"}
    MaxOpen = 1
SYMMETRY Interchangeable
INVARIANTS VerdictIsBacked SeparationOfDuties AppealsHaveTheirCase
PROPERTIES AnsweredStaysAnswered UnansweredIsKept
CHECK_DEADLOCK FALSE
