SPECIFICATION Spec
CONSTANTS
    Requests = {r1, r2, r3, r4}
    Ops = {"open", "resolve", "status", "purge"}
    People = {s, n}
    Analysts = {n}
    Cases = {c1}
    Appeals = {a1}
    Outcomes = {"false_positive", "confirmed_fraud"}
    Decisions = {"BLOCK"}
    AutoOpened = {"BLOCK"}
    MaxOpen = 1
SYMMETRY Interchangeable
PROPERTY OpenCaseIsKept
CHECK_DEADLOCK FALSE
