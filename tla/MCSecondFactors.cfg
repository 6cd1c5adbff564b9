SPECIFICATION SecondFactors
CONSTANTS
    Requests = {r1, r2, r3, r4}
    Challenges = {c1, c2}
    MaxAttempts = 2
    Codes = {k1, k2, k3, k4}
    SetSize = 2
SYMMETRY Interchangeable
INVARIANTS BoundToSignIn SpentOnce SessionsArePaidFor
PROPERTIES ExhaustedIsFinal ImplementsOneTimeCode OldSheetIsVoid
CHECK_DEADLOCK FALSE
