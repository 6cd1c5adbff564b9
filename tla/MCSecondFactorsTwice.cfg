SPECIFICATION SecondFactors
CONSTANTS
    Requests = {r1, r2, r3}
    Challenges = {c1}
    MaxAttempts = 2
    Codes = {k1, k2}
    SetSize = 2
SYMMETRY Interchangeable
INVARIANT RedeemedAtMostOnce
CHECK_DEADLOCK FALSE
