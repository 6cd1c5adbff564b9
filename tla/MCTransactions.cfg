SPECIFICATION Spec
CONSTANTS
    Users = {u1}
    Requests = {r1, r2, r3}
    Amounts = {1, 2}
    HoldThreshold = 2
    OpeningBalance = 3
SYMMETRY Interchangeable
INVARIANTS NoOverdraft OneReleasePerHold CoveredLargePaymentsWait HeldIsAnnounced
PROPERTY ImplementsLedger
CHECK_DEADLOCK FALSE
