SPECIFICATION Spec
CONSTANTS
    Requests = {r1, r2, r3}
    Devices = {d1, d2}
    LockoutAfter = 2
SYMMETRY Interchangeable
INVARIANTS TwoFactors OldSessionsEnd NewDevicesAreAnnounced OneSessionPerSignIn
PROPERTY LockHolds
CHECK_DEADLOCK FALSE
