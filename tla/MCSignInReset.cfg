SPECIFICATION Spec
CONSTANTS
    Requests = {r1, r2, r3}
    Devices = {d1, d2}
    LockoutAfter = 2
SYMMETRY Interchangeable
INVARIANT ResetLogsOutEverywhere
CHECK_DEADLOCK FALSE
