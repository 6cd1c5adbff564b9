SPECIFICATION Spec
CONSTANTS
    r1 = r1
    r2 = r2
    r3 = r3
    Requests = {r1, r2, r3}
    Submissions <- MCSubmissions
    Exports <- MCExports
    Limit = 1
    Window = 1
    Retention = 0
    MaxClock = 1
    Claims <- MCClaims
    Worth <- MCWorth
    Badges = {"guardian"}
    Threshold <- MCThreshold
    OneShot = {"study_completed"}
    Cap <- MCCap
    Others = {0}
    Rulings = {"new", "escalated", "resolved"}
    Recent = 1
    RiskDays = 0
    AuditDays = 0
    AlertDays = 0
SYMMETRY Symmetry
INVARIANTS AdmittedWithinLimit AnsweredSubmissionsAreKept PointsAreEarned AwardsOneByOne NoFalseCalm
CHECK_DEADLOCK FALSE
