SPECIFICATION Spec
CONSTANTS
    r1 = r1
    r2 = r2
    Requests = {r1, r2}
    Accounts = {"a1", "a2"}
    Authenticators = {"original", "clone", "other"}
    Keys = {"k1", "k2"}
    KeyOf <- MCKeyOf
    Counting = {"original", "clone"}
    Enrolled <- MCEnrolled
    MaxCeremonies = 2
    MaxCount = 1
SYMMETRY Symmetry
INVARIANTS OneUsePerChallenge SessionsAreSigned OwnersAreTold
CHECK_DEADLOCK FALSE
