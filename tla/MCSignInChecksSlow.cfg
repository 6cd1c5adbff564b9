SPECIFICATION Spec
CONSTANTS
    Requests = {r1, r2}
    Subjects = {"roaming", "silent", "unseen"}
    Profile <- MCProfile
    Attempts <- MCAttempts
    Jobs <- MCJobs
    Foreign <- MCForeign
    Injected = {"none", "timeout"}
    Trusted = {"ml_score"}
    ModelScore <- MCModelScore
    Limit = 2
    Window = 0
    MaxClock = 1
INVARIANT SlowAnswersAreSilent
CHECK_DEADLOCK FALSE
