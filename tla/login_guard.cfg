\* One address against an account and against the reset throttle.
CONSTANTS
    IPs = {ip}
    Sources = {ip}
    Principals = {user, reset}
    Throttles = {reset}
    Requests = {r1, r2}
    MaxTime = 2
    Rate = 1
    Burst = 2
    MaxIdle = 2
    MaxFailures = 2
    LockoutDuration = 2
    ResetAfter = 1
    LookupMayFail = TRUE
    MaxBlind = 1
    MaxCounted = 5
    NoBucket = NoBucket
    None = None
SPECIFICATION Spec
SYMMETRY RequestSymmetry
INVARIANTS
    GuessesUnderLock
    PassRateBounded
    GuessesPaidFor
PROPERTIES
    LockLiftedByOldRequestsOnly
    SweepLosesNothing
CHECK_DEADLOCK FALSE
