\* Two requests at a process that restarts, over a client that is re-registered.
CONSTANTS
    c1 = c1
    k1 = k1
    k2 = k2
    j1 = j1
    read = read
    Clients = {c1}
    Keys = {k1, k2}
    Scopes = {read}
    Assertions <- MCAssertions
    Jtis = {j1}
    Registrations <- MCRegistrations
    Instances = {a}
    Requests = {r1, r2}
    Skew = 1
    MaxAccepted = 3
    MaxRows = 2
    MaxTime = 3
    None = None
SPECIFICATION Spec
SYMMETRY RequestSymmetry
INVARIANTS
    NoReplayBeforeExpiry
    EarnedUnderOneRegistration
CHECK_DEADLOCK FALSE
