\* Chains of rotations under the clock: two clients (one sliding, one with
\* absolute expiry), down-scoping, a chain that starts at a token from before
\* the session_id column, and a walk to the root that is bounded by one lookup,
\* which may fail.
CONSTANTS
    Sessions = {s1}
    Codes = {c1}
    Tokens = {t0, t1, t2}
    LegacyTokens = {t0}
    Requests = {r1}
    Clients = {web, app}
    AllowRefresh = {web, app}
    AbsoluteMode = {app}
    Scopes = {offline, profile}
    OfflineAccess = offline
    DetectReuse = FALSE
    SessionLifetime = 0
    AuthCodeLifetime = 0
    RefreshLifetime = 1
    RefreshAbsoluteLifetime = 1
    MaxDepth = 1
    MaxTime = 2
    StoreMayFail = FALSE
    LookupMayFail = TRUE
    None = None
SPECIFICATION Spec
SYMMETRY RowSymmetry
INVARIANTS
    CeilingCarried
    ChainInherits
    AuthTimeStable
CHECK_DEADLOCK FALSE
