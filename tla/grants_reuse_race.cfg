\* Two refreshes of one token, no failures: does reuse handling end the chain?
CONSTANTS
    Sessions = {s1}
    Codes = {c1}
    Tokens = {t1, t2}
    LegacyTokens = {}
    Requests = {r1, r2}
    Clients = {web}
    AllowRefresh = {web}
    AbsoluteMode = {}
    Scopes = {offline}
    OfflineAccess = offline
    DetectReuse = TRUE
    SessionLifetime = 0
    AuthCodeLifetime = 0
    RefreshLifetime = 1
    RefreshAbsoluteLifetime = 1
    MaxDepth = 3
    MaxTime = 1
    StoreMayFail = FALSE
    LookupMayFail = FALSE
    None = None
SPECIFICATION Spec
SYMMETRY RowSymmetry
INVARIANT ReuseRevokesChain
CHECK_DEADLOCK FALSE
