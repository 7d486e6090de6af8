\* Two requests racing on one code and on the chain that grows from it, with
\* every statement allowed to fail: single use, revocation, the ledger.  The
\* third token is the second successor a forked refresh would store; nothing
\* expires while the requests race.
CONSTANTS
    Sessions = {s1}
    Codes = {c1}
    Tokens = {t1, t2, t3}
    LegacyTokens = {}
    Requests = {r1, r2}
    Clients = {web}
    AllowRefresh = {web}
    AbsoluteMode = {}
    Scopes = {offline}
    OfflineAccess = offline
    DetectReuse = TRUE
    SessionLifetime = 0
    AuthCodeLifetime = 0
    RefreshLifetime = 1
    RefreshAbsoluteLifetime = 1
    MaxDepth = 3
    MaxTime = 0
    StoreMayFail = TRUE
    LookupMayFail = FALSE
    None = None
SPECIFICATION Spec
SYMMETRY RowSymmetry
INVARIANTS
    TypeOK
    HonouredOnce
    OneLiveTokenPerChain
PROPERTIES
    RevocationIsFinal
    ImplementsLedger
