\* Two handlers on one account with a reset link and two sessions, one of them
\* with token requests; failures included.
SPECIFICATION Spec
CONSTANTS
    Requests = {r1, r2}
    Passwords = {p1, p2}
    Links = {l1}
    Sessions = {s1, s2}
    None = None
    StoreMayFail = TRUE
    Granting = {s1}
SYMMETRY Symmetry
INVARIANTS
    LinkUsedOnce
    ChangeEndsOlderAccess
    ChainsFollowSessions
