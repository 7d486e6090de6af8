\* A deletion that fails half-way and is retried.
SPECIFICATION Spec
CONSTANTS
    Requests = {r1}
    Passwords = {p1}
    Links = {l1}
    Sessions = {s1}
    None = None
    StoreMayFail = TRUE
    Granting = {s1}
SYMMETRY Symmetry
INVARIANT DeletionLeavesNoTokens
