\* Two instances, the rotate-keys command and failures, from an empty table.
CONSTANTS
    Keys = {k1, k2, k3, k4}
    Callers = {p1, p2, p3}
    Instances = {a, b}
    Commands = {cmd}
    Bootable = TRUE
    MayFail = TRUE
    None = None
SPECIFICATION Spec
SYMMETRY KeySymmetry
INVARIANTS
    AlwaysAnActiveKey
    TokensStayVerifiable
    OneActiveBetweenRotations
