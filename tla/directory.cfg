\* Two handlers on one account and two roles.
SPECIFICATION Spec
CONSTANTS
    Users = {u1}
    RoleIds = {i1, i2}
    Names = {n1, n2}
    Claims = {c1}
    Requests = {r1, r2}
    None = None
SYMMETRY Symmetry
INVARIANTS
    RolesTookEffect
    ClaimsTookEffect
    OrphansOnlyFromRaces
