\* Two instances that boot and seed, operators who make two changes.
CONSTANTS
    public = public
    openidScope = openidScope
    Strings <- MCStrings
    Trim <- MCTrim
    Fold <- MCFold
    Empty = ""
    Openid = "openid"
    OfflineAccess = "offline_access"
    AbsoluteURIs = {"https://a"}
    KeySets = {"keys"}
    Nil = Nil
    ClientIds = {public}
    Scopes = {openidScope}
    Seeded <- MCSeeded
    Bodies <- MCBodies
    Instances = {a, b}
    Requests = {r1}
    MaxChanges = 2
    MaxBoots = 3
    None = None
SPECIFICATION Spec
SYMMETRY InstanceSymmetry
INVARIANTS
    StoredClientsConsistent
    ProfileKept
    SeedComplete
PROPERTIES
    SeedKeepsEdits
CHECK_DEADLOCK FALSE
