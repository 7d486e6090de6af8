\* Two instances and two rotations, from an empty table, with crashes.
CONSTANTS
    RingKeys = {k1, k2, k3, k4}
    Instances = {a, b}
    Commands = {c1, c2}
    None = None
SPECIFICATION RingSpec
SYMMETRY RingSymmetry
INVARIANT SignsWithStoredKey
PROPERTY RestartDecodesAll
