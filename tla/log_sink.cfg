\* Two goroutines, four events of which one is plain, a channel of one.
CONSTANTS
    Writers = {w1, w2}
    Events = {e1, e2, e3, p}
    Plain = {p}
    Capacity = 1
    None = None
SPECIFICATION Spec
INVARIANTS
    StoredOnceInOrder
    CloseDrains
PROPERTIES
    EveryEventReachesStdout
    ShutdownCompletes
CHECK_DEADLOCK FALSE
