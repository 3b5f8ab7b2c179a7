SPECIFICATION Spec
CONSTANTS
    Jobs = {j1}
    Workers = {w1, w2}
    Faults = {"enqueue", "setup", "research", "handler"}
    MaxCrashes = 2
    MaxTimeouts = 1
CHECK_DEADLOCK FALSE
SYMMETRY Symmetry
INVARIANTS
    TypeOK
    SucceededHasReport
    NoOrphanRows
