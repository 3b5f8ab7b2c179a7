SPECIFICATION Spec
CONSTANTS
    Jobs = {j1}
    Workers = {w1}
    Faults = {"setup"}
    MaxCrashes = 0
    MaxTimeouts = 0
CHECK_DEADLOCK FALSE
INVARIANT RunningIsRun
