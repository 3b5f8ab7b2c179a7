SPECIFICATION Spec
CONSTANTS
    Jobs = {j1}
    Workers = {w1}
    Faults = {"research"}
    MaxCrashes = 1
    MaxTimeouts = 0
CHECK_DEADLOCK FALSE
PROPERTY DeletedOnlyWhenFinished
