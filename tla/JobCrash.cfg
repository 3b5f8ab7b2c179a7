SPECIFICATION FairSpec

CONSTANTS
    Jobs = {j1, j2}
    Workers = {w1, w2}
    Faults = {"research"}
    MaxCrashes = 1
    MaxTimeouts = 0

CHECK_DEADLOCK FALSE

INVARIANTS
    NoLostJob
    OneWorkerPerJob
    NoSelfDeadlock

PROPERTIES
    EveryJobFinishes
    EveryTaskEnds
    ImplementsService
