SPECIFICATION FairSpec
CONSTANTS
    Jobs = {j1}
    MaxProgress = 2
    MaxDrops = 2
CHECK_DEADLOCK FALSE
INVARIANTS
    TypeOK
    LogFollowsTheJob
    DeletesAreAccepted
    DeletedIsForgotten
PROPERTIES
    PageCatchesUp
