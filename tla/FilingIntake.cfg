SPECIFICATION FairSpec
CONSTANTS
    Threads = {t1, t2}
    MinInterval = 2
    MaxAttempts = 3
    Names <- MCNames
    Filings <- MCFilings
    Parts <- MCParts
    Tables <- MCTables
    ChunkSizes <- MCChunkSizes
    Window = 6
    Step = 2
    Tolerance = 3
CHECK_DEADLOCK FALSE
INVARIANTS
    TypeOK
    SectionsCovered
    WindowsTile
    NothingIsLost
    SectionsKeepToTheirHeader
    NoContaminatedRun
PROPERTIES
    RequestsSpaced
    EveryIngestionEnds
