SPECIFICATION FairSpec

CONSTANTS
    Runs = {r1, r2}
    Identities = {i1, i2}
    Contents = {c1, c2, c3}
    MaxChunks = 1
    MaxAttempts = 3

CHECK_DEADLOCK FALSE

INVARIANTS
    TypeOK
    SucceededIsWhole

PROPERTIES
    NeverIndexedTwice
    ImplementsCorpus
    EveryCallEnds
