SPECIFICATION Spec

CONSTANTS
    Runs = {r1}
    Identities = {i1}
    Contents = {c1}
    MaxChunks = 1
    MaxAttempts = 2

CHECK_DEADLOCK FALSE

INVARIANT SearchResolves
