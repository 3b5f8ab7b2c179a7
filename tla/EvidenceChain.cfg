SPECIFICATION Spec
CONSTANTS
    Chunks = {c1, c2}
    Indices <- MCIndices
    Verdicts = {"ACCEPT", "FLAG", "REMOVE", "REWRITE", "REWRITE without text"}
    MaxSubQuestions = 2
    MaxHits = 2
    MaxItems = 2
    MaxPairs = 1
    MaxClaims = 2
    MaxCited = 2
VIEW ClaimView
CHECK_DEADLOCK FALSE
INVARIANTS
    TypeOK
    EverySubQuestionAccounted
    ContradictionsNameTheirEvidence
    LinesFollowVerdicts
    HonestOutcome
    ChainIntact
    EveryClaimIsCited
PROPERTY ImplementsRun
