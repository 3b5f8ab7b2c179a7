SPECIFICATION Spec

CONSTANTS
    Points = {p1, p2, p3, p4}
    DENSE_TOP_K = 3
    RRF_K = 2
    RERANK_CANDIDATE_LIMIT = 3
    RERANK_BATCH_SIZE = 2
    MAX_RERANK_ATTEMPTS = 2
    LLMTries = 2
    TopN = 2
    Indices <- MCIndices
    Scores = {0, 1}
    MaxScores = 2

CHECK_DEADLOCK FALSE
SYMMETRY Symmetry

INVARIANTS
    TypeOK
    FusionRespectsArms
    ScoresBelong
    GloballyRanked

PROPERTY ImplementsPassageSearch
