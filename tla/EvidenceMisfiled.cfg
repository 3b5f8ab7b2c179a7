SPECIFICATION Spec
CONSTANTS
    Chunks = {c1}
    Indices <- MCIndices
    Verdicts = {"ACCEPT"}
    MaxSubQuestions = 1
    MaxHits = 1
    MaxItems = 2
    MaxPairs = 0
    MaxClaims = 2
    MaxCited = 3
CHECK_DEADLOCK FALSE
INVARIANT CitationProvenance
