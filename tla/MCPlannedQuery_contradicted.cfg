SPECIFICATION Spec
CONSTANTS
    c1 = c1
    c2 = c2
    c3 = c3
    Chunks = {c1, c2}
    Text <- ContradictedText
    Cited = {c1, c2}
    Requests <- SemanticRequest
    MaxClaims = 2
    MaxRuns = 1
    Nothing = Nothing
INVARIANT
    ContradictionsAreDisclosed
