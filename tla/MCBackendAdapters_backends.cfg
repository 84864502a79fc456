SPECIFICATION Spec
CONSTANTS
    qdrant = qdrant
    memory = memory
    c1 = c1
    c2 = c2
    c3 = c3
    e1 = e1
    Names <- MCNames
    Rank <- MCRank
    Types = {"vector", "graph"}
    Capabilities = {"read", "write"}
    Manifests <- MCManifests
    Plans <- MCPlans
    Chunks = {c1, c2, c3}
    Wordless = {c3}
    Entities = {e1}
    TopKs <- MCTopKs
    MaxEdits = 1
    MaxCalls = 4
    Nothing = Nothing
SYMMETRY MCSymmetry
INVARIANTS
    SelectionsFollowReports
    CandidatesAreAccounted
PROPERTY
    FailuresTellWhatTheyLeft
