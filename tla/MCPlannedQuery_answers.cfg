SPECIFICATION Spec
CONSTANTS
    c1 = c1
    c2 = c2
    c3 = c3
    Chunks = {c1, c2, c3}
    Text <- MCText
    Cited = {c1, c3}
    Requests <- MCRequests
    MaxClaims = 2
    MaxRuns = 1
    Nothing = Nothing
INVARIANTS
    ClaimsWerePassed
    RunsAreAccounted
    NoPassIsDisclosed
    RepairsAreLeft
