SPECIFICATION Spec
CONSTANTS
    c1 = c1
    c2 = c2
    A = A
    B = B
    d1 = d1
    d2 = d2
    ChunkIds = {c1, c2}
    Documents = {d1, d2}
    Keys = {A, B}
    Mentions <- MCMentions
    Links <- MCLinks
    Wordless = {}
    NoChunk = NoChunk
    MaxCalls = 2
SYMMETRY MCSymmetry
INVARIANTS
    IndexesAreWhole
    GraphIsClosed
    LinksVerify
    PointersResolve
PROPERTIES
    IndexingKeepsChunks
