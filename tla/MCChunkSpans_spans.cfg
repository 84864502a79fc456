SPECIFICATION SplitSpec
CONSTANTS
    Lengths <- MCLengths
    MaxChars <- MCMaxChars
    OverlapChars <- MCOverlapChars
INVARIANTS
    TextIsCovered
    SpansFit
    WordsStayWhole
PROPERTY
    TurnsAdvance
