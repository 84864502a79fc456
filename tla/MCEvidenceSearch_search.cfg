SPECIFICATION Spec
CONSTANTS
    A = A
    B = B
    C = C
    s1 = s1
    s2 = s2
    Chunks = {1, 2, 3}
    Entities = {A, B, C}
    Relations = {1, 2, 3}
    From <- MCFrom
    To <- MCTo
    Evidence <- MCEvidence
    Confidence <- MCConfidence
    SourceOf <- MCSourceOf
    Trust <- MCTrust
    Names <- MCNames
    Graphs <- MCGraphs
    KeywordAnswers <- MCKeywordAnswers
    VectorAnswers <- MCVectorAnswers
    Relevances <- MCRelevances
    Depths <- MCDepths
    TopKs = {2, 3}
    Quotas = {0, 1}
    Unit <- MCUnit
    NoHit = NoHit
INVARIANTS
    TypeOK
    DistancesAreShortest
    MergeKeepsTheBest
    AnswersThePlan
    QuotaYieldsLast
    FallbackIsPure
