SPECIFICATION Spec
CONSTANTS
    Repositories <- MCRepositories
    Texts <- MCTexts
    Validations <- MCValidations
    Reviewed <- MCReviewed
    MaxBatch = 2
    MaxIds = 3
    MaxCalls = 2
    MaxRaises = 2
    Nothing = Nothing
INVARIANTS
    TelemetryIsTrue
    ReportsHaveTheirCases
    TasksCoverFailures
