SPECIFICATION FairSpec
CONSTANTS
    RetryLimits <- MCRetryLimits
    MaxJobs = 2
    NoResult = NoResult
INVARIANTS
    EndedJobsAreAccounted
    ResultsAreTheJobs
PROPERTY
    RunsEnd
