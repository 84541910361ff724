SPECIFICATION FairSpec
CONSTANTS
    None = None
    Chunks = 2
    Sessions = 2
    QueueLength = 3
    MaxRetries = 1
    MaxApprovalRetries = 1
    BookExists = TRUE
    DiskFails = TRUE
INVARIANTS
    TypeOK
    WholeFilesOnly
    BookSurvives
    SuccessMeansStored
    InStep
    CompleteIsTrue
PROPERTIES
    AcceptedWhenShown
    FailureKeepsFiles
    EveryWaitEnds
