SPECIFICATION FairSpec
CONSTANTS
    None = None
    Chunks = 2
    Sessions = 1
    QueueLength = 2
    MaxRetries = 2
    MaxApprovalRetries = 1
    BookExists = TRUE
    DiskFails = FALSE
PROPERTIES
    SenderFinishes
