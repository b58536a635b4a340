CONSTANTS
    ContentLengths = {0, 4, 5}
    ChunkSize = 2
    ChannelCapacity = 1
    MaxWrite = 2
    S3Errors = {"SlowDown", "AccessDenied"}
    Retryable = {"SlowDown"}
    MaxRetries = 1
    EarlyAnswers = FALSE
SPECIFICATION FairSpec
INVARIANTS
    TypeOK
    DeadUploadIsExplained
PROPERTIES
    AttemptsDoNotOverlap
    ImplementsUpload
    CallComesBack
    ProducerEnds
