CONSTANTS
    ContentLengths = {3}
    ChunkSize = 2
    ChannelCapacity = 1
    MaxWrite = 3
    S3Errors = {"SlowDown"}
    EarlyAnswers = TRUE
SPECIFICATION Spec
INVARIANT OkMeansBodyWentOut
