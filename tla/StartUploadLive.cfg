CONSTANTS
    ContentLengths = {0, 4}
    ChunkSize = 2
    ChannelCapacity = 1
    MaxWrite = 2
    S3Errors = {"SlowDown"}
    EarlyAnswers = FALSE
SPECIFICATION FairSpec
PROPERTIES
    EndedBodyEndsTask
    StalledWriterCannotHoldFinish
    DropEndsTask
    ParkedSendIsSettled
