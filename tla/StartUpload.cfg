CONSTANTS
    ContentLengths = {0, 3, 4, 5}
    ChunkSize = 2
    ChannelCapacity = 1
    MaxWrite = 3
    S3Errors = {"SlowDown"}
    EarlyAnswers = FALSE
SPECIFICATION Spec
INVARIANTS
    TypeOK
    BodyIsContiguous
    NothingUncounted
    NothingLeftBehind
    CallerKnowsWhatWasTaken
    LateCallsFail
    OkMeansStored
    StoredIsNeverShort
    BlameIsDeserved
PROPERTIES
    ImplementsUpload
    AbandonedBodyIsBlamed
