CONSTANTS
    ContentLength = 3
    ChannelCapacity = 1
    MaxRetries = 1
    EarlyAnswers = FALSE
SPECIFICATION FairSpec
INVARIANTS
    ObjectIsOnePayload
    RetriesAreSpentOnlyOnHope
PROPERTIES
    CallReturns
    ProducersEnd
