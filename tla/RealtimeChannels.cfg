\* A session of two channels that writes, its decisions included; changes keep coming.
SPECIFICATION FairSpec
CONSTANTS
    Session = {s1}
    Applies = {s1}
    Channel = {c1, c2}
    NoSession = NoSession
    maxBatchSize = 1
    Retries = 1
    MayCrash = TRUE
    MaxMade = 1
INVARIANT StoppedWritesNoMore
PROPERTY ReceivedIsProcessed
CHECK_DEADLOCK FALSE
