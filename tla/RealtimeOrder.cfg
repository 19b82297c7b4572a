\* Two sessions of one channel, stopped, reconnected, ended; the next may begin before the last batch of the one before is written.
SPECIFICATION Spec
CONSTANTS
    Session = {s1, s2}
    Applies = {}
    Channel = {c1}
    NoSession = NoSession
    maxBatchSize = 1
    Retries = 1
    MayCrash = TRUE
    MaxMade = 2
INVARIANT NothingSkipped
PROPERTY InOrder
CHECK_DEADLOCK FALSE
