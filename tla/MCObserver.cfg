SPECIFICATION FairSpec
CONSTANTS
    s1 = s1
    s2 = s2
    r1 = r1
    r2 = r2
    r3 = r3
    Subs <- SubSet
    FilterOf <- TwoFilters
    Receivers <- ReceiverSet
    SubOf <- Bindings
    Batches <- OneBatch
    OwnKeys <- OwnKey
    QueueMax = 1
    BatchMax = 2
    MaxConn = 2
    Plans <- ThreePlans
INVARIANTS
    OpenIsRegistered
    NothingLost
    InOrderOnce
PROPERTIES
    QuietAfterDisconnect
    WorkerStops
CHECK_DEADLOCK FALSE
