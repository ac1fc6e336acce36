SPECIFICATION Spec
CONSTANTS
    Threads <- MCThreads
    FilterOf <- MCFilterOf
    Keys <- MCKeys
    QueueMax = 1
    Plans <- MCPlans
INVARIANTS
    ReadyIsRouted
    OpenIsLocal
PROPERTIES
    ConfirmedUnderBacklog
    Settles
CHECK_DEADLOCK FALSE
