SPECIFICATION FairSpec
CONSTANTS
    t1 = t1
    t2 = t2
    c1 = c1
    c2 = c2
    l1 = l1
    l2 = l2
    None = None
    Threads <- ThreadSet2
    Coros <- CoroSet2
    Loops <- LoopSet2
    LoopOf <- OneLoop2
    MaxReplace = 0
    Closable = {}
    Interruptible = {t1}
    ReleaseDuringJob = FALSE
INVARIANTS
    BoundedBypass
PROPERTIES
    QueuedServed
    ThreadsServed
