SPECIFICATION Spec
CONSTANTS
    t1 = t1
    t2 = t2
    c1 = c1
    c2 = c2
    l1 = l1
    l2 = l2
    None = None
    Threads <- ThreadSet2
    Coros <- CoroSet2
    Loops <- LoopSet2
    LoopOf <- TwoLoops2
    MaxReplace = 1
    Closable <- LoopSet1
    Interruptible = {}
    ReleaseDuringJob = FALSE
SYMMETRY ThreadSymmetry
INVARIANTS
    SlotClaimInv
    OneWriter
    NoLostSlot
    NoStrandedQueue
