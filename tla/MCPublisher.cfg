SPECIFICATION Spec
CONSTANTS
    c1 = c1
    c2 = c2
    k1 = k1
    k2 = k2
    k3 = k3
    f1 = f1
    StopMarker = StopMarker
    NoItem = NoItem
    Calls <- CallSet
    BatchOf <- Batches
    Flushes = {f1}
    QueueMax = 2
    ChunkMax = 1
    Unroutable = {k3}
    PatientNotify = FALSE
    PatientFlushes = {}
    Overlap = FALSE
    MaxGen = 2
    MaxFails = 1
INVARIANTS
    Accounted
    DropsSurface
    OneWorker
    InOrder
PROPERTIES
    FlushIsBarrier
CHECK_DEADLOCK FALSE
