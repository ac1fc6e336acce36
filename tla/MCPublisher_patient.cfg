SPECIFICATION FairSpec
CONSTANTS
    c1 = c1
    c2 = c2
    k1 = k1
    k2 = k2
    k3 = k3
    f1 = f1
    StopMarker = StopMarker
    NoItem = NoItem
    Calls = {c1}
    BatchOf <- Batches
    Flushes = {f1}
    QueueMax = 1
    ChunkMax = 1
    Unroutable = {k2}
    PatientNotify = TRUE
    PatientFlushes = {f1}
    Overlap = FALSE
    MaxGen = 2
    MaxFails = 1
PROPERTIES
    WorkerStops
    Settles
    PatientReturns
CHECK_DEADLOCK FALSE
