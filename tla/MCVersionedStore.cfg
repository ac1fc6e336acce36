SPECIFICATION Spec
CONSTANTS
    a = a
    r1 = r1
    r2 = r2
    Keys <- TwoKeys
    Values <- OneValue
    Readers <- TwoReaders
    Absent = Absent
    Live = Live
    Deleted = Deleted
    None = None
    MaxSeq = 3
    MaxGen = 1
INVARIANTS
    NothingRetained
    IndexesAgree
PROPERTIES
    SnapshotsAreCopies
