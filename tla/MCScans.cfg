SPECIFICATION MCSpec
CONSTANTS
    a = a
    r1 = r1
    Keys <- ThreeKeys
    Values <- OneValue
    Readers <- OneReader
    Absent = Absent
    Live = Live
    Deleted = Deleted
    None = None
    MaxSeq = 2
    MaxGen = 0
    FirstPage = 1
    MaxPage = 2
    Ranges <- SomeRanges
    MaxWrites = 2
    IntBytes = 2
    KeySpace <- MCKeySpace
    Contents <- MCContents
    Requests <- MCRequests
    Sizes <- MCSizes
    MaxWritten = 1
    Nil = Nil
INVARIANTS
    ScanExact
    RangeExact
    NothingAfterEnd
