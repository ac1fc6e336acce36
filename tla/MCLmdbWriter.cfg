SPECIFICATION Spec
CONSTANTS
    None = None
    Txns = {t1}
    Batches = {b1}
    Reservers = {r1}
    MaxOpens = 2
    MaxOthers = 1
    MaxReads = 1
CONSTRAINT Small
INVARIANTS
    BeginAlone
    NothingLeft
    OutcomeTrue
