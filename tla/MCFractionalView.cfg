SPECIFICATION Spec
CONSTANTS
    Ids = {a, b, c}
    Base = 3
    Heads = 2
    Suffixes <- TwoTails
    NoKey = NoKey
    Raised = Raised
    MaxKeyLength = 4
    RespaceTarget = 3
    Window = 1
    MaxSteps = 5
SYMMETRY IdSymmetry
INVARIANTS
    IterationIsList
    IndexesAgree
CHECK_DEADLOCK FALSE
