SPECIFICATION Spec
CONSTANTS
    c1 = c1
    c2 = c2
    NoOne = NoOne
    Contexts <- TwoContexts
    Plans <- TwoOfEach
    Backends = {"memory", "SQLite", "RocksDB"}
    Modes = {"primary", "secondary"}
    MaxOpens = 2
    MaxElsewhere = 1
    MaxIdle = 1
INVARIANTS
    NothingLeftBehind
    InheritedUntouched
PROPERTIES
    KeepsContract
CHECK_DEADLOCK FALSE
