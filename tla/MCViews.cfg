\* Every kind of view, through any four calls.
CONSTANTS
    Roots = {"list", "tuple", "bytearray", "flat_list", "dict", "flat_dict", "light_dict",
             "set", "frozenset", "indexed_dict", "log_dict", "kh57"}
    Structures <- MCStructures
    Prims = {1, 2}
    Boxes <- MCBoxes
    Keys = {1, 2, 3}
    MaxLen = 3
    MaxSteps = 4

SPECIFICATION Spec
INVARIANTS ContentIsPython BookkeepingExact
CHECK_DEADLOCK FALSE
