\* Three locations, two codes, two connections.
CONSTANTS
    Worker = {w1, w2}
    Id = {n1, n2, n3}
    Code = {a, b}
    MaxDepth = 4
    Root = Root
    Nobody = Nobody
    Unused = Unused
    Gone = Gone
SPECIFICATION Spec
SYMMETRY Symmetry
INVARIANTS
    ParentsExist
    UnracedMovesKeepPaths
CHECK_DEADLOCK FALSE
