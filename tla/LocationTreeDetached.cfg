\* A move that trusts a path left stale by an earlier race.
CONSTANTS
    Worker = {w1, w2}
    Id = {n1, n2, n3}
    Code = {a, b}
    MaxDepth = 4
    Root = Root
    Nobody = Nobody
    Unused = Unused
    Gone = Gone
SPECIFICATION Spec
SYMMETRY Symmetry
INVARIANTS
    NothingIsDetached
CHECK_DEADLOCK FALSE
