\* One visitor, two laboratories, one request at a time.
CONSTANTS
    registered = registered
    ours = ours
    Worker = {w1}
    Laboratory = {ours, theirs}
    Visitor = {v1}
    Account = {registered, a1, a2}
    Link = {l1, l2}
    Local = {registered}
    HomeOf <- RegisteredHome
    Nobody = Nobody
    Unused = Unused
    Gone = Gone
SPECIFICATION Spec
SYMMETRY Symmetry
PROPERTIES
    NewVisitorsAreServed
CHECK_DEADLOCK FALSE
