\* Two rows of one quantity asset that differ in status, two connections.
CONSTANTS
    remote = remote
    local = local
    itsLink = itsLink
    i1 = i1
    i2 = i2
    Worker = {w1, w2}
    Item = {i1, i2}
    Request = {b1, b2}
    Guest = {remote, local}
    Link = {itsLink}
    Linked = {remote}
    LinkOf <- RemoteLink
    Wanted <- RemoteWantsOne
    Twin <- TwinItems
    Nobody = Nobody
    Unused = Unused
    Gone = Gone
SPECIFICATION FairSpec
INVARIANTS
    BackstopNeverReached
    RequestsHaveTheirItem
PROPERTIES
    ImplementsContract
    EveryTransactionEnds
    ApprovalTakesAnAvailableItem
CHECK_DEADLOCK FALSE
