\* Visits, merges and deletes for two visitors over two connections.
CONSTANTS
    registered = registered
    ours = ours
    Worker = {w1, w2}
    Laboratory = {ours}
    Visitor = {v1, v2}
    Account = {registered, a1, a2}
    Link = {l1, l2}
    Local = {registered}
    HomeOf <- RegisteredHome
    Nobody = Nobody
    Unused = Unused
    Gone = Gone
SPECIFICATION FairSpec
INVARIANTS
    OneLinkPerVisitor
PROPERTIES
    MergesSpareRealAccounts
    EveryTransactionEnds
CHECK_DEADLOCK FALSE
