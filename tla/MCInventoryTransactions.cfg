\* Two connections: the stock of one quantity asset, the serial numbers and
\* batches of one asset of either mode, or stock at a location that may go.
CONSTANTS
    Client = {c1, c2}
    Menu <- Menus
    Int32Max = 2
    ItemId = {1, 2, 3}
    Asset = {widget}
    Location = {l1}
    Batch = {}
    HandSerial = {sn}
    Status = {"available", "reserved"}
    NoBatch = NoBatch
    NoLocation = NoLocation
    NoSerial = NoSerial
    Unused = Unused
    Deleted = Deleted
    Keep = Keep
    MaxQuantity = 3
    MaxSerial = 5
    Nobody = Nobody
SPECIFICATION FairNumbersSpec
INVARIANTS
    TypeOK
    NoMergeCandidates
    AllocatedIsOnHand
    RowsFollowTheirAsset
    OverlappingBatchesNeverDeadlock
PROPERTIES
    StockIsConserved
    AllocationsGoOnlyWithTheirAsset
    OnlyPatchesTakeDrawnNumbers
    ImplementsLedger
    EveryRequestAnswered
CHECK_DEADLOCK FALSE
