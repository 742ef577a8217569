\* The promise of delete_location_subtree, refuted.
CONSTANTS
    Client = {c1, c2}
    Menu <- Menus
    Int32Max = 2
    ItemId = {1, 2, 3}
    Asset = {widget}
    Location = {l1}
    Batch = {}
    HandSerial = {sn}
    Status = {"available", "reserved"}
    NoBatch = NoBatch
    NoLocation = NoLocation
    NoSerial = NoSerial
    Unused = Unused
    Deleted = Deleted
    Keep = Keep
    MaxQuantity = 3
    MaxSerial = 5
    Nobody = Nobody
SPECIFICATION NumbersSpec
INVARIANT
    EveryLocationCanBeDeleted
CHECK_DEADLOCK FALSE
