SPECIFICATION FairSpec
CONSTANTS
    u1 = u1
    u2 = u2
    Worker = {w1, w2}
    Upload = {u1, u2}
    Item = {i1, i2}
    Asset = asset
    NewItem = {i2}
    Created <- MCCreated
    MaxFaults = 1
    MaxRequests = 5
INVARIANTS
    RowsHaveTheirFile
    OrphansComeFromFaults
PROPERTIES
    PatchesKeepOtherFields
    EveryRequestAnswered
CHECK_DEADLOCK FALSE
