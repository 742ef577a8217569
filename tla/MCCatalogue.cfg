SPECIFICATION Spec
CONSTANTS
    u1 = u1
    u2 = u2
    o1 = o1
    ca = ca
    cb = cb
    c1 = c1
    c2 = c2
    Null = Null
    Gone = Gone
    NoCategory = NoCategory
    Worker = {w1, w2}
    Asset = {x1}
    Category = {c1, c2}
    Unit = {u1, u2}
    Option = {o1, o2, o3, o4, o5, o6}
    Code = {ca, cb}
    Number <- MCNumber
    List <- MCList
    Query <- MCQuery
    Start <- MCStart
    MaxRequests = 4
INVARIANTS
    ValuesAreReadable
    FiltersFindWhatIsMeant
    AssetsAreFiledSomewhere
    PlainListsAreFollowed
PROPERTIES
    NewValuesFit
    RequiredValuesAreThere
CHECK_DEADLOCK FALSE
