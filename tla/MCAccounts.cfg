SPECIFICATION Spec
CONSTANTS
    root = root
    ann = ann
    bob = bob
    l1 = l1
    l2 = l2
    s1 = s1
    s2 = s2
    seeded = seeded
    initial = initial
    other = other
    Null = Null
    Gone = Gone
    NoLaboratory = NoLaboratory
    User = {root, ann, bob, eve, pat}
    Laboratory = {l1, l2}
    Worker = {w1, w2}
    Session = {s1, s2}
    Code = {k1, k2}
    Secret = {n1}
    Password = {seeded, initial, other}
    Email = {e1, e2}
    Contact = {e1}
    Root = root
    Seeded = seeded
    Initial = initial
    Assigned <- MCAssigned
    Start <- MCStart
    MaxRequests = 4
INVARIANTS
    RolesWereGranted
    CodesAdmitOneGuest
PROPERTIES
    InvitationsStand
    CodesAreGenerated
CHECK_DEADLOCK FALSE
