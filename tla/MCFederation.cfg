SPECIFICATION Spec
CONSTANTS
    a = a
    b = b
    la = la
    lb1 = lb1
    lb2 = lb2
    Laboratory = {la, lb1, lb2}
    Node = {a, b}
    Home <- MCHome
    Code = {c1, c2}
    Pairing = {g1, g2}
    Request = {r1}
    Partners <- MCPartners
    Starts <- MCStarts
    NoSecret = NoSecret
    Earlier = Earlier
    Ttl = 1
    TicksPerSecond = 2
    Skew = {0, 1}
    MaxTime = 5
    MaxDeliveries = 2
INVARIANTS
    SettledSecretsAgree
    ServedOncePerTtl
PROPERTY ImplementsAgreement
SYMMETRY Symmetry
