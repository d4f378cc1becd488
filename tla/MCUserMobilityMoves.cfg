SPECIFICATION Spec
CONSTANTS
    w1 = w1  w2 = w2  r1 = r1  r2 = r2  r3 = r3
    Workers = {w1, w2}
    Requests = {r1, r2, r3}
    None = None
    Happens = {"crash", "failure"}
    MaxOrders = 3
    MaxCrashes = 1
SYMMETRY Symmetry
INVARIANTS
    TypeOK
    SingleHome
    NothingLost
    VertexAgrees
    QuietParcels
PROPERTIES
    ReadsItsWrites
