SPECIFICATION Spec
CONSTANTS
    w1 = w1  w2 = w2  r1 = r1  r2 = r2  r3 = r3
    Workers = {w1, w2}
    Requests = {r1, r2, r3}
    None = None
    Happens = {"birth"}
    MaxOrders = 1
    MaxCrashes = 0
SYMMETRY Symmetry
INVARIANTS
    OneProcess
