SPECIFICATION FairSpec
CONSTANTS
    w1 = w1  w2 = w2  r1 = r1  r2 = r2  r3 = r3
    Workers = {w1, w2}
    Requests = {r1, r2}
    None = None
    Happens = {"birth", "longcall", "crash", "failure", "expiry", "cut", "overdue"}
    MaxOrders = 1
    MaxCrashes = 1
PROPERTIES
    EverybodyGoesOn
