SPECIFICATION FairSpec
CONSTANTS
    w1 = w1  w2 = w2  x1 = x1  x2 = x2
    c1 = c1  c2 = c2  c3 = c3  k1 = k1  k2 = k2
    Workers = {w1, w2}
    Contexts = {x1, x2}
    Calls = {c1, c2, c3}
    Keys = {k1, k2}
    Absent = Absent
    Whole = Whole
    None = None
    WorkerOf <- MCWorkerOf
    ContextOf <- MCContextOf
    Requests <- MCWrites
    MayGiveUp = FALSE
    MayOverflow = FALSE
PROPERTIES
    EveryCallSettles
