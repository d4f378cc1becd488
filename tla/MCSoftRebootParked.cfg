SPECIFICATION Spec
CONSTANTS
    Users = {ann}
    Workers = {w1}
    Nowhere = Nowhere
    Nothing = Nothing
    Torn = Torn
    Happens = {}
    MaxLives = 1
    MaxTroubles = 0
INVARIANTS SleepersParked
CHECK_DEADLOCK FALSE
