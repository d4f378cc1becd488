SPECIFICATION Spec
CONSTANTS
    Tasks = {placement}
    Round = {}
    Happens = {"overdue"}
    MaxNames = 2
    MaxTroubles = 0
INVARIANTS PidIsOwn
CHECK_DEADLOCK FALSE
