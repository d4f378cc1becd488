SPECIFICATION Spec
CONSTANTS
    Users = {ann}
    Workers = {w1, w2}
    Nowhere = Nowhere
    Nothing = Nothing
    Torn = Torn
    Happens = {"crash", "death", "refusal", "unreadable", "dry", "slow", "late"}
    MaxLives = 3
    MaxTroubles = 2
INVARIANTS TypeOK Kept NothingOld RenamesLand
PROPERTIES PhotoIsAtomic RebootEnds
CHECK_DEADLOCK FALSE
