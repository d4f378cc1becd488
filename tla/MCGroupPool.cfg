SPECIFICATION FairSpec
CONSTANTS
    u1 = u1  u2 = u2
    Users = {u1, u2}
    None = None
    Policies <- MCPolicies
    Heats = {1, 9}
    Loads = {2, 9, 10}
    FirstLoads = {2, 9}
    Ceiling = 10
    Quota = 13
    Beats = 2
    Happens = {"guest", "sample", "photo", "machine", "leaving", "apply", "failure", "crash", "overdue"}
    MaxBirths = 3
    MaxChanges = 1
INVARIANTS
    TypeOK
    PlacedIsListed
    AdmissionFollows
    OneBirthForAll
PROPERTIES
    ClosureLeavesSomebody
    TheEndedLeave
    EveryPlacementEnds
    GroupRecovers
