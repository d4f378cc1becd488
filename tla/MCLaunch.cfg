SPECIFICATION Spec
CONSTANTS
    Tasks = {placement, restart}
    Round = {restart}
    Happens = {"death", "mute", "nobuild", "template", "threads", "crash", "overdue"}
    MaxNames = 2
    MaxTroubles = 1
INVARIANTS TypeOK ListedServes
PROPERTIES NamesSettle NobodySurvives
CHECK_DEADLOCK FALSE
