SPECIFICATION FairSpec
CONSTANTS
    Datasets = {d1, d2}
    Specs <- Mixed
    Tick = 1
    Cycle = 4
    Editors = {}
    Events = {"post", "closeout"}
INVARIANTS
    DueWithinPeriod
    ScheduledNeverStack
PROPERTIES
    NothingStarves
