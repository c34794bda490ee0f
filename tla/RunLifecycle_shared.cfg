SPECIFICATION Spec
CONSTANTS
    Posted = {p1}
    Scheduled = {}
    Assisted = {m1}
    Cancellers = {c1}
    MaxBoots = 2
    Mishaps = {"leave", "store", "kill", "crash"}
INVARIANTS
    SucceededHasReport
    EngineClosedBeforeStored
PROPERTIES
    CancellationIsHeard
CHECK_DEADLOCK FALSE
