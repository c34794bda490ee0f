SPECIFICATION FairSpec
CONSTANTS
    Posted = {p1}
    Scheduled = {s1}
    Assisted = {}
    Cancellers = {}
    MaxBoots = 3
    Mishaps = {"crash"}
INVARIANTS
    DeregisteredMeansRecorded
PROPERTIES
    ScheduledRunsAreJoined
    RecordSpec
    EventuallySettled
CHECK_DEADLOCK FALSE
