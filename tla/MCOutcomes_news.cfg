SPECIFICATION FairSpec
CONSTANTS
    MaxRuns = 3
    Reports <- SomeReports
    Scheduled = {3}
    Triggers = {"regression", "failure", "any"}
    Thresholds = {1, 2}
    Mishaps = {"baseline", "read", "record", "cancel"}
INVARIANTS
    ComparisonsAccountForAll
    SilenceMeansNoNews
    GatesHold
PROPERTIES
    ComparedWithTheLatest
    DeliveriesEnd
CHECK_DEADLOCK FALSE
