SPECIFICATION FairSpec
CONSTANTS
    Sources = {"operator", "uploaded"}
    MaxRuns = 2
    Requests = {q1, q2}
    Rules = {r1, r2}
    Reader = q1
    MaxRestarts = 1
    Mishaps = {"audit", "busy", "store"}
CONSTRAINT
    InScope
INVARIANTS
    LatestKeepsItsFiles
    ClearedMeansGone
    GoneMeansGone
    DeleteTakesWhatItListed
    AcceptedStayInForce
    RulesAlwaysLoad
PROPERTIES
    ExpiredDataGoes
CHECK_DEADLOCK FALSE
