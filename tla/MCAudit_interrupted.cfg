SPECIFICATION Spec
CONSTANTS
    NoQuery = NoQuery
    Servers <- NoServers
    MaxCatalog = 2
    MaxSteps = 1
    TokenBudget = 0
    MaxReply = 1
    MaxCalls = 1
    Reports <- SomeReports
    Ideas <- SomeIdeas
    Measures <- Answers
    Passes <- LastingPasses
    Mishaps = {"cancel"}
INVARIANTS
    OnlyWhatDidNotReproduceIsDropped
CHECK_DEADLOCK FALSE
