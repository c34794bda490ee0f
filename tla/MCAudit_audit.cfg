SPECIFICATION FairSpec
CONSTANTS
    NoQuery = NoQuery
    Servers <- TwoServers
    MaxCatalog = 2
    MaxSteps = 2
    TokenBudget = 1
    MaxReply = 1
    MaxCalls = 2
    Reports <- SomeReports
    Ideas <- SomeIdeas
    Measures <- Answers
    Passes <- SomePasses
    Mishaps = {"cancel", "stage", "query"}
INVARIANTS
    EngineKeptInBounds
    ReportedNumbersAreTheEngines
    ReadsGoWhereTheCatalogSays
    BudgetsHold
PROPERTIES
    AuditReturns
    PromiseKept
CHECK_DEADLOCK FALSE
