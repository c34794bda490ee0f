\* Everything Validate refuses, and three manifests it takes; one to three audits.
SPECIFICATION Spec
CONSTANTS
    Manifests <- MCManifests
    Passes <- MCPasses
    Replies <- MCReplies
    Options <- MCOptions
    Mishaps <- MCMishaps
INVARIANTS
    CreditIsEarned
    GateIsFair
CHECK_DEADLOCK FALSE
