\* A body that stalls after its headers.
SPECIFICATION Spec
CONSTANTS
    Lines <- OneLine
    Names <- NoNames
    MaxContentLength = 5
    MaxCodeLength = 1
    MaxNameLength = 3
    Providers = {"Stooq"}
    Budget = 10
    MaxAttempts = 3
    Backoff <- Waits
    Bodies <- AllBodies
CHECK_DEADLOCK FALSE
INVARIANTS
    EndsWithinBudget
