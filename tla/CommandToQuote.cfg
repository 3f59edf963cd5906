\* Every short line, and the whole life of the lookup a stock command starts.
SPECIFICATION Spec
CONSTANTS
    Lines <- AllLines
    Names <- AllNames
    MaxContentLength = 5
    MaxCodeLength = 1
    MaxNameLength = 3
    Providers = {"Stooq", "Finnhub", "Finnhub without key"}
    Budget = 10
    MaxAttempts = 3
    Backoff <- Waits
    Bodies <- AllBodies
CHECK_DEADLOCK FALSE
INVARIANTS
    TypeOK
    CommandsAreNeverPosts
    EchoMeansCommand
    ValidatorRejectsNothingMore
    StockCommandsReachTheLookup
    OnlySafeTickers
    RoomNamesAreCanonical
    EveryAttemptIsMade
    ThrowsOnlyOnStop
    AnswersAreEarned
