\* The duplicate windows ARCHITECTURE names, against those the code has.
SPECIFICATION Spec
CONSTANTS
    r1 = r1
    r2 = r2
    b1 = b1
    b2 = b2
    main = main
    None = None
    Requests = {r1}
    Bots = {b1, b2}
    Rooms = {main}
    RoomOf <- OneRoom
    PrefetchCount = 10
    RetryLimit = 1
    MaxInterruptions = 1
SYMMETRY Symmetric
CHECK_DEADLOCK FALSE
INVARIANTS
    OnlyPostCommitFailureDuplicates
