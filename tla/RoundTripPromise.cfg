\* One command, two bots and one interruption, with the retry limit and the
\* prefetch of MessagingConstants.
SPECIFICATION FairSpec
CONSTANTS
    r1 = r1
    r2 = r2
    b1 = b1
    b2 = b2
    main = main
    None = None
    Requests = {r1}
    Bots = {b1, b2}
    Rooms = {main}
    RoomOf <- OneRoom
    PrefetchCount = 10
    RetryLimit = 3
    MaxInterruptions = 1
CHECK_DEADLOCK FALSE
INVARIANTS
    IInv
    ExtraAnswersAccounted
    ExtraPostsAccounted
    DeadLettersAreUndone
PROPERTIES
    KeepsPromise
    EveryRequestSettles
