\* The way of the messages to the application, one part per behaviour.
SPECIFICATION MCSpec
CONSTANTS
    t1 = t1
    t2 = t2
    NULL = NULL
    Fetchers <- MCFetchers
    Calls <- MCCalls
    MaxMsgs = 4
    MaxBatch = 2
    Half = 4
    Counters = 2
    MaxLinks = 5
    Objects = {o1, o2}
    Tids = {i1, i2, i3}
    Callers = {c1}
    QUEUUE_SIZE = 3
    QUEUEU_MASK = 7
    BufSize = 12
    Unit = 4
    MaxResize = 24
    Kinds <- MCKinds
    NumCmds = 2
    Encrypted = TRUE
    nmsgmaxlen = 9
    Pieces = {1, 3, 8}
    Requests = {1, 2, 3}
    MaxSockets = 2
CHECK_DEADLOCK FALSE
INVARIANTS
    FetchedOnceInOrder
    NumberedApart
    SlotsFollowThreads
    PacketsInOrder
    LoopServed
PROPERTIES
    PostedIsFetched
    WaitBringsMessages
    PartsEnd
