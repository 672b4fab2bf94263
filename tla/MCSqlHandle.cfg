\* A statement that follows an insert whose id was fetched, among the parts of MCData.
SPECIFICATION MCSpec
CONSTANTS
    WriteColumns <- MCWrite
    ReadColumns <- MCRead
    Values = {0, 1}
    Selects <- MCSelects
    MaxRows = 2
    MaxIds = 2
    MaxFaults = 1
    NoFile = NoFile
    Items = {1, 2}
    FirstCapacity = 3
    SecondCapacity = 2
    Sizes = {0, 1, 2, 54, 55, 204800, 1047534, 1047536, 1047545}
    MaxSend = 1047543
    MaxMsgs = 2
    Threads = {"t"}
    MaxSets = 1
    m_nMaxSize = 6
    Amounts = {2, 3}
    MaxScopes = 3
    MaxSys = 2
    Requests = {127, 255, 256, 2559, 2560}
    NodesPerBlock = 2
    MaxPools = 2
    MaxUsers = 3
    Makers = {1, 2}
    Allocators = {1, 2}
    blockNodeNum = 1
    MaxBlocks = 2
    Nobody = Nobody
    MaxOps = 2
    MaxBreaks = 2
    BufSize = 6
    Unit = 2
    MaxResize = 12
CHECK_DEADLOCK FALSE
INVARIANTS
    IdIsReset
