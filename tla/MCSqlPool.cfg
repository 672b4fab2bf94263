SPECIFICATION FairSpec
CONSTANTS
    w1 = w1
    w2 = w2
    Workers <- MCWorkers
    HashOf <- MCHashOf
    PoolMax = 2
    ListMax = 2
    PerThread = 1
    ReConnEvery = 0
    MaxStmts = 3
    MaxOutages = 1
CHECK_DEADLOCK FALSE
INVARIANTS
    StatementsKept
    WorkersKept
PROPERTIES
    HalfKept
    Served
