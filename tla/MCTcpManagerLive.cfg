\* Two clients, one thread adding, kicking and stopping: every request is answered.
SPECIFICATION FairSpec
CONSTANTS
    Clients = {c1, c2}
    Servers = {}
    Threads = {t1, t2}
    None = None
    MaxLinks = 1
    MaxData = 1
    MaxCalls = 2
CHECK_DEADLOCK FALSE
PROPERTIES
    ClientAnswered
    CloseServed
