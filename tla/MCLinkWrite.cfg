\* One server link and one client link: safety, and liveness of the wakeups.
SPECIFICATION FairSpec
CONSTANTS
    ServerLinks = {k1}
    ClientLinks = {k2}
    Senders = {s1, s2}
    Libuv = Libuv
    None = None
    MaxMsgs = 2
    MaxWakeups = 1
CHECK_DEADLOCK FALSE
INVARIANTS
    NoLostWakeup
    MemorySafe
    FifoPerLink
PROPERTIES
    PushedIsWritten
