\* A client and a server with up to two links.
SPECIFICATION Spec
CONSTANTS
    Clients = {c1}
    Servers = {v1}
    Threads = {t1, t2}
    None = None
    MaxLinks = 2
    MaxData = 2
    MaxCalls = 2
CHECK_DEADLOCK FALSE
INVARIANTS
    LookupsHold
PROPERTIES
    ImplementsEvents
