SPECIFICATION MCSpec
CONSTANTS
    Connectors = {c1}
    Listeners = {l1}
    Contents = {"login","signal","bad","garbled"}
    MaxClients = 2
    MaxLinks = 1
    Interval = 1
    MaxPosts = 4
    Links = {k1}
    Sizes = {1, 2}
    SendSize = 3
    MaxCmds = 4
CHECK_DEADLOCK FALSE
INVARIANTS
    EndpointsKept
    SessionKept
    CommandsKept
PROPERTIES
    Reconnected
