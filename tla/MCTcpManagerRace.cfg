\* OnConnect and GetNextObjId use the maps without obj_mutex_.
SPECIFICATION Spec
CONSTANTS
    Clients = {c1}
    Servers = {v1}
    Threads = {t1, t2}
    None = None
    MaxLinks = 1
    MaxData = 0
    MaxCalls = 1
CHECK_DEADLOCK FALSE
INVARIANTS
    MapExclusion
