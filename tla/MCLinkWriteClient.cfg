\* A client link: link_ is reset between the test and the push of SendData.
SPECIFICATION Spec
CONSTANTS
    ServerLinks = {}
    ClientLinks = {k1}
    Senders = {s1, s2}
    Libuv = Libuv
    None = None
    MaxMsgs = 2
    MaxWakeups = 1
CHECK_DEADLOCK FALSE
INVARIANTS
    SavedIsOwned
