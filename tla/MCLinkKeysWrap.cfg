\* A server accepts more links than an int32_t counts.
SPECIFICATION SpecKeys
CONSTANTS
    Half = 4
    Counters = 2
    MaxLinks = 2
INVARIANTS
    KeyNamesServer
