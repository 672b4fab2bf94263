\* Plain and gateway links: every chunking of a 24-byte stream.
SPECIFICATION FairSpec
CONSTANTS
    WireLen = 24
    Wires <- MCWires
    Attrs <- MCAttrs
    parse_need_size_ = 6
    PACKET_MIN_SIZE = 8
    PACKET_MAX_SIZE = 24
    GW_AUTHORITY_SIZE = 8
    INT32_HALF = 64
CHECK_DEADLOCK FALSE
INVARIANTS
    StreamConserved
    HandsOverRightly
PROPERTIES
    ImplementsStream
    ReadReturns
