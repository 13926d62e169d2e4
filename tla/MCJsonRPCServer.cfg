SPECIFICATION FairSpec
CONSTANTS
    JSONRPC_BUFF_LEN = 4
    JSONRPC_MAX_BUFFER = 6
    Kinds = {"header", "badhash", "garbage", "http"}
    Sizes = {3, 8}
    MaxRequests = 2
    MaxWindow = 2
    TLSOverhead = 1
    HelloSize = 2
    HelloMin = 2
    MaxFaults = 1
CHECK_DEADLOCK FALSE
INVARIANTS
    TypeOK
    BufferFits
    RepliesInOrder
    NoByteLost
    LockStepKept
PROPERTIES
    RequestsHandled
