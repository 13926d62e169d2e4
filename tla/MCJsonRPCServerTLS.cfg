SPECIFICATION Spec
CONSTANTS
    JSONRPC_BUFF_LEN = 4
    JSONRPC_MAX_BUFFER = 6
    Kinds = {"method"}
    Sizes = {3}
    MaxRequests = 2
    MaxWindow = 2
    TLSOverhead = 1
    HelloSize = 2
    HelloMin = 2
    MaxFaults = 0
CHECK_DEADLOCK FALSE
INVARIANTS
    SslBufTaken
