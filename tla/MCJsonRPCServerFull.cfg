SPECIFICATION Spec
CONSTANTS
    JSONRPC_BUFF_LEN = 4
    JSONRPC_MAX_BUFFER = 6
    Kinds = {"method"}
    Sizes = {4}
    MaxRequests = 1
    MaxWindow = 1
    TLSOverhead = 1
    HelloSize = 2
    HelloMin = 2
    MaxFaults = 0
CHECK_DEADLOCK FALSE
INVARIANTS
    EndedByPeer
