SPECIFICATION Spec
CONSTANTS
    JSONRPC_BUFF_LEN = 5
    JSONRPC_MAX_BUFFER = 6
    Kinds = {"method", "refused"}
    Sizes = {2, 4}
    MaxRequests = 2
    MaxWindow = 2
    TLSOverhead = 1
    HelloSize = 2
    HelloMin = 2
    MaxFaults = 0
CHECK_DEADLOCK FALSE
INVARIANTS
    EveryCommandHandled
