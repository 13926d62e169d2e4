SPECIFICATION Spec
CONSTANTS
    StreamByte = {0, 1}
    xor <- MCxor
    MaxLen = 3
    MaxArg = 2
    UInt = 8
    Base = 8
    MAX_SIZE = 300
    VarIntMax = 511
    Chunk = 2
    UPPER_BOUND = 999
    MaxExp = 3
    Ints <- MCInts
    ByteStrings <- MCByteStrings
    Lists <- MCLists
    Txs <- MCTxs
    TxBytes <- MCTxBytes
    Blocks <- MCBlocks
    Outputs <- MCOutputs
    Scripts <- MCScripts
    Binaries <- MCBinaries
    Texts <- MCTexts
    Numbers <- MCNumbers
    Decimals = {0, 1}
INVARIANTS IntegersOneToOne WireRoundTrip TxidIgnoresWitness SolverExact TextRoundTrip FixedPointExact
PROPERTIES ImplementsStreams StreamDelivers
CHECK_DEADLOCK FALSE
