SPECIFICATION FairSpec
CONSTANTS
    Byte <- MCByte
    BufSize = 5
    nRewind = 2
    MaxSeeks = 1
    Word = 2
    Magic <- MCMagic
    Files <- MCFiles
    AnyFiles <- MCAnyFiles
    Limits <- MCLimits
INVARIANTS
    FileTypeOK
    RingHolds
    ReadsAreFileBytes
    ScanExact
PROPERTIES
    FindStopsAtFirst
    LimitKept
    ScanEnds
CHECK_DEADLOCK FALSE
