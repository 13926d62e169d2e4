SPECIFICATION FairSpec
CONSTANTS
    b1 = b1
    b2 = b2
    b3 = b3
    x1 = x1
    x2 = x2
    x3 = x3
    s1 = s1
    s2 = s2
    t1 = t1
    t2 = t2
    TxIds = {x1, x2, x3}
    ScriptHashes = {s1, s2}
    NullHash = NullHash
    Blocks = {b1, b2, b3}
    vout <- MCvout
    vin <- MCvin
    BlkFiles <- MCBlkFiles
    Threads = {t1, t2}
    NoThread = NoThread
    Abandoned = Abandoned
    MAPSIZE_BASE_UNIT = 3
    DefaultMapSize = 1
    MaxFaults = 1
    MaxCrashes = 1
INVARIANTS
    TypeOK
    EachFileOnce
    IndexConsistent
    LoadedUnlessLost
PROPERTIES
    MapGrows
    CommitsWholeBlocks
    PreloadEnds
