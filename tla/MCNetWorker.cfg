SPECIFICATION FairSpec
CONSTANTS
    MaxCalls = 3
    IdRange = 4
    ReadMax = 7
    MaxClients = 1
    MaxStarts = 2
    Files <- MCFiles
INVARIANTS
    TypeOK
    OpenQueriesAccounted
    WaitersAreOpen
    CrashesExplained
PROPERTIES
    ImplementsQueries
    SampleKeepsDefaults
    AnswersComplete
    StartSettles
CHECK_DEADLOCK FALSE
