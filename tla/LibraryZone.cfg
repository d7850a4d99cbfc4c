SPECIFICATION MCSpec
CONSTANTS
    RollSize = 2
    CheckEveryN = 2
    FlushInterval = 1
    PeriodLength = 2
    ChunkSizes = {1, 2}
    MaxChunks = 4
    MaxTime = 4
    StructureKinds = {"heap", "skip", "ngx", "rb", "btree"}
    Elements = {1, 2, 3, 4, 5, 6, 7, 8}
    Slots = {1, 2, 3, 4}
    Letters = {1, 2, 3, 4, 5, 6, 7, 8, 9, 10}
    Modulus = 16
    MaxLevel = 3
    T = 2
    PoolSize = 8
    Requests = {3, 5, 10}
    FailedLimit = 0
    MaxBlocks = 3
    MaxMallocs = 2
    Exceptions = {1, 2}
    MaxDepth = 3
    MaxThrows = 2
    Loggers = {l1}
    FirstYear = 1600
    LastYear = 2400
    DaySeconds = {0, 1, 43199, 86399}
    LogSeconds = {0, 1, 2}
    NoZone = NoZone
    SecondYears <- MCSecondYears
    ZoneFiles <- MCZoneFiles
    Ticks <- MCTicks
    LogFiles <- MCLogFiles
    Vertices = {v1, v2, v3, v4}
    MaxEdges = 4
    Addresses = {a1, a2, a3, a4, a5, a6}
    NullPointer = NullPointer
INVARIANT ZoneStartsStandard
\* A B-tree that freed a node it still uses, and a destroyed pool, stop.
CHECK_DEADLOCK FALSE
