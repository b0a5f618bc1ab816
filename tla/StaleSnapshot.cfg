SPECIFICATION SineSpec
CONSTANTS
    Names <- SinePaths
    Paths <- SinePaths
    Reports = {"Connected"}
    Requests <- SnapshotRequests
    ValueCap = 1
    WriteCap = 1
    MaxSamples = 2
    MaxWrites = 1
    MaxInvalid = 1
    MaxInt = 3
    MaxU32 = 15
    Watchables <- SineWatchables
    InitialState <- SineInitial
    Poll <- SinePoll
    Overflows <- SineOverflows
    WriteValue <- SineWrite
    Json <- SnapshotJson
PROPERTIES
    SnapshotIsCurrent
