SPECIFICATION FairSineSpec
CONSTANTS
    Names <- SinePaths
    Paths <- SinePaths
    Reports = {"Connected"}
    Requests <- SineRequests
    ValueCap = 1
    WriteCap = 1
    MaxSamples = 2
    MaxWrites = 1
    MaxInvalid = 1
    MaxInt = 3
    MaxU32 = 15
    Watchables <- SineWatchables
    InitialState <- SineInitial
    Poll <- SinePoll
    Overflows <- SineOverflows
    WriteValue <- SineWrite
    Json <- SineJson
INVARIANTS
    ValuesAreAsDeclared
    WritesAccountedFor
PROPERTIES
    WriteShows
    CtrlCStops
