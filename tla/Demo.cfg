SPECIFICATION DemoSpec
CONSTANTS
    u = u
    Names <- DemoNames
    Paths <- DemoPathSet
    Reports = {"Connected"}
    Requests <- DemoRequests
    ValueCap = 1
    WriteCap = 2
    MaxSamples = 2
    MaxWrites = 3
    MaxInvalid = 1
    MaxInt = 3
    Watchables <- DemoWatchables
    InitialState <- DemoInitial
    Poll <- DemoPoll
    Overflows <- DemoOverflows
    WriteValue <- DemoWrite
    Json <- DemoJson
INVARIANTS
    WritesAccountedFor
    CompletionsFollowWrites
    OnlyWritesOverflow
