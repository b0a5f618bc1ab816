SPECIFICATION ReadingSpec
CONSTANTS
    p = p
    q = q
    u = u
    Names = {p, q, u}
    Paths = {p}
    Reports = {"Connected", "Disconnected"}
    Requests <- ReaderRequests
    ValueCap = 1
    WriteCap = 1
    MaxSamples = 2
    MaxWrites = 0
    MaxInvalid = 1
PROPERTIES
    SamplesReachReader
    StatusReachesReader
