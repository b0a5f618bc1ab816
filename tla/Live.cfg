SPECIFICATION FairSpec
CONSTANTS
    p = p
    q = q
    u = u
    Names = {p, q, u}
    Paths = {p}
    Reports = {"Connected"}
    Requests <- LivenessRequests
    ValueCap = 1
    WriteCap = 1
    MaxSamples = 2
    MaxWrites = 1
    MaxInvalid = 1
PROPERTIES
    ShutdownStops
    AcquisitionFollows
    QueuedWritesApplied
