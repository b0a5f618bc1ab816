SPECIFICATION Spec
CONSTANTS
    p = p
    q = q
    u = u
    Names = {p, q, u}
    Paths = {p}
    Reports = {"Connected"}
    Requests <- FeedRequests
    ValueCap = 1
    WriteCap = 1
    MaxSamples = 1
    MaxWrites = 0
    MaxInvalid = 1
PROPERTIES
    ServesUntilShutdown
