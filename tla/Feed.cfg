SPECIFICATION Spec
CONSTANTS
    p = p
    q = q
    u = u
    Names = {p, q, u}
    Paths = {p, q}
    Reports = {"Connected"}
    Requests <- FeedRequests
    ValueCap = 2
    WriteCap = 1
    MaxSamples = 2
    MaxWrites = 0
    MaxInvalid = 1
INVARIANTS
    TypeOK
    SharedSetMirrorsGuard
    SenderLifetime
    Converged
    CleanStop
    FeedInvariant
PROPERTIES
    NoClientAfterShutdown
    RefinesValueFeed
