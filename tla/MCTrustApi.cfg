SPECIFICATION Spec
CONSTANTS
    Actors = {a1}
    ApiKeys = {k1}
    Requests = {r1, r2}
    None = None
    Mint = 2
    MaxConcurrent = 1
    MaxQueue = 1
    BatchMax = 2
    CacheMax = 2
    Ttl <- MCTtl
    Limit <- MCLimit
    Window <- MCWindow
    MaxTime = 1
    MaxEvents = 2
    MaxOrder = 3
    MaxCrashes = 1
    MaxTampers = 1
INVARIANTS
    ApiSound
    CachedIsCurrent
    ReconcileTrue
CHECK_DEADLOCK FALSE
