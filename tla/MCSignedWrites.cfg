\* Three requests of one actor under three nonces, clients up to one second
\* off, every second write prunes, the shortest retention, one restart.
SPECIFICATION Spec
CONSTANTS
    Actors = {a1}
    Requests = {m1, m2, m3}
    Nonces = {n1,n2,n3}
    None = None
    Drifts <- ClientDrifts
    MaxAge = 1
    ClockSkew = 1
    Retention = 2
    PruneEvery = 2
    QueueSize = 1
    MaxTime = 3
    MaxCrashes = 1
SYMMETRY Symmetry
INVARIANTS
    ServedOnce
    EvidenceKept
    OnDiskCanSign
CHECK_DEADLOCK FALSE
