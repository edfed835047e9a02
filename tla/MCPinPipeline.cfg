SPECIFICATION LivePinSpec
CONSTANTS
    m1 = m1
    m2 = m2
    old = old
    job = job
    oldJob = oldJob
    pinata = pinata
    local = local
    EventOf <- MCEventOf
    Mints = {m1, m2}
    OldIndex <- MCOldIndex
    Files = {old}
    Providers = {pinata, local}
    Configs = {{}, {pinata, local}}
    MaxCrashes = 1
INVARIANTS
    NothingForgotten
    PinnedIsHosted
PROPERTIES
    EventuallyPinned
CHECK_DEADLOCK FALSE
