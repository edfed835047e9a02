SPECIFICATION Spec
CONSTANTS
    old = old
    peer = peer
    new = new
    poor = poor
    rich = rich
    unknown = unknown
    j1 = j1
    j2 = j2
    Workers = {old, peer, new}
    Veterans = {old, peer}
    Country <- MCCountry
    ContextOf <- MCContext
    DefaultCountry = poor
    UnknownCountry = unknown
    Jobs = {j1, j2}
    MinTrust = 100
    Worth <- MCWorth
    MinWitnesses = 3
    MinSacrifice = 1
    None = None
    TMax = 0
    Expiry = 1
    Window = 1
    HalfLife = 1
    DampingCap = 10
    MintCap = 40
    MinActors = 1
    MaxNow = 2
    MaxBoots = 1
    MaxTries = 2
    MaxCalls = 3
    Sampled = {j1, j2}
    Drawn <- MCDrawn
    EpochLength = 1
    MaxFaults = 1
CONSTRAINT OneSide
INVARIANTS
    GateHolds
    MintsCounted
    SelectionProvable
CHECK_DEADLOCK FALSE
