\* Two audits that share the pool, one failed transfer or cut call.
SPECIFICATION Spec
CONSTANTS
    ann = ann
    bea = bea
    cat = cat
    Actors = {ann, bea, cat}
    Honest = {ann, bea}
    Dealt = {}
    Transferred = {}
    Unanswered <- Unknown
    Audits = {a1, a2}
    Results = {good, bad}
    Right = good
    None = None
    Pool = Pool
    Reserve = Reserve
    Opening <- Balances
    Stake = 2
    Fee = 1
    Value = 3
    Quorum = 2
    AuditExpiry = 0
    ContestedExpiry = 1
    SpendAmounts = {}
    OpenBy = 0
    MaxTime = 2
    MaxFaults = 1
SYMMETRY AuditSymmetry
INVARIANTS
    InnocentUnharmed
    VerdictsAreBacked
    PoolIsExact
CHECK_DEADLOCK FALSE
