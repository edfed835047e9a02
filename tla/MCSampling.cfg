\* One audit, one failed transfer or cut call, claims that never stop.
SPECIFICATION FairSpec
CONSTANTS
    ann = ann
    bea = bea
    cat = cat
    Actors = {ann, bea, cat}
    Honest = {ann, bea}
    Dealt <- Partners
    Transferred = {}
    Unanswered = {}
    Audits = {a1}
    Results = {good, bad}
    Right = good
    None = None
    Pool = Pool
    Reserve = Reserve
    Opening <- Balances
    Stake = 2
    Fee = 1
    Value = 3
    Quorum = 2
    AuditExpiry = 0
    ContestedExpiry = 1
    SpendAmounts = {2}
    OpenBy = 0
    MaxTime = 2
    MaxFaults = 1
INVARIANTS
    TypeOK
PROPERTIES
    VerdictsAreFinal
    AbsentStakeReturns
CHECK_DEADLOCK FALSE
