\* Every read inside its transaction: one job, two rows, escrow credited and
\* transferred around them, one restart, under fairness.
SPECIFICATION FairSerialSpec
CONSTANTS
    alice = alice
    bob = bob
    Actors = {alice, bob}
    Jobs = {j1}
    RowIds = {r1, r2}
    None = None
    Offers <- OneOffer
    Opening <- Balances
    Registered = {alice}
    GrantCap = 3
    CreditAmounts = {3}
    TransferAmounts = {12}
    AbortMinAge = 1
    LockTTL = 0
    TermsTTL = 2
    PairCap = 1
    PairWindow = 1
    LockWait = 1
    QueueSize = 1
    ProposeBy = 0
    MaxTime = 3
    MaxIssued = 3
    MaxMined = 1
    MaxCrashes = 1
INVARIANTS
    LedgerIsExact
    EcuConserved
    PairCapHolds
    SlashesAccounted
    FeeOnlyForMinedWork
PROPERTIES
    ClosedIsFinal
    ImplementsContract
    LocksEnd
    ComesBack
CHECK_DEADLOCK FALSE
