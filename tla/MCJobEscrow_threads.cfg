\* The code as it stands: two jobs and two rows, the two offers a worker may be
\* asked to accept, and the sweep that reads its first pair before its transaction.
SPECIFICATION Spec
CONSTANTS
    alice = alice
    bob = bob
    Actors = {alice, bob}
    Jobs = {j1, j2}
    RowIds = {r1, r2}
    None = None
    Offers <- TwoOffers
    Opening <- Balances
    Registered = {alice}
    GrantCap = 3
    CreditAmounts = {}
    TransferAmounts = {}
    AbortMinAge = 1
    LockTTL = 1
    TermsTTL = 1
    PairCap = 5
    PairWindow = 4
    LockWait = 0
    QueueSize = 1
    ProposeBy = 0
    MaxTime = 3
    MaxIssued = 0
    MaxMined = 1
    MaxCrashes = 0
SYMMETRY IdSymmetry
INVARIANTS
    TypeOK
    OneOpenLock
    LockedOnConsent
CHECK_DEADLOCK FALSE
