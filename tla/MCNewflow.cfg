SPECIFICATION CoreSpec
CONSTANTS
    worker = worker
    consumer = consumer
    validator = validator
    j1 = j1
    j2 = j2
    bad = bad
    good = good
    fake = fake
    render = render
    Accounts = {worker, consumer, validator}
    Validator = validator
    Faucet = validator
    Genesis <- MCGenesis
    Jobs = {j1, j2, bad}
    JobOf <- MCJobOf
    Proofs = {good, fake}
    ProofOf <- MCProofOf
    Workers = {worker}
    Transfers <- MCTransfers
    Challengers = {consumer, validator}
    Profiles <- MCProfiles
    TaskTier <- MCTaskTier
    FaucetAmount = 1
    FaucetMaxUsers = 1
    StakeMultiplier = 3
    MinStake = 1
    Window = 1
    ChallengeStake = 1
    MaxBlockJobs = 2
    MaxBuilt = 2
    MaxHeight = 2
    MaxNow = 2
    MaxSubmits = 2
    MaxChallenges = 2
    MaxNonce = 1
CONSTRAINT OneSide
INVARIANTS
    BooksHold
    OnlyVerifiedSettles
CHECK_DEADLOCK FALSE
