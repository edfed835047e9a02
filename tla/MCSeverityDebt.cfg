\* Two incidents and two repayments, an actor's checks one at a time.
SPECIFICATION SerialSpec
CONSTANTS
    Actors = {a, b}
    None = None
    Repays = {p1, p2}
    MaxReports = 2
    Values = {1}
    Amounts = {1, 2}
    Funds = 3
    DamageMult <- Damage
    Quarantine <- Hours
    DebtFrom = 3
    RecurrenceThreshold = 1
    RecurrenceWindow = 1
    MaxTime = 1
SYMMETRY Symmetry
INVARIANTS
    VictimsReceive
    MadeWhole
PROPERTY
    SanctionsOnlyGrow
CHECK_DEADLOCK FALSE
