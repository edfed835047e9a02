SPECIFICATION Spec
CONSTANTS
    Threads = {t1}
    Reconciler = reconciler
    Operators = {operator}
    Documents = {whitepaper}
    Digests = {old, new}
    Keys = {current, k1}
    SealKey = current
    PageSize = 2
    None = None
    MaxRows = 5
    MaxBoots = 2
    KeyOnHost = FALSE
    MaxSigned = 0
    MaxReads = 0
INVARIANTS
    RecordsSound
    AnchoredBeforeServing
CHECK_DEADLOCK FALSE
