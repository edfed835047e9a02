SPECIFICATION Spec
CONSTANTS
    Threads = {}
    Reconciler = reconciler
    Operators = {}
    Documents = {}
    Digests = {}
    Keys = {}
    SealKey = None
    PageSize = 2
    None = None
    MaxRows = 5
    MaxBoots = 1
    KeyOnHost = TRUE
    MaxSigned = 1
    MaxReads = 1
INVARIANTS
    ChainSound
    ReaderSound
PROPERTY ImplementsLog
CHECK_DEADLOCK FALSE
