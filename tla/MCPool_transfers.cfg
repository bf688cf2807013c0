SPECIFICATION PoolSpec
CHECK_DEADLOCK FALSE
CONSTANTS
    still = still
    clip = clip
    other = other
    NoTransfer = NoTransfer
    Transfers = {still, clip, other}
    Kind <- MCKind
    Chunks <- MCChunks
    Frames <- MCFrames
    MaxDownload = 2
    Locking = TRUE
    MaxTransferIndex = 3
    MaxPerTick = 2
    SourceMayFail = TRUE
    Credit = 1
    EarlyTransfers = FALSE
    Errors = {}
    MaxErrors = 0
    MaxTakeovers = 0
    MaxRevokes = 0
    MaxLosses = 1
INVARIANTS
    RequestsHoldLock
    LockIsReturned
    DataIsWhole
    ResolvedIsDone
    NothingLeftRunning
