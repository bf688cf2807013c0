SPECIFICATION PoolSpec
CHECK_DEADLOCK FALSE
CONSTANTS
    still = still
    clip = clip
    other = other
    NoTransfer = NoTransfer
    Transfers = {clip}
    Kind <- MCKind
    Chunks <- MCChunks
    Frames <- MCFrames
    MaxDownload = 2
    Locking = TRUE
    MaxTransferIndex = 3
    MaxPerTick = 2
    SourceMayFail = FALSE
    Credit = 1
    EarlyTransfers = FALSE
    Errors = {}
    MaxErrors = 0
    MaxTakeovers = 0
    MaxRevokes = 1
    MaxLosses = 1
INVARIANTS
    LostLockAborts
