SPECIFICATION FairPoolSpec
CHECK_DEADLOCK FALSE
CONSTANTS
    still = still
    clip = clip
    other = other
    NoTransfer = NoTransfer
    Transfers = {clip, other}
    Kind <- MCKind
    Chunks <- MCChunks
    Frames <- MCFrames
    MaxDownload = 2
    Locking = TRUE
    MaxTransferIndex = 3
    MaxPerTick = 2
    SourceMayFail = FALSE
    Credit = 1
    EarlyTransfers = TRUE
    Errors = {"NotFound", "NotLocked"}
    MaxErrors = 1
    MaxTakeovers = 1
    MaxRevokes = 1
    MaxLosses = 1
INVARIANTS
    LostLockAbortsFile
PROPERTIES
    TransfersSettle
