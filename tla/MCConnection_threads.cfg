SPECIFICATION FairSpec
CHECK_DEADLOCK FALSE
CONSTRAINT FewEvents
CONSTANTS
    MaxThreads = 2
    MaxPackets = 2
    MaxLosses = 1
    MaxCrashes = 1
    MaxCalls = 3
    MaxEvents = 5
    Overlap = TRUE
    SlowParent = FALSE
    EarlySends = TRUE
INVARIANTS
    StatusIsCurrent
    ConnectedStateIsWhole
    PendingIsCarried
    DestroyLeavesNothing
    DisconnectionHolds
PROPERTIES
    KeepsPromises
    PromisesSettle
    GetsConnected
