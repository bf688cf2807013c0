SPECIFICATION Spec
CHECK_DEADLOCK FALSE
CONSTANTS
    MaxPacketId = 4
    MaxPacketRetries = 0
    MaxPacketPerAck = 3
    Overlap = TRUE
    SlowParent = TRUE
    TrackingIds = {1}
    Sessions = {0}
    Payloads = {0}
    MaxBatch = 1
    MaxSends = 1
    MaxSockets = 2
    MaxCalls = 2
INVARIANTS
    TypeOK
    AckTimerHasSocket
    InFlightIsWatched
    ConnectionIsWatched
    AckIsOwed
PROPERTIES
    KeepsContract
