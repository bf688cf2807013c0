SPECIFICATION LinkSpec
CHECK_DEADLOCK FALSE
CONSTANTS
    MaxPacketId = 10
    MaxPacketRetries = 0
    MaxPacketPerAck = 2
    Overlap = FALSE
    SlowParent = FALSE
    TrackingIds <- MCTrackingIds
    Sessions <- MCSessions
    Payloads <- MCPayloads
    MaxBatch = 2
    MaxSends = 2
    MaxSockets = 2
    MaxCalls = 2
    Window = 2
    Lifetime = 4
    LateHello = FALSE
    StaleHello = TRUE
    KeepAlives = {2}
    MaxDevSends = 3
    MaxSessions = 2
    MaxCommands = 2
INVARIANTS
    DeliveredInOrder
    AcknowledgedWasExecuted
    AckIsHonest
    ExecutedInOrder
