SPECIFICATION LinkSpec
CHECK_DEADLOCK FALSE
CONSTANTS
    MaxPacketId = 8
    MaxPacketRetries = 0
    MaxPacketPerAck = 2
    Overlap = FALSE
    SlowParent = FALSE
    TrackingIds <- MCTrackingIds
    Sessions <- MCSessions
    Payloads <- MCPayloads
    MaxBatch = 1
    MaxSends = 0
    MaxSockets = 1
    MaxCalls = 1
    Window = 2
    Lifetime = 3
    LateHello = TRUE
    StaleHello = TRUE
    KeepAlives = {}
    MaxDevSends = 2
    MaxSessions = 1
    MaxCommands = 0
INVARIANTS
    DeliveredInOrder
