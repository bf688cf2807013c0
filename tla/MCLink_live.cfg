SPECIFICATION FairLinkSpec
CHECK_DEADLOCK FALSE
CONSTANTS
    MaxPacketId = 8
    MaxPacketRetries = 1
    MaxPacketPerAck = 2
    Overlap = FALSE
    SlowParent = FALSE
    TrackingIds <- MCTrackingIds
    Sessions <- MCSessions
    Payloads <- MCPayloads
    MaxBatch = 1
    MaxSends = 1
    MaxSockets = 3
    MaxCalls = 3
    Window = 1
    Lifetime = 3
    LateHello = FALSE
    StaleHello = TRUE
    KeepAlives = {}
    MaxDevSends = 1
    MaxSessions = 3
    MaxCommands = 1
INVARIANTS
    NoOrphanSocket
    DisconnectionLasts
PROPERTIES
    LossIsReported
    PacketsSettle
    Reconnects
