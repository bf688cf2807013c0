SPECIFICATION LinkSpec
CHECK_DEADLOCK FALSE
CONSTANTS
    MaxPacketId = 6
    MaxPacketRetries = 0
    MaxPacketPerAck = 2
    Overlap = FALSE
    SlowParent = FALSE
    TrackingIds <- MCTrackingIds
    Sessions <- MCSessions
    Payloads <- MCPayloads
    MaxBatch = 2
    MaxSends = 7
    MaxSockets = 1
    MaxCalls = 1
    Window = 2
    Lifetime = 2
    LateHello = FALSE
    StaleHello = FALSE
    KeepAlives = {2}
    MaxDevSends = 7
    MaxSessions = 1
    MaxCommands = 7
INVARIANTS
    InFlightIsContiguous
    AcknowledgedWasExecuted
