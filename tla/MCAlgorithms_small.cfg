SPECIFICATION AlgorithmsSpec
CONSTANTS
    MaxPacketSize = 32
    Classes <- MCClasses
    Versions = {22, 28, 30}
    MaxCommands = 4
    Blocks = {0, 1}
    RLE_HEADER = 254
    MaxPixels = 11
    ChunkSizes = {24, 36, 40}
    PortType <- MCPort
INVARIANTS
    SentInOrder
    ReadAsSent
    UploadIsWhole
    TallyIsComplete
CHECK_DEADLOCK FALSE
