CONSTANTS
    small = small
    large = large
    Workers = {w1}
    Transfers = {small}
    Encode <- Encodes
    Size <- Sizes
    ChunkBlocks = 2
    FrameChunks = 3
    Frames = 1
    Damages <- AllDamages
    MaxNames = 2
    MaxSessions = 2
    NoStream = NoStream
    NoFile = NoFile
    NoStore = NoStore
    NoName = NoName
SPECIFICATION Spec
CHECK_DEADLOCK FALSE
PROPERTIES
    GoodChunksDelivered
