CONSTANTS
    small = small
    large = large
    Workers = {w1, w2}
    Transfers = {small, large}
    Encode <- Encodes
    Size <- Sizes
    ChunkBlocks = 2
    FrameChunks = 2
    Frames = 2
    Damages <- FewDamages
    MaxNames = 2
    MaxSessions = 2
    NoStream = NoStream
    NoFile = NoFile
    NoStore = NoStore
    NoName = NoName
SPECIFICATION Spec
SYMMETRY Symmetry
CHECK_DEADLOCK FALSE
INVARIANTS
    SinkInv
    SavedOnce
    GoodputExact
PROPERTIES
    ImplementsReception
