CONSTANTS
    Workers = {w1, w2}
    Cameras = {c1, c2}
    MaxFrames = 3
    MaxReceivers = 2
    MaySpur = TRUE
SPECIFICATION FairSpec
CHECK_DEADLOCK FALSE
INVARIANTS
    PoolInv
PROPERTIES
    GeometryKept
    DrainGoesOn
    StopEnds
