CONSTANTS
    Workers = {w1, w2}
    Cameras = {c1}
    MaxFrames = 1
    MaxReceivers = 1
    MaySpur = FALSE
SPECIFICATION FairSpec
CHECK_DEADLOCK FALSE
PROPERTIES
    FrameScanned
