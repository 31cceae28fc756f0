CONSTANTS
    Fps = 1
    MaxPacket = 3
    AckUnit = 2
    BufSize = 4
    FrameSizes = {0, 1, 2}
    WriteSizes = {1, 3}
    MaxStream = 4
    NetCap = 1
SPECIFICATION FairSpec
PROPERTIES
    StreamIsLive
CHECK_DEADLOCK FALSE
