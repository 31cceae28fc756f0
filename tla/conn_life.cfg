CONSTANTS
    Fps = 2
    MaxPacket = 2
    AckUnit = 1
    BufSize = 3
    FrameSizes <- MCFrames
    WriteSizes <- MCSizes
    MaxStream = 10
    NetCap = 1
    VerifyLen = 1
    HeaderLen = 1
    MapLen = 4
    SetupWindow = 2
    ReplyLen = 1
    InfoLen = 0
    InfoSizes <- MCBigInfo
SPECIFICATION FairConnSpec
INVARIANTS
    ConnSafe
PROPERTIES
    StagesInOrder
    ReachesPlaying
CHECK_DEADLOCK FALSE
