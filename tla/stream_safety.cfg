CONSTANTS
    Fps = 2
    MaxPacket = 3
    AckUnit = 2
    BufSize = 4
    FrameSizes = {0, 1, 2}
    WriteSizes = {1, 3}
    MaxStream = 5
    NetCap = 2
SPECIFICATION Spec
INVARIANTS
    StreamSafe
    HonestClientKept
PROPERTIES
    ImplementsChannel
CHECK_DEADLOCK FALSE
