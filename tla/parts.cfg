CONSTANTS
    NumIds = 3
    Wrap = 6
    Structs = {s1, s2, s3}
    MaxInGame = 3
    Banks = {1}
    MaxStored = 1
    None = None
    MaxObjects = 4
    Connections = {c1, c2}
    contactSocket = contactSocket
    NumSelectFd = 4
    MaxDivisor = 3
    Dummy = Dummy
    SizeW = 34
    SizeC = 15
    MaxStr = 4
    MaxPackets = 3
    MaxMessage = 2
    MaxName = 1
    MaxDebris = 4
    Cids = {1, 2}
    MAX_STATION_FUEL = 8
    Regeneration = 2
    FramesPerUpdate = 2
    REFUEL_RATE = 3
    MaxRefuels = 1
    MaxLoops = 6
    MaxAcks = 2
    MaxLines = 3
    DefaultValue = 0
    OPT_INIT = "init"
    OPT_COMMAND = "command"
    OPT_PASSWORD = "password"
    OPT_DEFAULTS = "defaults"
    OPT_MAP = "map"
SYMMETRY Symm
SPECIFICATION MCSpec
INVARIANTS
    TableSafe
    FramesReachAll
    PoolSafe
    SchedulerSafe
    BufferSafe
    LevelIsKnown
    StrongestWins
PROPERTIES
    IdsAreFifo
    ImplementsPool
CHECK_DEADLOCK FALSE
