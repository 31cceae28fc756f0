CONSTANTS
    None = None
    Draw = Draw
    NumBases <- MCNumBases
    Nodes = {n1, n2, n3}
    Datas = {d1, d2}
    Header = Header
    Objs <- MCObjs
    Worlds <- MCWorlds
    Null = Null
    MAX_TOTAL_OBJECTS = 27
    Range_ = 1
    WallX = 4
    WallY = 3
    Slopes = {"REC_LD", "REC_RU"}
    MaxWalls = 2
    W = 8
    H = 8
    R = 2
    Speed = 1
    Rows = {0, 1, 7}
    NoName = NoName
    MAX_NAME_LEN = 4
    MAX_HOST_LEN = 5
    Letters = {"a", "b"}
    MaxNick = 3
    NumNicks = 3
    TeamNumbers = {1, 2, 3}
    MaxDestroyed = 2
    MaxLeft = 1
    MaxPoints = 1
    MaxPlayers = 2
    MaxDelay = 2
    Players = {p1, p2}
    NoOne = NoOne
    Nicks = {m1, m2, m3}
    MAX_SCORES = 3
    MaxScore = 1
    MaxTime = 1
    Humans = {h1, h2, h3}
    MaxQueued = 1
    MaxPaused = 1
    mapWidth = 2
    mapHeight = 2
    MapChars = {"0", "1", "*", "$", "NL"}
    MaxText = 5
    MaxRun = 3
    MapSize <- MCMapSize
    View <- MCView
    Area = 2
    DebrisColors = 5
    Lives = {0, 6, 20}
SYMMETRY Symm
SPECIFICATION MCSpec
INVARIANTS
    NearIsMet
    
    NamesSafe
    BestWins
    MetaKnows
    
    OperatorsAreCounted
    SetupIsMap
    ShotsAreDrawn
PROPERTIES
    ImplementsList
CHECK_DEADLOCK FALSE
