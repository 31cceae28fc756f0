CONSTANTS
    p1 = p1
    p2 = p2
    t1 = t1
    t2 = t2
    x1 = x1
    x2 = x2
    Player <- MCPlayer
    Team <- MCTeam
    TeamSize <- MCTeamSize
    Treasure <- MCTreasure
    TreasureTeam <- MCTreasureTeam
    MaxObjects = 3
    frameDivisor = 2
    keepShots = FALSE
    Destroys = TRUE
    ShotsMax = 1
    MaxDebris = 0
    MaxMet = 1
    None = None
SYMMETRY Symm
SPECIFICATION Spec
INVARIANTS
    BallsSafe
    OneBallPerBox
PROPERTIES
    BallIsHeld
CHECK_DEADLOCK FALSE
