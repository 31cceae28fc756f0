CONSTANTS
    h1 = h1
    h2 = h2
    h3 = h3
    r1 = r1
    t0 = t0
    t1 = t1
    t2 = t2
    b1 = b1
    b2 = b2
    Human <- MCHuman
    Robot <- MCRobot
    Team <- MCTeam
    PauseTeam = t0
    Base <- MCBase
    BaseTeam <- MCBaseTeam
    RobotTeam = t2
    ReserveRobotTeam = TRUE
    RestrictRobots = TRUE
    MaxRobots = 1
    MaxPaused = 1
    Namings <- MCNamings
    HostOf <- MCHostOf
    MaxQueued = 2
    SelectLimit = 26
    None = None
SYMMETRY Symm
SPECIFICATION LoginSpec
INVARIANTS
    LoginSafe
    NamesDistinguish
CHECK_DEADLOCK FALSE
