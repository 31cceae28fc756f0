CONSTANTS
    h1 = h1
    h2 = h2
    h3 = h3
    h4 = h4
    r1 = r1
    t0 = t0
    t1 = t1
    t2 = t2
    b0 = b0
    b1 = b1
    b2 = b2
    b3 = b3
    Human <- MCHuman
    Robot <- MCRobot
    Team <- MCTeam
    PauseTeam = t0
    Base <- MCBase
    BaseTeam <- MCBaseTeam
    RobotTeam = t2
    ReserveRobotTeam = FALSE
    RestrictRobots = TRUE
    MaxRobots = 1
    MaxPaused = 2
    None = None
SYMMETRY Symm
SPECIFICATION RosterSpec

    
PROPERTIES
    ChangingTeamsIsSafe
CHECK_DEADLOCK FALSE
