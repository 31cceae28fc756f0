CONSTANTS
    p1 = p1
    p2 = p2
    p3 = p3
    t0 = t0
    t1 = t1
    t2 = t2
    x1 = x1
    x2 = x2
    Player <- MCPlayer
    Team <- MCTeam
    PauseTeam = t0
    TeamSize <- MCTeamSize
    Treasure <- MCTreasure
    TreasureTeam <- MCTreasureTeam
    Lives = 0
    MaxPaused = 1
    RoundsToPlay = 1
    MaxDestroyed = 1
    MaxAway = 1
    MaxDestruct = 1
    None = None
SYMMETRY Symm
SPECIFICATION Spec
INVARIANT OnlyActiveAreReset
CHECK_DEADLOCK FALSE
