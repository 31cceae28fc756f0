CONSTANTS
    ClientKeys = {"FIRE_SHOT", "REFUEL", "TURN_LEFT"}
    MaxChange = 2
    MaxTalk = 1
    MaxInFlight = 2
SPECIFICATION FairInputSpec
INVARIANTS
    ClientIsServed
PROPERTIES
    NewestKeysCount
    InputArrives
CHECK_DEADLOCK FALSE
