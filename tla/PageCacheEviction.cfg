SPECIFICATION Spec
CONSTANTS
    Count = 5
    Behind = 1
    Ahead = 2
    Capacity = 4
    Budget = 7
    Size <- MCSize
    MaxTurns = 2
    MaxFaults = 2
PROPERTIES
    ScreenKept
CHECK_DEADLOCK FALSE
