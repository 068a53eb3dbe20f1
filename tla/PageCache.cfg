SPECIFICATION Spec
CONSTANTS
    Count = 4
    Behind = 1
    Ahead = 1
    Capacity = 3
    Budget = 7
    Size <- MCSize
    MaxTurns = 3
    MaxFaults = 2
INVARIANTS
    RequestsServed
    QuietMeansShown
PROPERTIES
    LoadsCarryOver
CHECK_DEADLOCK FALSE
