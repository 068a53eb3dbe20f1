SPECIFICATION ProgressSpec
CONSTANTS
    Device = {d1, d2}
    StopAt <- MCPages
    Score <- MCScores
    MaxEdits = 2
    MaxFailures = 1
    MaxOpens = 1
PROPERTIES
    KeepsEdits
    SavingSettles
CHECK_DEADLOCK FALSE
