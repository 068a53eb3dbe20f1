SPECIFICATION ProgressSpec
CONSTANTS
    Device = {d1}
    StopAt <- MCPages
    Score <- MCScores
    MaxEdits = 3
    MaxFailures = 2
    MaxOpens = 2
PROPERTIES
    SavingEnds
    GuardDecides
CHECK_DEADLOCK FALSE
\* Not promised, and violated: PROPERTY FlushBeforeCloseSends
