SPECIFICATION ProgressSpec
CONSTANTS
    Device = {d1, d2}
    StopAt <- MCPages
    Score <- MCScores
    MaxEdits = 3
    MaxFailures = 1
    MaxOpens = 1
INVARIANTS
    ProgressTypeOK
    NoEditForgotten
    SavedMeansStored
PROPERTIES
    OthersSurvive
    CloseSendsWhenIdle
CHECK_DEADLOCK FALSE
SYMMETRY Symmetry
