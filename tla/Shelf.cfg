SPECIFICATION Spec
CONSTANTS
    Books = 3
    PageSize = 2
    MaxCommands = 4
    MaxEdits = 1
    MaxFaults = 1
INVARIANTS
    ShelfIsCurrent
    ReachesWhatWasAsked
PROPERTIES
    ChangesWhatWasSeen
CHECK_DEADLOCK FALSE
\* Not promised, and violated: INVARIANT FailureIsTold
