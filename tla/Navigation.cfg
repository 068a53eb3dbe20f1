SPECIFICATION Spec
CONSTANTS
    Books = 2
    MaxMoves = 4
    MaxChanges = 1
    MaxLocks = 1
    MaxReloads = 1
INVARIANTS
    PlaceIsOne
PROPERTIES
    SavesFirst
CHECK_DEADLOCK FALSE
