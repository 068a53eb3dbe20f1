SPECIFICATION BookPageSpec
CONSTANTS
    Books = 2
    MaxMoves = 4
    MaxChanges = 1
    MaxLocks = 1
    MaxReloads = 1
    Titles = 2
    Tags = 2
    Sources = 1
    MaxActs = 4
    MaxOthers = 3
    MaxFaults = 1
    Plans <- MCPlans
INVARIANTS
    PageIsPlace
PROPERTIES
    SavesFirst
    ActsOnWhatWasSeen
    DraftStays
    FileKept
CHECK_DEADLOCK FALSE
