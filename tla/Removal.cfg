SPECIFICATION FairRemoval
CONSTANTS
    ContentCount = 3
    BatchSize = 2
    MaxActs = 4
    MaxEdits = 2
    MaxFaults = 1
PROPERTIES
    OnlyAsConfirmed
    CollectionHolds
    DeletionEnds
CHECK_DEADLOCK FALSE
\* Not promised, and violated: PROPERTY RestoredAnyhow
