SPECIFICATION CollectionSpec
CONSTANTS
    Books = 3
    ItemPage = 2
    Names = {n1, n2}
    MaxActs = 3
    MaxEdits = 2
    MaxLosses = 1
INVARIANTS
    ListIsSound
PROPERTIES
    EditsAsSeen
CHECK_DEADLOCK FALSE
