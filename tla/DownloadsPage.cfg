SPECIFICATION Spec
CONSTANTS
    Jobs = 2
    Bad = bad
    Limit = 1
    Price = {1, 2}
    MaxWork = 2
    MaxCommands = 3
    MaxFaults = 1
INVARIANTS
    ListHolds
    PollGoesOn
PROPERTIES
    ActsAsSeen
CHECK_DEADLOCK FALSE
