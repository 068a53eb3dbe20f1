SPECIFICATION FairSpec
CONSTANTS
    JobCount = 2
    NHJobs = {}
    Workers = {w1}
    Prices = {free}
    Free = free
    NoPrice = noprice
    MaxAttempts = 1
    AutoFree = {TRUE}
    Commands = {"create", "pause"}
    Errors = {"transient"}
    Faults = {}
PROPERTIES
    QueuedIsServedInTurn
CHECK_DEADLOCK FALSE
