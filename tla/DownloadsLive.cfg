SPECIFICATION FairSpec
CONSTANTS
    JobCount = 1
    NHJobs = {}
    Workers = {w1, w2}
    Prices = {free}
    Free = free
    NoPrice = noprice
    MaxAttempts = 1
    AutoFree = {TRUE}
    Commands = {"create", "pause", "resume", "cancel"}
    Errors = {"transient", "limited"}
    Faults = {"crash", "stop"}
PROPERTIES
    PausesEnd
    QueuedIsServed
