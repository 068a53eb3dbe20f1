SPECIFICATION PowerSpec
CONSTANTS
    JobCount = 1
    NHJobs = {}
    Workers = {w1}
    Prices = {free}
    Free = free
    NoPrice = noprice
    MaxAttempts = 0
    MaxLag = 4
    AutoFree = {FALSE}
    Commands = {"create", "search", "approve", "resume", "cancel"}
    Errors = {"transient", "fatal"}
    Faults = {"crash", "lapse"}
INVARIANT DurableBoundary
