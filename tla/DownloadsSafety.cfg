SPECIFICATION Spec
CONSTANTS
    JobCount = 1
    NHJobs = {1}
    Workers = {w1, w2}
    Prices = {free, p5}
    Free = free
    NoPrice = noprice
    MaxAttempts = 1
    AutoFree = {TRUE, FALSE}
    Commands = {"create", "search", "pause", "skip", "choose", "approve", "resume", "cancel"}
    Errors = {"transient", "limited", "login", "key", "gp", "too_large", "fatal"}
    Faults = {"crash", "stop", "lapse"}
SYMMETRY Symmetry
INVARIANTS
    TypeOK
    Ownership
    Serviceable
    PaidAsAgreed
    Archives
PROPERTIES
    EndsAsTold
    KeepsPurchase
