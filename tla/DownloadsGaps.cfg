\* What the queue does not promise: each is violated. One at a time.
SPECIFICATION Spec
CONSTANTS
    JobCount = 1
    NHJobs = {}
    Workers = {w1, w2}
    Prices = {free, p5}
    Free = free
    NoPrice = noprice
    MaxAttempts = 1
    AutoFree = {TRUE, FALSE}
    Commands = {"create", "search", "pause", "skip", "choose", "approve", "resume", "cancel"}
    Errors = {"transient", "limited", "login", "key", "gp", "too_large", "fatal"}
    Faults = {"crash", "stop", "lapse"}
SYMMETRY Symmetry
PROPERTY TerminalIsFinal
\* PROPERTY LinkedArchiveIsOnlyRemoved
\* INVARIANT CommittedImportWins
\* INVARIANT ImportIsInspected
\* INVARIANT CancellingIsOwned
\* PROPERTY NHNeverInAttention    with NHJobs = {1}
