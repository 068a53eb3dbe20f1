\* What the App does not promise: each is violated. One at a time.
SPECIFICATION Spec
CONSTANTS
    Books = 2
    MaxMoves = 2
    MaxChanges = 2
    MaxLocks = 0
    MaxReloads = 1
INVARIANT BlockedReturns
\* PROPERTY DraftKept
CHECK_DEADLOCK FALSE
