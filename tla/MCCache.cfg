\* Cache: one session known at startup and one that appears; whole lines.
\* Locks: three tasks under way, of two requests and the two loops of the server.
CONSTANTS
    old = old  new = new
    Sessions = {old, new}
    Old = {old}
    OldLines = 1
    MaxWarm = 1
    MaxCached = 2
    MaxCacheable = 6
    Writes = {2}
    MaxPieces = 8
    q1 = q1  q2 = q2
    Requests = {q1, q2}
    MaxBusy = 3
SPECIFICATION CacheAndLocks
SYMMETRY RequestSymmetry
INVARIANTS CacheIsConsistent LinesArrive StuckOverPathsOnly
PROPERTIES EvictionMeetsBudget
CHECK_DEADLOCK FALSE
