\* Discovery: a Claude file and a Codex file whose name the watcher does not know.
\* Lifecycle: one session of either kind, one message typed in two writes and a
\* return, two chunks or lines of every sort, a file that is cut back once, and a channel of
\* one event, so that the detector can lag.
SPECIFICATION Spec
CONSTANTS
    Logs = {"c1", "x1"}
    FolderOf <- MCFolderOf
    LayoutOf <- MCLayoutOf
    NameOf <- MCNameOf
    MaxLines = 2
    MaxClock = 3
    Capacity = 1
    Messages = {m1}
    Writes <- MCWrites
    Kinds = {"endTurn", "other", "quiet", "malformed", "head"}
    MaxPrints = 2
INVARIANTS
    RowsAreTrue
    NothingIsCutShort
PROPERTIES
    SessionsGetListed
    SessionsSettle
CHECK_DEADLOCK FALSE
