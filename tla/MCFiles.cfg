SPECIFICATION Spec
CONSTANTS
    CLIs = {"claude", "codex", "gemini"}
    Kinds <- EntryKinds
    MaxEntries = 3
    MaxRestarts = 1
    None = None
    Files = {"code", "log", "ignored"}
    Unwatched = {"log"}
    Unlisted = {"ignored"}
    Sizes = {"empty", "small", "large"}
    MaxChanges = 3
    MaxWire = 1
    MaxGets = 1
INVARIANTS
    PushedOnceInOrder
    AgentsLookAlike
    LastChangeArrives
    DirtyMarkIsTrue
PROPERTIES
    TreeSettles
CHECK_DEADLOCK FALSE
