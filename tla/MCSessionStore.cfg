\* Two sessions, pages of one message, one replayed event.
SPECIFICATION Spec
CONSTANTS
    Sessions = {A, B}
    Null = Null
    Claude = {A}
    Limit = 1
    Recent = 1
    MaxLogged = 3
    MaxSends = 2
    MaxSwitches = 3
    MaxRemade = 1
    MaxDrops = 1
    MaxOlder = 1
    MaxTogether = 5
CHECK_DEADLOCK FALSE

INVARIANTS EveryMessageOnce ShowsOneSession
