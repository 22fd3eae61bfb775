\* Two publishers of two sources on two topics; one restart; keys recur.
CONSTANTS
    p1 = p1  p2 = p2  messages = messages  files = files
    Jsonl = Jsonl  Watcher = Watcher  k1 = k1  k2 = k2
    Publishers = {p1, p2}
    Subscribers = {client}
    Topics = {messages, files}
    Capacity <- Capacity1
    Sources = {Jsonl, Watcher}
    Keys = {k1, k2}
    NoKey = NoKey
    DedupCapacity = 1
    MaxEvents = 3
    MaxRestarts = 1
SPECIFICATION Spec
SYMMETRY BusSymmetry
INVARIANTS EventsAreOrdered SequencesAreComplete EchoesAreSuppressed
CHECK_DEADLOCK FALSE
