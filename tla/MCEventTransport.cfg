\* Two events, one topic critical, under fairness.
CONSTANTS
    messages = messages  files = files
    Publishers = {p1}
    Clients = {c1}
    Writer = writer
    Subscribers = {c1, writer}
    Topics = {messages, files}
    CriticalTopics = {messages}
    Capacity <- Capacity1
    Sources = {Jsonl}
    Keys = {}
    NoKey = NoKey
    DedupCapacity = 1
    MaxEvents = 2
    MaxRestarts = 0
    QueueCapacity = 1
    RecentCapacity = 1
SPECIFICATION FairTransportSpec
INVARIANTS LiveDelivery
PROPERTIES CriticalEventsArrive
CHECK_DEADLOCK FALSE
