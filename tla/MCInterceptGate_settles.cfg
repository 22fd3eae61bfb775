SPECIFICATION FairSpec
CONSTANTS
    r1 = r1
    s1 = s1
    o1 = o1
    o2 = o2
    Requests = {r1}
    Sessions = {s1}
    NoSession = NoSession
    Operators = {o1, o2}
    Kinds = {"http", "websocket"}
    Categories = {"Api", "Telemetry"}
    ModesInUse = {"auto", "manual", "custom", "pure", "lockdown"}
PROPERTIES
    EveryRequestSettles
    ImplementsSupervisedRequest
