SPECIFICATION FairSpec
CONSTANTS
    r1 = r1
    s1 = s1
    o1 = o1
    Requests = {r1}
    Sessions = {s1}
    NoSession = NoSession
    Operators = {o1}
    Kinds = {"http"}
    Categories = {"Telemetry"}
    ModesInUse = {"manual", "lockdown"}
PROPERTIES
    AutoReleasesResponses
