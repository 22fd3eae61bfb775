SPECIFICATION Spec
CONSTANTS
    r1 = r1
    r2 = r2
    s1 = s1
    s2 = s2
    o1 = o1
    Requests = {r1, r2}
    Sessions = {s1, s2}
    NoSession = NoSession
    Operators = {o1}
    Kinds = {"http"}
    Categories = {"Telemetry"}
    ModesInUse = {"manual", "lockdown"}
SYMMETRY GateSymmetry
INVARIANTS
    HeldIsReachable
    AtMostOnceUpstream
    HeldUntilReleased
    DeliveriesAreCaptured
PROPERTIES
    DecisionsAreFinal
    SwitchReleasesOwnSession
