SPECIFICATION PartsSpec
CONSTANTS
    c1 = c1  c2 = c2
    q1 = q1  q2 = q2
    e1 = e1  e2 = e2
    p1 = p1  p2 = p2  p3 = p3
    r1 = r1  r2 = r2
    Calls <- MCCalls
    MaxCrashes = 1
    MaxKeys = 2
    Requests <- MCRequests
    Editors <- MCEditors
    MaxTurns = 3
    MaxChanges = 3
    Posts <- MCPosts
    Bodies <- MCBodies
    Proxied = {m1}
    Former = {f1}
    Viewed = {j1}
    Images = {i1}
    Configs <- MCConfigs
    Rtts = {49, 50, 150, 151}
    WindowSize = 4
    HysteresisCount = 3
    LastYear = 2100
INVARIANTS
    SettledConfigIsSaved
    RotationIsEven
    EditsSurvive
    ImagesArriveOnce
    PromptIsAsConfigured
    AgreementDecides
    CalendarsAgree
CHECK_DEADLOCK FALSE
