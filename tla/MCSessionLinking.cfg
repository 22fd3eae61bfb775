\* Two directories with a plan each, a Claude file that is there from the start (and,
\* once deleted, may come back as a new one) and a Codex file that appears later.
SPECIFICATION LinkingSpec
CONSTANTS
    f_claude = f_claude  f_codex = f_codex
    d1 = d1  d2 = d2  p1 = p1  p2 = p2
    Dirs = {d1, d2}
    Files = {f_claude, f_codex}
    Managed = {m1}
    Clis = {"claude", "codex", "gemini"}
    NoDir = NoDir  None = None
    Requests <- MCRequests
    DirOf <- MCDirOf
    CliOf <- MCCliOf
    PlanOf <- MCPlanOf
    Old = {f_claude}
    MaxEvents = 1
    MaxDeletes = 1
    MaxRestarts = 1
INVARIANTS NothingForeign
CHECK_DEADLOCK FALSE
PROPERTIES EveryFileIsListed
