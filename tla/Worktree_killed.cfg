SPECIFICATION Spec
CONSTANTS
    c1 = c1
    c2 = c2
    None = None
    Gone = Gone
    Empty = Empty
    Partial = Partial
    Procs = {p1, p2}
    Commits <- OneCommit
    Refs = {base}
    InitRef <- MCInitRef
    MaxMoves = 0
    MaxRuns = 2
    GitKills = TRUE
INVARIANTS
    LeftoverIsReusable
CHECK_DEADLOCK FALSE
