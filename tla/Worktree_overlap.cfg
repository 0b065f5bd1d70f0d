SPECIFICATION FairSpec
CONSTANTS
    c1 = c1
    c2 = c2
    None = None
    Gone = Gone
    Empty = Empty
    Partial = Partial
    Procs = {p1, p2}
    Commits <- MCCommits
    Refs = {base}
    InitRef <- MCInitRef
    MaxMoves = 1
    MaxRuns = 2
    GitKills = TRUE
INVARIANTS
    TypeOK
    LiveTreeIntact
    OnlyKilledGitBlocks
PROPERTIES
    ImplementsBaseTrees
    CheckoutEnds
CHECK_DEADLOCK FALSE
