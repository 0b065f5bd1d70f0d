SPECIFICATION Spec
CONSTANTS
    a = a
    b = b
    u = u
    one = one
    two = two
    Unread = Unread
    Gone = Gone
    Runs = {r1, r2}
    Members = {a, b}
    Foreign = {u}
    Workspaces <- MCWorkspaces
    Contents = {one, two}
    Trees <- MCTrees
    Broken = {two}
    Temps = {t1, t2}
    Parallel = 1
    MaxFiles = 2
    EvictTo = 1
    MaxEdits = 1
    MaxLost = 1
    EditsInRun = FALSE
SYMMETRY Symmetric
INVARIANTS
    TypeOK
    HitIsFresh
    HitIsClean
    CapHolds
