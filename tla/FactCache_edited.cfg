SPECIFICATION Spec
CONSTANTS
    a = a
    b = b
    u = u
    one = one
    two = two
    Unread = Unread
    Gone = Gone
    Runs = {r1}
    Members = {a, b}
    Foreign = {u}
    Workspaces <- MCWorkspaces
    Contents = {one, two}
    Trees <- MCTrees
    Broken = {two}
    Temps = {t1}
    Parallel = 1
    MaxFiles = 2
    EvictTo = 1
    MaxEdits = 2
    MaxLost = 0
    EditsInRun = TRUE
INVARIANTS
    HitIsFresh
