SPECIFICATION Spec
CONSTANTS
    f = f
    g = g
    d = d
    r = r
    o = o
    main = main
    Absent = Absent
    NoFile = NoFile
    NoTree = NoTree
    Files <- SharedFiles
    Imports <- SharedNames
    Denied <- MCDenied
    RelativeTo <- MCRelativeTo
    BaseTree <- SharedTree
    Contents <- SharedContents
    Deletable <- Nothing
    Events <- StopEvents
    Procs = {main, agent}
    MaxMuted = 1
    MaxCommits = 0
INVARIANTS
    NothingHiddenUnseen
