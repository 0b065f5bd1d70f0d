SPECIFICATION Spec
CONSTANTS
    f = f
    g = g
    d = d
    r = r
    o = o
    main = main
    Absent = Absent
    NoFile = NoFile
    NoTree = NoTree
    Files <- ImportFiles
    Imports <- ImportNames
    Denied <- MCDenied
    RelativeTo <- MCRelativeTo
    BaseTree <- ImportTree
    Contents <- ImportContents
    Deletable <- OnlyNew
    Events <- AllEvents
    Procs = {main}
    MaxMuted = 1
    MaxCommits = 1
INVARIANTS
    TypeOK
    NoRepeat
    SuppressionEarned
    ComingBackIsReported
