SPECIFICATION Spec
CONSTANTS
    f1 = f1
    f2 = f2
    f3 = f3
    Files = {f1, f2}
    Demanded = {"python"}
    ToolPython = TRUE
    CargoManifest = FALSE
    Projects <- MCProjects
    NoProject = NoProject
    p1 = p1
    p2 = p2
    Csprojs = {p1, p2}
    Sources = {f1}
    EvalParallelism = 1
    Solutions <- MCSolutions
    NoSolution = NoSolution
    m1 = m1
    m2 = m2
    m3 = m3
    d1 = d1
    d2 = d2
    d3 = d3
    a1 = a1
    w1 = w1
    w2 = w2
    Mods = {m1, m2}
    Dirs = {d1, d2}
    Values = {"core", "generic"}
    Writers = {w1, w2}
    MaxEdits = 1
    Workspaces <- MCWorkspaces
    NoWorkspace = NoWorkspace
    NoConfig = NoConfig
    NodeNames <- MCNodes
    Digraphs <- MCDigraphs
    SourceFiles = {f1, f2, f3}
    Packages = {d1, d2, d3}
    Externals = {d3}
    ModuleNames <- MCModuleNames
    Exports = {"n1", "n2"}
    Patterns = {a1}
    MaxChanges = 2
    Codebases <- MCCodebases
    NoCode = NoCode
    Nobody = Nobody
    NoFile = NoFile
    Parts = {m1, m2, m3}
    Systems <- MCSystems
    Nowhere = Nowhere
    NoSystem = NoSystem
    NoFact = NoFact
    LabelPairs = {m1, m2}
    PairEdges <- MCPairEdges
    Grades = {"contract", "intrusive"}
    Enrichers = {w1, w2}
    MaxRevisions = 2
    Garbled = Garbled
    PolicyLangs = {"go", "ts"}
    LangOf <- MCLangOf
    Roughness <- MCRoughness
    ExplicitGates = {"go"}
    Measures <- MCMeasures
    Proposals <- MCProposals
    Variants <- MCVariants
    MaxRevised = 2
    Anything = Anything
    NotSet = NotSet
    NoProposal = NoProposal
    NotMeasured = NotMeasured
    Relations <- MCRelations
    Scans <- MCScans
    Policies <- MCPolicies
    MaxTurns = 3
    NoReference = NoReference
    Unmeasured = Unmeasured
    Repos <- MCRepos
    MaxSteps = 2
    NoRepo = NoRepo
    Nowhose = Nowhose
    Nameless = Nameless
    NoGlob = NoGlob
    NoSide = NoSide
    AnyCrate = AnyCrate
    NoCrate = NoCrate
    AnySegment = AnySegment
    CoveredFiles = {f1, f2, f3}
    SourceTrees <- MCSourceTrees
    ClassOf <- MCClassOf
    OwnerOf <- MCOwnerOf
    DeclaredModules = {m1, m2}
    UnitsOf <- MCUnitsOf
    Candidates <- MCCandidates
    Artifacts <- MCArtifacts
    Jobs <- MCJobs
    FactLimits = {1, 5}
    MaxJobs = 2
    MaxSourceEdits = 1
    MaxChecks = 2
    Outside = Outside
    Deleted = Deleted
    Unresolved = Unresolved
    NoArtifact = NoArtifact
    Ownerless = Ownerless
    Grounds <- MCGrounds
    SegmentsOf <- MCSegments
    LowerOf <- MCLower
    RankOf <- MCRank
    AtNames <- MCAt
    HistoryCap = 2
    MaxCommits = 3
    Wherever = Wherever
    AnyName = AnyName
    NoGround = NoGround
    CodeTrees <- MCCodeTrees
    Unmapped = Unmapped
    MaxTroubles = 2
    NoCodeTree = NoCodeTree
    NoRun = NoRun
    OwnHooks = {u1}
    Installers = {w1}
    HookConfigs = {"root"}
    MaxHookEdits = 2
    NoHooks = NoHooks
    Garbage = Garbage
    OddGroup = OddGroup
    NoHook = NoHook
    BranchNames = {"main", "master", "dev"}
    ConfigTexts = {"c1", "c2"}
    Declares <- MCDeclares
    BundleFiles = {"baseline", "labels"}
    BundleTexts = {"b1"}
    Clones <- MCClones
    Asked = {"", "dev"}
    Bases = {"auto", "dev"}
    MaxEvents = 2
    Missing = Missing
    NoCheck = NoCheck
    Crates = {"a", "b", "c", "d"}
    Indexed <- MCIndexed
    IndexScans = 2
    IndexEvents = 1
    NoIndex = NoIndex
    Assessments <- MCAssessments
    TextLimit = 4
    TightLimit = 2
    TightList = 1
    ByteBudget = 14
    AdvisoryCap = 2
    NoResult = NoResult
INVARIANTS
    ComponentsTypeOK
    MissingIsDisclosed
    LossIsTold
    UpdateIsSafe
    CyclesAreComponents
    CouplingIsExact
    ComparisonIsSafe
    RatchetsHold
    CoverageIsMeasured
    OperationsAreBacked
    ClaimsAreEarned
    HooksAreInstalled
    StrengthIsEarned
    ResultIsHonest
PROPERTIES
    ImplementsObservation
    AcquireEnds
    ValuesAreReviewed
    FindingsAreStable
    LabelsAreReviewed
    RulesAreAnswered
    GuardIsSound
CHECK_DEADLOCK FALSE
