------------------------------- MODULE RuleScopes -------------------------------
(***************************************************************************)
(* What a check may claim about a rule: which source files the rule's        *)
(* selectors reach, which languages those need a producer for, and whether    *)
(* the producers that ran saw enough for silence to mean conformance.  The    *)
(* tree, its projects and the health of the producers change between checks.  *)
(*                                                                         *)
(* A glob is the files and the nodes it matches, with the facts of its        *)
(* spelling the code reads.  A Go node is a package, a TypeScript or C# node  *)
(* a file, a Python node a module, a Rust node a crate or a module of one.    *)
(***************************************************************************)
EXTENDS Integers, FiniteSets, Sequences

CONSTANTS
    Repos,       \* the trees, configs and true dependencies to consider
    MaxSteps,    \* bound: the changes of a behaviour
    NoRepo,
    Nowhose,     \* no module
    Nameless,    \* no node
    NoGlob, NoSide, AnyCrate, NoCrate, AnySegment

SourceLangs == {"go", "typescript", "python", "rust", "dotnet"}

\* The languages whose edges start at the importing file.
fileSourceLanguages == {"go", "typescript"}

\* What runs: the extractors, the pass over Rust modules, and the two over syntax.
Producers == SourceLangs \cup {"modules", "syntax", "patterns"}

ASSUME ScopesAssumption == NoRepo \notin Repos /\ MaxSteps \in Nat

VARIABLES
    repo,     \* the tree, the config and the truth that govern
    present,  \* the files there are
    new,      \* of those, the files the change adds
    health,   \* how each producer ran
    projects, \* the languages an extractor finds a project of
    gapped,   \* C# files of a project that did not load whole
    steps

scopeVars == <<repo, present, new, health, projects, gapped, steps>>

-----------------------------------------------------------------------------
(* Coverage rows, and what the acquisition tells of the files *)

\* A language switched off is out of the declared scope.
outOfDeclaredScope(f) == repo.lang[f] \in repo.off \/ f \in repo.excluded

primaryAbsentFromTree(l) == l \notin projects

rowStatus(l) ==
    IF l \in repo.off THEN "disabled" ELSE IF primaryAbsentFromTree(l) THEN "absent" ELSE health[l]

walked == {f \in present : f \in repo.walked}

\* The extractor's graph names the crates as soon as it has any.
crateRoots(view) == view = "check" /\ rowStatus("rust") \in {"ok", "partial"}

\* The node a file projects to.
sourceSelectorsOf(view, f) ==
    IF repo.lang[f] = "rust" /\ ~(crateRoots(view) /\ f \in repo.member) THEN Nameless ELSE repo.node[f]

\* The modules of a Python tree a completed scan read; two files of one name are neither.
pythonScannedModules ==
    {repo.node[f] : f \in {g \in present : g \in repo.member /\ ~outOfDeclaredScope(g)}} \
    {repo.node[f] : f \in {g \in walked : \E h \in walked \ {g} :
       repo.node[g] = repo.node[h] /\ {repo.lang[g], repo.lang[h]} = {"python"} /\ ~outOfDeclaredScope(g)}}

\* In-scope files no dependency producer reads.
unanalysedFiles(view) ==
    {f \in walked :
      /\ ~outOfDeclaredScope(f) /\ repo.lang[f] \in SourceLangs
      /\ \/ primaryAbsentFromTree(repo.lang[f])
         \/ repo.lang[f] = "rust" /\ crateRoots(view) /\ f \notin repo.member
         \/ repo.lang[f] = "go" /\ f \notin repo.member
         \/ repo.lang[f] = "python" /\ view = "check" /\ rowStatus("python") = "ok"
              /\ repo.node[f] \notin pythonScannedModules}

loadedCrates(view) ==
    IF crateRoots(view) THEN {repo.node[f] : f \in {g \in present \cap repo.member : repo.lang[g] = "rust"}} ELSE {}
rustModuleNodes(view) ==
    IF health["modules"] = "ok" THEN UNION {repo.inside[k] : k \in loadedCrates(view) \cap DOMAIN repo.inside} ELSE {}

\* C# evidence is told file by file once its extractor ran.
ScopedDependencyEvidence(l) == l = "dotnet" /\ rowStatus("dotnet") \in {"ok", "partial"}

-----------------------------------------------------------------------------
(* The source inventory of a check, and of a lint, which runs no producer *)

newSelectorInventory(view) ==
    LET F == {f \in walked : ~outOfDeclaredScope(f)}
        Sel == [f \in F |-> sourceSelectorsOf(view, f)]
        unread == unanalysedFiles(view)
        crates == loadedCrates(view)
        covered == IF health["modules"] = "ok" THEN crates ELSE {}
    IN  [files |-> F, selector |-> Sel, unanalysed |-> unread, view |-> view,
         pythonComplete |-> view = "check" /\ rowStatus("python") = "ok",
         rustModules |-> rustModuleNodes(view), rustModuleCrates |-> covered, crates |-> crates,
         roots |-> {repo.segment[f] : f \in F} \cup {Sel[f] : f \in {g \in F : repo.lang[g] = "rust"}} \cup crates,
         unresolved |-> {repo.lang[f] : f \in {g \in F : Sel[g] = Nameless /\ repo.lang[g] \in SourceLangs
                                                          /\ g \notin unread}}]

analysedFiles(inv) == inv.files \ inv.unanalysed

\* A file the walk skips has the node of its path; a Rust path alone names no crate.
selectorOf(inv, f) ==
    IF f \in inv.files THEN inv.selector[f] ELSE IF repo.lang[f] = "rust" THEN Nameless ELSE repo.node[f]

\* Who owns a file: by its path, else by its node.
ownsNode(m, n) == \E g \in repo.modules[m].globs : n \in g.nodes
fileOwner(inv, f) ==
    LET byPath == {m \in DOMAIN repo.modules : \E g \in repo.modules[m].globs : f \in g.files}
        byNode == {m \in DOMAIN repo.modules : ownsNode(m, selectorOf(inv, f))}
    IN  IF byPath # {} THEN CHOOSE m \in byPath : TRUE
        ELSE IF byNode # {} THEN CHOOSE m \in byNode : TRUE ELSE Nowhose

\* What a rule compares a side with, for one file.
rulePatternMatches(inv, g, f) == f \in g.files \/ inv.selector[f] \in g.nodes
fileMatches(inv, type, side, g, f) ==
    IF repo.lang[f] \notin SourceLangs \/ type = "forbidden_pattern" THEN rulePatternMatches(inv, g, f)
    ELSE IF side = "from" /\ repo.lang[f] \in fileSourceLanguages THEN f \in g.files
    ELSE inv.selector[f] \in g.nodes

matchesRustModule(inv, g) == inv.rustModules \cap g.nodes # {}

selectorMatches(inv, type, side, g) ==
    \/ \E f \in inv.files :
         /\ type = "forbidden_pattern" \/ f \notin inv.unanalysed
         /\ fileMatches(inv, type, side, g, f)
    \/ type # "forbidden_pattern" /\ matchesRustModule(inv, g)

\* The inventory cannot prove that the glob matches nothing.
undecidable(inv, g) ==
    \/ g.form = "unsupported"
    \/ /\ g.crate \notin {NoCrate} \cup inv.rustModuleCrates
       /\ g.crate \in inv.crates \cup {AnyCrate}
    \/ /\ g.crate \notin inv.rustModuleCrates /\ g.form # "file"
       /\ g.langs \cap inv.unresolved # {}

firstPartyShaped(inv, g) == g.segment = AnySegment \/ g.segment \in inv.roots

vacuous(inv, type, side, g) ==
    \/ g.form \in {"misspelt", "kinded"}
    \/ /\ ~selectorMatches(inv, type, side, g) /\ ~undecidable(inv, g)
       /\ side = "from" \/ (firstPartyShaped(inv, g) /\ g.form # "stdlib")

\* Whether the glob of Rust modules matches one, where that can be said.
rustModuleDecided(inv, g) ==
    /\ g.crate # AnyCrate
    /\ \/ g.crate \in inv.rustModuleCrates
       \/ g.crate \notin inv.crates /\ "rust" \notin inv.unresolved

modulePathsState(inv, m) ==
    LET globs == repo.modules[m].globs
        ofRust == {g \in globs : g.crate # NoCrate}
    IN  IF \E g \in ofRust : rustModuleDecided(inv, g) /\ matchesRustModule(inv, g) THEN "live"
        ELSE IF \/ globs = {} \/ \E g \in ofRust : ~rustModuleDecided(inv, g)
                \/ \E g \in globs \ ofRust : g.form # "file" THEN "undecided" ELSE "empty"

\* The source the modules of a selector own.
moduleSideState(inv, mods) ==
    LET owned == {f \in inv.files : fileOwner(inv, f) \in mods}
        rest == mods \ {fileOwner(inv, f) : f \in owned}
        of == {modulePathsState(inv, m) : m \in rest}
    IN  IF owned \ inv.unanalysed # {} \/ "live" \in of THEN "live"
        ELSE IF "undecided" \in of THEN "undecided" ELSE IF owned # {} THEN "unanalysed" ELSE "empty"

selectorRuleTypes == {"forbidden_dependency", "forbidden_pattern"}

\* The sides of a rule that match nothing, in the order they are looked at.
vacuousSelector(inv, r) ==
    LET Vacant(s) ==
          CASE s = "from" -> r.from # NoGlob /\ vacuous(inv, r.type, s, r.from)
            [] s = "to" -> r.to # NoGlob /\ vacuous(inv, r.type, s, r.to)
            [] s = "from_module" -> r.fromModule # NoSide /\ moduleSideState(inv, r.fromModule) \in {"empty", "unanalysed"}
            [] s = "to_module" -> r.toModule # NoSide /\ moduleSideState(inv, r.toModule) \in {"empty", "unanalysed"}
    IN  IF r.type \notin selectorRuleTypes THEN <<>>
        ELSE SelectSeq(<<"from", "to", "from_module", "to_module">>, Vacant)

matchesOnlyUnanalysed(inv, r, side) ==
    /\ r.type # "forbidden_pattern"
    /\ CASE side = "from_module" -> moduleSideState(inv, r.fromModule) = "unanalysed"
         [] side = "to_module" -> moduleSideState(inv, r.toModule) = "unanalysed"
         [] OTHER -> \E f \in inv.unanalysed :
              fileMatches(inv, r.type, side, IF side = "from" THEN r.from ELSE r.to, f)

nodeKinded(r, side) == side \in {"from", "to"} /\ (IF side = "from" THEN r.from ELSE r.to).form = "kinded"

-----------------------------------------------------------------------------
(* The languages a rule needs *)

Unknown == [status |-> "unknown", langs |-> {}]
NotApplicableScope == [status |-> "not_applicable", langs |-> {}]
ApplicableTo(L) == [status |-> "applicable", langs |-> L]

restrictRuleScopeLanguages(s, L) ==
    IF s.status # "applicable" THEN s
    ELSE IF s.langs \cap L = {} THEN NotApplicableScope ELSE ApplicableTo(s.langs \cap L)
restrictToTargetVocabulary(s, L) == IF L = {} THEN s ELSE restrictRuleScopeLanguages(s, L)

SelectorLanguages(g) == IF g = NoGlob THEN SourceLangs ELSE g.langs

allSourceScope(F) ==
    IF F = {} \/ \E f \in F : repo.lang[f] \notin SourceLangs THEN Unknown
    ELSE ApplicableTo({repo.lang[f] : f \in F})

\* The files a glob reaches by path or by node; a file of another type it reaches is not understood.
patternRuleScope(inv, g, F, rustToo) ==
    LET reached == {f \in F : repo.lang[f] \in SourceLangs /\ rulePatternMatches(inv, g, f)}
        langs == {repo.lang[f] : f \in reached} \cup IF rustToo /\ matchesRustModule(inv, g) THEN {"rust"} ELSE {}
    IN  IF g = NoGlob THEN allSourceScope(F)
        ELSE IF (\E f \in F : repo.lang[f] \notin SourceLangs /\ f \in g.files) \/ langs = {} THEN Unknown
        ELSE ApplicableTo(langs)

\* The languages of the source the modules own; a module without source must say why.
moduleRuleScope(inv, mods) ==
    LET outside == {f \in walked : outOfDeclaredScope(f)}
        owned == {f \in inv.files : fileOwner(inv, f) \in mods}
        withFiles == {fileOwner(inv, f) : f \in owned \cup outside}
        bare == UNION {repo.modules[m].globs : m \in mods \ withFiles}
        ofRust == {g \in bare : g.crate # NoCrate}
        langs == {repo.lang[f] : f \in owned \ inv.unanalysed}
                   \cup IF \E g \in ofRust : matchesRustModule(inv, g) THEN {"rust"} ELSE {}
    IN  IF mods = {} THEN NotApplicableScope
        ELSE IF \/ inv.pythonComplete /\ \E f \in owned \cap inv.unanalysed : repo.lang[f] = "python"
                \/ \E f \in owned \ inv.unanalysed : repo.lang[f] \notin SourceLangs
                \/ \E m \in mods \ withFiles : repo.modules[m].globs = {}
                \/ \E g \in ofRust : ~rustModuleDecided(inv, g)
                \/ \E g \in bare \ ofRust : g.form # "file" THEN Unknown
        ELSE IF langs = {} THEN NotApplicableScope ELSE ApplicableTo(langs)

knownSourceVocabulary(inv, g) ==
    \E f \in analysedFiles(inv) : inv.selector[f] # Nameless /\ rulePatternMatches(inv, g, f)
unsupportedTarget(inv, g) == g # NoGlob /\ g.form = "unsupported" /\ ~knownSourceVocabulary(inv, g)

moduleSelectorScope(inv, r) ==
    LET scope == IF r.fromModule = NoSide THEN patternRuleScope(inv, r.from, analysedFiles(inv), TRUE)
                 ELSE moduleRuleScope(inv, r.fromModule)
        target == moduleRuleScope(inv, r.toModule)
    IN  IF r.toModule = NoSide
        THEN IF unsupportedTarget(inv, r.to) THEN Unknown ELSE restrictToTargetVocabulary(scope, SelectorLanguages(r.to))
        ELSE IF scope.status = "unknown" THEN scope
        ELSE IF target.status # "applicable" THEN target
        ELSE restrictToTargetVocabulary(scope, target.langs)

declaresAllowlist(m) == repo.modules[m].dependsOn # NoSide \/ repo.modules[m].visibleTo # NoSide
allowlistRuleScope(inv) ==
    LET declaring == {m \in DOMAIN repo.modules : declaresAllowlist(m)}
    IN  IF declaring = {} THEN Unknown ELSE moduleRuleScope(inv, declaring)

\* A side of the rule, for one file.
sideFileMatches(inv, r, side, f) ==
    LET g == IF side = "from" THEN r.from ELSE r.to
        mods == IF side = "from" THEN r.fromModule ELSE r.toModule
    IN  IF mods = NoSide THEN g = NoGlob \/ fileMatches(inv, r.type, side, g, f) ELSE fileOwner(inv, f) \in mods

pythonTargetAddressable(inv, r) ==
    LET target == moduleRuleScope(inv, r.toModule)
    IN  IF r.toModule # NoSide THEN target.status # "applicable" \/ "python" \in target.langs
        ELSE "python" \in SelectorLanguages(r.to)

\* A completed Python scan that read none of a Python file the rule reaches.
unscannedPythonSelector(inv, r) ==
    /\ inv.pythonComplete
    /\ \E f \in inv.files : repo.lang[f] = "python" /\ sideFileMatches(inv, r, "from", f)
    /\ \E f \in inv.unanalysed :
         repo.lang[f] = "python" /\ (sideFileMatches(inv, r, "from", f) \/ sideFileMatches(inv, r, "to", f))

ruleProducerScope(inv, r) ==
    LET empty == vacuousSelector(inv, r)
        reads == [inv EXCEPT !.pythonComplete = @ /\ pythonTargetAddressable(inv, r)]
    IN  IF empty # <<>>
        THEN IF ~r.guard \/ nodeKinded(r, Head(empty)) \/ matchesOnlyUnanalysed(inv, r, Head(empty))
             THEN Unknown ELSE NotApplicableScope
        ELSE CASE r.type \in {"public_api_max", "forbidden_layer_direction"} -> moduleRuleScope(inv, DOMAIN repo.modules)
               [] r.type = "public_api_type_leak" ->
                    restrictRuleScopeLanguages(moduleRuleScope(inv, DOMAIN repo.modules), {"go"})
               [] r.type = "forbidden_dependency" ->
                    IF unscannedPythonSelector(reads, r) THEN Unknown
                    ELSE IF r.fromModule # NoSide \/ r.toModule # NoSide THEN moduleSelectorScope(reads, r)
                    ELSE IF unsupportedTarget(inv, r.to) THEN Unknown
                    ELSE restrictToTargetVocabulary(
                           patternRuleScope(inv, r.from, analysedFiles(inv), TRUE), SelectorLanguages(r.to))
               [] r.type = "module_cycle" ->
                    IF Cardinality(DOMAIN repo.modules) < 2 THEN NotApplicableScope
                    ELSE moduleRuleScope(inv, DOMAIN repo.modules)
               [] r.type = "module_dependencies" -> allowlistRuleScope(inv)
               [] r.type = "cycle" ->
                    IF unscannedPythonSelector(inv, r) THEN Unknown ELSE allSourceScope(analysedFiles(inv))
               [] r.type = "forbidden_pattern" -> patternRuleScope(inv, r.from, inv.files, FALSE)

-----------------------------------------------------------------------------
(* Whether the evidence answers a rule *)

ruleNeedsSyntax(type) == type \in {"public_api_max", "public_api_type_leak"}
ruleNeedsDependencies(type) == type \notin {"public_api_max", "forbidden_pattern"}
ruleNeedsPatterns(type) == type = "forbidden_pattern"

\* The files whose edges a rule compares.
dependencySource(inv, r, f) ==
    CASE r.type = "forbidden_dependency" -> sideFileMatches(inv, r, "from", f)
      [] r.type \in {"forbidden_layer_direction", "module_cycle"} -> fileOwner(inv, f) # Nowhose
      [] r.type = "module_dependencies" ->
           /\ fileOwner(inv, f) # Nowhose
           /\ \/ \E m \in DOMAIN repo.modules : repo.modules[m].visibleTo # NoSide
              \/ repo.modules[fileOwner(inv, f)].dependsOn # NoSide
      [] OTHER -> TRUE
scopedEvidenceReason(inv, r) ==
    \E f \in gapped \cap walked : ~outOfDeclaredScope(f) /\ dependencySource(inv, r, f)

\* A variant of the code, for TLC: only a syntax row in part counts against a rule.
syntaxEvidenceNotPartial(L) ==
    health["syntax"] # "partial" /\ \A l \in L : ScopedDependencyEvidence(l) \/ rowStatus(l) = "ok"

syntaxEvidenceComplete(L) ==
    health["syntax"] = "ok" /\ \A l \in L : ScopedDependencyEvidence(l) \/ rowStatus(l) = "ok"

EvidenceCompletes(inv, r, L) ==
    /\ ruleNeedsDependencies(r.type) =>
         \A l \in L : IF ScopedDependencyEvidence(l) THEN ~scopedEvidenceReason(inv, r) ELSE rowStatus(l) = "ok"
    /\ ruleNeedsSyntax(r.type) => syntaxEvidenceComplete(L)
    /\ ruleNeedsPatterns(r.type) => health["patterns"] = "ok"

-----------------------------------------------------------------------------
(* What the producers report, and what the rules make of it *)

\* The dependencies a healthy run reports, and those this run surely does.
reported == {e \in repo.uses : e[1] \in walked \cap repo.member /\ ~outOfDeclaredScope(e[1])
                                /\ repo.lang[e[1]] \in projects
                                /\ \A f \in DOMAIN repo.lang : outOfDeclaredScope(f) => e[2] # repo.node[f]}
surelySeen == {e \in reported : IF ScopedDependencyEvidence(repo.lang[e[1]]) THEN e[1] \notin gapped
                          ELSE rowStatus(repo.lang[e[1]]) = "ok"}

nodeOwner(n) ==
    LET owners == {m \in DOMAIN repo.modules : ownsNode(m, n)}
    IN  IF owners = {} THEN Nowhose ELSE CHOOSE m \in owners : TRUE
sourceOwner(f) ==
    LET owners == {m \in DOMAIN repo.modules : \E g \in repo.modules[m].globs : f \in g.files}
    IN  IF owners = {} THEN nodeOwner(repo.node[f]) ELSE CHOOSE m \in owners : TRUE

\* The dependencies that break a rule.
comparesFrom(r, f) ==
    IF r.fromModule # NoSide THEN sourceOwner(f) \in r.fromModule
    ELSE r.from = NoGlob \/ (IF repo.lang[f] \in fileSourceLanguages THEN f \in r.from.files
                             ELSE repo.node[f] \in r.from.nodes)
comparesTo(r, n) ==
    IF r.toModule # NoSide THEN nodeOwner(n) \in r.toModule ELSE r.to = NoGlob \/ n \in r.to.nodes
breaks(r, E) ==
    LET a(e) == sourceOwner(e[1])
        b(e) == nodeOwner(e[2])
        cross(e) == Nowhose \notin {a(e), b(e)} /\ a(e) # b(e)
    IN  CASE r.type = "forbidden_dependency" -> {e \in E : comparesFrom(r, e[1]) /\ comparesTo(r, e[2])}
          [] r.type = "forbidden_layer_direction" ->
               {e \in E : cross(e) /\ repo.modules[a(e)].layer > repo.modules[b(e)].layer}
          [] r.type = "module_dependencies" ->
               {e \in E : /\ cross(e)
                         /\ \/ repo.modules[a(e)].dependsOn # NoSide /\ b(e) \notin repo.modules[a(e)].dependsOn
                            \/ repo.modules[b(e)].visibleTo # NoSide /\ a(e) \notin repo.modules[b(e)].visibleTo}
          [] r.type = "module_cycle" -> {e \in E : cross(e) /\ \E d \in E : a(d) = b(e) /\ b(d) = a(e)}
          [] r.type = "cycle" -> {e \in E : \E d \in E : repo.node[d[1]] = e[2] /\ d[2] = repo.node[e[1]]
                                                      /\ e[2] # d[2]}
          [] OTHER -> {}

fired(r) == breaks(r, surelySeen) # {}

\* Whether something stands against the answer of a rule.
ruleUnevaluatedReason(inv, r) ==
    \E s \in {ruleProducerScope(inv, r)} :
        \/ s.status = "unknown"
        \/ s.status = "applicable" /\ ~fired(r) /\ ~EvidenceCompletes(inv, r, s.langs)

Blocks(r) == r.gate = "fail"
unevaluatedRequiredRules(inv) == {r \in repo.rules : Blocks(r) /\ ruleUnevaluatedReason(inv, r)}

\* Lint has no producer to ask: the dead selectors it calls an error.
deadSelectorSeverity(r) == IF r.gate = "off" THEN "warning" ELSE "error"
ruleDiagnostics(inv, r) ==
    LET empty == vacuousSelector(inv, r)
    IN  CASE r.type = "module_dependencies" ->
               IF \E m \in DOMAIN repo.modules : declaresAllowlist(m) THEN "none" ELSE deadSelectorSeverity(r)
          [] empty = <<>> -> "none"
          [] OTHER -> IF matchesOnlyUnanalysed(inv, r, Head(empty)) THEN deadSelectorSeverity(r)
                      ELSE IF r.guard /\ ~nodeKinded(r, Head(empty)) THEN "info" ELSE deadSelectorSeverity(r)

\* What a check of a gate that only warns says instead of an unevaluated rule.
PolicyWarnings(inv) ==
    {r \in repo.rules :
       /\ r.gate = "warn"
       /\ IF r.type = "module_dependencies" THEN \A m \in DOMAIN repo.modules : ~declaresAllowlist(m)
          ELSE ~r.guard /\ vacuousSelector(inv, r) # <<>>}

\* The production files nobody owns, which a report groups by directory.
unowned(inv, f) ==
    /\ repo.lang[f] \in SourceLangs /\ fileOwner(inv, f) = Nowhose
    /\ ~(repo.lang[f] = "rust" /\ selectorOf(inv, f) = Nameless)
uncoveredSource(inv) ==
    {repo.dir[f] : f \in {g \in analysedFiles(inv) : g \in repo.production /\ unowned(inv, g)}}

\* Added files the walk skips and no producer reports.
AddedUnread ==
    {f \in new \ walked : ~(f \in repo.member /\ rowStatus(repo.lang[f]) \in {"ok", "partial"})}

\* Why no analysis covers an added production file.
uncoveredChange(inv) ==
    LET why(f) == IF outOfDeclaredScope(f) THEN "out_of_scope"
                  ELSE IF f \in inv.unanalysed \cup AddedUnread THEN "unanalysed"
                  ELSE IF unowned(inv, f) THEN "unowned" ELSE "covered"
    IN  [f \in {g \in new \cap repo.production : why(g) # "covered"} |-> why(f)]

-----------------------------------------------------------------------------
ScopesInit ==
    /\ repo = NoRepo /\ present = {} /\ new = {} /\ projects = {} /\ gapped = {} /\ steps = 0
    /\ health = [p \in Producers |-> "ok"]

TakeUp(r) ==
    /\ repo = NoRepo /\ repo' = r /\ present' = r.committed
    /\ projects' = {r.lang[f] : f \in r.committed} \cap SourceLangs
    /\ UNCHANGED <<new, health, gapped, steps>>

MayChange == repo # NoRepo /\ steps < MaxSteps /\ steps' = steps + 1 /\ UNCHANGED repo

\* A change adds a source file, with or without the project that would read it.
AddFile(f, starts) ==
    /\ MayChange /\ f \in DOMAIN repo.lang \ present
    /\ present' = present \cup {f} /\ new' = new \cup {f}
    /\ projects' = IF starts THEN projects \cup ({repo.lang[f]} \cap SourceLangs) ELSE projects
    /\ UNCHANGED <<health, gapped>>

RemoveFile(f) ==
    /\ MayChange /\ f \in present
    /\ present' = present \ {f} /\ new' = new \ {f} /\ gapped' = gapped \ {f}
    /\ UNCHANGED <<health, projects>>

DropProject(l) ==
    /\ MayChange /\ l \in projects
    /\ projects' = projects \ {l} /\ gapped' = IF l = "dotnet" THEN {} ELSE gapped
    /\ UNCHANGED <<present, new, health>>

\* A producer fails, in part or outright, and is put right again.
Lose(p, how) ==
    /\ MayChange /\ health[p] \notin {how, "error"}
    /\ health' = [health EXCEPT ![p] = how]
    /\ gapped' = IF p = "dotnet" THEN {} ELSE gapped
    /\ UNCHANGED <<present, new, projects>>
Heal(p) ==
    /\ MayChange /\ health[p] # "ok"
    /\ health' = [health EXCEPT ![p] = "ok"]
    /\ gapped' = IF p = "dotnet" THEN {} ELSE gapped
    /\ UNCHANGED <<present, new, projects>>

\* A C# project does not load whole; its row stays a completed run of the rest.
LoadPartly(f) ==
    /\ MayChange /\ f \in present \ gapped /\ repo.lang[f] = "dotnet" /\ rowStatus("dotnet") \in {"ok", "partial"}
    /\ gapped' = gapped \cup {f} /\ health' = [health EXCEPT !["dotnet"] = "partial"]
    /\ UNCHANGED <<present, new, projects>>

ScopesNext ==
    \/ repo = NoRepo /\ \E r \in Repos : TakeUp(r)
    \/ repo # NoRepo /\ \E f \in DOMAIN repo.lang :
         RemoveFile(f) \/ LoadPartly(f) \/ \E starts \in BOOLEAN : AddFile(f, starts)
    \/ \E l \in SourceLangs : DropProject(l)
    \/ \E p \in Producers : Heal(p) \/ \E how \in {"partial", "error"} : Lose(p, how)

-----------------------------------------------------------------------------
(* Properties *)

Unanswered == UNION {unevaluatedRequiredRules(inv) : inv \in {newSelectorInventory("check")}}

ScopesTypeOK ==
    /\ (repo # NoRepo => repo \in Repos) /\ steps \in 0..MaxSteps
    /\ health \in [Producers -> {"ok", "partial", "error"}] /\ projects \subseteq SourceLangs
    /\ new \subseteq present /\ gapped \subseteq present
    /\ IF repo = NoRepo THEN present = {} ELSE present \subseteq DOMAIN repo.lang

\* A module of files of one language that claims a crate by name alone: without a
\* Rust graph the crate is not known to be the module's.
MixedOwnership ==
    \E m \in DOMAIN repo.modules, f \in DOMAIN repo.lang :
        /\ repo.lang[f] = "rust" /\ ownsNode(m, repo.node[f])
        /\ \A g \in repo.modules[m].globs : f \notin g.files
        /\ \E g \in repo.modules[m].globs : g.files # {}

\* A blocking rule that is neither unevaluated nor fired is conformed to: no
\* dependency a healthy run of the same tree reports breaks it.
AnsweredIsSound ==
    repo # NoRepo /\ (MixedOwnership => rowStatus("rust") \in {"ok", "partial"}) => \A inv \in {newSelectorInventory("check")} :
        \A r \in repo.rules \ unevaluatedRequiredRules(inv) :
            Blocks(r) /\ ~fired(r) => breaks(r, reported) = {}

\* What lint calls a dead selector a check leaves unevaluated, or warns of when
\* the gate only warns, whatever its producers add to what lint could see.
LintTellsOfCheck ==
    repo # NoRepo /\ ~MixedOwnership => \A lint \in {newSelectorInventory("lint")}, inv \in {newSelectorInventory("check")} :
        \A r \in repo.rules :
            /\ ruleDiagnostics(lint, r) = "error" /\ Blocks(r) => r \in unevaluatedRequiredRules(inv)
            /\ ruleDiagnostics(lint, r) = "error" /\ r.gate = "warn" => r \in PolicyWarnings(inv)

\* An added production file that the change report passes over is one a healthy
\* run reads and a module owns, and what it calls unowned the map report names.
AddedIsCovered ==
    repo # NoRepo => \A inv \in {newSelectorInventory("check")} : \A why \in {uncoveredChange(inv)} :
        \A f \in {g \in new \cap repo.production : repo.lang[g] \in SourceLangs} :
            /\ f \notin DOMAIN why /\ (\A p \in Producers : health[p] = "ok") =>
                 f \in repo.member /\ repo.lang[f] \in projects /\ fileOwner(inv, f) # Nowhose
            /\ f \in DOMAIN why /\ f \in walked =>
                 (why[f] = "unowned" => repo.dir[f] \in uncoveredSource(inv))

\* A failing producer answers no blocking rule: what lacked evidence before is
\* still unevaluated after.
LossAnswersNothing ==
    [][(\E p \in Producers, how \in {"partial", "error"} : Lose(p, how)) /\ ~MixedOwnership =>
         \A inv \in {newSelectorInventory("check")} :
           {r \in unevaluatedRequiredRules(inv) : ruleProducerScope(inv, r).status = "applicable"}
             \subseteq Unanswered']_scopeVars

\* Both: a blocking rule is silent only on evidence, now and after a producer fails.
RulesAreAnswered == [](AnsweredIsSound /\ LintTellsOfCheck /\ AddedIsCovered) /\ LossAnswersNothing
==============================================================================
