--------------------------------- MODULE Rules ---------------------------------
(***************************************************************************)
(* The rules of a config over the relationships of a tree, while the code is *)
(* edited between two checks.  A check is a function of the tree: state      *)
(* changes when a person or an agent edits a file, or when the source walk   *)
(* no longer reaches one.                                                    *)
(*                                                                         *)
(* A place is a node of the graph: a package directory, or a file in it.  A  *)
(* glob is the set of places it matches, with its literal length; a selector *)
(* of modules is the set it selects.  A finding is its rule, its kind, and   *)
(* the key its ID is a hash of.                                              *)
(***************************************************************************)
EXTENDS Digraph, Sequences

CONSTANTS
    SourceFiles, Packages,
    Externals,   \* the packages that are external by their import path
    ModuleNames, \* the declared modules, in name order
    Exports,     \* names of exported declarations
    Patterns,
    MaxChanges,  \* bound: the edits of a behaviour
    Codebases,   \* the configs and trees to consider
    NoCode, Nobody, NoFile

Modules == {ModuleNames[i] : i \in DOMAIN ModuleNames}
Places == [dir : Packages, file : SourceFiles \cup {NoFile}]

\* How a file uses a place: the kind of the edge, and whether the language says it
\* reaches into internals (uses_internal, or intrusive and not pinned by a label).
Uses == {"import", "deep", "other"}

\* What the source walk knows of a file; "none" is no source file at all.
Classes == {"production", "test", "outside", "unwalked", "unwalked test", "unknown", "none"}

SourceFile(r) ==
    /\ r = [dir |-> r.dir, class |-> r.class, uses |-> [t \in DOMAIN r.uses |-> r.uses[t]],
            exports |-> r.exports, leaks |-> r.leaks, matches |-> r.matches]
    /\ r.dir \in Packages /\ r.class \in Classes
    /\ DOMAIN r.uses \subseteq Places /\ \A t \in DOMAIN r.uses : r.uses[t] \in Uses
    /\ r.exports \subseteq Exports /\ r.leaks \subseteq Externals /\ r.matches \subseteq Patterns

\* A file that is used is there.
SourceTree(t) ==
    /\ t = [f \in DOMAIN t |-> t[f]] /\ DOMAIN t \subseteq SourceFiles
    /\ \A f \in DOMAIN t : SourceFile(t[f])
    /\ \A f \in DOMAIN t : \A p \in DOMAIN t[f].uses :
         p.file = NoFile \/ (p.file \in DOMAIN t /\ p.dir = t[p.file].dir)

RuleTypes ==
    {"forbidden_dependency", "public_api_only", "internal_api_access", "forbidden_layer_direction",
     "new_cross_module_dependency", "cycle", "module_cycle", "module_dependencies", "public_api_max",
     "public_api_change", "public_api_type_leak", "forbidden_pattern"}

ASSUME RulesAssumption ==
    /\ \A S \in {SourceFiles, Packages, Exports} : IsFiniteSet(S)
    /\ Externals \subseteq Packages /\ MaxChanges \in Nat
    /\ ModuleNames \in Seq(Modules)
    /\ NoFile \notin SourceFiles /\ Nobody \notin Modules /\ NoCode \notin Codebases
    /\ \A c \in Codebases :
         /\ SourceTree(c.tree)
         /\ \A r \in c.rules : r.type \in RuleTypes /\ (r.type = "public_api_max" => r.max \in Int)

VARIABLES
    code,   \* the config that governs
    tree,   \* the files there are
    changes

rulesVars == <<code, tree, changes>>

Node(f) == [dir |-> tree[f].dir, file |-> f]
Package(p) == [dir |-> p, file |-> NoFile]

Biggest(S) == CHOOSE n \in S : \A k \in S : k <= n
Before(m, n) == \E i, j \in DOMAIN ModuleNames : ModuleNames[i] = m /\ ModuleNames[j] = n /\ i < j

-----------------------------------------------------------------------------
(* Who owns a place *)

Ranks(m, place) == {g.rank : g \in {x \in code.globs[m] : place \in x.places}}

\* The most specific glob wins, then the first name.
AllRanks(place) == UNION {Ranks(m, place) : m \in Modules}
MostSpecific(place) == {m \in Modules : Biggest(AllRanks(place)) \in Ranks(m, place)}
FirstName(S) == CHOOSE m \in S : \A n \in S \ {m} : Before(m, n)
ModuleFor(place) == IF AllRanks(place) = {} THEN Nobody ELSE FirstName(MostSpecific(place))

\* A file no glob claims belongs to the module of its package.
DeclaredModule(place) ==
    IF ModuleFor(place) = Nobody /\ place.file # NoFile
    THEN ModuleFor(Package(place.dir)) ELSE ModuleFor(place)

\* The owner's public glob decides first, then any internal glob.
MatchesInternal(place) ==
    LET owner == ModuleFor(place)
    IN  IF owner # Nobody /\ place \in code.public[owner] THEN "no"
        ELSE IF \E m \in Modules : place \in code.internal[m] THEN "yes" ELSE "silent"

LayerFor(place) == IF ModuleFor(place) = Nobody THEN 0 ELSE code.layer[ModuleFor(place)]

\* Which allowlist denies the pair; an importer nobody owns is on no list.
DeniedDependency(from, to) ==
    IF from = to THEN {}
    ELSE {k \in {"depends_on", "visible_to"} :
            IF k = "depends_on" THEN from # Nobody /\ to \notin code.dependsOn[from]
            ELSE from \notin code.visibleTo[to]}

-----------------------------------------------------------------------------
(* The edges, with the modules of their ends *)

Edges ==
    UNION {{[from |-> Node(f), to |-> t, use |-> tree[f].uses[t], class |-> tree[f].class,
             fromModule |-> DeclaredModule(Node(f)), toModule |-> DeclaredModule(t)]
              : t \in DOMAIN tree[f].uses} : f \in DOMAIN tree}

DependencyEdges(E) == {e \in E : e.use # "other"}

SameModule(e) == ModuleFor(e.from) # Nobody /\ ModuleFor(e.from) = ModuleFor(e.to)

\* An edge counts unless its file is known not to be production code.
ProductionSourceKnown(e) == e.class \in {"production", "unwalked"}
ProductionSource(e) == e.class \in {"production", "unwalked", "unknown", "none"}

\* An importer nobody owns goes by its package (a Go file's directory).
ImportingPackage(e) == Package(e.from.dir)

InternalTarget(e) ==
    LET says == MatchesInternal(e.to) IN IF says = "silent" THEN e.use = "deep" ELSE says = "yes"

-----------------------------------------------------------------------------
(* The rules: the keys each reports *)

ByEdge(S) == {<<{e.from}, {e.to}, e.use>> : e \in S}

ForbiddenByPath(r, E) == ByEdge({e \in E : e.from \in r.from /\ e.to \in r.to})

\* With a module selector on a side the finding is keyed by the module there.
EndKey(module, byModule, place) == IF byModule THEN {module} ELSE {place}
Selects(r, e) ==
    /\ e.fromModule = Nobody \/ e.fromModule # e.toModule
    /\ IF r.fromModules # {} THEN e.fromModule \in r.fromModules ELSE e.from \in r.from
    /\ IF r.toModules # {} THEN e.toModule \in r.toModules ELSE e.to \in r.to
ForbiddenByFile(r, E) ==
    {<<{e.from}, EndKey(e.toModule, r.toModules # {}, e.to), "module_dependency">>
       : e \in {x \in DependencyEdges(E) : Selects(r, x)}}
ForbiddenByModule(r, E) ==
    {<<EndKey(e.fromModule, r.fromModules # {}, ImportingPackage(e)),
       EndKey(e.toModule, r.toModules # {}, e.to), "module_dependency">>
       : e \in {x \in DependencyEdges(E) : Selects(r, x)}}

\* public_api_only and internal_api_access report the same edges, in other words.
PublicAPIOnly(r, E) ==
    ByEdge({e \in DependencyEdges(E) :
              e.from \in r.from /\ e.to \in r.to /\ InternalTarget(e) /\ ~SameModule(e)})
InternalAPIAccess(r, E) == PublicAPIOnly(r, E)

\* Layers are listed from the lowest; a lower one may not use a higher one.  0 is no layer.
ForbiddenLayerDirection(E) ==
    ByEdge({e \in E : LayerFor(e.from) > 0 /\ LayerFor(e.from) < LayerFor(e.to)})

NewCrossModuleDependency(E) ==
    ByEdge({e \in E : ModuleFor(e.from) # Nobody /\ ModuleFor(e.to) \notin {Nobody, ModuleFor(e.from)}})

CycleRule(E) ==
    {<<S, {}, "imports">> : S \in Components({<<e.from, e.to>> : e \in DependencyEdges(E)})}

\* Of the edges that count, between two modules.
ModuleEdges(E) ==
    {<<e.fromModule, e.toModule>> : e \in {x \in DependencyEdges(E) :
       ProductionSource(x) /\ Nobody \notin {x.fromModule, x.toModule} /\ x.fromModule # x.toModule}}
ModuleCycle(E) == {<<S, {}, "module_dependency">> : S \in Components(ModuleEdges(E))}

ModuleDependencies(E) ==
    {<<{IF e.fromModule = Nobody THEN ImportingPackage(e) ELSE e.fromModule},
       {e.toModule}, "module_dependency">>
       : e \in {x \in DependencyEdges(E) :
           /\ x.toModule # Nobody /\ ProductionSource(x)
           /\ DeniedDependency(x.fromModule, x.toModule) # {}}}

\* No relationship is behind a finding about declarations.
DeclarationKey(owner, name) == <<{owner}, {name}, "">>

\* Exported declarations by module; a file nobody owns is left out.
DeclaredBy(m) ==
    {x \in (DOMAIN tree) \X Exports : x[2] \in tree[x[1]].exports /\ DeclaredModule(Node(x[1])) = m}
PublicAPIMax(r) == {DeclarationKey(m, m) : m \in {k \in Modules : Cardinality(DeclaredBy(k)) > r.max}}
PublicAPIChange ==
    UNION {{DeclarationKey(DeclaredModule(Node(f)), n) : n \in tree[f].exports}
             : f \in {g \in DOMAIN tree : DeclaredModule(Node(g)) # Nobody}}

\* An exported declaration that mentions a type of an external package some file uses.
ExternalPackages(E) == Externals \cap {e.to.dir : e \in DependencyEdges(E)}
PublicAPITypeLeak(E) ==
    UNION {{DeclarationKey(IF DeclaredModule(Node(f)) = Nobody THEN Node(f) ELSE DeclaredModule(Node(f)), x)
              : x \in tree[f].leaks \cap ExternalPackages(E)} : f \in DOMAIN tree}

ForbiddenPattern(r) ==
    UNION {{<<{Node(f)}, {q}, "pattern_match">> : q \in tree[f].matches \cap r.patterns}
             : f \in {g \in DOMAIN tree : tree[g].class = "production" /\ Node(g) \in r.from}}

RuleCheck(r, E) ==
    CASE r.type = "forbidden_dependency" ->
           IF r.fromModules # {} \/ r.toModules # {} THEN ForbiddenByModule(r, E) ELSE ForbiddenByPath(r, E)
      [] r.type = "public_api_only" -> PublicAPIOnly(r, E)
      [] r.type = "internal_api_access" -> InternalAPIAccess(r, E)
      [] r.type = "forbidden_layer_direction" -> ForbiddenLayerDirection(E)
      [] r.type = "new_cross_module_dependency" -> NewCrossModuleDependency(E)
      [] r.type = "cycle" -> CycleRule(E)
      [] r.type = "module_cycle" -> ModuleCycle(E)
      [] r.type = "module_dependencies" -> ModuleDependencies(E)
      [] r.type = "public_api_max" -> PublicAPIMax(r)
      [] r.type = "public_api_change" -> PublicAPIChange
      [] r.type = "public_api_type_leak" -> PublicAPITypeLeak(E)
      [] r.type = "forbidden_pattern" -> ForbiddenPattern(r)

\* A rule without a gate fails the check, but for the two that warn of drift.
DefaultGate(type) ==
    IF type \in {"public_api_change", "public_api_type_leak"} THEN "warn" ELSE "fail"
Gate(r) == IF r.gate = "" THEN DefaultGate(r.type) ELSE r.gate

Gated(r, E) ==
    IF Gate(r) = "off" THEN {}
    ELSE {[rule |-> r, gates |-> Gate(r) # "warn", key |-> k] : k \in RuleCheck(r, E)}

Findings == UNION {UNION {Gated(r, E) : r \in code.rules} : E \in {Edges}}

\* A config with a rule that cannot fire, or reads what its type does not, is refused.
ValidRule(r, all) ==
    /\ r.type # "forbidden_dependency" => r.fromModules = {} /\ r.toModules = {}
    /\ r.type = "forbidden_dependency" =>
         /\ (r.from = {}) # (r.fromModules = {})
         /\ (r.to = {}) # (r.toModules = {})
    /\ r.type = "public_api_max" => r.max >= 0
    /\ r.type = "forbidden_pattern" =>
         r.patterns # {} /\ \A q \in all \ {r} : q.patterns \cap r.patterns = {}

-----------------------------------------------------------------------------
(* Edits between checks *)

RulesInit == code = NoCode /\ tree = <<>> /\ changes = 0

Adopt(c) ==
    /\ code = NoCode
    /\ \A r \in c.rules : ValidRule(r, c.rules)
    /\ code' = c /\ tree' = c.tree
    /\ UNCHANGED changes

Change(new) ==
    /\ code # NoCode /\ changes < MaxChanges
    /\ tree' = new
    /\ changes' = changes + 1
    /\ UNCHANGED code

Rewritten(f, fields) == [tree EXCEPT ![f] = fields]

Import(f, t, use) ==
    /\ f \in DOMAIN tree /\ t \notin DOMAIN tree[f].uses /\ t # Node(f)
    /\ t.file = NoFile \/ (t.file \in DOMAIN tree /\ Node(t.file) = t)
    /\ Change(Rewritten(f, [tree[f] EXCEPT !.uses =
                 [x \in DOMAIN @ \cup {t} |-> IF x = t THEN use ELSE @[x]]]))

Drop(f, t) ==
    /\ f \in DOMAIN tree /\ t \in DOMAIN tree[f].uses
    /\ Change(Rewritten(f, [tree[f] EXCEPT !.uses = [x \in DOMAIN @ \ {t} |-> @[x]]]))

\* A file moves to another package; those that use it follow.
Moved(f, p, t) == IF t = Node(f) THEN [t EXCEPT !.dir = p] ELSE t
Followed(f, p, uses) ==
    [x \in {Moved(f, p, t) : t \in DOMAIN uses} |->
       uses[CHOOSE t \in DOMAIN uses : Moved(f, p, t) = x]]
Move(f, p) ==
    /\ f \in DOMAIN tree /\ tree[f].dir # p
    /\ Change([g \in DOMAIN tree |->
          [tree[g] EXCEPT !.dir = IF g = f THEN p ELSE @, !.uses = Followed(f, p, @)]])

Export(f, n) ==
    /\ f \in DOMAIN tree /\ n \notin tree[f].exports
    /\ Change(Rewritten(f, [tree[f] EXCEPT !.exports = @ \cup {n}]))

\* A declaration, a match or a leak is removed.
Unexport(f) ==
    /\ f \in DOMAIN tree
    /\ \/ \E n \in tree[f].exports :
            Change(Rewritten(f, [tree[f] EXCEPT !.exports = @ \ {n}]))
       \/ \E q \in tree[f].matches :
            Change(Rewritten(f, [tree[f] EXCEPT !.matches = @ \ {q}]))
       \/ \E x \in tree[f].leaks :
            Change(Rewritten(f, [tree[f] EXCEPT !.leaks = @ \ {x}]))

\* A file nobody uses is deleted.
Delete(f) ==
    /\ f \in DOMAIN tree /\ \A g \in DOMAIN tree : Node(f) \notin DOMAIN tree[g].uses
    /\ Change([g \in DOMAIN tree \ {f} |-> tree[g]])

\* The source walk no longer reaches a file an analyzer loads: it is not classified.
Unwalk(f) ==
    /\ f \in DOMAIN tree /\ tree[f].class \in {"production", "test", "unwalked", "unwalked test"}
    /\ Change(Rewritten(f, [tree[f] EXCEPT !.class = "unknown"]))

RulesNext ==
    \/ code = NoCode /\ \E c \in Codebases : Adopt(c)
    \/ \E f \in DOMAIN tree :
         \/ \E t \in Places, use \in Uses : Import(f, t, use)
         \/ \E t \in DOMAIN tree[f].uses : Drop(f, t)
         \/ \E p \in Packages : Move(f, p)
         \/ \E n \in Exports : Export(f, n)
         \/ Unexport(f) \/ Delete(f) \/ Unwalk(f)

RulesSpec == RulesInit /\ [][RulesNext]_rulesVars

-----------------------------------------------------------------------------
(* Properties *)

\* Every variable has its type.
RulesTypeOK ==
    /\ code = NoCode \/ code \in Codebases
    /\ SourceTree(tree)
    /\ changes \in 0..MaxChanges

\* The findings that are not among others, nor a cycle inside a larger one there.
Cyclic(f) == f.rule.type \in {"cycle", "module_cycle"}
Within(f, g) == f.rule = g.rule /\ f.key[1] \subseteq g.key[1] /\ f.key[2] = g.key[2]
Beyond(S, T) == {x \in S \ T : ~(Cyclic(x) /\ \E y \in T : Within(x, y))}

\* Removing code adds no finding: what is reported after it was reported before, but
\* for a cycle left over from a larger one that was (cycleFingerprintID re-keys it).
Removal ==
    \E f \in DOMAIN tree :
      Unexport(f) \/ Delete(f) \/ \E t \in DOMAIN tree[f].uses : Drop(f, t)
RemovalAddsNoFinding ==
    [][Removal => Beyond(Findings', Findings) = {}]_rulesVars

\* A file that moves inside its module re-keys no finding between modules: each is
\* keyed by the modules alone (moduleDependencies, moduleCycle, checkModules).
BetweenModules(S) ==
    {x \in S :
      \/ x.rule.type \in {"module_cycle", "module_dependencies", "public_api_change", "public_api_max"}
      \/ x.rule.fromModules # {} /\ x.rule.toModules # {}}
MoveInside ==
    \E f \in DOMAIN tree : \E p \in Packages :
      /\ DeclaredModule(Node(f)) # Nobody
      /\ DeclaredModule(Node(f)) = DeclaredModule([dir |-> p, file |-> f])
      /\ Move(f, p)
MoveInsideKeepsFindings ==
    [][MoveInside => BetweenModules(Findings) = BetweenModules(Findings')]_rulesVars

\* A file the source walk loses hides no finding between modules: each is still
\* reported, or is part of a larger cycle that is (productionSource).
LostFilesHideNothing ==
    [][(\E f \in DOMAIN tree : Unwalk(f)) =>
         Beyond(BetweenModules(Findings), Findings') = {}]_rulesVars

\* No move costs a finding its identity, and no removal gives one a new identity.
FindingsAreStable == RemovalAddsNoFinding /\ MoveInsideKeepsFindings /\ LostFilesHideNothing
=============================================================================
