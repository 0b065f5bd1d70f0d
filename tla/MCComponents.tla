---------------------------- MODULE MCComponents ----------------------------
(* Components that share no state with one another, for TLC: a behaviour    *)
(* picks one of them and follows it, so one run checks them all.            *)
EXTENDS Extraction, DotNet, ConfigWork, Cycles, Rules, Coupling, Labels, PolicyChange, Ratchets, RuleScopes,
        SuppliedCoverage, Operations, Claims, HookInstall, ScopeGuard, SymbolIndex,
        AgentResult, TLC

CONSTANTS f1, f2, f3, p1, p2, m1, m2, m3, d1, d2, d3, a1, w1, w2

\* A clone before its first commit.
Unborn == [commits |-> <<>>, local |-> [n \in BranchNames |-> Missing], remote |-> [n \in BranchNames |-> Missing],
           originHead |-> "", on |-> "main", tracked |-> TRUE]

VARIABLE part \* the component of the behaviour

Init ==
    /\ part \in {"extraction", "dotnet", "config", "cycles", "rules", "coupling", "labels", "policy", "ratchets", "scopes",
             "coverage", "operations", "claims", "hooks", "guard", "index", "result"}
    /\ scan \in {s \in Scans : s.seen = 2} /\ policy \in {p \in Policies : p.off = {} /\ p.classes = 1}
    /\ hookfiles = [h \in Harnesses |-> IF part = "hooks" THEN NoHooks ELSE Garbage]
    /\ clone \in IF part = "guard" THEN Clones ELSE {Unborn}
    /\ indexed \in {[tree |-> t, text |-> 1] : t \in IF part = "index" THEN Indexed ELSE {CHOOSE t \in Indexed : TRUE}}
    /\ ExtractInit
    /\ DotNetInit
    /\ ConfigInit
    /\ CyclesInit
    /\ RulesInit
    /\ CouplingInit
    /\ LabelsInit
    /\ PolicyInit
    /\ RatchetsInit
    /\ ScopesInit
    /\ SuppliedInit
    /\ OperationsInit
    /\ ClaimsInit
    /\ InstallInit
    /\ GuardInit
    /\ IndexInit
    /\ ResultInit

Only(name) ==
    /\ part = name /\ part' = name
    /\ IF name = "extraction" THEN TRUE ELSE UNCHANGED extractVars
    /\ IF name = "dotnet" THEN TRUE ELSE UNCHANGED dotnetVars
    /\ IF name = "config" THEN TRUE ELSE UNCHANGED configVars
    /\ IF name = "cycles" THEN TRUE ELSE UNCHANGED cyclesVars
    /\ IF name = "rules" THEN TRUE ELSE UNCHANGED rulesVars
    /\ IF name = "coupling" THEN TRUE ELSE UNCHANGED couplingVars
    /\ IF name = "labels" THEN TRUE ELSE UNCHANGED labelVars
    /\ IF name = "policy" THEN TRUE ELSE UNCHANGED policyVars
    /\ IF name = "ratchets" THEN TRUE ELSE UNCHANGED ratchetVars
    /\ IF name = "scopes" THEN TRUE ELSE UNCHANGED scopeVars
    /\ IF name = "coverage" THEN TRUE ELSE UNCHANGED suppliedVars
    /\ IF name = "operations" THEN TRUE ELSE UNCHANGED opsVars
    /\ IF name = "claims" THEN TRUE ELSE UNCHANGED claimVars
    /\ IF name = "hooks" THEN TRUE ELSE UNCHANGED installVars
    /\ IF name = "guard" THEN TRUE ELSE UNCHANGED guardVars
    /\ IF name = "index" THEN TRUE ELSE UNCHANGED indexVars
    /\ IF name = "result" THEN TRUE ELSE UNCHANGED resultVars

\* Of two writers or enrichers, which are alike, w1 starts first; only it may be an
\* `init --force`, which differs from the others where a config stands already.
Next ==
    \/ Only("extraction") /\ ExtractNext
    \/ Only("dotnet") /\ DotNetNext
    \/ Only("config") /\ ConfigNext /\ (writer[w1].pc = "idle" => writer'[w2].pc = "idle")
                       /\ writer'[w2].kind # "force"
    \/ Only("cycles") /\ CyclesNext
    \/ Only("rules") /\ RulesNext
    \/ Only("coupling") /\ CouplingNext
    \/ Only("labels") /\ LabelsNext /\ (enricher[w1].pc = "new" => enricher'[w2].pc = "new")
    \/ Only("policy") /\ PolicyNext
    \/ Only("ratchets") /\ RatchetsNext
    \/ Only("scopes") /\ ScopesNext
    \/ Only("coverage") /\ SuppliedNext
    \/ Only("operations") /\ OperationsNext
    \/ Only("claims") /\ ClaimsNext
    \/ Only("hooks") /\ InstallNext
    \/ Only("guard") /\ GuardNext
    \/ Only("index") /\ IndexNext
    \/ Only("result") /\ ResultNext

vars == <<part, extractVars, dotnetVars, configVars, cyclesVars, rulesVars, couplingVars, labelVars,
          policyVars, ratchetVars, scopeVars, suppliedVars, opsVars, claimVars, installVars, guardVars,
          indexVars, resultVars>>

Spec == Init /\ [][Next]_vars /\ ExtractFair

\* Every variable of the component at work has its type.
ComponentsTypeOK ==
    CASE part = "extraction" -> ExtractTypeOK
      [] part = "dotnet" -> DotNetTypeOK
      [] part = "config" -> ConfigTypeOK
      [] part = "cycles" -> CyclesTypeOK
      [] part = "rules" -> RulesTypeOK
      [] part = "coupling" -> CouplingTypeOK
      [] part = "labels" -> LabelsTypeOK
      [] part = "policy" -> PolicyTypeOK
      [] part = "ratchets" -> RatchetsTypeOK
      [] part = "scopes" -> ScopesTypeOK
      [] part = "coverage" -> SuppliedTypeOK
      [] part = "operations" -> OperationsTypeOK
      [] part = "claims" -> ClaimsTypeOK
      [] part = "hooks" -> InstallTypeOK
      [] part = "guard" -> GuardTypeOK
      [] part = "index" -> IndexTypeOK
      [] part = "result" -> ResultTypeOK

-----------------------------------------------------------------------------
(* Extraction: each language alone with up to two files in every mode, and  *)
(* every two languages together.                                            *)
One(l) ==
    {p \in [mode : {[k \in Langs |-> IF k = l THEN m ELSE "auto"] : m \in Modes},
            there : {{}, {l}},
            files : {[k \in Langs |-> IF k = l THEN F ELSE <<>>] :
                       F \in UNION {[S -> Kinds] : S \in {{}, {f1}, {f1, f2}}}}] :
       p.there = {} => p.files[l] = <<>>}
Two(l, m) ==
    [mode : {[k \in Langs |-> "auto"]}, there : {{l, m}},
     files : {[k \in Langs |-> IF k \in {l, m} THEN f1 :> "plain" ELSE <<>>]}]
MCProjects == UNION ({One(l) : l \in Langs} \cup {Two(l, m) : l, m \in Langs})

(* DotNet: a project with two frameworks, one that borrows restore outputs, *)
(* one that inherits build files, a test project, a file of a project that   *)
(* is only reached, and every way to stop.                                   *)
Plain ==
    [on |-> FALSE, helper |-> "set", selected |-> {p1, p2}, reached |-> {}, tests |-> {},
     missing |-> FALSE, borrows |-> FALSE, inherits |-> {}, links |-> {},
     targets |-> [p \in Csprojs |-> {"net8.0"}], under |-> f1 :> p1, compiles |-> f1 :> {p1, p2}]
Multi == (p1 :> {"net8.0", "net9.0"}) @@ (p2 :> {"net8.0"})
MCSolutions ==
    {[Plain EXCEPT !.borrows = TRUE],
     [Plain EXCEPT !.targets = Multi, !.selected = {p1}, !.reached = {p2}, !.links = {p1}],
     [Plain EXCEPT !.targets = Multi, !.selected = {p1}, !.compiles = f1 :> {p1}],
     [Plain EXCEPT !.selected = {p1}, !.reached = {p2}, !.under = f1 :> p2],
     [Plain EXCEPT !.helper = "unset", !.selected = {p1}, !.reached = {p2}, !.under = f1 :> p2],
     [Plain EXCEPT !.inherits = {p1}, !.tests = {p2}, !.compiles = f1 :> {p1}]} \cup
    {[Plain EXCEPT !.on = o, !.helper = h, !.selected = s, !.missing = m] :
       o \in BOOLEAN, h \in {"unset", "disabled", "invalid"}, s \in {{}, {p1}}, m \in BOOLEAN}

(* ConfigWork: a tree without a config, and a config that claims too much, and *)
(* under another name, of what discovery finds.                              *)
Owning(S) == [paths |-> S, value |-> Unset]
MCWorkspaces ==
    {[config |-> NoConfig, found |-> m1 :> [paths |-> {d1}, sources |-> {d1}]],
     [config |-> m2 :> Owning({d1, d2}), found |-> (m1 :> [paths |-> {d1}, sources |-> {d1}])
                                                   @@ (m2 :> [paths |-> {d2}, sources |-> {d2}])]}

(* Cycles: every graph of up to four edges on four nodes.                    *)
MCNodes == <<"a", "b", "c", "d">>
MCDigraphs ==
    {E \in SUBSET {e \in {"a", "b", "c", "d"} \X {"a", "b", "c", "d"} : e[1] # e[2] \/ e[1] = "a"} :
       Cardinality(E) <= 4}

(* Rules: a ring of three modules under every rule, and trees where a cycle  *)
(* closes through a test, a module has two packages, and globs overlap.      *)
Inside(d) == {[dir |-> d, file |-> x] : x \in SourceFiles \cup {NoFile}}
Itself(d) == {[dir |-> d, file |-> NoFile]}
All(d) == {[places |-> Inside(d), rank |-> 2]}
AnyRule(type) == [id |-> type, type |-> type, gate |-> "", from |-> Places, to |-> Places, fromModules |-> {},
                toModules |-> {}, max |-> 1, patterns |-> {}]
AllRules ==
    {AnyRule(t) : t \in {"public_api_only", "forbidden_layer_direction", "cycle", "module_cycle",
        "module_dependencies", "public_api_max", "public_api_change", "public_api_type_leak"}} \cup
    {[AnyRule("internal_api_access") EXCEPT !.gate = "warn"],
     [AnyRule("new_cross_module_dependency") EXCEPT !.gate = "off"],
     [AnyRule("forbidden_pattern") EXCEPT !.patterns = {a1}],
     [AnyRule("forbidden_dependency") EXCEPT !.from = Inside(d1), !.to = Inside(d2)],
     [AnyRule("forbidden_dependency") EXCEPT !.from = {}, !.to = {}, !.fromModules = {m2}, !.toModules = {m1, m3}]}
Imports(S) == [t \in S |-> "import"]
GoFile(d, S) == [dir |-> d, class |-> "production", uses |-> Imports(S), exports |-> {}, leaks |-> {}, matches |-> {}]
Ring == [globs |-> (m1 :> All(d1)) @@ (m2 :> All(d2)) @@ (m3 :> All(d3)),
          public |-> [m \in Modules |-> IF m = m1 THEN Itself(d2) ELSE {}],
          internal |-> [m \in Modules |-> IF m = m2 THEN Inside(d2) ELSE {}],
          layer |-> (m1 :> 1) @@ (m2 :> 2) @@ (m3 :> 0),
          dependsOn |-> [m \in Modules |-> IF m = m1 THEN {m3} ELSE Modules],
          visibleTo |-> [m \in Modules |-> IF m = m3 THEN {m1} ELSE Modules \cup {Nobody}],
          rules |-> AllRules,
          tree |-> (f1 :> GoFile(d1, Itself(d2))) @@ (f2 :> GoFile(d2, Itself(d3))) @@ (f3 :> GoFile(d3, Itself(d1)))]
MCModuleNames == <<m1, m2, m3>>
MCCodebases ==
  { Ring,
    [Ring EXCEPT !.tree[f2].uses = Imports(Itself(d1)), !.tree[f3].class = "test", !.tree[f1].uses = Imports(Itself(d2) \cup Itself(d3)), !.tree[f1].matches = {a1}, !.tree[f1].leaks = {d3}],
    [Ring EXCEPT !.globs = (m1 :> All(d1)) @@ (m2 :> {[places |-> Inside(d2) \cup Inside(d3), rank |-> 1]}) @@ (m3 :> {}),
                  !.tree[f2].uses = Imports(Itself(d1)), !.tree[f3].class = "unwalked"],
    [Ring EXCEPT !.globs[m2] = {[places |-> Inside(d1) \cup Itself(d2), rank |-> 1]}, !.globs[m3] = {[places |-> Itself(d2), rank |-> 1]},
                  !.tree[f3].dir = d2, !.tree[f3].exports = {"n1", "n2"}] }

(* Coupling: chains and rings of three modules under every volatility of    *)
(* two of them, pairs with edges of different strength, copies, labels,      *)
(* owners, and a vendor.                                                    *)
Def(v) == [volatility |-> v, declared |-> TRUE, public |-> FALSE, cohesive |-> FALSE, owner |-> "", unit |-> ""]
Link(id, a, b, glob, hint) == [id |-> id, from |-> a, to |-> b, glob |-> glob, hint |-> hint, model |-> FALSE]
Chain == [defs |-> [m \in Parts |-> Def("undeclared")], cascade |-> TRUE, scoreClones |-> TRUE,
          approved |-> <<>>, judged |-> <<>>, clones |-> {}, vendors |-> <<>>,
          edges |-> {Link(1, m1, m2, "silent", "functional"), Link(2, m2, m3, "internal", "unknown"),
                     Link(3, m1, m2, "silent", "intrusive"), Link(4, m3, m1, "silent", "unknown")}]
MCSystems ==
    {[Chain EXCEPT !.defs[m1].volatility = u, !.defs[m2].volatility = v, !.defs[m3].volatility = w,
                   !.clones = c] :
       u, v \in {"undeclared", "medium", "high"}, w \in {"undeclared", "low", "high"},
       c \in {{}, {{m1, m2}}, {{m2, m3}, {m1, m3}}}} \cup
    {[Chain EXCEPT !.edges = {Link(1, m1, m2, "public", h), Link(2, m2, m1, "silent", "symmetric"),
                              Link(3, m1, m2, "silent", "unknown"), Link(4, m1, Nowhere, "internal", "unknown"),
                              Link(5, m1, "vendor", "silent", "functional"), Link(6, m3, m3, "silent", "symmetric")},
                   !.vendors = [x \in {"vendor"} |-> "low"], !.cascade = g, !.scoreClones = g, !.clones = {{m1, m2}},
                   !.defs[m1].cohesive = ~g, !.defs[m2].public = g, !.defs[m2].owner = "o1", !.defs[m1].owner = "o2",
                   !.defs[m1].volatility = v, !.approved = a, !.judged = j] :
       h \in {"contract", "intrusive"}, g \in BOOLEAN, v \in {"frozen", "high"},
       a \in {<<>>, <<m1, m2>> :> "symmetric"}, j \in {<<>>, <<m1, m2>> :> [strength |-> "intrusive", high |-> FALSE]}}

(* Labels: a pair with an import and a containment edge, and one that only the *)
(* package of a file attributes.                                              *)
PairEdge(p, kind, static, by) == [pair |-> p, kind |-> kind, static |-> static, by |-> by]
MCPairEdges ==
    {PairEdge(m1, "imports", "functional", "glob"), PairEdge(m1, "belongs_to", "unknown", "glob"),
     PairEdge(m2, "imports", "model", "fallback")}

(* PolicyChange: a ring under a few rules, and a config that reads less of it, *)
(* with up to two parts of the candidate revised.                            *)
Held(d, layer, on, by) == [paths |-> All(d), public |-> {}, internal |-> {}, layer |-> layer,
                           dependsOn |-> on, visibleTo |-> by]
OfType(type) == [AnyRule(type) EXCEPT !.max = NotSet]
Denied(a, b) == [OfType("forbidden_dependency") EXCEPT !.from = {}, !.to = {}, !.fromModules = a, !.toModules = b]
Cap(n) == [AnyRule("public_api_max") EXCEPT !.max = n]
House == {OfType("module_cycle"), OfType("module_dependencies"), Cap(1)}
MCPolicy ==
    [rules |-> House, waivers |-> {[rule |-> "module_cycle", expired |-> FALSE]},
     modules |-> (m1 :> Held(d1, "low", {{m2}, {m3}}, Anything)) @@ (m2 :> Held(d2, "top", {{m2}, {m3}}, Anything))
                 @@ (m3 :> Held(d3, NotSet, Anything, {{m2}})),
     layers |-> <<"low", "top">>, metrics |-> [x \in {"cycle"} |-> [gate |-> "", tolerance |-> 0]],
     exclude |-> {}, languages |-> [l \in PolicyLangs |-> "auto"], syntax |-> TRUE]
MCTree == (f1 :> [GoFile(d1, Itself(d2)) EXCEPT !.exports = {"n1", "n2"}]) @@ (f2 :> GoFile(d2, Itself(d3) \cup Itself(d1)))
          @@ (f3 :> GoFile(d3, Itself(d1)))
MCProposals == {[policy |-> MCPolicy, tree |-> MCTree],
                [policy |-> [MCPolicy EXCEPT !.exclude = {{f3}}, !.languages["go"] = "on", !.syntax = FALSE, !.waivers = {}], tree |-> MCTree]}
MCVariants ==
    [rules |-> {House \ {Cap(1)}, House \cup {OfType("forbidden_layer_direction")}, (House \ {Cap(1)}) \cup {Cap(0)},
                (House \ {OfType("module_cycle")}) \cup {[OfType("module_cycle") EXCEPT !.gate = "warn"]},
                House \cup {Denied({m1}, {m2}), Denied({m2}, {m3})}},
     waivers |-> {{}, {[rule |-> Anything, expired |-> TRUE]}, {[rule |-> Anything, expired |-> FALSE]}},
     modules |-> {[MCPolicy.modules EXCEPT ![m2].dependsOn = x] : x \in {Anything, {{m1}}, {{m3}}}}
                 \cup {[MCPolicy.modules EXCEPT ![m2].paths = All(d2) \cup All(d1), ![m2].layer = "low"],
                       [m \in {m1, m3} |-> MCPolicy.modules[m]]},
     layers |-> {<<"top", "low">>},
     metrics |-> {[x \in {"cycle"} |-> g] : g \in {[gate |-> "warn", tolerance |-> 0], [gate |-> "", tolerance |-> 2]}},
     exclude |-> {{}, {{f1}}},
     languages |-> {[l \in PolicyLangs |-> IF l = "go" THEN "auto" ELSE "off"], [l \in PolicyLangs |-> "on"]},
     syntax |-> BOOLEAN]
MCLangOf == [f \in SourceFiles |-> IF f = f3 THEN "go" ELSE "ts"]
MCRoughness == [l \in PolicyLangs |-> IF l = "go" THEN "degraded" ELSE "unresolved"]
MCMeasures == [x \in {"cycle"} |-> 1]

(* Ratchets: two modules that come to use each other's internals, with a third *)
(* one; a strict policy, one with gates off, and one that rates more seams.     *)
Dep(a, b, s, v, ruled) ==
    [from |-> a, to |-> b, strength |-> s, volatility |-> v, far |-> TRUE, ruled |-> ruled]
MCRelations ==
    {Dep(m1, m2, "contract", "low", FALSE), Dep(m1, m2, "intrusive", "high", TRUE),
     Dep(m2, m1, "intrusive", "unknown", TRUE), Dep(m1, m3, "functional", "high", FALSE)}
MCScans == {[seen |-> 0, applicable |-> 0], [seen |-> 1, applicable |-> 2], [seen |-> 2, applicable |-> 2]}
StrictGates ==
    [classes |-> 1, off |-> {}, gate |-> [m \in RatchetNames |-> ""], maxNew |-> 0, seamMode |-> "fail",
     maxSeams |-> 0, seams |-> {r \in MCRelations : r.strength = "intrusive" /\ r.volatility = "high"}]
MCPolicies ==
    {StrictGates,
     [StrictGates EXCEPT !.off = {"encapsulation"}, !.seamMode = "warn",
                    !.gate = [m \in RatchetNames |-> IF m = "cycle" THEN "warn" ELSE "off"]],
     [StrictGates EXCEPT !.classes = 2, !.maxNew = 1, !.maxSeams = 1,
                    !.seams = {r \in MCRelations : r.strength = "intrusive"}]}

(* RuleScopes: two Go modules, Rust crates and what is inside them, a module  *)
(* that mixes Go files with a crate, Python files of one name beside a        *)
(* directory the walk skips, what a config cuts away, and C#.                 *)
GlobOf(F, N, L) == [files |-> F, nodes |-> N, langs |-> L, form |-> "plain", crate |-> NoCrate, segment |-> "src"]
OwnedBy(G) == [globs |-> G, layer |-> 0, dependsOn |-> NoSide, visibleTo |-> NoSide]
BanOf(id, g, h) == [id |-> id, type |-> "forbidden_dependency", gate |-> "fail", guard |-> FALSE, from |-> g, to |-> h,
                  fromModule |-> NoSide, toModule |-> NoSide]
RuleTyped(t) == [BanOf(t, NoGlob, NoGlob) EXCEPT !.type = t]
BetweenSides(id, A, B) == [BanOf(id, NoGlob, NoGlob) EXCEPT !.fromModule = A, !.toModule = B]
WideRules == {RuleTyped(t) : t \in {"forbidden_layer_direction", "module_cycle", "cycle", "module_dependencies",
                 "public_api_max", "public_api_type_leak"}}
PathGlob(f, n) == GlobOf({f}, {n}, {"go", "typescript", "dotnet"})

\* Go in two modules, a test directory, a C# file, an unread language.
TwoModules == [lang |-> (f1 :> "go") @@ (f2 :> "go") @@ (f3 :> "dotnet"), node |-> (f1 :> "a") @@ (f2 :> "b") @@ (f3 :> f3),
  segment |-> (f1 :> "src") @@ (f2 :> "src") @@ (f3 :> "src"), dir |-> (f1 :> "a") @@ (f2 :> "b") @@ (f3 :> "a"),
  member |-> {f1, f2, f3}, walked |-> {f1, f2, f3}, off |-> {}, excluded |-> {}, inside |-> <<>>, production |-> {f1, f2, f3},
  committed |-> {f1, f2}, uses |-> {<<f1, "b">>, <<f2, "a">>, <<f3, "b">>},
  modules |-> (m1 :> [OwnedBy({PathGlob(f1, "a"), PathGlob(f3, f3)}) EXCEPT !.layer = 1, !.dependsOn = {}]) @@ (m2 :> [OwnedBy({PathGlob(f2, "b")}) EXCEPT !.visibleTo = {m1}]),
  rules |-> WideRules \cup {BanOf("ab", PathGlob(f1, "a"), PathGlob(f2, "b")), [BanOf("any", NoGlob, PathGlob(f2, "b")) EXCEPT !.gate = "warn"],
     [BanOf("dead", PathGlob("none", "none"), PathGlob(f2, "b")) EXCEPT !.guard = TRUE], BanOf("gone", PathGlob("none", "none"), NoGlob),
     [BanOf("gonewarn", PathGlob("none", "none"), NoGlob) EXCEPT !.gate = "warn"],
     BetweenSides("mm", {m1}, {m2}), BetweenSides("m", {m2}, NoSide)}]
PythonGlob(f, n) == GlobOf({f}, {n}, {"python"})
CrateGlob(f, k) == [GlobOf({f}, {k}, {"rust", "python"}) EXCEPT !.segment = k]
InsideGlob(k, N) == [GlobOf({}, N, {"rust"}) EXCEPT !.crate = k, !.segment = k]
RustTree == [TwoModules EXCEPT !.lang = (f1 :> "rust") @@ (f2 :> "rust") @@ (f3 :> "python"),
  !.node = (f1 :> "k") @@ (f2 :> "l") @@ (f3 :> "p.q"), !.segment = (f1 :> "src") @@ (f2 :> "src") @@ (f3 :> "src"),
  !.inside = ("k" :> {"k::x", "k::y"}), !.uses = {<<f1, "l">>, <<f3, "p.r">>},
  !.modules = (m1 :> OwnedBy({CrateGlob(f1, "k")})) @@ (m2 :> OwnedBy({GlobOf({}, {"l"}, {"rust","python"})})),
  !.rules = WideRules \cup {BanOf("kl", CrateGlob(f1, "k"), GlobOf({}, {"l"}, {"rust", "python"})), BanOf("x", InsideGlob("k", {"k::x"}), NoGlob),
     BanOf("py", GlobOf({}, {"p.q"}, {"python", "rust"}), GlobOf({}, {"p.r"}, {"python", "rust"})), BetweenSides("mm", {m1}, {m2})}]
MixedTree == [RustTree EXCEPT !.lang[f3] = "go", !.node[f3] = "a", !.committed = {f1, f2, f3}, !.uses = {<<f2, "k">>, <<f3, "b">>},
  !.modules = (m1 :> OwnedBy({CrateGlob(f1, "k")})) @@ (m2 :> OwnedBy({PathGlob(f3, "a"), GlobOf({}, {"l"}, {"rust"})})),
  !.rules = WideRules \cup {BetweenSides("mm", {m2}, {m1})}]
\* Two Python files of one name, a TypeScript file, one of no language, a directory the walk skips.
OddTree == [TwoModules EXCEPT !.lang = (f1 :> "python") @@ (f2 :> "python") @@ (f3 :> "typescript") @@ (a1 :> "yaml"),
  !.node = (f1 :> "p.q") @@ (f2 :> "p.q") @@ (f3 :> f3) @@ (a1 :> a1),
  !.segment = [f \in {f1, f2, f3, a1} |-> "src"], !.dir = [f \in {f1, f2, f3, a1} |-> "a"],
  !.member = {f1, f3}, !.walked = {f1, f2, a1}, !.production = {f1, f2, f3}, !.uses = {<<f1, "p.r">>, <<f3, f1>>},
  !.modules = (m1 :> [OwnedBy({PythonGlob(f1, "p.q")}) EXCEPT !.dependsOn = {}]) @@ (m2 :> OwnedBy({PathGlob(a1, a1), PathGlob(f3, f3)})),
  !.rules = WideRules \cup {BanOf("py", GlobOf({}, {"p.q"}, {"python"}), PythonGlob(f1, "p.r")), BanOf("ts", PathGlob(f3, f3), NoGlob),
     [BanOf("pat", PathGlob(f1, "p.q"), NoGlob) EXCEPT !.type = "forbidden_pattern"],
     BanOf("yaml", PathGlob(a1, a1), NoGlob), BanOf("toyaml", NoGlob, [PathGlob(a1, a1) EXCEPT !.form = "unsupported"]),
     BanOf("kinded", [PathGlob(f1, "p.q") EXCEPT !.form = "kinded"], NoGlob), BanOf("std", NoGlob, [PathGlob("none", "none") EXCEPT !.form = "stdlib"])}]
\* A language switched off and a directory declared out of scope.
CutTree == [TwoModules EXCEPT !.off = {"dotnet"}, !.excluded = {f2}, !.committed = {f1}]
SharpTree == [TwoModules EXCEPT !.lang[f1] = "dotnet", !.lang[f2] = "dotnet", !.node[f1] = f1, !.node[f2] = f2, !.uses = {<<f1, f2>>},
  !.modules = (m1 :> [OwnedBy({PathGlob(f1, f1)}) EXCEPT !.layer = 1, !.dependsOn = {}]) @@ (m2 :> OwnedBy({PathGlob(f2, f2)})),
  !.rules = WideRules \cup {BetweenSides("mm", {m1}, {m2})}]
MCRepos == {TwoModules, RustTree, MixedTree, OddTree, CutTree, SharpTree}

(* SuppliedCoverage: three source files, one of them in no module and not     *)
(* there at first; test jobs of every format write one of two artifacts.       *)
Listed(r, units, hit) == [raw |-> r, units |-> units, hit |-> hit, by |-> 1]
Job(to, format, records) ==
    [to |-> to, format |-> format, records |-> records, broken |-> FALSE, large |-> FALSE,
     summaryDiffers |-> FALSE, beside |-> "all", ref |-> "head"]
BothLines == {1, 2}
Covers == Job("a1", "lcov", {Listed("r1", BothLines, {1}), Listed("r1", BothLines, {2}), Listed("r2", BothLines, {})})
GoCovers == Job("a1", "go-coverprofile", {Listed("r1", {1}, {1}), Listed("r1", {2}, {})})
\* Two test binaries list the block that is hit.
GoCoversTwice == Job("a2", "go-coverprofile",
    {Listed("r2", {1}, {1}), [Listed("r2", {1}, {1}) EXCEPT !.by = 2], Listed("r2", {2}, {})})
PyCovers == Job("a2", "coverage-py-json", {Listed("r1", BothLines, {1}), Listed("r2", BothLines, BothLines)})
MCJobs ==
    {Covers, [Covers EXCEPT !.summaryDiffers = TRUE, !.beside = "part"], [Covers EXCEPT !.format = "cobertura"],
     Job("a2", "cobertura", {Listed("r1", BothLines, {2}), Listed("r2", BothLines, {2}), Listed("r3", {1}, {1})}),
     GoCovers, GoCoversTwice, Job("a2", "go-coverprofile", {Listed("r1", {1}, {}), Listed("r1", {2}, {2}), Listed("r2", {1, 2}, {1, 2})}),
     Job("a2", "llvm-cov-json", {Listed("r2", BothLines, {1}), Listed("r2", {1}, {1})}),
     [PyCovers EXCEPT !.large = TRUE], [PyCovers EXCEPT !.beside = "invalid"], [PyCovers EXCEPT !.broken = TRUE]}
MCCandidates == ("r1" :> <<f3, f1>>) @@ ("r2" :> <<f2>>) @@ ("r3" :> <<Outside>>)
MCUnitsOf == [f \in CoveredFiles |-> BothLines]
MCClassOf == [f \in CoveredFiles |-> "production"]
MCOwnerOf == (f1 :> m1) @@ (f2 :> m2) @@ (f3 :> Ownerless)
MCArtifacts == <<[path |-> "a1", format |-> "auto", extension |-> "none"],
                 [path |-> "a2", format |-> "auto", extension |-> "none"]>>
MCSourceTrees == {[f \in CoveredFiles |-> IF f = f3 THEN Deleted ELSE 1]}

(* Operations: two modules; owners in the config, in one or two CODEOWNERS    *)
(* files, in one that names nobody's files, or nowhere; histories of people    *)
(* with two addresses, one without an "@", and a file with one.               *)
Person(email, name) == [email |-> email, name |-> name]
Push(a, files) == [author |-> a, files |-> files]
OwnLine(segments, directory, anchored, owner) ==
    [segments |-> segments, directory |-> directory, anchored |-> anchored, owner |-> owner]
Manifest(dir, by, unit) == [dir |-> dir, source |-> by, unit |-> unit]
MCSegments == ("a/x" :> <<"a", "x">>) @@ ("a/y" :> <<"a", "y">>) @@ ("b/z" :> <<"b", "z">>)
MCRank == ("E1" :> 0) @@ ("d3" :> 1) @@ ("e1" :> 2) @@ ("e2" :> 3) @@ ("icon@2x" :> 4) @@ ("o1" :> 5) @@ ("o2" :> 6)
MCLower == "E1" :> "e1"
MCAt == {"e1", "E1", "e2", "d3", "icon@2x"}
Tops == {"a", "b", "c"}
ByGit ==
    [owner |-> (m1 :> "") @@ (m2 :> "o2"), unit |-> (m1 :> "a") @@ (m2 :> ""),
     moduleOf |-> ("a/x" :> m1) @@ ("a/y" :> m1) @@ ("b/z" :> m2), codeowners |-> <<>>,
     dirs |-> <<"a", "b", "c">>, dirModule |-> ("a" :> m1) @@ ("b" :> m2) @@ ("c" :> Wherever),
     roots |-> {"a"}, memberOf |-> [d \in Tops |-> "a"], members |-> {"a"},
     manifests |-> {Manifest("a", "go_main", "a"), Manifest("b", "go_main", "b"), Manifest("b", "dockerfile", "b")},
     pushes |-> {Push(Person("e1", "n1"), <<"a/x">>), Push(Person("E1", "n2"), <<"a/x">>),
                 Push(Person("e2", "n2"), <<"b/z">>), Push(Person("e2", "n2"), <<"a/x", "a/y">>),
                 Push(Person("d3", "n3"), <<"a/x", "a/y">>), Push(Person("d3", "n3"), <<>>)}]
ByLine ==
    [ByGit EXCEPT !.pushes = {Push(Person("e1", "n1"), <<"a/x">>)},
                  !.codeowners = "root" :> <<OwnLine(<<"a">>, TRUE, FALSE, "o1"), OwnLine(<<"x">>, FALSE, FALSE, "o2")>>]
MCGrounds ==
    {ByGit,
     [ByGit EXCEPT !.pushes = {Push(Person("none", "n1"), <<"a/y">>), Push(Person("e1", "n1"), <<"icon@2x", "a/x">>),
                               Push(Person("e2", "n2"), <<"a/x">>)}],
     ByLine,
     [ByLine EXCEPT !.codeowners = ("docs" :> ByLine.codeowners["root"]) @@ ("root" :> <<OwnLine(<<"no">>, FALSE, TRUE, "o1")>>)],
     [ByLine EXCEPT !.codeowners = "docs" :> <<OwnLine(<<"a", AnyName>>, FALSE, FALSE, "o1")>>,
                    !.manifests = {Manifest(d, "workspace", d) : d \in {"a", "b"}}, !.members = {}],
     [ByLine EXCEPT !.owner = (m1 :> "o1") @@ (m2 :> "o2")],
     [ByLine EXCEPT !.owner = <<>>, !.unit = <<>>, !.moduleOf = <<>>, !.dirModule = [d \in Tops |-> Wherever]]}

(* Claims: a ring, a chain that ends in a cycle, a code base of three         *)
(* languages with edges out of the map, one without code and one without      *)
(* modules.                                                                  *)
Needing(i, a, b, tool, s) == [id |-> i, from |-> a, to |-> b, tool |-> tool, strength |-> s, doubtful |-> FALSE]
Threefold ==
    [homes |-> (d1 :> m1) @@ (d2 :> m2) @@ (d3 :> m3) @@ (f1 :> Unmapped),
     volatility |-> (m1 :> "high") @@ (m2 :> "low") @@ (m3 :> "medium"),
     cohesive |-> {m1}, production |-> {d1, d2}, metrics |-> ClaimMetrics, rules |-> {"r"}, active |-> {"r"},
     history |-> "ok", tools |-> {"go/packages", "dependency-cruiser", "dotnet-msbuild", "roslyn"},
     uses |-> {Needing(1, d1, d2, "go/packages", "contract"), Needing(2, d2, d3, "go/packages", "functional"),
               Needing(3, d2, d1, "dependency-cruiser", "intrusive"), Needing(4, d3, Outside, "dependency-cruiser", "unknown"),
               Needing(5, d3, f1, "roslyn", "contract"), Needing(6, d3, d1, "roslyn", "unknown")}]
Circle ==
    [Threefold EXCEPT !.tools = {"cargo", "cargo-modules"}, !.cohesive = {},
       !.volatility = (m1 :> "frozen") @@ (m2 :> "undeclared") @@ (m3 :> "low"),
       !.uses = {Needing(1, d1, d2, "cargo", "model"), Needing(2, d2, d3, "cargo", "contract"), Needing(3, d3, d1, "cargo", "symmetric"),
                 Needing(4, d1, d3, "cargo-modules", "contract"), Needing(5, d2, d1, "cargo-modules", "functional")}]
Stairs ==
    [Circle EXCEPT !.homes = Threefold.homes @@ (f2 :> "m4"),
       !.volatility = (m1 :> "medium") @@ (m2 :> "low") @@ (m3 :> "low") @@ ("m4" :> "low"),
       !.uses = {Needing(1, d1, d2, "cargo", "contract"), Needing(2, d2, d3, "cargo", "contract"), Needing(3, d3, d2, "cargo", "contract"),
                 Needing(4, d3, f2, "cargo", "contract"), [Needing(5, d1, f2, "cargo", "model") EXCEPT !.doubtful = TRUE]}]
MCCodeTrees ==
    {Threefold, Circle, Stairs, [Threefold EXCEPT !.tools = {}, !.uses = {}, !.active = {}],
     [Threefold EXCEPT !.volatility = <<>>, !.homes = [n \in DOMAIN Threefold.homes |-> Unmapped], !.cohesive = {},
                       !.rules = {}, !.active = {}, !.metrics = {}]}

(* ScopeGuard: a branch of main, one behind it, two default branches, a clone *)
(* that shares no history with its target, no default at all, a target        *)
(* without a config, a config of another repository, an orphan branch, two      *)
(* branches that each merged the other, and no commit yet.                     *)
Policy(c, b) == [p \in PolicyPaths |-> IF p = "config" THEN c ELSE IF p = "baseline" THEN b ELSE Missing]
Rev(parents, c, b, wrote) == [parents |-> parents, tree |-> Policy(c, b), wrote |-> wrote]
Refs(f) == [n \in BranchNames |-> IF n \in DOMAIN f THEN f[n] ELSE Missing]
Cloned(cs, local, remote, default) ==
    [commits |-> cs, local |-> Refs(local), remote |-> Refs(remote), originHead |-> default, on |-> "dev", tracked |-> TRUE]
First(c) == Rev({}, c, Missing, {"config"})
Forked == Cloned(<<First("c1"), Rev({1}, "c1", Missing, {})>>, "dev" :> 2, "main" :> 1, "main")
\* Commits 2 and 3 are merged on main (4) and on dev (5), a person settles the
\* config each way, and main alone drops its baseline again.
Crossed ==
    Cloned(<<First("c2"), Rev({1}, "c1", "b1", {"config", "baseline"}), Rev({1}, Missing, Missing, {"config"}),
             Rev({2, 3}, "c1", "b1", {"config"}), Rev({2, 3}, Missing, "b1", {"config"}), Rev({4}, "c1", Missing, {"baseline"})>>,
           "dev" :> 5, "main" :> 6, "main")
MCClones ==
    {Forked, Crossed, [Forked EXCEPT !.tracked = FALSE],
     Cloned(<<First("c2"), Rev({1}, "c2", "b1", {"baseline"})>>, "dev" :> 1, ("main" :> 2) @@ ("dev" :> 1) @@ ("master" :> 1), ""),
     Cloned(<<First("c1"), Rev({}, "c1", "b1", {"config", "baseline"})>>, "dev" :> 1, "main" :> 2, "main"),
     Cloned(<<First("c2")>>, "dev" :> 1, <<>>, ""),
     Cloned(<<Rev({}, Missing, Missing, {}), Rev({1}, "c1", Missing, {"config"})>>, "dev" :> 2, "main" :> 1, "main"),
     Cloned(<<First("c2")>>, <<>>, "main" :> 1, "main"),
     Unborn}
MCDeclares == ("c1" :> "") @@ ("c2" :> "dev")

(* SymbolIndex: Cargo workspaces whose packages and crates are told apart,    *)
(* share a crate, share names, swap them or bear the name of another's crate;  *)
(* trees of two languages.                                                    *)
Ref(from, to, strength) ==
    [from |-> from, to |-> to, strength |-> strength, data |-> IF strength = 1 THEN 1 ELSE 0,
     kinds |-> IF strength = 1 THEN {"type"} ELSE {"name"}]
AtRoot(crate) == <<crate, FALSE>>
InCrate(crate) == <<crate, TRUE>>
Cargo(name1, targets1, name2, targets2) ==
    {[id |-> 1, name |-> name1, targets |-> targets1], [id |-> 2, name |-> name2, targets |-> targets2]}
TwoLangs(manifests, named) ==
    [manifests |-> manifests, named |-> named, packages |-> {}, refs |-> {Ref(AtRoot("a"), AtRoot("b"), 3)}]
MCIndexed ==
    {[manifests |-> {"rust"}, named |-> {}, packages |-> w, refs |-> es] :
       w \in {Cargo("a", {"a", "c"}, "b", {"b"}), Cargo("a", {"a", "c"}, "b", {"b", "c"}),
              Cargo("a", {"c"}, "b", {"a", "b"}), Cargo("a", {"a", "c"}, "a", {"b"}),
              Cargo("a", {"a", "c"}, "b", {"b"}) \cup {[id |-> 3, name |-> "c", targets |-> {"d"}]}},
       es \in {{Ref(InCrate("a"), AtRoot("b"), 1), Ref(InCrate("c"), AtRoot("b"), 4), Ref(AtRoot("a"), AtRoot("b"), 4),
                Ref(InCrate("b"), InCrate("c"), 3)}}}
    \cup {[manifests |-> {"rust"}, named |-> {}, packages |-> {}, refs |-> {}],
          TwoLangs({"python", "typescript"}, {"typescript"}), TwoLangs({"python", "typescript"}, {"python", "typescript"}),
          TwoLangs({"go", "typescript"}, {"go", "typescript"})}

(* AgentResult: a forbidden dependency that also misses the public surface, a   *)
(* crate that needs an owner's decision, a seam, an unowned directory and a    *)
(* group of advisories, over a tree that is listed or not.                     *)
FileA == <<<<"p", "">>, <<"a", "go">>>>
FileB == <<<<"q", "">>, <<"b", "go">>>>
FileC == <<<<"q", "">>, <<"c", "go">>>>
RustFile == <<<<"x", "">>, <<"src", "">>, <<"m", "rs">>>>
PythonFile == <<<<"src", "">>, <<"y", "">>, <<"n", "py">>>>
GoneFile == <<<<"p", "">>, <<"gone", "go">>>>
OutsideFile == <<Escaping, <<"z", "go">>>>
DirP == <<Directory("p")>>
DirQ == <<Directory("q")>>
RustModule == <<Directory("x"), Directory("m")>>
DottedName == <<Directory("y"), Directory("n")>>
PathNode(p) == [as |-> "path", at |-> p]
ModuleNode(m) == [as |-> "module", at |-> <<Directory(m)>>]
MCOrder ==
    (FileA :> 1) @@ (FileB :> 2) @@ (FileC :> 3) @@ (RustFile :> 4) @@ (PythonFile :> 5) @@ (GoneFile :> 6)
      @@ (DirP :> 7) @@ (DirQ :> 8) @@ (OutsideFile :> 9) @@ (RustModule :> 10) @@ (DottedName :> 11)
TreeSeen(known) ==
    [files |-> IF known THEN {FileA, FileB, FileC, RustFile, PythonFile} ELSE {}, ondisk |-> {}, known |-> known,
     crates |-> "x" :> <<Directory("x")>>, roots |-> "m1" :> DirP, declares |-> {FileA}, order |-> MCOrder]
Forbidden ==
    [id |-> 1, gate |-> TRUE, status |-> "new", rule |-> "forbidden_dependency", kind |-> "import",
     from |-> PathNode(DirP), to |-> PathNode(DirQ), fromModule |-> "m1", toModule |-> "m2", module |-> "",
     subject |-> Nothing, sites |-> {FileA, GoneFile}, seam |-> {}, origin |-> "unknown", severity |-> 4, goal |-> 5, members |-> 1]
FoundInTree ==
    <<Forbidden,
      [Forbidden EXCEPT !.id = 2, !.rule = "public_api_only", !.sites = {FileA}, !.severity = 2],
      [Forbidden EXCEPT !.id = 3, !.rule = "new_cross_module_dependency", !.from = [as |-> "crate", at |-> RustModule],
                        !.to = [as |-> "dotted", at |-> DottedName], !.sites = {RustFile}, !.goal = 1],
      [Forbidden EXCEPT !.id = 4, !.rule = SeamGate, !.kind = "seam", !.from = ModuleNode("m1"), !.to = ModuleNode("m2"),
                        !.sites = {}, !.seam = {FileB, FileC}, !.severity = 3, !.status = "expired_waiver"],
      [Forbidden EXCEPT !.id = 5, !.rule = Uncovered, !.kind = "", !.from = Nothing, !.to = Nothing, !.module = "m1",
                        !.sites = {OutsideFile}, !.severity = 1],
      [Forbidden EXCEPT !.id = 6, !.gate = FALSE, !.members = 2, !.sites = {FileA, FileB, FileC}],
      [Forbidden EXCEPT !.id = 7, !.gate = FALSE, !.rule = "uncovered_change", !.from = PathNode(OutsideFile), !.to = Nothing, !.kind = "",
                        !.sites = {}]>>
AllEvidence == [rules |-> <<>>, gaps |-> {}, scope |-> "none", under |-> 0]
Unread(n, why) == [id |-> n, why |-> why, text |-> 3]
Contexts ==
    {AllEvidence, [AllEvidence EXCEPT !.gaps = {[tool |-> "t", gate |-> "fail"]}],
     [AllEvidence EXCEPT !.rules = <<Unread(1, "uncovered"), Unread(2, "dead_selector"), Unread(3, "lost")>>,
                          !.scope = "policy_changed", !.under = 3],
     [AllEvidence EXCEPT !.scope = "policy_stale", !.under = 1], [AllEvidence EXCEPT !.scope = "unresolved"],
     [AllEvidence EXCEPT !.rules = <<Unread(1, "lost")>>, !.gaps = {[tool |-> "t", gate |-> "warn"]}]}
Assessed(S, origin, context, known, told) ==
    [findings |-> {[FoundInTree[n] EXCEPT !.origin = IF n \in DOMAIN origin THEN origin[n] ELSE @] : n \in S},
     rules |-> context.rules, gaps |-> context.gaps, scope |-> context.scope, under |-> context.under, tree |-> TreeSeen(known),
     public |-> {"m2"}, seamReason |-> told, blocked |-> told]
MCAssessments ==
    {Assessed(c[1], c[2], c[3], c[4], c[5]) :
       c \in ({{}, {6, 7}, {1, 6}, {3, 5}, {4}, {4, 5}} \X {[n \in 1..3 |-> o] : o \in {"introduced", "pre_existing"}}
               \X Contexts \X BOOLEAN \X BOOLEAN)
         \cup ({{1, 2}, {1, 3, 6}, {1, 2, 3, 4, 5}} \X [1..3 -> {"introduced", "pre_existing", "unknown"}]
               \X Contexts \X {TRUE} \X {FALSE})}
=============================================================================
