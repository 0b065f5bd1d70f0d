-------------------------------- MODULE Claims ---------------------------------
(***************************************************************************)
(* What a report may claim of a code base.  A run reads the dependencies its  *)
(* extractors find; from them it counts edges, scores the coupling, measures  *)
(* the graph of the modules, and says of each dimension whether it is         *)
(* measured, partial or unmeasured, which findings it holds, and whether its  *)
(* gate fails.                                                              *)
(*                                                                         *)
(* A node is a first-party file or package, or a library.  A finding names    *)
(* its rule; a ratchet's rule is the name of its metric.                      *)
(***************************************************************************)
EXTENDS Scoring, FiniteSets, FiniteSetsExt

CONSTANTS
    CodeTrees,   \* the code bases and policies to consider
    Unmapped,    \* the module of a node no declared module owns
    MaxTroubles, \* how many things may go wrong in a run
    NoCodeTree, NoRun

PrimaryTools == {"go/packages", "dependency-cruiser", "grimp", "cargo", "dotnet-msbuild"}
EdgeTools == PrimaryTools \cup {"cargo-modules", "roslyn"}
ClaimMetrics == {"cycle", "blast_radius", "encapsulation", "unbalanced_edge"}
Dimensions == {"intent", "structure", "modularity", "coupling", "change_locality", "complexity", "drift"}

IsTree(t) ==
    /\ t.homes \in [DOMAIN t.homes -> DOMAIN t.volatility \cup {Unmapped}]
    /\ t.production \subseteq DOMAIN t.homes /\ t.cohesive \subseteq DOMAIN t.volatility
    /\ \A e \in t.uses : e.from \in DOMAIN t.homes /\ e.tool \in t.tools /\ e.strength \in Strengths
    /\ t.tools \subseteq EdgeTools /\ ("roslyn" \in t.tools => "dotnet-msbuild" \in t.tools)
    /\ t.metrics \subseteq ClaimMetrics
    /\ t.active \subseteq t.rules
    /\ \A S \in {t.uses, DOMAIN t.volatility} : IsFiniteSet(S)

ASSUME ClaimsAssumption == MaxTroubles \in Nat /\ \A t \in CodeTrees : IsTree(t)

VARIABLES
    codetree, \* the code base
    reading   \* what the run got of it

claimVars == <<codetree, reading>>

ClaimsInit == codetree = NoCodeTree /\ reading = NoRun

Declared(t) == DOMAIN t.volatility
ReadOf(t, r) == t.uses \ r.lost

-----------------------------------------------------------------------------
(* Edges and the summary over them *)

HomeOf(t, n) == IF n \in DOMAIN t.homes THEN t.homes[n] ELSE Unmapped
InMap(t, e) == Unmapped \notin {HomeOf(t, e.from), HomeOf(t, e.to)}

Reach(t, e) ==
    IF ~InMap(t, e) THEN "unknown" ELSE IF HomeOf(t, e.from) = HomeOf(t, e.to) THEN "same" ELSE "module"
ChangeOf(t, e) ==
    LET at(n) == IF HomeOf(t, n) = Unmapped THEN "unknown" ELSE t.volatility[HomeOf(t, n)]
    IN  IF e.strength \in {"functional", "symmetric"} /\ InMap(t, e)
        THEN Worse(at(e.to), at(e.from)) ELSE at(e.to)
Classified(t, e) == Fact(e.id, e.strength, Reach(t, e), ChangeOf(t, e))

\* Edges that could be a seam: not inside a module, and not out of the map.
Crossing(t, S) == {e \in S : Reach(t, e) \notin {"same", "unknown"}}
Scored(t, S) == {e \in Crossing(t, S) : Classified(t, e).balance > 0}
Unscored(t, S) == Crossing(t, S) \ Scored(t, S)
Unrated(t, S) == {e \in Scored(t, S) : Classified(t, e).volatility \in {"undeclared", "unknown"}}
Monolith(t, S) ==
    {e \in Scored(t, S) : Qualifies(Classified(t, e), HomeOf(t, e.from) \in t.cohesive)}
InBands(t, S, bands) == {e \in Scored(t, S) : Band(Classified(t, e).balance) \in bands}
Local(t, S) == {HomeOf(t, e.from) : e \in {x \in S : Reach(t, x) = "same"}}

Internal(t, S) == {e \in S : InMap(t, e)}
\* A dependency on first-party code that the map leaves out, and on a library.
LeftOut(t, S) == {e \in S \ Internal(t, S) : e.to \in DOMAIN t.homes}
Libraries(t, S) == {e \in S \ Internal(t, S) : e.to \notin DOMAIN t.homes}
ConnectedHomes(t, S) == UNION {{HomeOf(t, e.from), HomeOf(t, e.to)} : e \in Crossing(t, S)}

-----------------------------------------------------------------------------
(* The graph of the declared modules *)

Needs(t, S) ==
    {<<HomeOf(t, e.from), HomeOf(t, e.to)>> : e \in {x \in Internal(t, S) : Reach(t, x) # "same"}}

\* The components of the graph, which the search pops from its stack.
Leads(G, M) ==
    LET f[k \in Nat] == IF k = 0 THEN G
                        ELSE f[k - 1] \cup {p \in M \X M : \E b \in M : <<p[1], b>> \in f[k - 1] /\ <<b, p[2]>> \in G}
    IN  f[Cardinality(M)]
Tangles(G, M) ==
    LET P == Leads(G, M)
    IN  {{n \in M : n = m \/ ({<<m, n>>, <<n, m>>} \subseteq P)} : m \in M}

\* Components with a chain of k more below them; each level is one more call of depth.
ChainDepth(G, M) ==
    LET C == Tangles(G, M)
        Above(c, d) == c # d /\ \E m \in c, n \in d : <<m, n>> \in G
        f[k \in Nat] == IF k = 0 THEN C ELSE {c \in C : \E d \in f[k - 1] : Above(c, d)}
    IN  Max({0} \cup {k \in 1..Cardinality(C) : f[k] # {}})

\* The value at the nearest rank of the ninetieth percentile.
NinetiethOf(M, value(_)) ==
    IF M = {} THEN 0
    ELSE CHOOSE v \in {value(m) : m \in M} :
           LET atMost(w) == 10 * Cardinality({m \in M : value(m) <= w}) >= 9 * Cardinality(M)
           IN  atMost(v) /\ \A w \in {value(m) : m \in M} : w < v => ~atMost(w)
FanIn(G, M) == NinetiethOf(M, LAMBDA m : Cardinality({n \in M : <<n, m>> \in G}))
FanOut(G, M) == NinetiethOf(M, LAMBDA m : Cardinality({n \in M : <<m, n>> \in G}))

-----------------------------------------------------------------------------
(* The inventory of the primary extractors *)

\* An absent row without a gap: the language was looked for and is not there.
AppliesByRow(r) == {p \in PrimaryTools : r.row[p] # "absent"}
Applies(r) == {p \in PrimaryTools : r.row[p] # "absent" \/ p \in r.gaps}
Completed(r) == {p \in Applies(r) : r.row[p] = "ok" /\ p \notin r.holes}
Complete(r) == Applies(r) # {} /\ Completed(r) = Applies(r)

\* More than a tenth of the specifiers of TypeScript went unresolved; any symbol of C#.
TSUnresolvedPartial(r) == r.coarse
RoslynIncomplete(r) == r.row["roslyn"] \in {"partial", "timed_out"}

-----------------------------------------------------------------------------
(* Dimensions *)

RequiredFacts(d) ==
    CASE d = "intent" -> {"inventory", "conformance"}
      [] d = "structure" -> {"inventory", "classification"}
      [] d = "modularity" -> {"inventory", "attribution", "shape"}
      [] d = "coupling" -> {"candidates", "strength", "distance", "volatility", "resolution"}
      [] d = "change_locality" -> {"sample", "attribution"}
      [] d = "complexity" -> {"graph", "depth", "fan in", "fan out"}
      [] d = "drift" -> {"reference", "identity"}

When(condition, facts) == IF condition THEN facts ELSE {}

IntentFacts(t, r) ==
    When(t.rules # {} \/ Declared(t) # {},
         {"inventory"} \cup When(t.active # {} /\ r.unevaluated = {}, {"conformance"}))
\* Every edge inside the map has modules at both ends, so its classification is whole.
StructureFacts(t, r) ==
    When(Applies(r) # {},
         When(Complete(r), {"inventory"})
         \cup When(Completed(r) # {} /\ "cycle" \in t.metrics, {"classification"}))
\* Every first-party node is looked up in the map, so its attribution is whole.
ModularityFacts(t, r) ==
    When(Declared(t) # {},
         {"inventory"} \cup
         When(Complete(r),
              {"attribution"} \cup When({"blast_radius", "encapsulation"} \subseteq t.metrics, {"shape"})))
CouplingFacts(t, r) ==
    LET S == ReadOf(t, r) IN
    When(Crossing(t, S) # {},
         {"candidates"}
         \cup When(Unscored(t, S) = {}, {"strength", "distance"})
         \cup When(Unrated(t, S) = {}, {"volatility"})
         \cup When(~TSUnresolvedPartial(r) /\ ~RoslynIncomplete(r), {"resolution"}))
ChangeLocalityFacts(r) ==
    When(r.history \in {"partial", "ok"}, {"sample"} \cup When(r.history = "ok", {"attribution"}))
ComplexityFacts(t, r) ==
    When(\E n \in t.production : t.homes[n] # Unmapped,
         {"graph"} \cup When(Complete(r), {"depth", "fan in", "fan out"}))
DriftFacts(r) == When(r.comparable, {"reference", "identity"})

Observed(d, t, r) ==
    CASE d = "intent" -> IntentFacts(t, r)
      [] d = "structure" -> StructureFacts(t, r)
      [] d = "modularity" -> ModularityFacts(t, r)
      [] d = "coupling" -> CouplingFacts(t, r)
      [] d = "change_locality" -> ChangeLocalityFacts(r)
      [] d = "complexity" -> ComplexityFacts(t, r)
      [] d = "drift" -> DriftFacts(r)

Inapplicable(d, t, r) ==
    CASE d = "intent" -> When(t.active = {} /\ (t.rules # {} \/ Declared(t) # {}), {"conformance"})
      [] d = "modularity" -> When(Applies(r) = {} /\ Declared(t) # {}, {"attribution", "shape"})
      [] OTHER -> {}

Promote(d, observed, inapplicable) ==
    CASE RequiredFacts(d) \subseteq observed \cup inapplicable -> "measured"
      [] ~(RequiredFacts(d) \subseteq observed \cup inapplicable) ->
           IF observed # {} THEN "partial" ELSE "unmeasured"
StatusOf(d, t, r) == Promote(d, Observed(d, t, r), Inapplicable(d, t, r))

Reports(t, r, name) ==
    CASE name = "cycle" -> Applies(r) # {}
      [] name \in {"blast_radius", "encapsulation"} -> Declared(t) # {}
      [] name = "unbalanced_edge" -> Crossing(t, ReadOf(t, r)) # {}
ShownBy(name) ==
    CASE name = "cycle" -> "structure"
      [] name \in {"blast_radius", "encapsulation"} -> "modularity"
      [] name = "unbalanced_edge" -> "coupling"

\* A ratchet goes to the dimension that shows its metric, any other finding by its rule.
OwnerOfRule(t, r, rule) ==
    CASE rule \in ClaimMetrics -> IF rule \in t.metrics /\ Reports(t, r, rule) THEN ShownBy(rule) ELSE "intent"
      [] rule \in {"coupling_gate", "imbalanced", "duplicated_knowledge", "stale_label"} -> "coupling"
      [] rule \in {"forbidden_dependency", "forbidden_layer_direction", "cycles", "module_cycle",
                   "module_dependencies", "new_cross_module_dependency"} -> "structure"
      [] rule \in {"public_api_only", "public_api_max", "public_api_change", "public_api_type_leak",
                   "internal_api_access", "forbidden_pattern"} -> "modularity"
      [] OTHER -> "intent"

Active(r) == {f \in r.findings : f.status \in {"new", "expired_waiver"}}
Blockers(r) == {f \in Active(r) : f.kind = "gate"}
HeldBy(d, t, r) == {f \in Active(r) : OwnerOfRule(t, r, f.rule) = d}

GateFor(d, t, r) ==
    CASE \E f \in HeldBy(d, t, r) : f.kind = "gate" -> "fail"
      [] ~(\E f \in HeldBy(d, t, r) : f.kind = "gate") ->
           IF StatusOf(d, t, r) = "unmeasured" THEN "not_applicable"
           ELSE IF HeldBy(d, t, r) # {} THEN "warn" ELSE "pass"

-----------------------------------------------------------------------------
(* The score of the coupling *)

Balances(t, S) == MapThenSumSet(LAMBDA e : Classified(t, e).balance, Scored(t, S))

\* The mean balance, 1 to 10, on a scale of 0 to 100, rounded.
RawValue(t, S) ==
    LET n == Cardinality(Scored(t, S)) IN (200 * (Balances(t, S) - n) + 9 * n) \div (18 * n)

AtMost(limit, v) == IF v > limit THEN limit ELSE v
CoversOneIn(part, whole, percent) == 100 * Cardinality(part) >= percent * Cardinality(whole)

\* Many edges of a distributed monolith cap the value hard, one critical edge less.
Capped(t, S) ==
    CASE CoversOneIn(Monolith(t, S), Crossing(t, S), 5) -> AtMost(40, RawValue(t, S))
      [] ~CoversOneIn(Monolith(t, S), Crossing(t, S), 5) ->
           IF InBands(t, S, {"critical"}) # {} THEN AtMost(60, RawValue(t, S)) ELSE RawValue(t, S)

Lower(c) == IF c = "high" THEN "medium" ELSE "low"
FromShare(t, S) ==
    CASE CoversOneIn(Scored(t, S), Crossing(t, S), 80) -> "high"
      [] ~CoversOneIn(Scored(t, S), Crossing(t, S), 80) ->
           IF CoversOneIn(Scored(t, S), Crossing(t, S), 50) THEN "medium" ELSE "low"
SmallSample(t, S) == Cardinality(Scored(t, S)) < 5 \/ Cardinality(ConnectedHomes(t, S)) < 3

\* An answer of a model nobody is sure of lowers the confidence by one.
Trust(t, S) ==
    LET doubtful == \E e \in Crossing(t, S) : e.doubtful
        c == IF doubtful THEN Lower(FromShare(t, S)) ELSE FromShare(t, S)
    IN  IF SmallSample(t, S) /\ c = "high" THEN "medium" ELSE c

CargoModulesPartial(r) == r.row["cargo-modules"] = "partial"
NoScore == [value |-> 0, confidence |-> "low", rated |-> FALSE]
Synthesize(t, r) ==
    LET S == ReadOf(t, r)
        c == Trust(t, S)
        short == CargoModulesPartial(r) \/ TSUnresolvedPartial(r) \/ RoslynIncomplete(r)
    IN  IF Scored(t, S) = {} THEN NoScore
        ELSE [value |-> IF c = "low" THEN AtMost(60, Capped(t, S)) ELSE Capped(t, S),
              confidence |-> IF short /\ c = "high" THEN "medium" ELSE c,
              rated |-> TRUE]

-----------------------------------------------------------------------------
(* Runs *)

OpenTree(t) ==
    /\ codetree = NoCodeTree /\ codetree' = t
    /\ reading' = [row |-> [p \in EdgeTools |-> IF p \in t.tools THEN "ok" ELSE "absent"],
                   gaps |-> {}, holes |-> {}, lost |-> {}, coarse |-> FALSE,
                   unevaluated |-> {}, history |-> t.history, comparable |-> TRUE, findings |-> {}]

Troubled(r) == {p \in EdgeTools : r.row[p] \notin {"ok", "absent"} \/ p \in r.gaps}
Troubles(r) ==
    Cardinality(Troubled(r)) + Cardinality(r.unevaluated) + Cardinality(r.findings)
    + (IF r.history # codetree.history THEN 1 ELSE 0) + (IF r.comparable THEN 0 ELSE 1)
MayFail == Troubles(reading) < MaxTroubles \* bound: what goes wrong in a run

UsesOf(p) == {e \in codetree.uses : e.tool = p}

\* A tool that is missing leaves a gap; files of a C# project are pinned to its gaps.
ToolFails(p, s, gone) ==
    /\ UNCHANGED codetree /\ reading.row[p] = "ok"
    /\ s # "partial" => gone = UsesOf(p)
    /\ \E c \in (IF p = "dependency-cruiser" /\ s = "partial" THEN BOOLEAN ELSE {reading.coarse}) :
         reading' = [reading EXCEPT !.row[p] = s, !.gaps = @ \cup {p}, !.lost = @ \cup gone, !.coarse = c,
                                    !.holes = IF p = "roslyn" THEN @ \cup {"dotnet-msbuild"} ELSE @]

RuleUndecided(r) ==
    /\ UNCHANGED codetree /\ r \in codetree.active
    /\ reading' = [reading EXCEPT !.unevaluated = @ \cup {r}]
HistoryEnds(s) ==
    /\ UNCHANGED codetree /\ reading.history = "ok" /\ reading' = [reading EXCEPT !.history = s]
ReferenceDiffers ==
    /\ UNCHANGED codetree /\ reading.comparable /\ reading' = [reading EXCEPT !.comparable = FALSE]
Finds(f) ==
    /\ UNCHANGED codetree /\ reading' = [reading EXCEPT !.findings = @ \cup {f}]

RuleNames == {"imbalanced", "cycles", "public_api_max", "cycle", "unbalanced_edge", "custom"}
FoundFindings ==
    [rule : RuleNames, kind : {"gate", "advisory"}, status : {"new", "existing"}]

ClaimsNext ==
    \/ \E t \in CodeTrees : OpenTree(t)
    \/ /\ codetree # NoCodeTree /\ MayFail
       /\ \/ \E p \in EdgeTools, s \in {"partial", "timed_out", "absent"} :
               \E gone \in SUBSET UsesOf(p) : ToolFails(p, s, gone)
          \/ \E r \in codetree.active : RuleUndecided(r)
          \/ \E s \in {"none", "partial"} : HistoryEnds(s)
          \/ ReferenceDiffers
          \/ \E f \in FoundFindings : Finds(f)

ClaimsSpec == ClaimsInit /\ [][ClaimsNext]_claimVars

-----------------------------------------------------------------------------
(* Properties *)

\* Every variable has its type; a row that is not ok is named by a gap or a status, and
\* what completed read all it had.
ClaimsTypeOK ==
    /\ (codetree # NoCodeTree => codetree \in CodeTrees)
    /\ (codetree = NoCodeTree) = (reading = NoRun)
    /\ codetree # NoCodeTree =>
         /\ reading.row \in [EdgeTools -> {"ok", "absent", "partial", "timed_out"}]
         /\ reading.lost \subseteq codetree.uses /\ reading.gaps \subseteq codetree.tools
         /\ \A e \in reading.lost : e.tool \in reading.gaps
         /\ reading.unevaluated \subseteq codetree.active /\ reading.findings \subseteq FoundFindings

\* Status, figures and score are the same whatever the findings, and are checked without.
BeforeJudging == codetree # NoCodeTree /\ reading.findings = {}

\* The same run, had nothing gone wrong.
Unhindered(t, r) ==
    [r EXCEPT !.row = [p \in EdgeTools |-> IF p \in t.tools THEN "ok" ELSE "absent"],
              !.gaps = {}, !.holes = {}, !.lost = {}, !.coarse = FALSE,
              !.unevaluated = {}, !.history = t.history, !.comparable = TRUE]

StatusRank(s) == CASE s = "unmeasured" -> 0 [] s = "partial" -> 1 [] s = "measured" -> 2

Figures(d, t, r) ==
    LET S == ReadOf(t, r) IN
    CASE d = "structure" ->
           <<Cardinality(Internal(t, S)), Cardinality(LeftOut(t, S)), Cardinality(Libraries(t, S))>>
      [] d = "modularity" -> Local(t, S)
      [] d = "coupling" ->
           <<Cardinality(Scored(t, S)), Cardinality(Unscored(t, S)), Cardinality(Monolith(t, S)),
             Cardinality(InBands(t, S, {"high", "critical"}))>>
      [] d = "complexity" ->
           LET G == Needs(t, S) IN <<ChainDepth(G, Declared(t)), FanIn(G, Declared(t)), FanOut(G, Declared(t))>>
      [] OTHER -> <<>>

\* What a dimension looks at when something is lost.  The inventory is that of the primary
\* extractors, so a crate whose module graph failed goes unseen; the coupling looks only at
\* the resolution of TypeScript and of C#.
Watches(d, r, e) ==
    IF d = "coupling"
    THEN \/ e.tool = "dependency-cruiser" /\ TSUnresolvedPartial(r)
         \/ e.tool = "roslyn" /\ RoslynIncomplete(r)
    ELSE e.tool # "cargo-modules"

\* Missing evidence is never a measurement: where a dimension watches for what was lost, a
\* run claims no more than it would have claimed with everything read, and the figures of
\* a measured dimension are those of the whole code base, as a definition of longest
\* chains and fans over all pairs gives them (Promote, primaryDependencyInventory, the
\* builders of dimensions.go, moduleGraphComplexity).
ClaimIsWhole ==
    BeforeJudging =>
      \A w \in {Unhindered(codetree, reading)} : \A d \in Dimensions :
        (\A e \in reading.lost : Watches(d, reading, e)) =>
          /\ StatusRank(StatusOf(d, codetree, reading)) <= StatusRank(StatusOf(d, codetree, w))
          /\ StatusOf(d, codetree, reading) = "measured" =>
               Figures(d, codetree, reading) = Figures(d, codetree, w)

\* The depth reported is that of the longest chain of modules each of which leads to the
\* next and not back, counted without the search, the memo and the components.
DepthIsLongest ==
    BeforeJudging =>
      LET M == Declared(codetree)
          G == Needs(codetree, ReadOf(codetree, reading))
          closed == {X \in SUBSET M : \A p \in G : p[1] \in X => p[2] \in X}
          LeadsTo(m, n) == \A X \in closed : m \in X => n \in X
          chains == {X \in SUBSET M : \A m, n \in X : m # n => (LeadsTo(m, n) # LeadsTo(n, m))}
      IN  ChainDepth(G, M) = Max({0} \cup {Cardinality(X) - 1 : X \in chains})

\* A dependency that gets stronger, or whose target changes more often, never raises the
\* score, whatever caps, shares and rounding lie between (couplingBalance).  Intrusive for
\* functional or symmetric is the exception the formula makes: only the target's change
\* counts then.
Stronger(s) ==
    CASE s = "contract" -> {"model", "functional", "symmetric", "intrusive"}
      [] s = "model" -> {"functional", "symmetric", "intrusive"}
      [] s = "functional" -> {"symmetric"}
      [] OTHER -> {}
Worsened(t) ==
    UNION {{[t EXCEPT !.uses = (@ \ {e}) \cup {[e EXCEPT !.strength = s]}] : s \in Stronger(e.strength)} : e \in t.uses}
    \cup {[t EXCEPT !.volatility[p[1]] = p[2]] :
            p \in {q \in Declared(t) \X (Volatilities \ {"unknown"}) : Rank(q[2]) > Rank(t.volatility[q[1]])}}
WorseScoresNoBetter ==
    BeforeJudging /\ reading.lost = {} =>
      \A t \in Worsened(codetree) : Synthesize(t, reading).value <= Synthesize(codetree, reading).value

\* A finding blocks a run exactly when some dimension shows a failed gate, whether
\* or not the dimension is measured (buildState, gateFor, routeRatchets).
BlockersFailGates ==
    codetree # NoCodeTree =>
      (Blockers(reading) # {}) = (\E d \in Dimensions : GateFor(d, codetree, reading) = "fail")

ClaimsAreEarned == ClaimIsWhole /\ DepthIsLongest /\ WorseScoresNoBetter /\ BlockersFailGates
=============================================================================
