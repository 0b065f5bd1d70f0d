----------------------------- MODULE PolicyChange -----------------------------
(***************************************************************************)
(* `config compare`: a candidate config beside the one in force.  The edit   *)
(* is read as a change of policy, and both are measured on one source tree.  *)
(*                                                                         *)
(* A glob is the set of files it matches, and an entry of an allowlist the   *)
(* set of modules it selects.  What a policy reports is what Rules finds in  *)
(* the files the policy lets it read.                                       *)
(***************************************************************************)
EXTENDS Rules

CONSTANTS
    PolicyLangs,
    LangOf,     \* the language of each file
    Roughness,  \* what a language's analyzer may leave unresolved: a partial status
    ExplicitGates,   \* the languages whose coverage gate is explicit
    Measures,   \* the worsening of each metric since the reference
    Proposals,  \* the configs to start from, each with a tree
    Variants,   \* the values a person may give each part of a candidate
    MaxRevised, \* bound: the parts of a candidate that change
    Anything, NotSet, NoProposal, NotMeasured

\* A policy, part by part; a rule or a metric without a gate has the default one.
PolicyGates == {"", "fail", "warn", "off"}
IsRule(r) ==
    /\ r = [id |-> r.id, type |-> r.type, gate |-> r.gate, from |-> r.from, to |-> r.to,
            fromModules |-> r.fromModules, toModules |-> r.toModules, max |-> r.max, patterns |-> r.patterns]
    /\ r.type \in RuleTypes /\ r.gate \in PolicyGates
    /\ r.type = "public_api_max" => r.max \in Int
Lists(list) == list = Anything \/ UNION list \subseteq Modules
IsModule(m) ==
    /\ IsFiniteSet(m.paths) /\ \A g \in m.paths : g.places \subseteq Places /\ g.rank \in Nat
    /\ Lists(m.dependsOn) /\ Lists(m.visibleTo)
IsPart(part, v) ==
    /\ part = "rules" => \A r \in v : IsRule(r)
    /\ part = "waivers" => \A w \in v : w.expired \in BOOLEAN
    /\ part = "modules" => DOMAIN v \subseteq Modules /\ \A m \in DOMAIN v : IsModule(v[m])
    /\ part = "metrics" => v \in [DOMAIN Measures -> [gate : PolicyGates, tolerance : Int]]
    /\ part = "exclude" => UNION v \subseteq SourceFiles
    /\ part = "languages" => v \in [PolicyLangs -> {"on", "off", "auto"}]
    /\ part = "syntax" => v \in BOOLEAN
PolicyParts == {"rules", "waivers", "modules", "layers", "metrics", "exclude", "languages", "syntax"}
IsPolicy(p) == DOMAIN p = PolicyParts /\ \A part \in PolicyParts : IsPart(part, p[part])

ASSUME PolicyAssumption ==
    /\ LangOf \in [SourceFiles -> PolicyLangs] /\ "syntax" \notin PolicyLangs
    /\ Roughness \in [PolicyLangs -> {"degraded", "unresolved"}] /\ Measures \in [DOMAIN Measures -> Int]
    /\ \A p \in Proposals : IsPolicy(p.policy) /\ SourceTree(p.tree)
    /\ \A part \in DOMAIN Variants : \A v \in Variants[part] : IsPart(part, v)

VARIABLES
    current, candidate, \* the config in force, and the edited one
    source,             \* the tree both are measured on
    measured            \* what each side's run saw

policyVars == <<current, candidate, source, measured>>

-----------------------------------------------------------------------------
(* What a policy reports *)

Scanned(p) ==
    {f \in DOMAIN source : f \notin UNION p.exclude /\ p.languages[LangOf[f]] # "off"}

\* The files a run reads, without the imports of those its analyzer lost.  What
\* a file declares comes from the syntax analyzer.
ReadUnder(p, lost) ==
    [f \in Scanned(p) |->
       [source[f] EXCEPT !.uses = IF f \in lost THEN <<>> ELSE @,
                         !.exports = IF p.syntax THEN @ ELSE {},
                         !.leaks = IF p.syntax THEN @ ELSE {},
                         !.matches = IF p.syntax THEN @ ELSE {}]]

\* A layer counts from the lowest of the declared order.
LayerRank(layers, layer) == IF \E i \in DOMAIN layers : layers[i] = layer
                       THEN CHOOSE i \in DOMAIN layers : layers[i] = layer ELSE 0
Admits(list, all) == IF list = Anything THEN all ELSE UNION list
PolicyOf(p) ==
    LET Of(m, field, none) == IF m \in DOMAIN p.modules THEN p.modules[m][field] ELSE none
    IN  [rules |-> p.rules,
         globs |-> [m \in Modules |-> Of(m, "paths", {})],
         public |-> [m \in Modules |-> Of(m, "public", {})],
         internal |-> [m \in Modules |-> Of(m, "internal", {})],
         layer |-> [m \in Modules |-> LayerRank(p.layers, Of(m, "layer", NotSet))],
         dependsOn |-> [m \in Modules |-> Admits(Of(m, "dependsOn", Anything), Modules)],
         visibleTo |-> [m \in Modules |-> Admits(Of(m, "visibleTo", Anything), Modules \cup {Nobody})]]

Under(p, lost) == INSTANCE Rules WITH code <- PolicyOf(p), tree <- ReadUnder(p, lost), changes <- 0

\* A metric that worsened by more than its tolerance is a finding of its own.
Failing(gate) == IF gate = "" THEN "fail" ELSE gate
Tripped(p) ==
    {[id |-> m, key |-> "", cyclic |-> FALSE, gates |-> Failing(p.metrics[m].gate) = "fail"] :
       m \in {n \in DOMAIN Measures : /\ Failing(p.metrics[n].gate) # "off"
                                      /\ Measures[n] > p.metrics[n].tolerance}}

ReportedBy(p, lost) ==
    Tripped(p) \cup
    {[id |-> x.rule.id, key |-> x.key, cyclic |-> Cyclic(x), gates |-> x.gates] :
       x \in Under(p, lost)!Findings}

\* An expired waiver exempts nothing.
Exempt(p, x) == \E w \in p.waivers : w.rule \in {Anything, x.id} /\ ~w.expired
Blocking(p) == {x \in ReportedBy(p, {}) : x.gates /\ ~Exempt(p, x)}

-----------------------------------------------------------------------------
(* The edit as a change of policy *)

GateRank(gate) == CASE gate = "fail" -> 2 [] gate = "warn" -> 1 [] OTHER -> 0

Ids(rules) == {r.id : r \in rules}
WithId(rules, id) == {r \in rules : r.id = id}
RuleDeclaration(r) == [r EXCEPT !.gate = "", !.max = NotSet]

RuleLoosened(cur, cand) ==
    \/ GateRank(Gate(cand)) < GateRank(Gate(cur))
    \/ cur.max # cand.max /\ (NotSet \in {cur.max, cand.max} \/ cand.max > cur.max)
    \/ RuleDeclaration(cur) # RuleDeclaration(cand)
RuleTightened(cur, cand) ==
    \/ GateRank(Gate(cand)) > GateRank(Gate(cur))
    \/ NotSet \notin {cur.max, cand.max} /\ cand.max < cur.max

\* Rules are paired by ID; several under one ID are compared as a set, and any
\* difference between the sets counts as loosening.
Single(S) == Cardinality(S) = 1
RulesLoosened(a, b) ==
    \E id \in Ids(a.rules) \cap Ids(b.rules) :
      LET cur == WithId(a.rules, id)
          cand == WithId(b.rules, id)
      IN  IF Single(cur) /\ Single(cand) THEN \E q \in cur, r \in cand : RuleLoosened(q, r)
          ELSE cur # cand
RulesTightened(a, b) ==
    \E id \in Ids(a.rules) \cap Ids(b.rules) :
      LET cur == WithId(a.rules, id)
          cand == WithId(b.rules, id)
      IN  Single(cur) /\ Single(cand) /\ \E q \in cur, r \in cand : RuleTightened(q, r)

MetricLoosened(a, b) ==
    \E m \in DOMAIN Measures :
      \/ GateRank(Failing(b.metrics[m].gate)) < GateRank(Failing(a.metrics[m].gate))
      \/ b.metrics[m].tolerance > a.metrics[m].tolerance

\* A list admits more when it drops the constraint, or adds entries and keeps all.
AdmitsMoreBySize(from, to) ==
    IF to = Anything THEN from # Anything
    ELSE from # Anything /\ Cardinality(from) < Cardinality(to)
AdmitsMore(from, to) ==
    IF to = Anything THEN from # Anything ELSE from # Anything /\ from \subseteq to /\ from # to
InBoth(a, b) == DOMAIN a.modules \cap DOMAIN b.modules
Narrowed(a, b, m, field) == AdmitsMore(b.modules[m][field], a.modules[m][field])
Widened(a, b, m, field) ==
    a.modules[m][field] # b.modules[m][field] /\ ~Narrowed(a, b, m, field)

ModeRank(mode) == CASE mode = "off" -> 0 [] mode = "on" -> 2 [] OTHER -> 1
CoverageLost(a, b) ==
    \/ b.exclude \ a.exclude # {}
    \/ \E l \in PolicyLangs : ModeRank(b.languages[l]) < ModeRank(a.languages[l])
    \/ a.syntax /\ ~b.syntax
    \/ DOMAIN a.modules \ DOMAIN b.modules # {}
    \/ \E m \in InBoth(a, b) : a.modules[m].paths \ b.modules[m].paths # {}

\* What has no order, or claims more code: any change counts as loosening.
Surface(p, m) == <<p.modules[m].public, p.modules[m].internal, p.modules[m].layer>>
DeclarationsChanged(a, b) ==
    \/ a.layers # b.layers
    \/ DOMAIN b.modules \ DOMAIN a.modules # {}
    \/ \E m \in InBoth(a, b) :
         b.modules[m].paths \ a.modules[m].paths # {} \/ Surface(a, m) # Surface(b, m)

Loosens(a, b) ==
    \/ Ids(a.rules) \ Ids(b.rules) # {}
    \/ RulesLoosened(a, b)
    \/ MetricLoosened(a, b)
    \/ b.waivers \ a.waivers # {}
    \/ \E m \in InBoth(a, b), field \in {"dependsOn", "visibleTo"} : Widened(a, b, m, field)
    \/ CoverageLost(a, b)
    \/ DeclarationsChanged(a, b)

\* Gains mirror the losses, but for the declarations, which have none.
Tightens(a, b) ==
    \/ Ids(b.rules) \ Ids(a.rules) # {}
    \/ RulesTightened(a, b)
    \/ MetricLoosened(b, a)
    \/ a.waivers \ b.waivers # {}
    \/ \E m \in InBoth(a, b), field \in {"dependsOn", "visibleTo"} : Narrowed(a, b, m, field)
    \/ a.exclude \ b.exclude # {}
    \/ \E l \in PolicyLangs : ModeRank(b.languages[l]) > ModeRank(a.languages[l])
    \/ ~a.syntax /\ b.syntax

Direction(a, b) ==
    IF Loosens(a, b) THEN (IF Tightens(a, b) THEN "mixed" ELSE "loosening")
    ELSE IF Tightens(a, b) THEN "tightening" ELSE "none"

-----------------------------------------------------------------------------
(* Both configs measured *)

There(p, l) == \E f \in DOMAIN source : LangOf[f] = l /\ f \notin UNION p.exclude
LanguageRow(p, l, health) ==
    IF ~There(p, l) THEN "absent"
    ELSE IF p.languages[l] = "off" /\ l \notin ExplicitGates THEN "disabled"
    ELSE IF p.languages[l] = "off" THEN "absent" ELSE health
ProfileRows(p, health) ==
    [t \in PolicyLangs \cup {"syntax"} |->
       IF t = "syntax" THEN (IF p.syntax THEN "ok" ELSE "disabled") ELSE LanguageRow(p, t, health[t])]
GapFor(p, rows, l) == rows[l] = "absent" /\ (There(p, l) \/ l \in ExplicitGates)

\* An analyzer that completed lost nothing; what is degraded is only less precise.
Losable(p, health) ==
    {f \in Scanned(p) : health[LangOf[f]] \in {"unresolved", "stopped", "absent"}}

\* What the settings hash of a measurement profile covers.
Settings(p) == <<p.exclude, p.syntax, UNION {r.patterns : r \in p.rules}>>

Status(row) == IF row \in {"unresolved", "degraded"} THEN "partial" ELSE row
GradeTool(t, c, d, gapC, gapD) ==
    IF "stopped" \in {c, d} \/ Status(c) # Status(d) \/ (c = "absent" /\ gapC # gapD) THEN "not_comparable"
    ELSE IF c = "ok" \/ (c = "absent" /\ ~gapC) THEN "comparable" ELSE "comparable_with_gaps"

ToolGrades ==
    LET c == measured.current.rows
        d == measured.candidate.rows
        Gap(p, rows, t) == t \in PolicyLangs /\ GapFor(p, rows, t)
    IN  {GradeTool(t, c[t], d[t], Gap(current, c, t), Gap(candidate, d, t)) : t \in DOMAIN c}
\* The profiles agree when every producer came to the same, under the same settings.
ProfilesDiffer ==
    \/ "stopped" \in {measured[side].rows[t] : side \in DOMAIN measured, t \in PolicyLangs}
    \/ measured.current.rows # measured.candidate.rows
    \/ Settings(current) # Settings(candidate)
Comparability ==
    IF "not_comparable" \in ToolGrades \/ ProfilesDiffer THEN "not_comparable"
    ELSE IF "comparable_with_gaps" \in ToolGrades THEN "comparable_with_gaps" ELSE "comparable"

-----------------------------------------------------------------------------
(* A person edits the candidate, and compares *)

PolicyInit ==
    current = NoProposal /\ candidate = NoProposal /\ source = <<>> /\ measured = NotMeasured

Propose(p) ==
    /\ current = NoProposal
    /\ current' = p.policy /\ candidate' = p.policy /\ source' = p.tree
    /\ UNCHANGED measured

Revised == {part \in DOMAIN current : current[part] # candidate[part]}

Reword(part, value) ==
    /\ current # NoProposal /\ measured = NotMeasured
    /\ Cardinality(Revised \cup {part}) <= MaxRevised
    /\ part = "rules" => \A r \in value : ValidRule(r, value)
    /\ candidate' = [candidate EXCEPT ![part] = value]
    /\ UNCHANGED <<current, source, measured>>

\* What becomes of the analyzers in one run: at most one of them is in trouble (stopped
\* is failed or timed out), and it loses everything or nothing.
Healths ==
    UNION {{[k \in PolicyLangs |-> IF k = l THEN h ELSE "ok"]
              : h \in {"ok", Roughness[l], "stopped", "absent"}} : l \in PolicyLangs}
Outcomes(p) ==
    UNION {{[rows |-> ProfileRows(p, h), lost |-> L] : L \in {{}, Losable(p, h)}} : h \in Healths}

\* The two sides run one after the other, and an analyzer may fail under either.
Compare ==
    /\ current # NoProposal /\ measured = NotMeasured
    /\ \E c \in Outcomes(current), d \in Outcomes(candidate) :
         measured' = [current |-> c, candidate |-> d]
    /\ UNCHANGED <<current, candidate, source>>

PolicyNext ==
    \/ current = NoProposal /\ \E p \in Proposals : Propose(p)
    \/ /\ current # NoProposal /\ measured = NotMeasured
       /\ \E part \in DOMAIN Variants : \E value \in Variants[part] : Reword(part, value)
    \/ Compare

PolicySpec == PolicyInit /\ [][PolicyNext]_policyVars

-----------------------------------------------------------------------------
(* Properties *)

\* Every variable has its type.
PolicyTypeOK ==
    /\ current = NoProposal \/ \E p \in Proposals : current = p.policy /\ source = p.tree
    /\ candidate = NoProposal \/ \A part \in DOMAIN candidate :
         candidate[part] = current[part] \/ candidate[part] \in Variants[part]
    /\ measured # NotMeasured => \A side \in {"current", "candidate"} :
         /\ measured[side].rows \in [PolicyLangs \cup {"syntax"} -> {"ok", "degraded", "unresolved", "stopped", "absent", "disabled"}]
         /\ measured[side].lost \subseteq DOMAIN source

\* What one side reports and the other does not, but for a cycle that grew.
Same(x, y) ==
    /\ x.id = y.id
    /\ IF x.cyclic /\ y.cyclic THEN x.key[1] \subseteq y.key[1] ELSE x.key = y.key
Vanished(S, T) == {x \in S : ~\E y \in T : Same(x, y)}

\* An edit that is not called a loosening takes nothing away: with both configs
\* fully measured, what the current one reports the candidate still reports, and what
\* blocks still blocks (ComparePolicies: a missed loosening is the failure to avoid).
\* The configs are those from before the runs, and are looked at then.
NoMissedLoosening ==
    current # NoProposal /\ measured = NotMeasured /\ Direction(current, candidate) \in {"none", "tightening"} =>
      /\ Vanished(ReportedBy(current, {}), ReportedBy(candidate, {})) = {}
      /\ Vanished(Blocking(current), Blocking(candidate)) = {}

\* A finding that goes away between the two runs is explained: either the edit is
\* called a loosening, or the coverage is not called comparable (compareCoverage).
LossIsExplained ==
    measured # NotMeasured /\ Comparability = "comparable" /\
      Vanished(ReportedBy(current, measured.current.lost), ReportedBy(candidate, measured.candidate.lost)) # {} =>
        Direction(current, candidate) \in {"loosening", "mixed"}

\* What a comparison says of an edit can be relied on: nothing it does not call a
\* loosening takes a finding away, and nothing lost by an analyzer reads as gone.
ComparisonIsSafe == NoMissedLoosening /\ LossIsExplained
=============================================================================
