---------------------------- MODULE AgentResult -----------------------------
(***************************************************************************)
(* What a check tells a coding agent: a task for every blocking finding, with *)
(* the files to open, the tasks of one dependency joined to a repair, the     *)
(* repairs of this change put first, and the whole cut to a byte budget, one  *)
(* entry at a time, without a word of what was dropped going missing.        *)
(***************************************************************************)
EXTENDS Integers, FiniteSets, Sequences, SequencesExt, Lists

CONSTANTS
    Assessments, \* what an assessment found, and the tree it was of
    TextLimit, TightLimit, TightList, \* bounds of a text, and of a list over budget
    ByteBudget,  \* the most a result may take
    AdvisoryCap, \* files of an advisory task
    NoResult

(* A path is a sequence of <<name, extension>>; what a finding names is a     *)
(* path, a crate with a module path, a dotted Python module, or a declared    *)
(* module, which is no path.                                                  *)
Nothing == [as |-> "none", at |-> <<>>]
Directory(name) == <<name, "">>
Escaping == Directory("..")
IsNode(end) == end.as \in {"path", "crate", "dotted"}

VARIABLES
    assessment, \* [findings, rules, gaps, tree, public, scope, under, seamReason, blocked]
    digest      \* [pc, result, full]: the result, before and while it is cut

resultVars == <<assessment, digest>>

ResultInit ==
    /\ assessment = NoResult
    /\ digest = [pc |-> "tasks", tasks |-> {}, result |-> NoResult, full |-> NoResult]

Assess(a) ==
    /\ assessment = NoResult
    /\ assessment' = a
    /\ UNCHANGED digest

-----------------------------------------------------------------------------
(* Paths an agent may open *)

IsWithin(d, p) == Len(d) < Len(p) /\ SubSeq(p, 1, Len(d)) = d
escapesScanRoot(p) == p # <<>> /\ p[1] = Escaping

\* A file of the scan, a directory above one, or a file that is on disk.
OnTree(tree, p) ==
    /\ ~escapesScanRoot(p)
    /\ p \in tree.files \cup tree.ondisk \/ \E f \in tree.files : IsWithin(p, f)

\* The paths a name may stand for, in the order they are tried.
CrateDirs(dir) == (IF dir # <<>> THEN <<dir>> ELSE <<>>) \o <<dir \o <<Directory("src")>>>>
TriesOf(tree, node) ==
    LET dirs == tree.crates
        p == node.at
        stem == p[Len(p)][1]
        above == SubSeq(p, 1, Len(p) - 1)
        with(ext) == above \o <<<<stem, ext>>>>
        inner == dirs[p[1][1]] \o <<Directory("src")>> \o Tail(above)
        modules(root) == <<root \o with("py"), root \o with("pyi"), root \o p \o <<<<"__init__", "py">>>>>>
    IN  IF node.as = "dotted" THEN modules(<<>>) \o modules(<<Directory("src")>>) \o <<p>>
        ELSE IF node.as = "path" \/ p[1][1] \notin DOMAIN dirs THEN <<p>>
        ELSE IF Len(p) = 1 THEN <<p>> \o CrateDirs(dirs[p[1][1]])
        ELSE <<inner \o <<<<stem, "rs">>>>, inner \o <<<<stem, "">>, <<"mod", "rs">>>>>> \o CrateDirs(dirs[p[1][1]])

\* The first that exists; without a list of files, the name itself.
ResolvedTo(tree, node) ==
    IF ~IsNode(node) \/ escapesScanRoot(node.at) THEN {}
    ELSE IF ~tree.known THEN {node.at}
    ELSE LET tries == TriesOf(tree, node)
             there == {n \in DOMAIN tries : OnTree(tree, tries[n])}
         IN  {tries[n] : n \in {k \in there : \A l \in there : k <= l}}
ResolvedPath(tree, p) == ResolvedTo(tree, [as |-> "path", at |-> p])

-----------------------------------------------------------------------------
(* Tasks: agenttask.Build *)

ForbidsTarget == {"forbidden_dependency", "forbidden_layer_direction", "cycle", "module_cycle",
                  "module_dependencies", "new_cross_module_dependency"}
SeamGate == "coupling_gate"
Uncovered == "uncovered_path"

IsActive(f) == f.status \in {"new", "expired_waiver"}
repairKind(f) == IF f.rule \in {"new_cross_module_dependency", Uncovered} THEN "needs_owner_decision" ELSE "code_change"

\* The rule's own constraints, and the target's public surface unless the rule
\* forbids every way to the target.
constraintsFor(public, f) ==
    {<<"rule", f.rule>>} \cup (IF f.rule \notin ForbidsTarget /\ f.toModule \in public
                               THEN {<<"public", f.toModule>>} ELSE {})

\* Import sites and both ends; a module that is no file stands aside for its
\* files, and the root of its code stands in when nothing else is there.
rootFallbackModules(f) ==
    IF f.module # "" THEN <<f.module>>
    ELSE IF f.rule = SeamGate \/ f.kind = "module_dependency" THEN <<f.fromModule, f.toModule>> ELSE <<>>
siteFiles(tree, f) == UNION {ResolvedPath(tree, s) : s \in f.sites}
endFiles(tree, f) ==
    UNION {ResolvedTo(tree, e) : e \in {x \in {f.from, f.to} : ~(f.subject = x /\ siteFiles(tree, f) # {})}}
seamFiles(tree, f) == UNION {ResolvedPath(tree, p) : p \in IF f.rule = SeamGate THEN f.seam ELSE {}}
rootFiles(tree, f) ==
    LET modules == rootFallbackModules(f)
        rooted == {n \in DOMAIN modules : /\ modules[n] \in DOMAIN tree.roots /\ tree.roots[modules[n]] # <<>>
                                        /\ ResolvedPath(tree, tree.roots[modules[n]]) # {}}
    IN  UNION {ResolvedPath(tree, tree.roots[modules[n]]) : n \in {k \in rooted : \A l \in rooted : k <= l}}
filesFor(tree, f) ==
    LET found == siteFiles(tree, f) \cup endFiles(tree, f) \cup seamFiles(tree, f)
    IN  IF found # {} THEN found ELSE rootFiles(tree, f)

\* The declarations of the task's files, unless the finding is about modules.
declarationsFor(tree, f) ==
    IF f.rule \in {SeamGate, "module_cycle", "module_dependencies"} \/ f.kind = "module_dependency" THEN {}
    ELSE tree.declares \cap filesFor(tree, f)

TaskOf(a, f) == [finding |-> f, kind |-> repairKind(f), files |-> filesFor(a.tree, f),
                 constraints |-> constraintsFor(a.public, f), declares |-> declarationsFor(a.tree, f)]
ToBlock(a) == {f \in a.findings : f.gate /\ IsActive(f)}
TasksOf(a) == {TaskOf(a, f) : f \in ToBlock(a)}

BuildTasks ==
    /\ assessment # NoResult /\ digest.pc = "tasks"
    /\ digest' = [digest EXCEPT !.pc = "result",
                    !.tasks = TasksOf(assessment)]
    /\ UNCHANGED assessment

\* A task for a group of advisories, which never joins the tasks above: its
\* import sites, or else both ends, up to the cap.
namedFiles(f) == IF f.sites # {} THEN f.sites ELSE {e.at : e \in {x \in {f.from, f.to} : IsNode(x)}}
NamesBefore(order, ps, p) == {q \in ps : order[q] < order[p]}
AdvisoryTasks(a) ==
    {[id |-> f.id, files |-> {p \in namedFiles(f) : Cardinality(NamesBefore(a.tree.order, namedFiles(f), p)) < AdvisoryCap}] :
       f \in {g \in a.findings : ~g.gate /\ g.members > 1}}

\* What an assessment is: findings apart by their id, each of which names paths that
\* have a place in the order of names.
IsAssessment(a) ==
    /\ IsFiniteSet(a.findings) /\ \A f, g \in a.findings : f.id = g.id => f = g
    /\ \A f \in a.findings :
         /\ f.id \in Int /\ f.severity \in Int /\ f.goal \in Nat
         /\ filesFor(a.tree, f) \cup f.sites \cup namedFiles(f) \subseteq DOMAIN a.tree.order
    /\ IsFiniteSet(DOMAIN a.tree.order)
    /\ \A p, q \in DOMAIN a.tree.order : a.tree.order[p] \in Int /\ (a.tree.order[p] = a.tree.order[q] => p = q)
    /\ a.rules \in Seq([id : Nat, why : {"uncovered", "dead_selector", "unmeasured", "lost"}, text : Nat]) /\ IsFiniteSet(a.gaps) /\ a.under \in Nat
    /\ a.scope \in {"none", "unresolved", "policy_changed", "policy_stale"}

ASSUME AgentResultAssumption ==
    /\ TextLimit \in Nat /\ TightLimit \in 1..TextLimit /\ TightList \in Nat \ {0}
    /\ ByteBudget \in Nat /\ AdvisoryCap \in Nat \ {0}
    /\ \A a \in Assessments : IsAssessment(a)

-----------------------------------------------------------------------------
(* Repairs: agentout.Build *)

mergeOrigins(os) ==
    IF Cardinality(os) = 1 THEN CHOOSE o \in os : TRUE
    ELSE IF "introduced" \in os THEN "introduced" ELSE "unknown"

\* Two tasks are one repair when their findings name one dependency.
isDependency(f) == f.from # Nothing /\ f.to # Nothing /\ f.from # f.to /\ f.kind # ""
SameRepair(t, u) ==
    \/ t = u
    \/ /\ isDependency(t.finding) /\ isDependency(u.finding)
       /\ t.finding.from = u.finding.from /\ t.finding.to = u.finding.to /\ t.finding.kind = u.finding.kind

\* A node whose name is that of a file: it is a path, or no file is known.
NamesFile(tree, x) == IsNode(x) /\ (x.as = "path" \/ (x.as = "crate" /\ Len(x.at) = 1) \/ ~tree.known)

\* The files on the source side of the edge; both sides when there is no edge of nodes.
editFiles(tree, ts) ==
    LET files == UNION {t.files : t \in ts}
        sources == UNION {t.finding.sites \cup {e.at : e \in {x \in {t.finding.from} : NamesFile(tree, x)}} : t \in ts}
        nodeEdge == \E t \in ts : IsNode(t.finding.from) \/ IsNode(t.finding.to)
    IN  IF nodeEdge THEN files \cap sources ELSE files

\* Each place holds the path with as many before it.
InOrder(order, ps) ==
    [n \in 1..Cardinality(ps) |-> CHOOSE p \in ps : Cardinality(NamesBefore(order, ps, p)) = n - 1]
OriginOf(ts) == mergeOrigins({t.finding.origin : t \in ts})
LeastId(ids) == CHOOSE i \in ids : \A j \in ids : i <= j
buildRepair(tree, ts) ==
    LET code == {t \in ts : t.kind = "code_change"}
        goal == CHOOSE t \in (IF code # {} THEN code ELSE ts) :
                  \A u \in (IF code # {} THEN code ELSE ts) : t.finding.id <= u.finding.id
    IN  [ids |-> {t.finding.id : t \in ts}, kind |-> IF code # {} THEN "code_change" ELSE "needs_owner_decision",
         inScope |-> OriginOf(ts) # "pre_existing",
         severity |-> CHOOSE s \in {t.finding.severity : t \in ts} : \A t \in ts : t.finding.severity <= s,
         goal |-> goal.finding.goal, at |-> Cardinality(UNION {t.finding.sites : t \in ts}),
         edit |-> InOrder(tree.order, editFiles(tree, ts)), constraints |-> Cardinality(UNION {t.constraints : t \in ts}),
         atOmitted |-> 0, editOmitted |-> 0, constraintsOmitted |-> 0]

\* A variant of the code, for TLC: what to do first need not be first.
repairLessBySeverity(a, b) ==
    IF a.inScope # b.inScope THEN a.inScope
    ELSE IF a.severity # b.severity THEN a.severity > b.severity
    ELSE LeastId(a.ids) < LeastId(b.ids)

\* In scope first, then code changes, then the worse, then the lower identity.
repairLess(a, b) ==
    IF a.inScope # b.inScope THEN a.inScope
    ELSE IF a.kind # b.kind THEN a.kind = "code_change"
    ELSE IF a.severity # b.severity THEN a.severity > b.severity
    ELSE LeastId(a.ids) < LeastId(b.ids)
buildRepairs(a, tasks) == {buildRepair(a.tree, {u \in tasks : SameRepair(t, u)}) : t \in tasks}
Ahead(rs, r) == {s \in rs : repairLess(s, r)}
Ranked(rs) == [n \in 1..Cardinality(rs) |-> CHOOSE r \in rs : Cardinality(Ahead(rs, r)) = n - 1]

\* What the change is, and what to do first.
judge(blockers, gaps, rules) ==
    IF \E n \in DOMAIN blockers : blockers[n].kind = "code_change" THEN <<"fail", "repair">>
    ELSE IF blockers # <<>> THEN <<"fail", "ask_owner">>
    ELSE IF \E g \in gaps : g.gate = "fail" THEN <<"unknown", "restore_evidence">>
    ELSE IF \E n \in DOMAIN rules : rules[n].why = "uncovered" THEN <<"unknown", "ask_owner">>
    ELSE IF rules # <<>> THEN <<"unknown", "restore_evidence">>
    ELSE <<"pass", "none">>

\* Files no analysis covers, unless a rule that is not evaluated says so already.
uncoveredChangeNotice(a, rules) ==
    IF \E n \in DOMAIN rules : rules[n].why = "uncovered" THEN {}
    ELSE {f.id : f \in {g \in a.findings : g.rule = "uncovered_change" /\ g.status # "fixed"}}

\* A policy the branch edited, or the target since, takes the verdict away; a scope
\* that was not resolved takes a pass away. under: the blockers under the target's.
scopedVerdict(scope, verdict) ==
    IF scope = "policy_changed" THEN <<"unknown", "ask_owner">>
    ELSE IF scope = "policy_stale" \/ (scope = "unresolved" /\ verdict[1] = "pass") THEN <<"unknown", "restore_evidence">>
    ELSE verdict

NotMine == {"dead_selector", "unmeasured"}

\* What an owner should look at, that this change did not do.
attentionOf(a, existing, status) ==
    LET item(why, text) == [why |-> why, text |-> text]
        notMine == ItemsAt(a.rules, {n \in DOMAIN a.rules : a.rules[n].why \in NotMine})
    IN  [n \in DOMAIN notMine |-> item(notMine[n].why, notMine[n].text)]
          \o (IF a.seamReason THEN <<item("coupling_gate", TextLimit)>> ELSE <<>>)
          \o (IF existing # {} THEN <<item("existing_violation", 1)>> ELSE <<>>)
          \o (IF a.blocked /\ status = "pass" /\ existing = {} THEN <<item("blocked_without_finding", 1)>> ELSE <<>>)

BuildResult(a, tasks) ==
    LET repairs == buildRepairs(a, tasks)
        existing == {r \in repairs : ~r.inScope}
        blockers == Ranked(repairs \ existing)
        rules == ItemsAt(a.rules, {n \in DOMAIN a.rules : a.rules[n].why \notin NotMine})
        verdict == judge(blockers, a.gaps, rules)
        scoped == scopedVerdict(a.scope, verdict)
    IN  [blockers |-> blockers, existing |-> UNION {r.ids : r \in existing},
         rules |-> rules, gaps |-> a.gaps, attention |-> attentionOf(a, existing, verdict[1]),
         under |-> a.under, underOmitted |-> 0,
         status |-> scoped[1], next |-> scoped[2], notices |-> uncoveredChangeNotice(a, rules),
         omitted |-> [blockers |-> 0, rules |-> 0, attention |-> 0], truncated |-> FALSE,
         advisories |-> Cardinality({f \in a.findings : ~f.gate /\ IsActive(f)})]

-----------------------------------------------------------------------------
(* The budget *)

cutRunes(n, limit) == IF n <= limit THEN n ELSE limit
capList(n, limit) == IF n <= limit THEN n ELSE limit
CutOff(n, limit) == n - capList(n, limit)

boundRepair(r, text, list) ==
    LET goal == cutRunes(r.goal, text) IN
    IF list = 0 THEN [r EXCEPT !.goal = goal]
    ELSE [r EXCEPT !.goal = goal,
            !.at = capList(@, list), !.atOmitted = @ + CutOff(r.at, list),
            !.edit = SubSeq(@, 1, capList(Len(@), list)), !.editOmitted = @ + CutOff(Len(r.edit), list),
            !.constraints = capList(@, list), !.constraintsOmitted = @ + CutOff(r.constraints, list)]
boundTexts(items, text) == [n \in DOMAIN items |-> [items[n] EXCEPT !.text = cutRunes(@, text)]]
bound(r, text, list) ==
    LET b == [r EXCEPT !.blockers = [n \in DOMAIN @ |-> boundRepair(@[n], text, list)],
                       !.rules = boundTexts(@, text), !.attention = boundTexts(@, text)]
    IN  [b EXCEPT !.truncated = @ \/ b # r]

\* The size of the encoded result.
RepairSize(r) == 1 + Cardinality(r.ids) + r.goal + r.at + Len(r.edit) + r.constraints
ResultSize(r) ==
    LET sum(items, size(_)) == FoldLeft(LAMBDA n, x : n + size(x), 0, items)
    IN  Cardinality(r.gaps) + r.under + sum(r.blockers, RepairSize)
          + sum(r.rules, LAMBDA x : 1 + x.text) + sum(r.attention, LAMBDA x : 1 + x.text)

\* The last entry goes, and is counted: blockers down to one, the blockers under the
\* target's policy down to one, rules, attention.
DropLast(r) ==
    IF Len(r.blockers) > 1 THEN [r EXCEPT !.blockers = Front(@), !.omitted.blockers = @ + 1]
    ELSE IF r.under > 1 THEN [r EXCEPT !.under = @ - 1, !.underOmitted = @ + 1]
    ELSE IF r.rules # <<>> THEN [r EXCEPT !.rules = Front(@), !.omitted.rules = @ + 1]
    ELSE [r EXCEPT !.attention = Front(@), !.omitted.attention = @ + 1]
CanDrop(r) == Len(r.blockers) > 1 \/ r.under > 1 \/ r.rules # <<>> \/ r.attention # <<>>

AssembleResult ==
    /\ digest.pc = "result"
    /\ \E r \in {BuildResult(assessment, digest.tasks)} :
         LET cut == bound(r, TextLimit, 0) IN
         digest' = [digest EXCEPT !.full = r,
                      !.pc = IF ResultSize(cut) <= ByteBudget THEN "done" ELSE "fit",
                      !.result = IF ResultSize(cut) <= ByteBudget THEN cut
                                 ELSE [bound(cut, TightLimit, TightList) EXCEPT !.truncated = TRUE]]
    /\ UNCHANGED assessment

FitBudget ==
    /\ digest.pc = "fit"
    /\ digest' = IF ResultSize(digest.result) <= ByteBudget \/ ~CanDrop(digest.result)
                 THEN [digest EXCEPT !.pc = "done"]
                 ELSE [digest EXCEPT !.result = DropLast(@)]
    /\ UNCHANGED assessment

\* The same result as lines for a person, and as a hook's message, which drop no entry.
AsText(full) == bound(full, TextLimit, 0)
AsBrief(full) == bound(full, TightLimit, TightList)
Totals(a, r) == [new |-> Len(r.blockers), unknown |-> Len(r.rules) + Cardinality(r.gaps),
              accepted |-> Cardinality({f \in a.findings : f.status \in {"baseline", "waived"}})]

ResultNext == BuildTasks \/ AssembleResult \/ FitBudget \/ (assessment = NoResult /\ \E a \in Assessments : Assess(a))
ResultSpec == ResultInit /\ [][ResultNext]_resultVars

-----------------------------------------------------------------------------
\* Every variable has its type, and the result keeps within its lists.
ResultTypeOK ==
    /\ (assessment # NoResult => assessment.under \in Nat) /\ digest.pc \in {"tasks", "result", "fit", "done"}
    /\ digest.pc \in {"fit", "done"} =>
         /\ digest.result.status \in {"pass", "fail", "unknown"}
         /\ Len(digest.result.blockers) <= Len(digest.full.blockers)
         /\ digest.result.under <= digest.full.under

\* Every blocking finding is told once: in a repair shown, in one counted as left
\* out, or among those that were there before; and one that the change brought, or
\* may have, is never told as old (buildRepairs, mergeOrigins).
EveryFindingIsTold(a, full) ==
    /\ {f.id : f \in ToBlock(a)} = full.existing \cup UNION {full.blockers[n].ids : n \in DOMAIN full.blockers}
    /\ \A n \in DOMAIN full.blockers :
         /\ full.blockers[n].ids \cap full.existing = {}
         /\ \A k \in DOMAIN full.blockers \ {n} : full.blockers[n].ids \cap full.blockers[k].ids = {}
    /\ \A f \in ToBlock(a) : f.origin # "pre_existing" => f.id \notin full.existing
    /\ full.status = "pass" =>
         /\ a.scope = "none" /\ \A f \in ToBlock(a) : f.origin = "pre_existing"
         /\ \A f \in a.findings : f.rule = "uncovered_change" /\ f.status # "fixed" => f.id \in full.notices

\* What is left out is counted, is what was least urgent, and changes neither the
\* judgement nor what to do first; the first repair stays (fit).
CutsAreCounted(r, full) ==
    /\ Len(r.blockers) + r.omitted.blockers = Len(full.blockers)
    /\ Len(r.rules) + r.omitted.rules = Len(full.rules)
    /\ Len(r.attention) + r.omitted.attention = Len(full.attention)
    /\ r.under + r.underOmitted = full.under /\ r.gaps = full.gaps
    /\ \A n \in DOMAIN r.blockers :
         LET c == r.blockers[n]  b == full.blockers[n] IN
         /\ c.ids = b.ids /\ c.at + c.atOmitted = b.at /\ Len(c.edit) + c.editOmitted = Len(b.edit)
         /\ c.constraints + c.constraintsOmitted = b.constraints
    /\ r.status = full.status /\ r.next = full.next
    /\ r.status = "fail" => r.blockers # <<>>
    /\ r.next = "repair" => r.blockers[1].kind = "code_change"
    /\ r # full => r.truncated
    /\ ResultSize(r) <= ByteBudget \/ (Len(r.blockers) <= 1 /\ r.rules = <<>> /\ r.attention = <<>> /\ r.under <= 1)

\* The three forms of the result tell the same number of repairs and unknowns.
FormsAgree(a, r, full) ==
    /\ Totals(a, AsText(full)) = Totals(a, AsBrief(full))
    /\ Totals(a, AsText(full)).new = Len(r.blockers) + r.omitted.blockers
    /\ Totals(a, AsText(full)).unknown = Len(r.rules) + r.omitted.rules + Cardinality(r.gaps)

\* A file to open is in the tree, and no file of an import site is left out of
\* what to edit (PathResolver, filesFor, editFiles).
FilesAreThere(a, tasks, full) ==
    /\ \A t \in tasks :
         /\ a.tree.known => \A p \in t.files : OnTree(a.tree, p)
         /\ \A p \in t.files : ~escapesScanRoot(p)
         /\ \A n \in DOMAIN full.blockers :
              t.finding.id \in full.blockers[n].ids =>
                \A p \in t.finding.sites : OnTree(a.tree, p) => \E k \in DOMAIN full.blockers[n].edit : full.blockers[n].edit[k] = p
         /\ \A d \in AdvisoryTasks(a) : d.id # t.finding.id
    /\ \A d \in AdvisoryTasks(a) : Cardinality(d.files) <= AdvisoryCap

\* What a finished check tells an agent is honest (agenttask.Build, agentout.Build, fit).
ResultIsHonest ==
    digest.pc = "done" =>
        /\ EveryFindingIsTold(assessment, digest.full) /\ CutsAreCounted(digest.result, digest.full)
        /\ FormsAgree(assessment, digest.result, digest.full) /\ FilesAreThere(assessment, digest.tasks, digest.full)
=============================================================================
