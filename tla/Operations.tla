------------------------------- MODULE Operations -------------------------------
(***************************************************************************)
(* Who owns a module and where it is deployed.  Owners come from the config,  *)
(* from a CODEOWNERS file, or, when no such file has a rule, from the authors  *)
(* of the git history; deploy units come from five kinds of manifests.  The    *)
(* operations dimension is measured when every module has an owner somebody     *)
(* stated and a manifest of its own.                                          *)
(*                                                                         *)
(* A commit is an author, as .mailmap leaves it, and the files it              *)
(* touched.  The history grows commit by commit; every analysis meets git and    *)
(* the Go toolchain in some condition.                                        *)
(***************************************************************************)
EXTENDS Integers, Sequences, FiniteSets, SequencesExt

CONSTANTS
    Grounds,      \* what a repository may be: see GroundsAssumption
    SegmentsOf,   \* file |-> the segments of its path
    LowerOf,      \* email |-> its lower-case spelling
    RankOf,       \* emails and owners |-> their place in the alphabet
    AtNames,      \* what contains an "@": emails and, at times, a file
    HistoryCap,   \* maxCommitsGitAuthor
    MaxCommits,   \* bound on the history
    Wherever,     \* outside every module
    NoGround,
    AnyName       \* the segment * of a pattern

Locations == <<".github", "root", "docs">>
DetectorOrder == <<"go_main", "workspace", "pyproject", "dockerfile", "k8s_manifest">>
GitOutcomes == {"ok", "timeout", "failed"}
GoOutcomes == {"ok", "timeout", "failed"}

\* What is left out, or is not found.
Blank == ""

(* owner, unit: what a module declares, or Blank; moduleOf: the module of  *)
(* a file; codeowners: the rules of each file that is there; dirs: the          *)
(* directories with manifests, sorted, with their module, the roots of modules   *)
(* and the Go member each is in; pushes: what may be committed.                 *)
ASSUME GroundsAssumption ==
    NoGround \notin Grounds /\ \A g \in Grounds :
      /\ DOMAIN g.owner = DOMAIN g.unit
      /\ IsFiniteSet(DOMAIN g.moduleOf)
      /\ \A l \in DOMAIN g.codeowners :
           /\ l \in Range(Locations)
           /\ Len(g.codeowners[l]) \in Nat /\ DOMAIN g.codeowners[l] = 1..Len(g.codeowners[l])
           /\ \A r \in Range(g.codeowners[l]) : r.owner \in DOMAIN RankOf
      /\ \A x \in g.manifests :
           /\ x = [dir |-> x.dir, source |-> x.source, unit |-> x.unit]
           /\ x.dir \in Range(g.dirs) /\ x.source \in Range(DetectorOrder)
           /\ x.source = "go_main" => g.memberOf[x.dir] \in g.members
      /\ \A d \in Range(g.dirs) : g.dirModule[d] \in DOMAIN g.owner \cup {Wherever}

\* The alphabet has one place for each.
ASSUME RankAssumption ==
    /\ \A v \in DOMAIN RankOf : RankOf[v] \in Nat
    /\ \A v, w \in DOMAIN RankOf : RankOf[v] = RankOf[w] => v = w

ASSUME CommitsAssumption == MaxCommits \in Nat

VARIABLES
    ground,     \* the repository
    history,    \* its commits, oldest first
    operations  \* what the last analysis said

opsVars == <<ground, history, operations>>

NotAnalyzed == [source |-> "none"]
ModulesOf(g) == DOMAIN g.owner

-----------------------------------------------------------------------------
(* CODEOWNERS *)

\* The first file that is there decides, even when it has no rule.
loadCodeowners(g) ==
    LET there == {i \in DOMAIN Locations : Locations[i] \in DOMAIN g.codeowners}
    IN  IF there = {} THEN <<>> ELSE g.codeowners[Locations[Min(there)]]

SegmentsMatch(pattern, path) ==
    /\ Len(pattern) = Len(path)
    /\ \A i \in DOMAIN pattern : pattern[i] \in {path[i], AnyName}

Above(path) == {SubSeq(path, 1, n) : n \in 1..Len(path)}

\* A directory is matched at the root; a pattern with a slash may name any
\* directory above the file; a bare name is the file itself.
codeownersMatch(rule, file) ==
    LET path == SegmentsOf[file] IN
    CASE rule.directory -> rule.segments \in Above(path)
      [] ~rule.directory /\ (rule.anchored \/ Len(rule.segments) > 1) ->
           \E d \in Above(path) : SegmentsMatch(rule.segments, d)
      [] OTHER -> \/ SegmentsMatch(rule.segments, <<path[Len(path)]>>)
                  \/ SegmentsMatch(rule.segments, path)

\* The last rule that matches; a line without an owner is no rule.
matchCodeowners(rules, file) ==
    LET hits == {i \in DOMAIN rules : codeownersMatch(rules[i], file)}
    IN  IF hits = {} THEN Blank ELSE rules[Max(hits)].owner

-----------------------------------------------------------------------------
(* Aggregation *)

\* The key counted most, the first of the alphabet among equals.
dominant(counts) ==
    CHOOSE k \in DOMAIN counts :
      \A o \in DOMAIN counts \ {k} :
        counts[o] < counts[k] \/ (counts[o] = counts[k] /\ RankOf[k] < RankOf[o])

\* How often each value is taken.
Tally(taken) == [v \in Range(taken) |-> Cardinality({x \in DOMAIN taken : taken[x] = v})]

resolveFromCodeowners(g, rules) ==
    LET owned == {f \in DOMAIN g.moduleOf : g.moduleOf[f] # Wherever /\ matchCodeowners(rules, f) # Blank}
    IN  [m \in {g.moduleOf[f] : f \in owned} |->
           dominant(Tally([f \in {x \in owned : g.moduleOf[x] = m} |-> matchCodeowners(rules, f)]))]

-----------------------------------------------------------------------------
(* Git authors *)

AuthorLine(a) == [text |-> a.email, name |-> a.name]
FileLine(f) == [text |-> f, name |-> Blank]
isAuthorLine(line) == line.text \in AtNames

\* What git prints, newest first: the author, then the files.
LinesOf(commit) ==
    <<AuthorLine(commit.author)>> \o [i \in DOMAIN commit.files |-> FileLine(commit.files[i])]
Printed(commits) == FlattenSeq([i \in DOMAIN commits |-> LinesOf(Reverse(commits)[i])])

\* A line without an "@" is a file of the last line that had one.
AuthoredLines(lines, g) ==
    LET AuthorOf(i) == {j \in 1..i : isAuthorLine(lines[j])}
    IN  {[line |-> i, module |-> g.moduleOf[lines[i].text],
          email |-> lines[Max(AuthorOf(i))].text] :
           i \in {k \in DOMAIN lines : /\ ~isAuthorLine(lines[k]) /\ AuthorOf(k) # {}
                                       /\ lines[k].text \in DOMAIN g.moduleOf
                                       /\ g.moduleOf[lines[k].text] # Wherever}}

LowerEmail(email) == IF email \in DOMAIN LowerOf THEN LowerOf[email] ELSE email

\* Two identities with an email or a name in common are joined, one line after
\* the other.
KeysOf(line) ==
    {<<"e", LowerEmail(line.text)>>} \cup (IF line.name = Blank THEN {} ELSE {<<"n", line.name>>})
Joined(groups, keys) ==
    LET joined == {G \in groups : G \cap keys # {}}
    IN  (groups \ joined) \cup {keys \cup UNION joined}
\* Every line on its own: only the same email is the same person.
aliasEmails(lines) ==
    FoldLeft(LAMBDA groups, line :
               IF isAuthorLine(line) THEN Joined(groups, {<<"e", LowerEmail(line.text)>>}) ELSE groups,
             {}, lines)

aliasGroups(lines) ==
    FoldLeft(LAMBDA groups, line :
               IF isAuthorLine(line) THEN Joined(groups, KeysOf(line)) ELSE groups,
             {}, lines)

GroupOf(groups, email) == CHOOSE G \in groups : <<"e", LowerEmail(email)>> \in G

\* A person goes by the email that touched most.
canonical(groups, touches, email) ==
    LET same == {t \in touches : GroupOf(groups, t.email) = GroupOf(groups, email)}
    IN  dominant(Tally([t \in same |-> t.email]))

authorsOf(commits, g) ==
    LET lines == Printed(commits)
        touches == AuthoredLines(lines, g)
        groups == aliasGroups(lines)
    IN  [m \in {t.module : t \in touches} |->
           dominant(Tally([t \in {x \in touches : x.module = m} |-> canonical(groups, touches, t.email)]))]

Recent(commits, n) ==
    SubSeq(commits, (IF Len(commits) > n THEN Len(commits) - n ELSE 0) + 1, Len(commits))
NoOwners == [m \in {} |-> Blank]

\* git answers, or does not: the cap first, and the whole history only when the
\* newest commits touch no module.
resolveFromGitAuthor(g, commits, git) ==
    LET recent == IF git[1] = "ok" THEN authorsOf(Recent(commits, HistoryCap), g) ELSE NoOwners
    IN  IF git[1] = "timeout" THEN [owners |-> NoOwners, source |-> "git_timeout"]
        ELSE IF recent # NoOwners THEN [owners |-> recent, source |-> "git"]
        ELSE IF git[2] = "timeout" THEN [owners |-> NoOwners, source |-> "git_timeout"]
        ELSE LET all == IF git[2] = "ok" THEN authorsOf(commits, g) ELSE NoOwners
             IN  [owners |-> all, source |-> IF all = NoOwners THEN "none" ELSE "git"]

ResolveWithProvenance(g, commits, git) ==
    LET rules == loadCodeowners(g)
        stated == resolveFromCodeowners(g, rules)
    IN  IF rules = <<>> THEN resolveFromGitAuthor(g, commits, git)
        ELSE [owners |-> stated, source |-> IF stated = NoOwners THEN "codeowners_no_match" ELSE "codeowners"]

\* A module that declares an owner keeps it; without one to look for, nobody looks.
NeedsOwnerResolution(g) == \E m \in ModulesOf(g) : g.owner[m] = Blank

OwnerFacts(g, resolved) ==
    [m \in {x \in ModulesOf(g) : g.owner[x] # Blank} \cup (DOMAIN resolved.owners \cap ModulesOf(g)) |->
       IF g.owner[m] # Blank THEN [owner |-> g.owner[m], source |-> "declared"]
       ELSE [owner |-> resolved.owners[m], source |-> resolved.source]]

\* As if any owner would do.
qualifyingAny(facts) == DOMAIN facts

qualifying(facts) == {m \in DOMAIN facts : facts[m].source \in {"declared", "codeowners"}}

-----------------------------------------------------------------------------
(* Deploy units *)

\* go list in every member: a timeout is worse than a failure.
detectGoMain(g, go) ==
    CASE ~go.discovered -> "partial"
      [] go.discovered /\ g.members = {} -> "ok"
      [] go.discovered /\ g.members # {} /\ ~go.installed -> "absent"
      [] OTHER -> IF \E m \in g.members : go.list[m] = "timeout" THEN "timed_out"
                  ELSE IF \E m \in g.members : go.list[m] = "failed" THEN "partial" ELSE "ok"

\* A main package inside a module is its unit only at the module's root.
detectGoMember(g, go) ==
    {[x EXCEPT !.unit = IF g.dirModule[x.dir] = Wherever THEN x.unit ELSE g.dirModule[x.dir]] :
       x \in {y \in g.manifests :
                /\ y.source = "go_main" /\ go.discovered /\ go.installed
                /\ go.list[g.memberOf[y.dir]] = "ok"
                /\ g.dirModule[y.dir] = Wherever \/ y.dir \in g.roots}}

\* Detectors run in order, and the first to name a directory keeps it.
FromManifests(g) == {x \in g.manifests : x.source # "go_main"}
Discover(g, go) ==
    LET seen == detectGoMember(g, go) \cup FromManifests(g)
        Place(x) == CHOOSE i \in DOMAIN DetectorOrder : DetectorOrder[i] = x.source
    IN  {x \in seen : \A y \in seen : y.dir = x.dir => Place(x) <= Place(y)}

DiscoveryRow(g, go) ==
    IF detectGoMain(g, go) = "absent" /\ Discover(g, go) # {} THEN "partial" ELSE detectGoMain(g, go)

\* The first directory of a module speaks for it.
KeyCorroboratedByModule(g, units) ==
    LET PlaceOf(x) == CHOOSE i \in DOMAIN g.dirs : g.dirs[i] = x.dir
        Of(m) == {x \in units : g.dirModule[x.dir] = m}
    IN  [m \in {g.dirModule[x.dir] : x \in units} \cap ModulesOf(g) |->
           CHOOSE x \in Of(m) : \A y \in Of(m) : PlaceOf(x) <= PlaceOf(y)]

-----------------------------------------------------------------------------
(* The dimension *)

reconcileOperationalTopology(g, units) ==
    LET both == {m \in DOMAIN units : g.unit[m] # Blank}
    IN  [matching |-> Cardinality({m \in both : units[m].unit = g.unit[m]}),
         mismatched |-> Cardinality({m \in both : units[m].unit # g.unit[m]})]

\* What is observed of a topology that is measured.
OperationsFacts ==
    {"declared operational topology", "reconciliation", "corroborated deploy unit", "owner provenance"}

operationsDimension(g, facts, units, row) ==
    LET modules == ModulesOf(g)
        observed == {"declared operational topology"} \cup
                    (IF row = "ok" THEN {"reconciliation"} ELSE {}) \cup
                    (IF row = "ok" /\ DOMAIN units = modules THEN {"corroborated deploy unit"} ELSE {}) \cup
                    (IF qualifying(facts) = modules THEN {"owner provenance"} ELSE {})
    IN  [status |-> IF modules = {} THEN "unmeasured" ELSE IF observed = OperationsFacts THEN "measured" ELSE "partial",
         complete |-> Cardinality(DOMAIN units \cap qualifying(facts)),
         units |-> reconcileOperationalTopology(g, units)]

Analysis(g, commits, git, go) ==
    LET resolved == IF NeedsOwnerResolution(g) THEN ResolveWithProvenance(g, commits, git)
                    ELSE [owners |-> NoOwners, source |-> "config"]
        facts == OwnerFacts(g, resolved)
        found == KeyCorroboratedByModule(g, Discover(g, go))
        row == DiscoveryRow(g, go)
    IN  [source |-> resolved.source, owners |-> facts, found |-> found, row |-> row,
         warned |-> resolved.source \in {"codeowners_no_match", "git_timeout"},
         dimension |-> operationsDimension(g, facts, found, row)]

-----------------------------------------------------------------------------
OperationsInit ==
    ground = NoGround /\ history = <<>> /\ operations = NotAnalyzed

Visit(g) ==
    /\ ground = NoGround
    /\ ground' = g
    /\ UNCHANGED <<history, operations>>

Commit ==
    /\ ground # NoGround /\ Len(history) < MaxCommits
    /\ \E c \in ground.pushes : history' = Append(history, c)
    /\ operations' = NotAnalyzed
    /\ UNCHANGED ground

GoStates(g) == [discovered : BOOLEAN, installed : BOOLEAN, list : [g.members -> GoOutcomes]]

Analyze ==
    /\ ground # NoGround /\ operations = NotAnalyzed
    /\ \E git \in GitOutcomes \X GitOutcomes, go \in GoStates(ground) :
         operations' = Analysis(ground, history, git, go)
    /\ UNCHANGED <<ground, history>>

OperationsNext == Commit \/ Analyze \/ \E g \in Grounds : Visit(g)

OperationsSpec == OperationsInit /\ [][OperationsNext]_opsVars

-----------------------------------------------------------------------------
(* Properties *)

\* Every variable has its type.
OperationsTypeOK ==
    /\ (ground # NoGround => ground \in Grounds)
    /\ IF ground = NoGround THEN history = <<>> ELSE history \in Seq(ground.pushes)
    /\ Len(history) <= MaxCommits
    /\ operations = NotAnalyzed \/
         /\ operations.source \in {"config", "codeowners", "codeowners_no_match", "git", "git_timeout", "none"}
         /\ operations.row \in {"ok", "partial", "absent", "timed_out"}
         /\ operations.dimension.status \in {"measured", "partial", "unmeasured"}

\* Operations are measured only when, for every module, a person stated the
\* owner and a manifest names the module's own directory (docs/evidence.md:
\* "Git author fallback does not satisfy owner provenance").
OwnersAreStated ==
    operations # NotAnalyzed /\ operations.dimension.status = "measured" =>
      \A m \in ModulesOf(ground) :
        /\ \/ ground.owner[m] # Blank
           \/ \E l \in DOMAIN ground.codeowners, f \in DOMAIN ground.moduleOf :
                ground.moduleOf[f] = m /\
                \E r \in Range(ground.codeowners[l]) :
                  codeownersMatch(r, f) /\ r.owner = operations.owners[m].owner
        /\ \E x \in ground.manifests : ground.dirModule[x.dir] = m

\* What git says is unambiguous: emails have an "@", paths have none.
CleanLog(commits) ==
    \A i \in DOMAIN commits :
      commits[i].author.email \in AtNames /\ Range(commits[i].files) \cap AtNames = {}

Alike(a, b) == LowerEmail(a.email) = LowerEmail(b.email) \/ a.name = b.name
PersonOf(a, all) ==
    {b \in all : \A S \in SUBSET all :
       (a \in S /\ \A x \in S, y \in all : Alike(x, y) => y \in S) => b \in S}
TouchesBy(P, commits, m) ==
    Cardinality(UNION {{<<i, f>> : f \in {x \in Range(commits[i].files) \cap DOMAIN ground.moduleOf :
                                           ground.moduleOf[x] = m}} :
                         i \in {j \in DOMAIN commits : commits[j].author \in P}})

\* The owner taken from git is the person who touched the module most, under
\* all the names and addresses that lead to one another (docs/configuration.md:
\* "counts author identities that share a name or an email as one person").
OwnerIsBusiestPerson ==
    operations # NotAnalyzed /\ operations.source = "git" /\ CleanLog(history) =>
      \E read \in {Recent(history, HistoryCap), history} :
        LET all == {read[i].author : i \in DOMAIN read}
        IN  \A m \in {x \in DOMAIN operations.owners : operations.owners[x].source = "git"} :
              \E a \in all :
                /\ a.email = operations.owners[m].owner
                /\ TouchesBy(PersonOf(a, all), read, m) > 0
                /\ \A b \in all : TouchesBy(PersonOf(b, all), read, m) <= TouchesBy(PersonOf(a, all), read, m)

\* A tool that fails costs evidence and never makes any: no other owner, and no
\* status that all tools together would not reach.
FailureMakesNoEvidence ==
    operations # NotAnalyzed =>
      LET whole == Analysis(ground, history, <<"ok", "ok">>,
                     [discovered |-> TRUE, installed |-> TRUE, list |-> [m \in ground.members |-> "ok"]])
      IN  /\ operations.dimension.status = "measured" => whole.dimension.status = "measured"
          /\ DOMAIN operations.found \subseteq DOMAIN whole.found

OperationsAreBacked == OwnersAreStated /\ OwnerIsBusiestPerson /\ FailureMakesNoEvidence

=============================================================================
