# archfit: a verification project

`archfit` checks a repository against its architecture policy: it reads the
source through language-specific tools, evaluates rules over the dependency
graph, compares the result with a base commit and with accepted debt, and
answers with a verdict that gates CI and stops coding agents. This directory
holds TLA+ models of the parts where that verdict can go wrong in ways a unit
test hardly reaches, their TLC configurations, and proofs for TLAPS. Every
definition is translated from the source; `PROJECT.json` maps each one to
the lines it stands for. Paths below are relative to the repository.

    tlc -workers 2 -config Check_change.cfg MCCheck.tla
    tlapm CheckProofs.tla

## 1. Inventory

One run of the CLI goes through a fixed sequence: resolve the scope and guard
the policy, load the baseline, acquire evidence, relate it to modules, assess
rules and metrics, gate, compare with the base tree, render, exit. Inside a
run little is concurrent (the Go extractor's member loads, MSBuild
evaluations). What overlaps is *runs*: CI jobs, an editor, commands that write
the config or the labels, and the hook processes of a coding agent and its
subagents share a checkout and `.archfit-cache/`, and none knows of the others.

| Part | State it keeps | Operations | What makes it correct |
| --- | --- | --- | --- |
| Session hooks (`cmd/archfit/hook*.go`) | `.archfit-cache/session/<id>.json`: base commit, content hashes, reported denials, digest of the last block | session-start, post-tool-use, stop, each a process; read, compute, replace the file, no lock | nothing is silenced or suppressed that the agent was not shown; a denial that comes back is reported again |
| Hook files (`hook_install.go`, `doctor_agent.go`) | a JSON file per harness; the positions Codex trusts | install, remove, doctor | nobody's hook is lost or moved; doctor says what the harness runs |
| Base-tree checkouts (`internal/history/git/worktree.go`) | a directory, a flock and a git registration for each base commit | resolve, lock, clear a leftover, `git worktree add`, use, clean up, give up | a run's tree is never replaced under it; a leftover never blocks; every checkout ends |
| Extractor-fact cache (`internal/factcache`, `internal/extract/golang/cache.go`) | one file per key, temporary files, a byte cap | hash keys, get, load, put by temporary file and rename, evict | a hit is what a load would give; partial facts are never replayed; the cap holds |
| Extractors (`internal/extract/{golang,ts,py,rust,dotnet}`), tool runner | child processes, deadlines | find the project, the tools and the sources, run a child, read its answer | what the graph lacks is disclosed by a row or a gap; every acquisition ends |
| Symbol indexes (`internal/extract/scip`) | a memo per scan, cached answers | detect, key, index, read, hand to four consumers | a strength is of this tree and of this edge |
| Coverage artifacts (`internal/extract/coverage`) | artifact, sidecar, cached facts | detect, parse, resolve paths, attest, merge | "fresh" means measured on these bytes; a ratio is a lower bound |
| Owners and deploy units (`internal/ownership`, `internal/extract/deployunit`) | none: CODEOWNERS, the git log, manifests | resolve, reconcile with the config | an owner is stated or the busiest person; a failure makes no evidence |
| Coverage rows and gaps (`internal/evidence/acquisition/coverage.go`) | none: a function of a tree, the config and the tools | row and gap of each producer, off switches, gates | "not in the tree", "switched off", "could not look" are never confused |
| Rule scopes (`evaluation/dimensions.go`, `selectors.go`, `uncovered.go`, `lint.go`) | none | files and languages of a rule, its evidence, dead selectors, unowned additions | silence of a rule is conformance; a failing producer answers nothing |
| Rules (`internal/assessment/rules`, `internal/policy`) | none | twelve rule types over the edges | a finding keeps its identity when code moves; removals add none |
| Relationships (`internal/relationship`) | none | strength, distance, volatility, cascade, balance, seams, cycles | what a seam says is one fact of its edges, whatever their order; cycles are whole |
| Labels (`internal/relationship/labels`, `application/enrich.go`) | `.archfit-labels.yaml`, a cache of model answers | select, ask, stamp, save, prune | no review is lost; an approved label is applied to the edges it was judged on and to no others |
| Origins (`internal/assessment/decision/origin.go`) | none: a function of both sides' evidence | pair evidence; classify pre-existing, introduced, unknown, resolved | no change is blamed for what the base holds |
| Status, waivers, baseline (`internal/assessment/status`, `internal/application/baseline.go`, `reanchor.go`) | the baseline file; the waivers in the config, which expire | assign, capture, re-anchor | a temporary exemption never becomes debt; re-anchoring accepts nothing new |
| Ratchets and seams (`evaluation/ratchet.go`, `score/gate.go`, `metrics`) | metrics and seams in the baseline file | measure, compare, gate, capture, re-anchor | no re-anchor lets a ratchet slip |
| Dimensions and scores (`evaluation/dimensions.go`, `score`) | none | nine dimensions, their facts, findings and gates; coupling balance | missing evidence is never a measurement; a blocker fails a gate |
| Config comparison (`cmd/archfit/config_compare*.go`, `decision/policy_change.go`) | none | order two policies, measure both, grade the comparison | no loosening goes unnamed |
| Config writes (`safewrite.go`, `init`, `update`, `enrich`) | `.archfit.yaml`, backups, drafts | stage, compare, back up, rename | what is replaced is in a backup; a stanza or value of a person survives |
| Scope and policy guard (`application/scope.go`, `scope_git.go`) | none: branches of the clone | resolve target and base, compare policy files, re-measure | a branch cannot grade itself under rules it wrote |
| Verdict and agent digest (`state`, `agenttask`, `output/agentout`) | none | tasks, repairs, judge, budget | no violation a change adds is waved through; nothing is cut uncounted |
| Parsers of tool output, clones, syntax, rendering, config schema, calibration | none | sequential computations | what they compute for an input; fixtures test it well |

The hard behaviours: processes that interleave over one file without a lock;
saves that fail after the decision they record; crashes that leave a
directory, a lock, a registration or half a copy; a ref resolved twice; source
that changes between its hash and its load; tools that hang, fail in part or
on one side of a comparison only; waivers that expire between two commands;
references re-anchored again and again; results cut to a budget.
`PROJECT.json` lists each one as a hazard at its line, with the property that
would catch it.

## 2. Modules

| Module | Models | Composed with |
| --- | --- | --- |
| `HookSession` | the three hooks over one session file | |
| `Worktree` | overlapping base-tree checkouts | implements `BaseTrees` |
| `BaseTrees` | what a checkout promises | |
| `FactCache` | overlapping runs of the Go extractor over one cache | |
| `Check` | evidence, origin, status, judgement; capture and re-anchor | |
| `Observation` | what an acquisition promises `Check` | |
| `Extraction` | the Go, TypeScript, Python and Rust extractors and their rows | implements `Observation` |
| `DotNet` | MSBuild evaluations, the snapshot, the Roslyn helper | |
| `SymbolIndex` | the SCIP adapter and its consumers | |
| `SuppliedCoverage` | coverage artifacts, sidecars, testability | |
| `Operations` | owners, deploy units, the operations dimension | |
| `Digraph`, `Cycles` | the search for strongly connected components | `Cycles` extends `Digraph` |
| `Rules` | every rule type over a tree that is edited | uses `Digraph` |
| `RuleScopes` | which files a rule reaches, and whether it was answered | |
| `Scoring` | the balance score | |
| `Coupling` | classification, cascade, seams | extends `Scoring` |
| `Labels` | labels drafted by a model and approved by a person | |
| `PolicyChange` | config compare | instantiates `Rules` for each side |
| `Ratchets` | the stored reference and the gates against it | |
| `Claims` | the dimensions of a report, its figures, score and gates | extends `Scoring` |
| `ConfigWork` | commands that edit the config | |
| `HookInstall` | hook files, install and doctor | uses `Lists` |
| `ScopeGuard` | target branch, base, policy guard | |
| `AgentResult` | repair tasks and the digest within its budget | uses `Lists` |
| `Lists` | a list with items left out | |
| `MC*` | instances for TLC; `MCComponents` follows one of seventeen components per behaviour | |
| `HookSessionProofs`, `WorktreeProofs`, `FactCacheProofs`, `ExtractionProofs` | theorems about the module they are named for | extend it |
| `CheckProofs` | theorems about the commands, the result an agent is told and the hooks an install merges | extends `Check`, `AgentResult` and `HookInstall` |
| `GraphProofs` | theorems about the search for cycles, the rules, the comparison of configs and coupling | extends `Cycles`, `Rules`, `PolicyChange` and `Coupling` |
| `EvidenceProofs` | theorems about .NET solutions, symbol indexes, claims, supplied coverage and operations | extends `DotNet`, `SymbolIndex`, `Claims`, `SuppliedCoverage`, `Operations` |
| `ReviewProofs` | theorems about what people review and accept, and the policy guard | extends `ConfigWork`, `Labels`, `Ratchets` and `ScopeGuard` |

Each property has an alternative definition above or beside an operator it
depends on, named for the operator with a suffix (`PairAbsent` for `Pairs`),
whose comment says what it does wrong: a mistake the code could have had.
Nothing refers to it. It is there to be put in place of the real definition,
and the property was seen to fail then (`PROJECT.json`, "mutants").

### HookSession

A process is `idle`, `opened` (it read the file), `judged` (it computed its
copy), `exit` (it saved, or had nothing to save). `Open`, `Judge*` and `Save` are
the three moments at which a hook touches what others see; between them any
other process may run, the agent may edit and commit. `Abort` is a hook that
fails open or is killed before it saved; `SaveFails` a failed write, which each
hook answers differently; `KilledUnheard` a hook killed after its save, whose
output never reaches the agent. The code has no answer to that death: what the
hook recorded silences a later hook though nobody saw it. `muted` and
`mutedBlocks` remember those denials and blocks until they are shown, and the
properties except them, and nothing else, by name. A content is the set of imports it names; a relative
import resolves once its file exists, which is why a hash is withheld
(`NewFiles`). `everTold`, `stay`, `told`, `blocks` and `earned` record what the
agent saw and are read by no guard of the code; `made` is a copy of them
taken when the process began.

Abstracted: a hook reads the tree in one step; the policy does not change during a session; the judgement of a stop is a verdict of the
tree, or unknown.

### Worktree

One record for each run holds its phase, the ref it was given, the commit
that ref named when the directory was chosen, and the tree git checked out.
The flock, the directory and git's registration are separate variables because
crashes, cancellation and failures leave them in different states. git is
external: an add registers the path locked ("initializing") until it is
complete, `remove --force` and `prune` pass over a locked registration, and
add refuses a registered path. A cancelled context kills a running git
(`AddKilled`) and starts no further one (`Unregistered`). `NoLock` and
`ClearFails` fall back to a private directory. A git child that outlives a
crashed parent is left out.

### FactCache

Facts are the sources they were read from, so "stale" means the two differ.
A run hashes the tree into keys (`Start`), looks all of them up (`Get`,
`Miss`), then loads what it missed in goroutines limited by `Parallel`
(`Load`), and each load puts its facts (`WriteTemp`, `Rename`) and may evict
(`WalkWithin`, `WalkOver`, `EvictOne`, `EvictEnds`). Keys follow the `require`
directives, loads follow the imports; `Foreign` is source no key covers, which
vetoes its member. Abstracted: the eviction order to any listed file, bytes to
a number of files, an unreadable or corrupt entry to a miss; a load reads the
tree at once; names of temporary files are unique (`os.CreateTemp`).

### Check

`head` and `base` are what is true of the two trees; `run` is what a command
observed of them: a coverage row per producer and the violations it saw. An
observation is chosen among those its rows allow (`Observations`): a complete
producer saw everything of its language, an absent one nothing, a partial one
any subset, and the properties relate what the program says to what is true.

`HasGap`, `MarkedOff`, `Normal`, `Pairs` decide whether the two sides rest on
equivalent evidence; `StatusOf` gives a finding its status; `Origin`,
`MergeOrigins`, `Blockers`, `Fired`, `Evaluated`, `Change` and `Verdict` are the
judgement. Captures and re-anchors write `accepted`; waivers come, go and expire
between commands.

Abstracted: rules are about one language each and are module-wide or guards,
so that they have no scope in a tree without it (a selector that matches
nothing leaves a rule unevaluated in the code); only the primary dependency
producers (the optional analyzers pair by the same function, without
the not-applicable case); a partial run may miss any subset, more than real
tools lose; rollups, advisories, seams and ratchets are in `Claims`, `Coupling`,
`Ratchets` and `AgentResult`, the scope a changed policy narrows is in
`ScopeGuard`; the eight dimensions besides structure are taken as measured
(`Claims` says when they are); a measurement-profile difference is only
disclosed; nothing moves
while a command runs, since `Worktree` and `FactCache` model what does.

### Extraction and Observation

`Extraction` follows `acquisition.Collect`: the four extractors in registry
order, each through its stages (find the project, the tools, the sources, run
a child, parse). A child may hang, answer, or answer nonsense; a cancellation
or the watchdog kills it (`Killed`), and a kill races with an answer that has
just come. `project` is what is true of the tree: for each language its mode
and its files, a file being what the producer can make of it. A row is the
status and the counts the code puts there. `Observation` is what `Check` takes
for granted of a run (its `Observations`), and `ImplementsObservation` shows
the extractors keep it. The Go load has no deadline of its own
(`cache.go:207`), so `AcquireEnds` rests on `go list` ending. A language
switched on without a project reports an error row; `Check` leaves such
languages out.

### DotNet

Several MSBuild evaluations run at a time, and one that cannot run cancels the
others; the helper compiles a snapshot once per framework; `FoldProject` folds
what both said. `GapsCoverFiles` is about the per-file gaps a rule reads in
place of the rows, `OkRowIsWhole` about the row. A file of a failed production
project that only a test project links gets no gap (`gaps.go:66`): the
property's precondition excludes it. So does it a file of a project that the
selection only reaches by a reference and the helper did not report: gaps are
listed for projects selected or loaded (`IsKnown`). A concurrent `dotnet restore` in the
working tree is not modelled.

### SymbolIndex

Four consumers of a scan ask one adapter; the first answer is kept. The tree,
the host's tools and the cache change between any two steps. A strength is
attributed through a crate's alias, which may be shared, swapped or blocked.
`StrengthIsEarned` says that consumers agree, that an index is of the tree
that was keyed (except an edit between key and index, the same race as
finding 5, and an indexer that does not tell its version, whose upgrade
replays the older index as the code's comment accepts), that an "ok" index is
whole, and that aliases and hints name the edge they are taken for, at the
strength of the strongest reference between crates that surely belong to its
packages. A crate is surely a package's only if no package of another name
builds it or bears its name (`Surely`): of such a crate the code drops every
reference and calls the index partial, and with three packages the alias of
two others may still be there, without what was dropped. Left out:
`node_modules` contents, the root path and reader hash in the key, `Resolve`
confidence, the overlay of data kinds and connascence on the edges (the answers
are there, only strengths are laid over the edges), an index with a part of the
references. A cache that is off is one that always misses and keeps nothing. Nodes of different languages are taken to
have different names; the keys carry no language, so in a polyglot tree a
crate edge could take a Python edge's strength of the same names.

### SuppliedCoverage

A job writes an artifact and a sidecar, sources are edited, deleted and
brought back, and a check reads each artifact and asks the sidecar. A path
may stand for several files, of which the first that is there is taken.
`meant` and `taken` remember what the job covered. The five parsers differ in
units and in how they treat a file listed twice. `RatioIsLowerBound` excepts a
Go profile that lists a block twice (`ListsTwice`), which the parser counts
twice; a job of the instance writes one. Left out: counter overflow,
limits of zero, the gate on the dimension; artifact and sidecar of one source
are read in one step.

### Operations

The history grows commit by commit; each analysis meets git and `go list` in
some condition. `OwnerIsBusiestPerson` compares the owner taken from
interleaved `git log` lines and a union-find of names and addresses with a
count over the closure of "same name or same address". It assumes that
addresses have an "@" and paths have none: `isAuthorLine` tells them apart by
that alone (see section 6). Left out: the subtree prefix, wording of manifests.

### Cycles, Digraph and Rules

`Cycles` is the walk of `stronglyConnected`, one step per turn of a loop, with
targets in any order; it is compared with components defined by reachability.
`Rules` is every rule type as a function of a tree, and a finding is its rule,
its kind and the key its ID is a hash of. `Import`, `Drop`, `Move`, `Export`,
`Unexport`, `Delete` and `Unwalk` edit the tree; the properties relate the
findings of two consecutive trees. A cycle is keyed by its members, so what
is left of a larger cycle is excepted. Left out: synthetic modules, several
sites per edge, crate owners.

### RuleScopes

A tree, its projects and the health of its producers change between checks; a
glob is the files and nodes it matches and the facts of its spelling the code
reads. `AnsweredIsSound` says that the silence of a blocking rule which is not
unevaluated is conformance, against what a healthy run of the same tree would
report; `LintTellsOfCheck` that lint and check agree on dead selectors;
`AddedIsCovered` that an added file the change report passes over is read and
owned; `LossAnswersNothing` that a producer's failure never answers a rule.
`MixedOwnership` and one kind of undecidable target are exceptions the code
has (section 6). Left out: the wording of reasons, Rust module graph edges.

### Scoring, Coupling

An edge carries what globs, labels and hints say of it. The cascade raises
volatilities in any order of edges; seams are accumulated edge by edge in any
order. `CascadeIsExact` compares with chains of deliberate strong edges,
`SeamTellsOneFact` with the worst and the qualifying facts of the pair. Left
out: the cap on listed qualifying edges, score distributions, containment
spans, advisories.

### Labels

`config enrich labels` and `enrich abstained` analyse, read the file, ask (a
cached answer is replayed until `--refresh`), and write the whole file
without comparing. Code is edited and labels are reviewed between any two
steps. `SaveKeepsReviews` states what a save may lose: an approval made after
the run read the file, or judged on edges other than those it analysed.
`StampIsConfirmed` relates the two hashes of a pair's edges, except for a
pair with an edge of a file that only its package or crate attributes
(section 6). Left out: batches, the cap of 100 edges, confidence.

### PolicyChange

A candidate config beside the one in force, both measured on one tree by
`Rules`, with analyzers that may lose everything under one of them.
`NoMissedLoosening` and `LossIsExplained` say that whatever a candidate
stops reporting is named by the comparison or by its grade. Globs are sets of
files, allowlist entries sets of modules. Left out: waivers' globs, the score
delta, warnings; C# has no order of strictness in the code, so any change of
it is a change of declaration.

### Ratchets

Relations are written and removed, rescans see more or less, the policy is
switched, the engine changes a metric's version, waivers come and expire; an
owner captures or re-anchors. `captured` remembers what the last capture
measured, `held` for which metrics nothing excused a change since.
`RatchetsHold` says that a passing check with its gates on has no more new
seams than the policy allows since that capture, and no metric worse that a
re-anchor did not list. `min_delta` is taken as 0, and one edge has one finding.

### Claims

A run reads what its extractors find, loses some of it, fails to decide rules,
misses history or a comparable reference, and the report is a function of
that. `ClaimIsWhole` compares with the same run had nothing gone wrong;
`DepthIsLongest` recomputes depth over chains without the search and the memo;
`WorseScoresNoBetter` strengthens an edge or its target's volatility and
compares scores; `BlockersFailGates` relates findings and gates. Every
first-party node is attributed and every internal edge classified
(`buildSet` sets both), so those two guards of the code never bite. Left
out: testability and operations (in `SuppliedCoverage`, `Operations`), legacy
scores, clones in the summary, drift's partial state.

### ConfigWork

Commands and a person with an editor share the config without a lock. A
command reads, plans, reads again, stages a temporary file, compares,
copies a backup, renames; it may be killed at each step. `ReplacedIsKept`,
`ValuesAreReviewed` and `SecondUpdateIsQuiet` are about all of them
together. The plan of an update is of its first read, the edit of its second.
A kill inside the copy leaves a part of it under a backup name, which later
backups do not take.

### HookInstall

Two installers and a person write the hook files; Codex trusts an entry by
event and position. `MergeIsSafe` is about the merge of every file that
comes up; `DoctorIsRight` compares doctor's answer with what the harness
runs, except that doctor cannot see the trusted hash. Left out: the git
pre-commit hook, quoting, detection of harnesses. An edit between an
install's read and its write is lost: nothing compares.

### ScopeGuard

A clone with local and remote branches and `origin/HEAD`; edits, commits,
fetches, pushes and merges happen between the steps of a check (read the
policy, resolve, scan, assess, guard), and any of these may fail, with exit
code 3. The policy files are the config and `BundleFiles`, the baseline and the
approved labels beside it. The properties are listed in the
module. They except a file edited between the guard's reading and the scan's
(`late`), and histories in which the branch and its target merged each other
crosswise (`OneForkPoint`): git then names one of several best common ancestors,
and `BlameIsEarned` and `CatchUpClears` fail, as a file only the target
changed may differ from that one. A target without a config protects nothing, as the
code says. A merge of such histories is held against the merge of its forks, as
git's is (`ForkTexts`), and settling a conflict counts as writing the file. Shallow clones are commits without a common history; the git
commands of one resolution are one step; the first commit of an orphan branch
may move the target, when the default branch's config declares its name; sessions without a commit, the staged
pre-commit hook and `analyze` have no guard.

### AgentResult

Findings become tasks, tasks of one edge a repair, repairs are ordered, judged
and cut. `EveryFindingIsTold`: each blocking finding is in exactly one repair or
among the existing ones, one that is not pre-existing never among those, and a
pass has no new blocker and no scope a policy change narrowed. `CutsAreCounted`: what
a cut takes is added to a count, order and verdict stay, the first repair
stays, status and next step are those of the whole, and the result is within
the budget unless nothing is left to cut.
`FormsAgree`: the text and the brief form tell the totals of the whole result.
`FilesAreThere`: files to open are in the tree and inside the root, and import
sites are among the files to edit. Left out: goals, lines within a file, the
validate command; gaps and notices are never trimmed, so a result may exceed
the budget, as `budget.go` admits. `Check` has its own, smaller translation of
the merge of origins and of the judgement, over its own findings.

## 3. Runs

| Run | Bounds | Distinct states | Shows |
| --- | --- | --- | --- |
| `HookSession_imports` | 1 process at a time, all events of a main agent or a subagent; 2 files, one that comes and goes and is the target of a relative import; 3 imports; 1 commit; 1 denial or block of a killed hook not shown since | 2,071,844 | `TypeOK`, `NoRepeat`, `ComingBackIsReported`, `SuppressionEarned` |
| `HookSession_shared` | 2 processes, 1 file, post-tool-use and stop; 1 denial or block of a killed hook | 1,924,258 | `NothingHiddenUnseen` (`RecordedWasTold`, `RecordedWasBlocked`) under every interleaving |
| `HookSession_deleted` | as imports, tracked file deletable | violation | finding 1 |
| `HookSession_lost` | 2 processes, the subagent only edits | violation | finding 2 |
| `Worktree_overlap` | 2 runs, 2 checkouts each, 2 commits, 1 ref that moves once, cancellation, crashes, git killed | 160,508 | `TypeOK`, `LiveTreeIntact`, `OnlyKilledGitBlocks`, `ImplementsBaseTrees`, `CheckoutEnds` |
| `Worktree_killed` | 1 commit, git may be killed | violation | finding 3 |
| `Worktree_moved` | 2 commits, 1 move | violation | finding 4 |
| `FactCache_shared` | 2 runs, 2 members and 1 foreign source, 2 trees, cap of 2 files and eviction to 1, 1 edit between runs, 1 write lost to a crash | 804,726 | `TypeOK`, `HitIsFresh`, `HitIsClean`, `CapHolds` |
| `FactCache_edited` | 1 run, edits while it runs | violation | finding 5 |
| `Check_change` | 3 violations (2 of one import, 2 of one rule), `--require-tools`, 2 producers whose languages come and go (one with partial runs, one switched off), 2 waivers | 1,551,276 | `TypeOK`, `OriginsAreSound`, `GreenIsSound`, `ExactWhenComplete`, `DebtIsDeliberate` |
| `Check_fixed` | the 3 violations, a third rule whose producer is gated `fail`, no `--require-tools`, 1 waiver | violation | finding 6 |
| `Components_each` | one component per behaviour, below | 695,357 | the 21 properties below |

`Components_each` follows one of seventeen components that share no state; a
behaviour picks its component first (`part`) and the others keep their initial
values. `ComponentsTypeOK` is the type invariant of the component at work.

| Component | Instances | Properties |
| --- | --- | --- |
| `Extraction` | each language alone in every mode with up to 2 files of every kind; every two languages together; children that hang, cancellation, the watchdog | `MissingIsDisclosed`, `ImplementsObservation`, `AcquireEnds` |
| `DotNet` | 2 projects: two frameworks, borrowed restore outputs, inherited build files, a test project, a project only reached, every way to stop early | `LossIsTold` |
| `ConfigWork` | 2 writers, of which only the first may be `init --force`, and an editor (1 edit); a tree without a config, and a config that claims too much and under another name | `UpdateIsSafe`, `ValuesAreReviewed` |
| `Cycles` | every graph of up to 4 edges on 4 nodes | `CyclesAreComponents` |
| `Rules` | a ring of three modules under every rule; a cycle through a test, a module of two packages, overlapping globs; 2 changes | `FindingsAreStable` |
| `Coupling` | chains and rings of three modules under every volatility of two of them; pairs of edges of different strength, copies, labels, owners, a vendor | `CouplingIsExact` |
| `Labels` | 2 enrichers, 2 pairs (one attributed by its package only), 2 revisions of code or labels | `LabelsAreReviewed` |
| `PolicyChange` | a ring under a few rules and a config that reads less of it; up to 2 parts of the candidate revised | `ComparisonIsSafe` |
| `Ratchets` | 4 relations of three modules, 3 scans, 3 policies, 3 turns | `RatchetsHold` |
| `RuleScopes` | 6 repositories (two Go modules, crates, a mixed module, Python names beside a skipped directory, what a config cuts away, C#), 2 steps | `RulesAreAnswered` |
| `SuppliedCoverage` | 3 files, 2 artifacts, jobs in every format, 2 jobs, 1 edit, 2 checks | `CoverageIsMeasured` |
| `Operations` | 2 modules; owners in the config, one or two CODEOWNERS files, or nowhere; up to 3 commits of people with two addresses | `OperationsAreBacked` |
| `Claims` | a ring, a chain into a cycle, three languages, no code, no modules; 2 troubles a run | `ClaimsAreEarned` |
| `HookInstall` | each harness's file with own, foreign, odd and garbled groups; 2 edits | `HooksAreInstalled` |
| `ScopeGuard` | 9 clones (a branch of main, tracked config or not, behind it with two default branches, no common history, no default, a target without config, an orphan branch, branches merged crosswise, no commit), 2 events | `GuardIsSound` |
| `SymbolIndex` | Cargo workspaces whose names are unique, shared, swapped or taken by a third package, and trees of two languages; 2 scans, 1 event | `StrengthIsEarned` |
| `AgentResult` | a forbidden dependency that misses the public surface, a crate, a seam, an unowned directory, advisories; a listed or an unlisted tree; budgets small enough that every list is cut | `ResultIsHonest` |

Why the bounds are enough. *Hooks*: the state shared by processes is one
record written whole, so a lost update needs two processes; denials and
digests are compared for equality only, so two denied imports, an allowed one
they leave for and a file that comes and goes give every case of new, held,
gone and back. The properties about one
process at a time are properties of a sequence, which the unbounded number of
events covers; with two processes they fail (finding 2), so they are not
claimed there. What a killed hook recorded excepts itself alone, so one such
denial or block at a time (`MaxMuted`) shows it beside what the properties
still claim. *Worktree*: two runs on a lock, and two checkouts each so that one
finds what another left. *Cache*: a writer, an evictor and a reader in any role
need two runs; a cap of two and eviction to one make every put near the
cap evict; two trees make one key stale. *Check*: one import under two rules
and one rule with two imports are the smallest group of each kind; each
producer is there for one shape of row. *Components*: two of whatever races
(writers, enrichers, evaluations), one change more than the property compares,
and for the pure algorithms the smallest structure with every shape: four nodes
hold two components and an edge between them, three modules a chain, a ring
and a bystander. Limits (`ByteBudget`, `TextLimit`, `HistoryCap`, `FactLimits`)
are set so low that both sides of each are met.

Deadlock is checked except in `Worktree` and in `Components_each`, where
processes stop after a bounded number of rounds and a report is made once.
Symmetry is used in `FactCache_shared`, over runs and temporary names, which no
property distinguishes; in `MCComponents` the first of two alike writers or
enrichers starts first.

**Fairness.** `CheckoutEnds` and `AcquireEnds` are the liveness properties. `FairSpec` assumes weak
fairness of each process's own next step: a poll wakes every
`worktreeLockPoll`, git commands end, and the analysis of a base tree
ends because its tools run under a watchdog. Nobody is bound to start, cancel,
crash or move a ref. The waiting process is not assumed to take the lock: it
does because the holder gives it back and the number of checkouts is bounded.
With unboundedly many competitors a waiting run could starve, as `flock`
polling is not a queue; that is not claimed. `ExtractFair` is weak fairness of
an acquisition's own progress: a child ends or its deadline kills it, and what
has come is read. Nobody is bound to cancel. The Go load has no deadline, so
for it the assumption is that `go list` ends.

**Findings.**

1. `HookSession_deleted`: a tracked file deleted and written again keeps its
   reported denials, so the import that comes back is not reported, against the
   documentation of `hookSession.Reported`.
2. `HookSession_lost`: a subagent's post-tool-use writes back the digest that
   the main agent's passing stop forgot in between; the same blockers coming
   back are then suppressed, against the hook's help.
3. `Worktree_killed`: a git killed inside `git worktree add` leaves the path
   registered and locked, which no later run clears.
4. `Worktree_moved`: the ref is resolved once for the directory's name and
   again by git, so a directory may hold another commit's tree.
5. `FactCache_edited`: keys are hashed before the load and not after, so an edit in
   between stores the new tree's facts under the old tree's key.
6. `Check_fixed`: an accepted violation that a missing producer did not see is
   reported as fixed, and a fixed entry counts as a result of its rule. The
   rule is no longer unevaluated, and a change passes without its evidence.
   `NoBlockerPasses` is what remains true, and says so with `Fired`.

## 4. Proofs

TLC checks the instances above; these hold for every value of the constants.

| Theorem | Property | Invariant it rests on |
| --- | --- | --- |
| `HookSessionProofs!TypeCorrect` | `TypeOK` | itself: a process that blocks has judged a tree |
| `NothingSilencedUnseen` | `RecordedWasTold` | `ToldInv`: an opened copy holds only what was shown or is pending, a judged one its own new denials besides |
| `NothingSuppressedUnseen` | `RecordedWasBlocked` | `BlockInv`: the same for the digest |
| `NothingHidden` | `NothingHiddenUnseen` | the two above |
| `SuppressionIsEarned` | `SuppressionEarned` | `EarnedInv`: the digest on file, or in a process's copy, is of a tree blocked on since; one process at a time |
| `NothingRepeated` | `NoRepeat` | `RepeatInv`: what stays is on record; one process at a time |
| `ComingBackReported` | `ComingBackIsReported` | `AnswerInv`: a hash is kept only of a file all of whose added denials are on record; one process at a time, and no file of a commit is deleted |
| `WorktreeProofs!TypeCorrect` | `TypeOK` | itself |
| `LiveTreeKept` | `LiveTreeIntact` | `LockInv`: who is between lock and release of a shared directory holds its lock, so no other run's step touches it |
| `LeftoversAreCleared` | `OnlyKilledGitBlocks` | itself, with `LockInv`: a cleared path is under the lock of the run that cleared it |
| `CheckoutsImplementBaseTrees` | `ImplementsBaseTrees` | `LockInv`; each step is a Take, a Drop or a stutter |
| `FactCacheProofs!TypeCorrect` | `TypeOK` | itself |
| `HitsAreClean` | `HitIsClean` | `CleanInv`: every file and every job's facts are clean |
| `HitsAreFresh` | `HitIsFresh` | `FreshInv`: entries, jobs and temporary files hold what their key says; needs `Tidy` (imports are required) and `~EditsInRun`, which finding 5 drops |
| `CapIsKept` | `CapHolds` | `CapInv`: each file above the cap has a writer that has not walked yet, a write a crash cut short, or an eviction that listed too little and is followed by another |
| `CheckProofs!TypeCorrect` | `TypeOK` | with `EvidenceInv` |
| `OriginsHold` | `OriginsAreSound` | `BlameHolds` and `ResolvedHolds` |
| `GreenHolds` | `GreenIsSound` | `PassIsSound` and `HealthyHolds` |
| `DebtHolds` | `DebtIsDeliberate` | `CaptureHolds` and `ReanchorHolds` |
| `CompleteIsExact` | `ExactWhenComplete` | `EvidenceInv`: what a command in progress observed is an observation of the trees as they are, and what a capture accepted is what it captured |
| `ResultsAreHonest` | `ResultIsHonest` | `DigestInv`: while a result is cut, it counts what it left out of the one that was assembled (`Counted`), and says that it was cut |
| `InstallTyped` | `InstallTypeOK`, of `ComponentsTypeOK` | itself |
| `HooksInstalled` | `HooksAreInstalled` | `InstallTypeOK`; `MovesTo`, below |
| `ExtractionProofs!MissingDisclosed` | `MissingIsDisclosed` | `ExtractInv`: a finished extractor's row is `Honest` about what it saw, an unfinished one has none |
| `RowsKeepPromise` | `ImplementsObservation` | `ExtractInv`; each step is a row of `Observation` or a stutter |
| `ReviewProofs!UpdatesAreSafe` | `UpdateIsSafe` | `ConfigInv`: what a writer between copy and rename is about to replace is in its backup (`Keeps`), and a plan is of texts and drafts it read (`Planned`, `Writes`) |
| `ReviewedValues` | `ValuesAreReviewed` | `ConfigInv` |
| `ReviewedLabels` | `LabelsAreReviewed` | `LabelsInv`: every copy of the file holds only approvals a person made (`Vouched`), and stamps of the edges judged (`Stamped`) |
| `RatchetsNeverSlip` | `RatchetsHold` | `RatchetsInv`: while a metric is held, the stored reference is no looser than the capture (`Held`), nor are its seams |
| `PassUnderTarget` | `PassIsUnderTarget`, of `GuardIsSound` | `GuardInv`: what a check read is on disk but for files edited late (`ReadHolds`), it ran under what it read (`JudgedHolds`), and a scope names each file that differs from the tip of its target (`ScopeHolds`) |
| `BranchKeepsTarget` | `BranchCannotMoveGuard`, of `GuardIsSound` | `GuardInv`'s types: no branch points beyond the commits there are |
| `GraphProofs!CyclesFound` | `CyclesAreComponents` | `CyclesInv`, below |
| `RulesTyped` | `RulesTypeOK`, of `ComponentsTypeOK` | `RulesInv`: the config was accepted, and a file that is used is there |
| `FindingsStable` | `FindingsAreStable` | `RulesInv`; `Less` and `Carried`, below |
| `PolicyTyped` | `PolicyTypeOK`, of `ComponentsTypeOK` | `PolicyInv`: both configs are configs, part by part the one in force or a variant, and both runs saw what outcomes allow |
| `LooseningIsCalled` | `ComparisonIsSafe` | `PolicyInv`; `NoLooser`, below |
| `CouplingTyped` | `CouplingTypeOK`, of `ComponentsTypeOK` | `CouplingInv` |
| `SeamsExact` | `CouplingIsExact` | `CouplingInv`: what is raised is led to the volatile modules and the rest keep what is declared (`CascadeInv`), no seam is made before nothing more can be raised, and a seam holds a lowest of the facts added so far (`SeamHolds`) |
| `EvidenceProofs!LossTold` | `LossIsTold` | `DotNetInv`: what was folded is a report of compilations that match the frameworks (`FoldedWell`), and restores that differ from what was borrowed are suspected |
| `StrengthsEarned` | `StrengthIsEarned` | `IndexInv`: the outcome remembered is of the key looked up (`Concluded`), so is every cached index (`CachedWell`), and every answer follows from that outcome (`AnswersFollow`) |
| `ClaimsAreWhole` | `ClaimIsWhole` and `BlockersFailGates`, of `ClaimsAreEarned` | `ClaimsInv`: a row is ok only of a tool without a gap, and what is lost is of a tool with one (`Disclosed`) |
| `FreshMeasured` | `FreshIsMeasured`, of `CoverageIsMeasured` | `CoverageInv`: a sidecar's hashes are of the bytes its job saw (`JobHolds`), and cached facts cover the records they were parsed from (`CoversAll`) |
| `MeasuredWhole` | `MeasuredIsWhole`, of `CoverageIsMeasured` | `CoverageInv` |
| `OperationsTyped` | `OperationsTypeOK`, of `ComponentsTypeOK` | `OpsTypes` |
| `OwnersStated` | `OwnersAreStated` and `FailureMakesNoEvidence`, of `OperationsAreBacked` | `OpsInv`: what is said is what an analysis of this very history says, under some outcome of git and the toolchain |

None of the properties is inductive as it stands. `RecordedWasTold`, for
example, is about the file, and a process may write a copy it read long ago:
`ToldInv` says that every such copy was justified when it was read and that
what was shown is never forgotten. The assumptions are the named `ASSUME` of
each module, which TLC evaluates on every instance. They are typing, distinct
sentinels, and finiteness where the code counts: of the cache's names, members
and runs, of the files of a project, of places and exported names, of the globs of a module, of the relations a ratchet counts.

*Conditions.* Three theorems of `HookSession` hold of hook events that come one
at a time (`OneAtATime`), and one of them while no file of a commit is deleted
(`KeepsCommitted`). The conditions are needed: `HookSession_lost` drops the
first, `HookSession_deleted` the second (findings 2 and 1). Failed saves, hooks
killed at any step and every order of events are allowed, but what a hook killed
between its save and its output had recorded is excepted: by `muted` in
`RecordedWasTold` and `ComingBackIsReported`, by `mutedBlocks` in
`RecordedWasBlocked` and `SuppressionEarned`. `NoRepeat` needs no exception.

*The cap.* An eviction goes by the list it walked, while others write and
remove; so what it brings down is not what is there when it ends. `CapInv`
orders the evictors by their walks. Each answers for itself and the later
ones: what its list misses is backed by a writer that has yet to walk, or was
put by a later evictor. When an eviction ends, the ones that remain suffice.

*The walk for cycles.* The stack is a row of segments, one for each open call.
A call leads to all that was stacked after it (`Linked`), all of its segment
leads back to it, and its lowlink is the index of a stacked node that it leads
to (`Reached`) and that no explored edge of its segment goes above
(`Explored`). A call that ends with its own index therefore has a segment that
no edge leaves but to nodes already taken off, and no edge leaves those
(`Taken`). "Leads to" is said with the sets no edge leaves, so that no
induction over paths is needed; `ComponentsAreClasses` shows that this is what
`Components` computes for TLC from the inner edges.

*Stable findings.* A removal leaves less of each file (`Less`), so fewer edges;
every rule but the two about cycles reports a subset of fewer edges, and a
component of fewer edges lies within a component of more (`ComponentsGrow`). A
file that moves, or that the source walk loses, leaves for each edge one that
stands for it (`Carried`): between the same modules, of the same use, and
counted if the other was. What is keyed by modules alone is a function of
that. A move is one to one on the places used only because a file that is used
is there, under its own directory: `SourceTree` says so of every tree, as the
guard of `Import` does, and two uses could otherwise fall together.

*Comparing configs.* An edit that is not called a loosening is `NoLooser`: it
sorts every place alike, scans at least as many files, and its allowlists are
within the old ones. So every file read before is read with the same edges
(`KeptEdges`) and owners (`KeptOwners`), and what was denied still is
(`KeptDenied`). Each rule has its like under the same ID (`RuleIsKept`), which
reports what the old one did, or a larger cycle (`KeptKeys`); each metric that was
gated is gated as hard. Where the edit is called comparable
besides, no row of the two runs hides a lost file (`ComparableLostNothing`), so the
first part answers for the second. That the owner of a place exists is from the
finite globs and the order of the names of modules (`BiggestIs`, `FirstIs`).

*Coupling.* A module is led to the volatile ones when it lies in every set that
holds them and that no carrying edge enters from outside, so no induction over
chains is needed: the cascade stays within each such set, and when nothing more
can be raised, what is high is itself one. Only then do edges enter seams, so
each fact is computed from final volatilities. A seam keeps a lowest of the
facts in so far (`LowestOf`), and which one among equals is open, as the order
is; all that is reported of it depends on its score and its strength. The
qualifying fact and the worst fact are kept apart, one edge at a time, and yet
agree: a qualifying one always scores in the critical band and is strong, so
severity and quadrant may be read of either. That the proposed move clears the
seam is read off the table of scores (`BalanceIs`).

*What an agent is told.* Every list of a result is put in order by the number of
entries that go before. In a strict order on a finite set those numbers are the
places, each taken by one entry (`PlacesAreTaken`), so a list in order holds
every entry once (`InOrderHolds`, `RankedHolds`). Tasks of one dependency are
an equivalence and ids are apart, so no finding is in two repairs
(`RepairsHold`), and origins that are not all old merge to one that is not
(`MergedIsNotOld`): a finding of this change never ends among the existing
ones. A cut moves entries from a list to its count, and each pass keeps the sum
(`BoundIsCounted`, `DropIsCounted`). The assumptions are on the input
(`IsAssessment`): finitely many findings, apart by their ids, that name paths
with a place in the order of names. The proof never expands what a result
measures (`ResultSize`, a fold): it is only compared with the budget, so what
is shown holds for any measure.

*Installed hooks.* What a merge keeps of a list stands at the number of kept
items before it (`Rank`, `ItemsAtHolds`), so a hook of a person moves from its group
and place to their ranks (`MovesTo`). That map is one to one, keeps the order, and
every hook of a person in the merged file is reached (`PersonsKeepOrder`); orders that such
a map carries into each other have the same places (`SamePlaces`), so the two
lists of a person's hooks are equal (`PersonsStay`). After a merge every group is
`Intact` but the one of archfit's (`MergedGroups`), and such groups are
merged to themselves (`IntactStays`): an install that is repeated changes
nothing, and a file an install would not change has one hook of archfit in each
event it wants, which is the one doctor finds (`TypedDoctor`). In a `Tidy` file each group is
intact or is the one replaced in place, so every rank is the place it was.
The assumptions are that a person's hook is not archfit's and that the
sentinels are not files.

*Strengths of Cargo packages.* The references between crates are summed up per
pair of packages, the sum is dropped where a reference between the crates'
roots has the same ends, and what is left overlays the references. The proof
says of each pair what its sum is (`AggregateIs`), that a crate which is
surely a package's is attributed to it unless the workspace is called partial
(`Issues`), and that the strongest of what lies beneath an edge is therefore
either in the sum or in the reference that took its place. The assumptions are
that a package's identity is unique and that an index is not mistaken for
none. `IndexTypeOK` is only model-checked; `IndexTyped` is the part the proof needs.

*Claims.* The proof compares a run's evidence with the same evidence whole
(`Whole`) and shows that each fact a dimension observes with something missing
it observes with everything read (`ObservesMore`), and that a dimension that
is measured lost nothing its figures read (`MeasuredLostNothing`). That
Roslyn runs only where MSBuild does is an assumption (`IsTree`), as it is a
step of the same extractor; without it a lost type graph would leave no hole.

*Coverage.* Facts in the cache were parsed from the same records, but perhaps
when other files were there, so their files may differ from those the job
meant. `CoversAll` keeps what does not depend on the bytes: each path that
may lie in the tree has a fact, whose file is one of its candidates. That the file is
the one the job meant follows from the sidecar, and only where no two
paths may stand for one file (`Apart`): otherwise the hash of a file that one path
names vouches for the other as well.

*Operations.* Which owners count does not depend on git (`QualifiedIs`): one is
declared, or the CODEOWNERS file states it, and what git says never does. The
owner stated of a module is one a rule gave a file of it (`StatedByRule`),
because a finite count has a value taken most, and the alphabet decides among equals
(`DominantIs`). The first detector keeps a directory, so the directories found
are those seen (`FirstKeeps`), and a working toolchain only sees more (`AllGoIs`).
The assumptions are finitely many files, finite rule lists, and one place in the
alphabet for each name.

Only model-checked: `CheckoutEnds`, `AcquireEnds`, and of `Components_each` the
types of the components other than `Rules`, `PolicyChange`, `Coupling`,
`HookInstall` and `Operations`, and `RulesAreAnswered`; of `OperationsAreBacked`
the part `OwnerIsBusiestPerson`, of `ClaimsAreEarned` the parts `DepthIsLongest`
and `WorseScoresNoBetter`, of `CoverageIsMeasured` the part `RatioIsLowerBound`; and of `GuardIsSound` the parts `BlameIsEarned` and
`CatchUpClears`, which are about all ancestors of a commit. Out of reach of the prover: liveness under fairness and `ENABLED`
(`CheckoutEnds`, `AcquireEnds`). What a recursive function
computes for every input (the folds of `Operations`, the sums of
a ratio or a score, the depth of a chain) needs induction over data. The library's induction theorems take an operator and
cannot be used; where a least element is all that is needed, as in `LeastIs`
for the first candidate of a path, it is had from the well-foundedness of
proper inclusion.

## 5. What is left

1. The cached tool runs of `factcache.Runner` as a second client of `FactCache`'s store.
2. Compositions: `ScopeGuard` and `AgentResult` with `Check`, so that a branch
   that edits its policy is judged, and told, by one model; `SuppliedCoverage`
   and `SymbolIndex` with the loads of `Extraction`.
3. Proofs: `RulesAreAnswered`, the sums of `SuppliedCoverage`, and the type invariants of the components.

## 6. Notes

**Divergences met while modelling.** Each is small, is excepted by name in the
property it touches, or lies outside what a property compares; none has a run
of its own.

- `RuleScopes`: a module that owns files of one language by path and a crate by
  name only makes a `from_module` rule not applicable when the Rust producer
  fails, against `dimensions.go:720`; lint calls a selector of such a module
  dead where check evaluates it. `from: "**"` with a crate target is
  answered from the cargo row alone (`docs/configuration.md:108`). A dead `to`
  glob is undecidable while Rust's nodes are unknown.
- `Ratchets`: `unbalanced_edge` cannot see a new edge while one accepted finding
  lies on the counted edges (`docs/configuration.md:271`); a re-anchor drops the
  reference of a metric switched off, or of another version, without listing
  it (`reanchor.go:40`); a metric not applicable at capture has no reference,
  so a later worsening is not gated.
- `Claims`: the loss of a producer whose edges others supply can leave coupling
  measured (`docs/evidence.md:9`); a partial cargo-modules row leaves three
  dimensions measured though the comment at `score.go:206` says envelope and
  metric agree; an intrusive edge scores better than a functional one when its
  target is stable; the docs count discovered edges, the code first-party ones.
- `Scoring`: intrusive strength (10) balances better than symmetric (9) at
  distance 9. `Coupling`: a seam's ID depends on map order among equals; the
  comments of `seam.go` on the worst rung and on owners differ from the code.
- `SuppliedCoverage`: the Go parser sums blocks listed twice (`-coverpkg`), so a
  ratio may exceed the real one (`docs/evidence.md:75`; excepted by
  `ListsTwice`, without which the run fails); coverage.py is counted
  in lines, not statements (`docs/configuration.md:160`); a cached resolution
  keeps to the old file when a better candidate appears; a sidecar does not
  bind the artifact's bytes (`docs/languages.md:330`).
- `Operations`: a line with an "@" is taken for an author, so a path with one
  becomes a person and an address without one leaves its files to the previous
  author; a pattern without owner is skipped, not cleared; an empty CODEOWNERS
  falls through to git.
- `Labels`: `enrich` stamps with the node's module, `check` compares with the
  path's, although `selection.go` says the edge sets stay identical; a garbled
  cached answer is replayed until `--refresh`.
- `AgentResult`: constraints of all tasks on an edge are merged, so the repair
  of a forbidden dependency can name the target's public surface
  (`agenttask.go:388`); a crate named like a directory resolves to it; a crate
  source is among the files to edit only when it is an import site, or its name
  is that of a file (`agentout.go:600`).
- `ScopeGuard`: a file edited between the guard's and the scan's reading is
  judged but not compared; after a branch and its target merged each other
  crosswise a file only the target changed may be called edited by the branch,
  against the comment at `scope.go:171` (excepted by `OneForkPoint`, without
  which the run fails); with an explicit base of unrelated history a
  committed edit reads as stale.
- `HookInstall`: dropping a legacy group moves the positions Codex trusts; a
  group that is not an object is kept by install and unreadable for doctor.
- `DotNet`: a file of a failed production project that only a test project
  links gets no gap (`gaps.go:66`). `ConfigWork`: an update that strips the
  owner with the replaced path is not quiet the second time; a kill inside the
  copy of a backup leaves a partial one.
- `HookSession`: a forget whose save fails leaves the digest, as the code's
  comment accepts; a hook killed between its save and its output leaves
  denials on record that it never reported (`hook_session.go:54`), or a digest of a
  block nobody saw (excepted by `muted` and `mutedBlocks`).

**Not modelled**, and why: the parsers of tool output and the reading of
sources (they compute a value of a large input; fixtures say more than a
model); clone detection, syntax checks (one pass over text); score
distributions and legacy scores (figures nothing decides on); text, JSON and
SARIF rendering; the config schema and its validation; queries, `explain` and
`analyze`, which read what `check` reads and write nothing; calibration and the
test corpora. `PROJECT.json` lists each under "components" with its status.
