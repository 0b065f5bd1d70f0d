------------------------------- MODULE DotNet -------------------------------
(***************************************************************************)
(* The .NET extractor (internal/extract/dotnet) with the helper it runs     *)
(* (tools/dotnet/archfit-roslyn): MSBuild evaluates the projects, several   *)
(* at a time; the helper compiles a snapshot of the tree, once per target   *)
(* framework; the extractor folds what both said into file edges, project   *)
(* edges, two coverage rows, and the files whose evidence has a gap.        *)
(***************************************************************************)
EXTENDS Integers, Sequences, FiniteSets

CONSTANTS
    Csprojs,         \* the projects, which the run selects or reaches by a reference
    Sources,         \* the .cs files
    EvalParallelism, \* evaluations at a time: 4 in the code
    Solutions,       \* the trees and settings to consider
    NoSolution

ASSUME DotNetAssumption ==
    /\ IsFiniteSet(Csprojs)
    /\ EvalParallelism \in Nat \ {0}
    /\ NoSolution \notin Solutions
    /\ \A s \in Solutions :
         /\ s.selected \subseteq Csprojs /\ s.reached \subseteq Csprojs \ s.selected
         /\ s.tests \subseteq s.selected
         /\ s.targets \in [Csprojs -> SUBSET {"net8.0", "net9.0"}]
         \* a file under a project's directory is compiled by it
         /\ s.under \in [Sources -> Csprojs] /\ s.compiles \in [Sources -> SUBSET Csprojs]
         /\ \A f \in Sources : s.under[f] \in s.compiles[f]

VARIABLES
    solution,   \* the tree of the run, and its settings
    dnStage,    \* the stage the extractor is in
    evaluated,  \* what MSBuild said of each project: "pending", "running", or its status
    evalError,  \* whether an evaluation could not run, which cancels the others
    borrowed,   \* the projects that use the restore outputs of the working tree
    differs,    \*   of which these were restored for other packages, or another path
    suspect,    \*   and these are taken to be
    compiled,   \* what the helper's compilations of each project came to
    graphs,     \* the type graph: the status of each project the helper reported
    isReported, \* whether the helper reported at all
    msbuildRow, \* the status of the primary row
    roslynRow   \* the status of the helper's row

dotnetVars == <<solution, dnStage, evaluated, evalError, borrowed, differs, suspect, compiled, graphs,
                isReported, msbuildRow, roslynRow>>

-----------------------------------------------------------------------------
(* The helper: one attempt per framework, "" for the framework-less one     *)

\* What an attempt comes to: all names resolved, some not or compile errors, the
\* compiler threw, or no documents at all.
Attempts == {"clean", "broken", "threw", "empty"}

AttemptStatus(a) ==
    CASE a = "clean" -> "complete"
      [] a = "empty" -> "failed"
      [] OTHER -> "partial"

\* What the workspace may hold of a project: its frameworks, and the framework-less
\* evaluation of a project that has several; or nothing, when it could not be added.
Workspace(targets) ==
    {[t \in targets |-> "empty"]} \cup [targets -> Attempts] \cup
    {[t \in targets \cup {""} |-> IF t = "" THEN "empty" ELSE b[t]] : b \in [targets -> Attempts]}

\* The framework-less evaluation is not a measurement when there are others.
CrossTargeting(b) == "" \in DOMAIN b /\ b[""] = "empty" /\ DOMAIN b # {""}

\* A project the workspace lost is reported as failed when its failure names it, or it
\* was requested as a project.
Classify(b, named) ==
    IF b = <<>> THEN IF named THEN {[tfm |-> "", status |-> "failed"]} ELSE {}
    ELSE {[tfm |-> t, status |-> AttemptStatus(b[t])] :
            t \in DOMAIN b \ (IF CrossTargeting(b) THEN {""} ELSE {})}

-----------------------------------------------------------------------------
(* Folding the report                                                       *)

\* A framework-less failure beside the load of every evaluated framework is noise.
WithoutOuterFailure(entries, targets) ==
    LET loads == {e.tfm : e \in {x \in entries : x.status # "failed" /\ x.tfm # ""}}
    IN  IF targets # {} /\ loads # {} /\ targets \subseteq loads
        THEN {e \in entries : ~(e.status = "failed" /\ e.tfm = "")} ELSE entries

FoldProjectAny(entries, targets) ==
    IF \A e \in entries : e.status = "failed" THEN "failed"
    ELSE IF \E e \in entries : e.status = "complete" THEN "complete" ELSE "partial"
FoldProject(entries, targets) ==
    LET kept == WithoutOuterFailure(entries, targets)
    IN  CASE \A e \in kept : e.status = "failed" -> "failed"
          [] \A e \in kept : e.status = "complete" -> "complete"
          [] OTHER -> "partial"

\* What the code trusts of a project besides the helper's word: restore inputs, build
\* inputs from above the tree, links the snapshot does not reproduce.
Downgrade(status, doubt) == IF doubt /\ status = "complete" THEN "partial" ELSE status
Doubted(p) ==
    \/ p \in suspect
    \/ p \in solution.inherits \ solution.tests
    \/ p \in solution.links

Reachable == solution.selected \cup solution.reached
FoldReport(reports) ==
    [p \in {q \in Reachable : reports[q] # {}} |->
       Downgrade(FoldProject(reports[p], IF evaluated[p] \in {"ok", "partial"}
                                         THEN solution.targets[p] ELSE {}), Doubted(p))]

Loaded == {p \in DOMAIN graphs : graphs[p] # "failed"}

RoslynCoverageReported(folded) ==
    IF \E p \in DOMAIN folded : folded[p] # "complete" THEN "partial" ELSE "ok"
RoslynCoverage(folded) ==
    IF \/ \E p \in DOMAIN folded : folded[p] # "complete"
       \/ solution.selected \ (solution.tests \cup DOMAIN folded) # {}
       \/ solution.links \ DOMAIN folded # {}
    THEN "partial" ELSE "ok"

\* A project that timed out failed, and makes the row say so.
MsbuildCoverage ==
    CASE \A p \in solution.selected : evaluated[p] = "ok" -> IF solution.missing THEN "partial" ELSE "ok"
      [] \E p \in solution.selected : evaluated[p] = "timedOut" -> "timed out"
      [] OTHER -> "partial"

-----------------------------------------------------------------------------
(* The steps *)

DotNetInit ==
    /\ solution = NoSolution /\ dnStage = "idle"
    /\ evaluated = [p \in Csprojs |-> "pending"] /\ evalError = FALSE
    /\ borrowed = {} /\ differs = {} /\ suspect = {}
    /\ compiled = [p \in Csprojs |-> <<>>] /\ graphs = <<>> /\ isReported = FALSE
    /\ msbuildRow = "pending" /\ roslynRow = "pending"

DotNetOpen(s) ==
    /\ solution = NoSolution
    /\ solution' = s /\ dnStage' = "discover"
    /\ UNCHANGED <<evaluated, evalError, borrowed, differs, suspect, compiled, graphs, isReported,
                   msbuildRow, roslynRow>>

\* Extract is done: with an error, or with the two rows.
DotNetDone(primary, roslyn) ==
    /\ dnStage' = "done"
    /\ msbuildRow' = primary /\ roslynRow' = roslyn
    /\ UNCHANGED <<solution, evaluated, evalError, borrowed, differs, suspect, compiled>>
NothingReported == UNCHANGED <<graphs, isReported>>
IfDisabled == IF solution.helper = "disabled" THEN "disabled" ELSE "absent"
DotNetError == DotNetDone("error", IfDisabled) /\ NothingReported

IfOn(status) == IF solution.on THEN "error" ELSE status

\* Nothing to look at, no SDK, or a selection that cannot be read.
Unselected ==
    /\ dnStage = "discover"
    /\ \/ /\ solution.selected = {}
          /\ DotNetDone(IF solution.missing THEN IfOn("partial") ELSE "absent", "absent")
       \/ \E r \in {"absent", "partial"} : DotNetDone(IfOn(r), IfDisabled)
    /\ NothingReported

Selected ==
    /\ dnStage = "discover" /\ solution.selected # {}
    /\ dnStage' = "evaluate"
    /\ UNCHANGED <<solution, evaluated, evalError, borrowed, differs, suspect, compiled, graphs,
                   isReported, msbuildRow, roslynRow>>

Evaluating == {p \in Csprojs : evaluated[p] = "running"}

EvalBegin(p) ==
    /\ dnStage = "evaluate" /\ p \in solution.selected /\ evaluated[p] = "pending"
    /\ Cardinality(Evaluating) < EvalParallelism
    /\ evaluated' = [evaluated EXCEPT ![p] = "running"]
    /\ UNCHANGED <<solution, dnStage, evalError, borrowed, differs, suspect, compiled, graphs, isReported,
                   msbuildRow, roslynRow>>

\* The first error cancels the evaluations that are under way, and those to come.
EvalEnd(p) ==
    /\ evaluated[p] = "running"
    /\ \E status \in {"ok", "partial", "failed", "timedOut", "error"} :
         /\ evalError => status = "error"
         /\ evaluated' = [evaluated EXCEPT ![p] = status]
         /\ evalError' = (evalError \/ status = "error")
    /\ UNCHANGED <<solution, dnStage, borrowed, differs, suspect, compiled, graphs, isReported, msbuildRow,
                   roslynRow>>

EvalAll ==
    /\ dnStage = "evaluate"
    /\ \A p \in solution.selected : evaluated[p] \notin {"pending", "running"}
    /\ IF evalError \/ solution.helper = "invalid"
       THEN DotNetError
       ELSE IF solution.helper \in {"disabled", "unset"}
       THEN DotNetDone(MsbuildCoverage, IfDisabled) /\ NothingReported
       ELSE /\ dnStage' = "snapshot"
            /\ UNCHANGED <<solution, evaluated, evalError, borrowed, differs, suspect, compiled, graphs,
                           isReported, msbuildRow, roslynRow>>

\* The restore outputs the copy of the tree lacks come from the working tree.
CanBorrow == {p \in solution.selected : solution.borrows /\ evaluated[p] \in {"ok", "partial"}}
Snapshot ==
    /\ dnStage = "snapshot"
    /\ \E b \in SUBSET CanBorrow :
         /\ borrowed' = b
         /\ differs' \in SUBSET b
         /\ dnStage' = IF b = {} THEN "helper" ELSE "restore"
    /\ UNCHANGED <<solution, evaluated, evalError, suspect, compiled, graphs, isReported, msbuildRow, roslynRow>>

\* The restore inputs of both trees; when they cannot be had, none is taken to agree.
RestoreSuspects == {differs, borrowed}
CompareInputs ==
    /\ dnStage = "restore"
    /\ suspect' \in RestoreSuspects
    /\ dnStage' = "helper"
    /\ UNCHANGED <<solution, evaluated, evalError, borrowed, differs, compiled, graphs, isReported, msbuildRow,
                   roslynRow>>

\* Every step of the helper's run may fail, run out of time, or be cancelled.
HelperFails ==
    /\ dnStage \in {"snapshot", "restore", "helper"}
    /\ \/ \E r \in {"partial", "timed out"} :
            /\ r = "partial" => dnStage # "restore"
            /\ DotNetDone(MsbuildCoverage, r) /\ NothingReported
       \/ DotNetError

\* The helper compiles what is selected, and its report is read.
Compile ==
    /\ dnStage = "helper"
    /\ \E b \in [Reachable -> UNION {Workspace(solution.targets[p]) : p \in Reachable} \cup {<<>>}] :
         /\ \A p \in Reachable : b[p] \in Workspace(solution.targets[p]) \cup {<<>>}
         /\ compiled' = [p \in Csprojs |-> IF p \in Reachable THEN b[p] ELSE <<>>]
    /\ dnStage' = "fold"
    /\ UNCHANGED <<solution, evaluated, evalError, borrowed, differs, suspect, graphs, isReported, msbuildRow,
                   roslynRow>>

Fold ==
    /\ dnStage = "fold"
    /\ \E named \in BOOLEAN :
         LET folded == FoldReport([p \in Csprojs |-> Classify(compiled[p], named)])
         IN  /\ graphs' = folded /\ isReported' = TRUE
             /\ DotNetDone(MsbuildCoverage, RoslynCoverage(folded))

DotNetNext ==
    \/ \E s \in Solutions : DotNetOpen(s)
    \/ Unselected \/ Selected
    \/ \E p \in Csprojs : EvalBegin(p) \/ EvalEnd(p)
    \/ EvalAll \/ Snapshot \/ CompareInputs \/ HelperFails \/ Compile \/ Fold

DotNetSpec == DotNetInit /\ [][DotNetNext]_dotnetVars

-----------------------------------------------------------------------------
(* Which files have a gap (gaps.go)                                         *)

\* Extract came through, and all that is incomplete belongs to a project.
Attributed ==
    /\ dnStage = "done" /\ msbuildRow # "error"
    /\ solution.selected # {} /\ ~solution.missing
    /\ \A p \in solution.selected : evaluated[p] # "pending"

ProjectGaps ==
    {p \in (solution.selected \ solution.tests) \cup DOMAIN graphs :
       /\ p \notin solution.tests
       /\ p \in DOMAIN graphs => graphs[p] # "complete"}

\* The projects that reported the file, or else the one whose directory holds it.
Members(f) ==
    {p \in Loaded : p \in solution.compiles[f] /\ \E t \in DOMAIN compiled[p] : compiled[p][t] \in {"clean", "broken"}}
FileOwners(f) ==
    IF Members(f) # {} THEN Members(f)
    ELSE {solution.under[f]} \cap (solution.selected \cup DOMAIN graphs)

GapFiles == {f \in Sources : FileOwners(f) \cap ProjectGaps # {}}

-----------------------------------------------------------------------------
(* Properties *)

\* Every variable has its type; no more evaluations run than the limit allows, and none
\* once Extract is past them.
DotNetTypeOK ==
    /\ solution = NoSolution \/ solution \in Solutions
    /\ dnStage \in {"idle", "discover", "evaluate", "snapshot", "restore", "helper", "fold", "done"}
    /\ \A p \in Csprojs : evaluated[p] \in {"pending", "running", "ok", "partial", "failed", "timedOut", "error"}
    /\ Cardinality(Evaluating) <= EvalParallelism
    /\ dnStage # "evaluate" => Evaluating = {}
    /\ differs \subseteq borrowed /\ suspect \subseteq borrowed
    /\ DOMAIN graphs \subseteq Csprojs
    /\ \A p \in DOMAIN graphs : graphs[p] \in {"complete", "partial", "failed"}

\* The imports of a project's files are all in the graph.
Holds(p) ==
    /\ p \in Loaded
    /\ \A t \in solution.targets[p] : t \in DOMAIN compiled[p] /\ compiled[p][t] = "clean"
    /\ p \notin differs \cup solution.inherits \cup solution.links

\* A rule that reads the gaps instead of the rows reads all there are
\* (LastDependencyGaps): a file without a gap, of a project that the run selected or the
\* helper reported, and of no test project, has its imports in the graph, by each project
\* that reports it.
IsKnown(p) == p \in solution.selected \cup DOMAIN graphs
GapsCoverFiles ==
    Attributed =>
      \A f \in Sources \ GapFiles :
        solution.compiles[f] \cap solution.tests = {} /\ (Members(f) # {} \/ IsKnown(solution.under[f])) =>
          /\ \E p \in solution.compiles[f] : Holds(p)
          /\ \A p \in Members(f) : Holds(p)

\* And the row of the helper is ok only when there is nothing to attribute
\* (typeGraphCoverage): every production project of the selection is whole.
OkRowIsWhole ==
    dnStage = "done" /\ roslynRow = "ok" =>
      \A p \in Reachable \ solution.tests : p \in solution.selected \/ p \in DOMAIN graphs => Holds(p)

\* What of a solution is lost is told: file by file where it is, and by a row
\* that is not ok (gaps.go, coverage row of the Roslyn pass).
LossIsTold == GapsCoverFiles /\ OkRowIsWhole
=============================================================================
