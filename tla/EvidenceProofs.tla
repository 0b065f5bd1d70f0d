---------------------------- MODULE EvidenceProofs ----------------------------
(***************************************************************************)
(* Evidence and what is said of it, for every tree and every change of it and  *)
(* of the host: what is lost of a .NET solution is told (LossIsTold), what the  *)
(* consumers of a symbol index are told is earned (StrengthIsEarned), what a    *)
(* dimension claims it would claim with nothing lost (ClaimIsWhole), coverage   *)
(* called fresh was measured on the bytes read (FreshIsMeasured), and operations *)
(* are measured on owners and manifests that are there (OwnersAreStated).       *)
(***************************************************************************)
EXTENDS DotNet, SymbolIndex, Claims, SuppliedCoverage, Operations, FiniteSetTheorems, SequenceTheorems, TLAPS

-----------------------------------------------------------------------------
(* .NET: what a project called complete is                                    *)

\* What the helper's compilations of a project may have come to.
CompiledWell(s, c) == \A p \in Csprojs : c[p] = <<>> \/ c[p] \in Workspace(s.targets[p])

\* What Extract ends with: nothing of the helper, or its report, folded.
FoldedWell ==
    /\ differs \subseteq suspect /\ CompiledWell(solution, compiled)
    /\ \E named \in BOOLEAN : graphs = FoldReport([p \in Csprojs |-> Classify(compiled[p], named)])
    /\ roslynRow = RoslynCoverage(graphs)
NoReport == graphs = <<>> /\ roslynRow # "ok"

DotNetInv ==
    /\ solution = NoSolution \/ solution \in Solutions
    /\ dnStage # "idle" => solution # NoSolution
    /\ evaluated \in [Csprojs -> {"pending", "running", "ok", "partial", "failed", "timedOut", "error"}]
    /\ \A p \in Csprojs : evaluated[p] = "running" => dnStage = "evaluate" /\ p \in solution.selected
    /\ dnStage # "done" => NoReport
    /\ differs \subseteq borrowed
    /\ dnStage \in {"helper", "fold"} => differs \subseteq suspect
    /\ dnStage = "fold" => CompiledWell(solution, compiled)
    /\ dnStage = "done" => NoReport \/ FoldedWell

\* An attempt is complete when all names resolved, and an outcome of a project's
\* frameworks has an attempt for each.
LEMMA CleanAttempts == \A a \in Attempts : AttemptStatus(a) = "complete" <=> a = "clean"
    BY DEF Attempts, AttemptStatus

LEMMA WorkspaceIs ==
    ASSUME NEW T \in SUBSET {"net8.0", "net9.0"}, NEW b \in Workspace(T)
    PROVE  /\ \A t \in DOMAIN b : b[t] \in Attempts
           /\ T \subseteq DOMAIN b
<1>1. CASE b = [t \in T |-> "empty"]
    BY <1>1 DEF Attempts
<1>2. CASE b \in [T -> Attempts]
    BY <1>2
<1>3. CASE b \in {[t \in T \cup {""} |-> IF t = "" THEN "empty" ELSE c[t]] : c \in [T -> Attempts]}
    BY <1>3 DEF Attempts
<1> QED
    BY <1>1, <1>2, <1>3 DEF Workspace

\* Of a project called complete every framework compiled clean.
CompleteFold(b, named, U) == Classify(b, named) # {} /\ FoldProject(Classify(b, named), U) = "complete"
AllClean(T, b) ==
    /\ \A t \in T : t \in DOMAIN b /\ b[t] = "clean"
    /\ \E t \in DOMAIN b : b[t] = "clean"

LEMMA CompleteIsClean ==
    ASSUME NEW T \in SUBSET {"net8.0", "net9.0"}, NEW b, b = <<>> \/ b \in Workspace(T), NEW named \in BOOLEAN,
           NEW U, U = {} \/ U = T, CompleteFold(b, named, U)
    PROVE  AllClean(T, b)
<1>0. Classify(b, named) # {} /\ FoldProject(Classify(b, named), U) = "complete"
    BY DEF CompleteFold
<1>1. PICK K : K = WithoutOuterFailure(Classify(b, named), U)
    OBVIOUS
<1>2. (\E e \in K : e.status # "failed") /\ (\A e \in K : e.status = "complete")
    <2>1. K # {}
        BY <1>0, <1>1 DEF WithoutOuterFailure
    <2>2. CASE \A e \in K : e.status = "complete"
        BY <2>1, <2>2
    <2>3. CASE (\A e \in K : e.status = "failed") /\ ~\A e \in K : e.status = "complete"
        BY <1>0, <1>1, <2>3 DEF FoldProject
    <2>4. CASE (~\A e \in K : e.status = "failed") /\ ~\A e \in K : e.status = "complete"
        BY <1>0, <1>1, <2>4 DEF FoldProject
    <2> QED
        BY <2>2, <2>3, <2>4
<1>3. K \subseteq Classify(b, named)
    BY <1>1 DEF WithoutOuterFailure
<1>4. b # <<>>
    <2>1. ASSUME b = <<>> PROVE \A e \in Classify(b, named) : e.status = "failed"
        <3>1. CASE named
            <4>1. PICK x : x = [tfm |-> "", status |-> "failed"]
                OBVIOUS
            <4>2. Classify(b, named) = {x}
                BY <2>1, <3>1, <4>1, Zenon DEF Classify
            <4>3. x.status = "failed"
                BY <4>1
            <4> QED
                BY <4>2, <4>3
        <3>2. CASE ~named
            <4>1. Classify(b, named) = {}
                BY <2>1, <3>2, Zenon DEF Classify
            <4> QED
                BY <4>1
        <3> QED
            BY <3>1, <3>2
    <2> QED
        BY <1>2, <1>3, <2>1
<1>5. b \in Workspace(T)
    BY <1>4
<1>6. (\A t \in DOMAIN b : b[t] \in Attempts) /\ T \subseteq DOMAIN b
    BY <1>5, WorkspaceIs
<1>7. PICK D : D = DOMAIN b \ (IF CrossTargeting(b) THEN {""} ELSE {})
    OBVIOUS
<1>8. Classify(b, named) = {[tfm |-> t, status |-> AttemptStatus(b[t])] : t \in D}
    BY <1>4, <1>7 DEF Classify
<1>9. \A t \in T : t \in DOMAIN b /\ b[t] = "clean"
    <2> TAKE t \in T
    <2>1. t # "" /\ t \in D
        BY <1>6, <1>7
    <2>2. PICK e : e = [tfm |-> t, status |-> AttemptStatus(b[t])]
        OBVIOUS
    <2>3. e \in Classify(b, named) /\ e.tfm # ""
        BY <1>8, <2>1, <2>2
    <2>4. e \in K
        BY <1>1, <2>3 DEF WithoutOuterFailure
    <2>5. AttemptStatus(b[t]) = "complete"
        BY <1>2, <2>2, <2>4
    <2> QED
        BY <1>6, <2>5, CleanAttempts
<1>10. \E t \in DOMAIN b : b[t] = "clean"
    <2>1. PICK e \in K : e.status = "complete"
        BY <1>2
    <2>2. PICK t \in D : e = [tfm |-> t, status |-> AttemptStatus(b[t])]
        BY <1>3, <1>8, <2>1
    <2>3. t \in DOMAIN b /\ AttemptStatus(b[t]) = "complete"
        BY <1>7, <2>1, <2>2
    <2> QED
        BY <1>6, <2>3, CleanAttempts
<1> QED
    BY <1>9, <1>10 DEF AllClean

\* A production project called complete is in the graph whole.
LEMMA CompleteHolds ==
    ASSUME FoldedWell, solution \in Solutions, NEW p \in DOMAIN graphs, p \notin solution.tests,
           graphs[p] = "complete"
    PROVE  /\ Holds(p) /\ p \in Loaded
           /\ \E t \in DOMAIN compiled[p] : compiled[p][t] = "clean"
<1>1. PICK named \in BOOLEAN : graphs = FoldReport([q \in Csprojs |-> Classify(compiled[q], named)])
    BY DEF FoldedWell
<1>2. /\ solution.selected \subseteq Csprojs /\ solution.reached \subseteq Csprojs
      /\ solution.targets \in [Csprojs -> SUBSET {"net8.0", "net9.0"}]
    BY DotNetAssumption DEF DotNetAssumption
<1>3. PICK U : U = IF evaluated[p] \in {"ok", "partial"} THEN solution.targets[p] ELSE {}
    OBVIOUS
<1>4. p \in Csprojs
    BY <1>1, <1>2 DEF FoldReport, Reachable
<1>5. graphs[p] = Downgrade(FoldProject(Classify(compiled[p], named), U), Doubted(p))
    BY <1>1, <1>3, <1>4 DEF FoldReport
<1>6. FoldProject(Classify(compiled[p], named), U) = "complete" /\ ~Doubted(p)
    BY <1>5 DEF Downgrade
<1>7. compiled[p] = <<>> \/ compiled[p] \in Workspace(solution.targets[p])
    BY <1>4 DEF FoldedWell, CompiledWell
<1>8. /\ \A t \in solution.targets[p] : t \in DOMAIN compiled[p] /\ compiled[p][t] = "clean"
      /\ \E t \in DOMAIN compiled[p] : compiled[p][t] = "clean"
    <2>1. Classify(compiled[p], named) # {}
        BY <1>1, <1>4 DEF FoldReport
    <2>2. U = {} \/ U = solution.targets[p]
        BY <1>3
    <2>3. solution.targets[p] \in SUBSET {"net8.0", "net9.0"}
        BY <1>2, <1>4
    <2>4. PICK b, T : b = compiled[p] /\ T = solution.targets[p]
        OBVIOUS
    <2>5. /\ T \in SUBSET {"net8.0", "net9.0"} /\ (b = <<>> \/ b \in Workspace(T)) /\ (U = {} \/ U = T)
          /\ CompleteFold(b, named, U)
        BY <1>6, <1>7, <2>1, <2>2, <2>3, <2>4, Zenon DEF CompleteFold
    <2>6. AllClean(T, b)
        BY <1>1, <2>5, CompleteIsClean
    <2> QED
        BY <2>4, <2>6, Zenon DEF AllClean
<1>9. p \notin differs \cup solution.inherits \cup solution.links
    BY <1>6 DEF FoldedWell, Doubted
<1>10. p \in Loaded
    BY DEF Loaded
<1> QED
    BY <1>8, <1>9, <1>10 DEF Holds

-----------------------------------------------------------------------------
(* .NET: what the invariant gives                                             *)

LEMMA GapsCover == DotNetInv => GapsCoverFiles
<1> SUFFICES ASSUME DotNetInv, Attributed, NEW f \in Sources \ GapFiles,
                    solution.compiles[f] \cap solution.tests = {},
                    Members(f) # {} \/ IsKnown(solution.under[f])
             PROVE  /\ \E p \in solution.compiles[f] : Holds(p)
                    /\ \A p \in Members(f) : Holds(p)
    BY DEF GapsCoverFiles
<1>1. dnStage = "done" /\ solution \in Solutions
    BY DEF Attributed, DotNetInv
<1>2. solution.under[f] \in solution.compiles[f]
    BY <1>1, DotNetAssumption DEF DotNetAssumption
<1>3. FileOwners(f) \cap ProjectGaps = {}
    BY DEF GapFiles
<1>4. ASSUME NEW p \in FileOwners(f), p \in solution.compiles[f]
      PROVE  p \in DOMAIN graphs /\ graphs[p] = "complete" /\ p \notin solution.tests
    <2>1. p \in solution.selected \cup DOMAIN graphs
        BY <1>4 DEF FileOwners, Members, Loaded
    <2>2. p \notin solution.tests
        BY <1>4
    <2>3. p \notin ProjectGaps
        BY <1>3, <1>4
    <2> QED
        BY <2>1, <2>2, <2>3 DEF ProjectGaps
<1>5. ASSUME NEW p \in DOMAIN graphs, graphs[p] = "complete", p \notin solution.tests
      PROVE  Holds(p) /\ p \in Loaded /\ \E t \in DOMAIN compiled[p] : compiled[p][t] = "clean"
    <2>1. FoldedWell
        BY <1>1, <1>5 DEF DotNetInv, NoReport
    <2> QED
        BY <1>1, <1>5, <2>1, CompleteHolds
<1>6. CASE Members(f) # {}
    <2>1. FileOwners(f) = Members(f) /\ Members(f) \subseteq solution.compiles[f]
        BY <1>6 DEF FileOwners, Members
    <2>2. \A p \in Members(f) : Holds(p)
        BY <1>4, <1>5, <2>1
    <2> QED
        BY <1>6, <2>1, <2>2
<1>7. CASE Members(f) = {}
    <2>1. PICK p : p = solution.under[f]
        OBVIOUS
    <2>2. p \in FileOwners(f) /\ p \in solution.compiles[f]
        BY <1>2, <1>7, <2>1 DEF FileOwners, IsKnown
    <2>3. p \in Loaded /\ \E t \in DOMAIN compiled[p] : compiled[p][t] = "clean"
        BY <1>4, <1>5, <2>2
    <2>4. p \in Members(f)
        BY <2>2, <2>3 DEF Members
    <2> QED
        BY <1>7, <2>4
<1> QED
    BY <1>6, <1>7

LEMMA OkIsWholeRow == DotNetInv => OkRowIsWhole
<1> SUFFICES ASSUME DotNetInv, dnStage = "done", roslynRow = "ok",
                    NEW p \in Reachable \ solution.tests, p \in solution.selected \/ p \in DOMAIN graphs
             PROVE  Holds(p)
    BY DEF OkRowIsWhole
<1>1. FoldedWell /\ solution \in Solutions
    BY DEF DotNetInv, NoReport
<1>2. /\ \A q \in DOMAIN graphs : graphs[q] = "complete"
      /\ solution.selected \ (solution.tests \cup DOMAIN graphs) = {}
    BY <1>1 DEF FoldedWell, RoslynCoverage
<1>3. p \in DOMAIN graphs
    BY <1>2
<1> QED
    BY <1>1, <1>2, <1>3, CompleteHolds

-----------------------------------------------------------------------------
(* .NET: the invariant is kept                                                *)

\* A stop before the report tells nothing of the type graph.
LEMMA StopsKeep ==
    ASSUME DotNetInv, dnStage \notin {"idle", "done"}, \A p \in Csprojs : evaluated[p] # "running", NEW m, NEW r, r # "ok",
           DotNetDone(m, r), NothingReported
    PROVE  DotNetInv'
<1>1. NoReport'
    BY DEF DotNetInv, NoReport, DotNetDone, NothingReported
<1>2. solution' = solution /\ evaluated' = evaluated /\ dnStage' = "done" /\ differs' = differs /\ borrowed' = borrowed
    BY DEF DotNetDone
<1> QED
    BY <1>1, <1>2 DEF DotNetInv

LEMMA DotNetInitInv == DotNetInit => DotNetInv
    BY DEF DotNetInit, DotNetInv, NoReport

\* A step before the report.
LEMMA BeforeReport ==
    ASSUME DotNetInv, dnStage # "done", dnStage' # "done", UNCHANGED <<solution, graphs, roslynRow>>,
           solution \in Solutions,
           evaluated' \in [Csprojs -> {"pending", "running", "ok", "partial", "failed", "timedOut", "error"}],
           \A p \in Csprojs : evaluated'[p] = "running" => dnStage' = "evaluate" /\ p \in solution.selected,
           differs' \subseteq borrowed', dnStage' \in {"helper", "fold"} => differs' \subseteq suspect',
           dnStage' = "fold" => CompiledWell(solution, compiled')
    PROVE  DotNetInv'
<1>1. NoReport'
    BY DEF DotNetInv, NoReport
<1>2. solution' = solution
    OBVIOUS
<1>3. CompiledWell(solution, compiled)' = CompiledWell(solution, compiled')
    BY <1>2 DEF CompiledWell
<1>4. solution # NoSolution
    BY DotNetAssumption DEF DotNetAssumption
<1> QED
    BY <1>1, <1>2, <1>3, <1>4 DEF DotNetInv

LEMMA DotNetNextInv == DotNetInv /\ [DotNetNext]_dotnetVars => DotNetInv'
<1> SUFFICES ASSUME DotNetInv, [DotNetNext]_dotnetVars PROVE DotNetInv'
    OBVIOUS
<1>0. /\ evaluated \in [Csprojs -> {"pending", "running", "ok", "partial", "failed", "timedOut", "error"}]
      /\ \A p \in Csprojs : evaluated[p] = "running" => dnStage = "evaluate" /\ p \in solution.selected
      /\ dnStage # "idle" => solution \in Solutions
      /\ differs \subseteq borrowed
    BY DEF DotNetInv
<1>1. CASE UNCHANGED dotnetVars
    <2>1. solution' = solution /\ dnStage' = dnStage /\ evaluated' = evaluated
        BY <1>1 DEF dotnetVars
    <2>2. NoReport' = NoReport
        BY <1>1 DEF dotnetVars, NoReport
    <2>3. CompiledWell(solution, compiled)' = CompiledWell(solution, compiled)
        BY <1>1 DEF dotnetVars, CompiledWell
    <2>4. \A p : Doubted(p)' = Doubted(p)
        BY <1>1 DEF dotnetVars, Doubted
    <2>5. RoslynCoverage(graphs)' = RoslynCoverage(graphs)
        BY <1>1 DEF dotnetVars, RoslynCoverage
    <2>6. FoldedWell => FoldedWell'
        <3>1. \A named \in BOOLEAN :
                 FoldReport([p \in Csprojs |-> Classify(compiled[p], named)])'
                   = FoldReport([p \in Csprojs |-> Classify(compiled[p], named)])
            BY <1>1, <2>4 DEF dotnetVars, FoldReport, Reachable
        <3>2. /\ graphs' = graphs /\ roslynRow' = roslynRow
              /\ differs' = differs /\ suspect' = suspect
            BY <1>1 DEF dotnetVars
        <3> QED
            BY <2>3, <2>5, <3>1, <3>2 DEF FoldedWell
    <2>7. differs' = differs /\ suspect' = suspect /\ borrowed' = borrowed
        BY <1>1 DEF dotnetVars
    <2> QED
        BY <2>1, <2>2, <2>3, <2>6, <2>7 DEF DotNetInv
<1>2. ASSUME NEW s \in Solutions, DotNetOpen(s) PROVE DotNetInv'
    <2>1. dnStage = "idle" /\ NoReport
        BY <1>2, DotNetAssumption DEF DotNetAssumption, DotNetOpen, DotNetInv
    <2>2. NoReport'
        BY <1>2, <2>1 DEF DotNetOpen, NoReport
    <2>3. solution' \in Solutions /\ dnStage' = "discover" /\ evaluated' = evaluated /\ solution' # NoSolution
          /\ differs' = differs /\ borrowed' = borrowed
        BY <1>2, DotNetAssumption DEF DotNetAssumption, DotNetOpen
    <2>4. \A p \in Csprojs : evaluated[p] # "running"
        BY <1>0, <2>1
    <2> QED
        BY <1>0, <2>2, <2>3, <2>4 DEF DotNetInv
<1>3. CASE Unselected
    <2>1. dnStage = "discover" /\ \A p \in Csprojs : evaluated[p] # "running"
        BY <1>0, <1>3 DEF Unselected
    <2>2. \E m, r : r # "ok" /\ DotNetDone(m, r) /\ NothingReported
        BY <1>3 DEF Unselected, IfDisabled
    <2> QED
        BY <2>1, <2>2, StopsKeep
<1>4. CASE Selected
    BY <1>0, <1>4, BeforeReport DEF Selected
<1>5. ASSUME NEW p \in Csprojs, EvalBegin(p) PROVE DotNetInv'
    <2>1. dnStage = "evaluate" /\ dnStage' = "evaluate" /\ p \in solution.selected
        BY <1>5 DEF EvalBegin
    <2>2. evaluated' = [evaluated EXCEPT ![p] = "running"] /\ UNCHANGED <<solution, graphs, roslynRow, differs, borrowed>>
        BY <1>5 DEF EvalBegin
    <2> QED
        BY <1>0, <2>1, <2>2, BeforeReport
<1>6. ASSUME NEW p \in Csprojs, EvalEnd(p) PROVE DotNetInv'
    <2>1. dnStage = "evaluate" /\ dnStage' = "evaluate"
        BY <1>0, <1>6 DEF EvalEnd
    <2>2. PICK status \in {"ok", "partial", "failed", "timedOut", "error"} :
             evaluated' = [evaluated EXCEPT ![p] = status]
        BY <1>6 DEF EvalEnd
    <2>3. UNCHANGED <<solution, graphs, roslynRow, differs, borrowed>>
        BY <1>6 DEF EvalEnd
    <2> QED
        BY <1>0, <2>1, <2>2, <2>3, BeforeReport
<1>7. CASE EvalAll
    <2>1. \A p \in Csprojs : evaluated[p] # "running"
        BY <1>0, <1>7 DEF EvalAll
    <2>2. dnStage = "evaluate"
        BY <1>7 DEF EvalAll
    <2>3. CASE DotNetError
        BY <2>1, <2>2, <2>3, StopsKeep DEF DotNetError, IfDisabled
    <2>4. CASE DotNetDone(MsbuildCoverage, IfDisabled) /\ NothingReported
        BY <2>1, <2>2, <2>4, StopsKeep DEF IfDisabled
    <2>5. CASE dnStage' = "snapshot" /\ UNCHANGED <<solution, evaluated, evalError, borrowed, differs, suspect,
                                                   compiled, graphs, isReported, msbuildRow, roslynRow>>
        BY <1>0, <2>1, <2>2, <2>5, BeforeReport
    <2> QED
        BY <1>7, <2>3, <2>4, <2>5 DEF EvalAll
<1>8. CASE Snapshot
    <2>1. PICK b : /\ borrowed' = b /\ differs' \in SUBSET b
                   /\ dnStage' = IF b = {} THEN "helper" ELSE "restore"
        BY <1>8 DEF Snapshot
    <2>2. dnStage = "snapshot" /\ UNCHANGED <<solution, evaluated, graphs, roslynRow>>
        BY <1>8 DEF Snapshot
    <2>3. dnStage' \in {"helper", "restore"} /\ (dnStage' = "helper" => differs' = {}) /\ differs' \subseteq borrowed'
        BY <2>1
    <2> QED
        BY <1>0, <2>2, <2>3, BeforeReport
<1>9. CASE CompareInputs
    <2>1. differs' \subseteq suspect' /\ differs' \subseteq borrowed'
        BY <1>9 DEF CompareInputs, RestoreSuspects, DotNetInv
    <2>2. dnStage = "restore" /\ dnStage' = "helper" /\ UNCHANGED <<solution, evaluated, graphs, roslynRow>>
        BY <1>9 DEF CompareInputs
    <2> QED
        BY <1>0, <2>1, <2>2, BeforeReport
<1>10. CASE HelperFails
    <2>1. dnStage \in {"snapshot", "restore", "helper"} /\ \A p \in Csprojs : evaluated[p] # "running"
        BY <1>0, <1>10 DEF HelperFails
    <2>2. CASE \E r \in {"partial", "timed out"} : DotNetDone(MsbuildCoverage, r) /\ NothingReported
        BY <2>1, <2>2, StopsKeep
    <2>3. CASE DotNetError
        BY <2>1, <2>3, StopsKeep DEF DotNetError, IfDisabled
    <2> QED
        BY <1>10, <2>2, <2>3 DEF HelperFails
<1>11. CASE Compile
    <2>1. dnStage = "helper" /\ dnStage' = "fold" /\ UNCHANGED <<solution, evaluated, graphs, roslynRow, differs, suspect, borrowed>>
        BY <1>11 DEF Compile
    <2>2. PICK b : /\ \A p \in Reachable : b[p] \in Workspace(solution.targets[p]) \cup {<<>>}
                   /\ compiled' = [p \in Csprojs |-> IF p \in Reachable THEN b[p] ELSE <<>>]
        BY <1>11 DEF Compile
    <2>3. CompiledWell(solution, compiled')
        <3> SUFFICES ASSUME NEW p \in Csprojs
                     PROVE  compiled'[p] = <<>> \/ compiled'[p] \in Workspace(solution.targets[p])
            BY DEF CompiledWell
        <3>1. compiled'[p] = IF p \in Reachable THEN b[p] ELSE <<>>
            BY <2>2
        <3>2. CASE p \in Reachable
            <4>1. b[p] \in Workspace(solution.targets[p]) \cup {<<>>}
                BY <2>2, <3>2
            <4> QED
                BY <3>1, <3>2, <4>1, Zenon
        <3> QED
            BY <3>1, <3>2, Zenon
    <2>4. differs' \subseteq suspect' /\ differs' \subseteq borrowed'
        BY <2>1 DEF DotNetInv
    <2> QED
        BY <1>0, <2>1, <2>3, <2>4, BeforeReport
<1>12. CASE Fold
    <2>1. dnStage = "fold" /\ dnStage' = "done"
        BY <1>12 DEF Fold, DotNetDone
    <2>2. PICK named \in BOOLEAN : /\ graphs' = FoldReport([p \in Csprojs |-> Classify(compiled[p], named)])
                                  /\ roslynRow' = RoslynCoverage(graphs')
        BY <1>12 DEF Fold, DotNetDone
    <2>3. UNCHANGED <<solution, evaluated, differs, suspect, compiled>>
        BY <1>12 DEF Fold, DotNetDone
    <2>4. FoldReport([p \in Csprojs |-> Classify(compiled[p], named)])'
            = FoldReport([p \in Csprojs |-> Classify(compiled[p], named)])
        BY <2>3 DEF FoldReport, Reachable, Doubted
    <2>5. RoslynCoverage(graphs)' = RoslynCoverage(graphs')
        BY <2>3 DEF RoslynCoverage
    <2>6. differs \subseteq suspect /\ CompiledWell(solution, compiled)
        BY <2>1 DEF DotNetInv
    <2>7. CompiledWell(solution, compiled)'
        BY <2>3, <2>6 DEF CompiledWell
    <2>8. FoldedWell'
        BY <2>2, <2>3, <2>4, <2>5, <2>6, <2>7 DEF FoldedWell
    <2>9. solution' = solution /\ evaluated' = evaluated /\ solution \in Solutions
          /\ differs' \subseteq borrowed'
        BY <1>0, <1>12, <2>1, <2>3 DEF Fold, DotNetDone
    <2>10. \A p \in Csprojs : evaluated[p] # "running"
        BY <1>0, <2>1
    <2>11. solution \in Solutions /\ solution # NoSolution
        BY <2>9, DotNetAssumption DEF DotNetAssumption
    <2> QED
        BY <1>0, <2>1, <2>8, <2>9, <2>10, <2>11 DEF DotNetInv
<1> QED
    BY <1>1, <1>2, <1>3, <1>4, <1>5, <1>6, <1>7, <1>8, <1>9, <1>10, <1>11, <1>12 DEF DotNetNext

\* Whatever evaluations, restores, compilations and stops there are, a file without a gap
\* has its imports in the graph, and the helper's row is ok only of a whole solution.
THEOREM LossTold == DotNetSpec => []LossIsTold
<1>1. DotNetInv => LossIsTold
    BY GapsCover, OkIsWholeRow DEF LossIsTold
<1> QED
    BY <1>1, DotNetInitInv, DotNetNextInv, PTL DEF DotNetSpec

-----------------------------------------------------------------------------
(* The adapter's invariant                                                    *)

AdapterFields == {"scan", "pc", "answers", "memo", "lang", "version", "packages",
                  "key", "raw", "raced", "hints", "overlay"}
IsAdapter(a) == DOMAIN a = AdapterFields
AnswerType == [consumer : {"strengths", "connascence", "data", "symbols"},
               status : {"absent", "timed_out", "partial", "ok"}, items : SUBSET SymbolRefs,
               raw : RawIndexes \cup {NoIndex}]
IndexKeys == (IndexLangs \cup {""}) \X Nat \X (SUBSET CargoPackages) \X Nat

OneEach(es) == \A e, f \in es : SameEnds(e, f) => e = f
IdsApart(ps) == ps \subseteq CargoPackages /\ \A p, q \in ps : p.id = q.id => p = q

\* What an index is worth under a key: read by the indexer the key names, of the
\* text it names and by its version, unless one of them changed meanwhile.
ReadFor(raw, key) ==
    /\ raw \in RawIndexes /\ key \in IndexKeys
    /\ OneEach(raw.refs)
    /\ raw.lang = key[1] /\ (raw.lang # "rust" => raw.attribution = "ok")
    /\ ~raw.raced => raw.text = key[4] /\ (key[2] # 0 => raw.version = key[2])

IndexTyped ==
    /\ indexed \in [tree : Indexed, text : Nat]
    /\ host \in [tools : SUBSET IndexLangs, python : {"uv", "none", "refused"}, modules : BOOLEAN, version : Nat]
    /\ IsAdapter(adapter)
    /\ adapter.scan \in Nat
    /\ adapter.pc \in {"idle", "detect", "reader", "lookup", "index", "read", "answer", "done"}
    /\ adapter.answers \in Seq(AnswerType) /\ Len(adapter.answers) <= 4
    /\ adapter.memo \in IndexOutcomes \cup {NoIndex}
    /\ adapter.lang \in IndexLangs \cup {""} /\ adapter.version \in Nat
    /\ IdsApart(adapter.packages) /\ (adapter.lang # "rust" => adapter.packages = {})
    /\ adapter.raced \in BOOLEAN

\* What is cached is worth what its key says.
CachedWell == \A e \in indexFacts : ReadFor(e.raw, e.key)

KeyOfScan(k) == k \in IndexKeys /\ k[1] = adapter.lang /\ k[2] = adapter.version

\* The pipeline runs once, before anyone is answered, and keeps its bearings.
Running ==
    /\ adapter.pc \in {"detect", "reader", "lookup", "index", "read"} =>
         adapter.answers = <<>> /\ adapter.memo = NoIndex
    /\ adapter.pc \in {"reader", "lookup", "index", "read"} => adapter.lang \in IndexLangs
    /\ adapter.pc = "lookup" /\ ~adapter.raced /\ adapter.version # 0 => host.version = adapter.version
    /\ adapter.pc \in {"index", "read"} => KeyOfScan(adapter.key)
    /\ adapter.pc = "index" /\ ~adapter.raced =>
         /\ adapter.key[4] = indexed.text
         /\ adapter.version # 0 => host.version = adapter.version
    /\ adapter.pc = "read" => ReadFor(adapter.raw, adapter.key)
    /\ adapter.pc \in {"answer", "done"} => adapter.memo # NoIndex
    /\ adapter.pc = "answer" => Len(adapter.answers) < 4
    /\ adapter.pc = "done" => Len(adapter.answers) = 4
    /\ adapter.memo = NoIndex => adapter.answers = <<>>
    /\ adapter.pc = "detect" \/ (adapter.pc = "idle" /\ adapter.memo = NoIndex) => adapter.lang = ""

\* What a pipeline ends with: nothing, or an index, its coverage and its aliases.
Issues(ps, es) == Blocked(ps) # {} \/ rustObservedPackageEdges(es, rustTargetPackageOwners(ps)).issues
OutcomeOf(m, lang, ps) ==
    /\ ~m.ok => m.status # "ok" /\ m.raw = NoIndex /\ m.aliases = {}
    /\ m.ok => /\ m.raw \in RawIndexes /\ m.raw.lang = lang /\ ReaderCovers(lang, m.raw)
               /\ lang # "rust" => m.status = "partial" /\ m.aliases = {}
               /\ lang = "rust" =>
                    /\ m.aliases = rustObservedPackageEdges(m.raw.refs, rustTargetPackageOwners(ps)).aliases
                    /\ Issues(ps, m.raw.refs) \/ m.raw.attribution # "ok" => m.status = "partial" /\ m.reason
Concluded ==
    adapter.memo # NoIndex =>
        /\ OutcomeOf(adapter.memo, adapter.lang, adapter.packages)
        /\ adapter.memo.ok => KeyOfScan(adapter.key) /\ ReadFor(adapter.memo.raw, adapter.key)

Given(who, m) == [AnswerOf(who, m) EXCEPT !.raw = m.raw]

\* The answers are what the outcome says, in the consumers' order.
AnswersFollow ==
    \A n \in DOMAIN adapter.answers :
        adapter.answers[n] = Given(Consumers[n], adapter.memo)

IndexInv == IndexTyped /\ CachedWell /\ Running /\ Concluded /\ AnswersFollow

-----------------------------------------------------------------------------
(* Packages and their crates                                                  *)

\* Ranks have a greatest.
LEMMA GreatestRank ==
    ASSUME NEW S \in SUBSET (0..4), S # {}
    PROVE  \E m \in S : \A x \in S : x <= m
<1>1. CASE 4 \in S
    BY <1>1
<1>2. CASE 4 \notin S /\ 3 \in S
    BY <1>2
<1>3. CASE 4 \notin S /\ 3 \notin S /\ 2 \in S
    BY <1>3
<1>4. CASE 4 \notin S /\ 3 \notin S /\ 2 \notin S /\ 1 \in S
    BY <1>4
<1>5. CASE 4 \notin S /\ 3 \notin S /\ 2 \notin S /\ 1 \notin S
    <2>1. \A x \in S : x = 0
        <3>1. \A x \in 0..4 : x \in {0, 1, 2, 3, 4}
            OBVIOUS
        <3> QED
            BY <1>5, <3>1
    <2>2. PICK y \in S : TRUE
        OBVIOUS
    <2> QED
        BY <2>1, <2>2
<1> QED
    BY <1>1, <1>2, <1>3, <1>4, <1>5

\* Packages that their ids tell apart are finitely many.
LEMMA FewPackages ==
    ASSUME NEW ps, IdsApart(ps)
    PROVE  IsFiniteSet(ps)
<1> DEFINE id == [p \in ps |-> p.id]
<1>1. \A p \in ps : p.id \in 1..3
    BY DEF IdsApart, CargoPackages
<1>2. id \in [ps -> 1..3]
    BY <1>1
<1>3. \A p, q \in ps : id[p] = id[q] => p = q
    BY DEF IdsApart
<1>4. id \in Injection(ps, 1..3)
    BY <1>2, <1>3 DEF Injection, IsInjective
<1>5. IsFiniteSet(1..3)
    <2>1. 1 \in Int /\ 3 \in Int
        OBVIOUS
    <2> QED
        BY <2>1, FS_Interval, Zenon
<1> HIDE DEF id
<1> QED
    BY <1>4, <1>5, FS_Injection

LEMMA OneOrMore ==
    ASSUME NEW ps, IdsApart(ps), NEW S \in SUBSET ps
    PROVE  /\ Cardinality(S) = 1 <=> \E p \in ps : S = {p}
           /\ S # {} => Cardinality(S) = 1 \/ Cardinality(S) > 1
<1>1. IsFiniteSet(S) /\ Cardinality(S) \in Nat
    BY FewPackages, FS_Subset, FS_CardinalityType
<1>2. Cardinality(S) = 1 <=> \E p : S = {p}
    BY <1>1, FS_Singleton
<1>3. S # {} => Cardinality(S) # 0
    BY <1>1, FS_EmptySet
<1>4. (\E p : S = {p}) <=> \E p \in ps : S = {p}
    OBVIOUS
<1> QED
    BY <1>1, <1>2, <1>3, <1>4

\* The packages that build a crate or bear its name are called n, and one builds it.
SurelyIn(ps, c, n) ==
    /\ Owners(ps, c) # {}
    /\ \A p \in ps : c \in p.targets \/ p.name = c => p.name = n

\* A crate that an owner is found for is surely the owner's.
LEMMA OwnedSurely ==
    ASSUME NEW ps, IdsApart(ps), NEW c \in DOMAIN rustTargetPackageOwners(ps)
    PROVE  LET n == rustTargetPackageOwners(ps)[c]
           IN  c \in Crates /\ n \in Crates /\ n \notin Blocked(ps) /\ SurelyIn(ps, c, n)
               /\ \E p \in ps : p.name = n
<1>1. /\ c \in Crates /\ Cardinality(Owners(ps, c)) = 1 /\ c \notin Overlaps(ps)
      /\ \A p \in Owners(ps, c) : p.name \notin Blocked(ps)
      /\ rustTargetPackageOwners(ps)[c] = (CHOOSE p \in Owners(ps, c) : TRUE).name
    BY DEF rustTargetPackageOwners
<1>2. PICK p \in ps : Owners(ps, c) = {p}
    BY <1>1, OneOrMore DEF Owners
<1>3. rustTargetPackageOwners(ps)[c] = p.name
    BY <1>1, <1>2
<1>4. p.name \in Crates
    BY DEF IdsApart, CargoPackages
<1>5. \A q \in ps : q.name = c => q \in Owners(ps, c)
    BY <1>1 DEF Overlaps
<1>6. SurelyIn(ps, c, p.name)
    BY <1>2, <1>5 DEF SurelyIn, Owners
<1> QED
    BY <1>1, <1>2, <1>3, <1>4, <1>6

\* The name of a package that is not in doubt is its alone.
LEMMA NamedOnce ==
    ASSUME NEW ps, IdsApart(ps), NEW p \in ps, p.name \notin Blocked(ps)
    PROVE  /\ {q \in ps : q.name = p.name} = {p}
           /\ \A q \in Owners(ps, p.name) : q = p
<1>1. p.name \in Crates
    BY DEF IdsApart, CargoPackages
<1>2. \A q \in ps : q.name = p.name => q = p
    BY DEF IdsApart, Blocked, AmbiguousNames
<1>3. ASSUME NEW q \in Owners(ps, p.name) PROVE q = p
    <2>1. Owners(ps, p.name) # {} /\ Owners(ps, p.name) \in SUBSET ps
        BY <1>3 DEF Owners
    <2>2. ~(Cardinality(Owners(ps, p.name)) > 1)
        BY <1>1 DEF Blocked, AmbiguousCrates
    <2>3. Cardinality(Owners(ps, p.name)) = 1
        BY <2>1, <2>2, OneOrMore
    <2>4. Owners(ps, p.name) = {q}
        BY <1>3, <2>1, <2>3, OneOrMore
    <2>5. p \in Owners(ps, p.name)
        BY <1>1, <2>3 DEF Blocked, Overlaps
    <2> QED
        BY <2>4, <2>5
<1> QED
    BY <1>2, <1>3

\* And a crate that is surely of such a package has it as its owner.
LEMMA SurelyOwned ==
    ASSUME NEW ps, IdsApart(ps), NEW p \in ps, p.name \notin Blocked(ps),
           NEW c \in Crates, SurelyIn(ps, c, p.name)
    PROVE  /\ c \in DOMAIN rustTargetPackageOwners(ps)
           /\ rustTargetPackageOwners(ps)[c] = p.name
<1>1. {q \in ps : q.name = p.name} = {p}
    BY NamedOnce
<1>2. Owners(ps, c) = {p}
    BY <1>1 DEF SurelyIn, Owners
<1>3. Cardinality(Owners(ps, c)) = 1
    BY <1>2, OneOrMore
<1>4. c \notin Overlaps(ps)
    BY <1>1, <1>2 DEF Overlaps, SurelyIn
<1>5. (CHOOSE q \in Owners(ps, c) : TRUE) = p
    BY <1>2
<1>6. \A q \in Owners(ps, c) : q.name \notin Blocked(ps)
    BY <1>2
<1> QED
    BY <1>3, <1>4, <1>5, <1>6 DEF rustTargetPackageOwners

-----------------------------------------------------------------------------
(* Aliases                                                                    *)

\* The references between the crates of two packages, by owners and surely.
Between(es, own, a, b) ==
    {e \in es : e.from[1] \in DOMAIN own /\ e.to[1] \in DOMAIN own /\ own[e.from[1]] = a /\ own[e.to[1]] = b}
Under(ps, es, a, b) == {e \in es : SurelyIn(ps, e.from[1], a) /\ SurelyIn(ps, e.to[1], b)}

LEMMA AggregateIs ==
    ASSUME NEW es, NEW own, NEW g
    PROVE  g \in Aggregates(es, own) <=>
             \E a, b \in Crates : /\ a # b /\ Between(es, own, a, b) # {}
                                  /\ g = Aggregate(a, b, Between(es, own, a, b))
<1>1. Aggregates(es, own) =
        {Aggregate(p[1], p[2], Between(es, own, p[1], p[2])) :
           p \in {q \in Crates \X Crates : q[1] # q[2] /\ Between(es, own, q[1], q[2]) # {}}}
    BY DEF Aggregates, Between
<1>2. ASSUME g \in Aggregates(es, own)
      PROVE  \E a, b \in Crates : /\ a # b /\ Between(es, own, a, b) # {}
                                  /\ g = Aggregate(a, b, Between(es, own, a, b))
    <2>1. PICK p \in Crates \X Crates : /\ p[1] # p[2] /\ Between(es, own, p[1], p[2]) # {}
                                        /\ g = Aggregate(p[1], p[2], Between(es, own, p[1], p[2]))
        BY <1>1, <1>2
    <2>2. p[1] \in Crates /\ p[2] \in Crates
        OBVIOUS
    <2> QED
        BY <2>1, <2>2
<1>3. ASSUME NEW a \in Crates, NEW b \in Crates, a # b, Between(es, own, a, b) # {},
             g = Aggregate(a, b, Between(es, own, a, b))
      PROVE  g \in Aggregates(es, own)
    <2>1. PICK p \in Crates \X Crates : p[1] = a /\ p[2] = b
        <3>1. <<a, b>> \in Crates \X Crates /\ <<a, b>>[1] = a /\ <<a, b>>[2] = b
            OBVIOUS
        <3> QED
            BY <3>1
    <2> QED
        BY <1>1, <1>3, <2>1
<1> QED
    BY <1>2, <1>3

\* An edge between two roots, as strong as the strongest of some references.
StandsFor(g, a, b, S) ==
    /\ g.from = <<a, FALSE>> /\ g.to = <<b, FALSE>>
    /\ \A e \in S : e.strength <= g.strength
    /\ \E e \in S : e.strength = g.strength

LEMMA AggregateFields ==
    ASSUME NEW S \in SUBSET SymbolRefs, S # {}, NEW a \in Crates, NEW b \in Crates,
           NEW g, g = Aggregate(a, b, S)
    PROVE  g \in SymbolRefs /\ StandsFor(g, a, b, S)
<1> DEFINE str == {e.strength : e \in S}
           dat == {e.data : e \in S}
           knd == UNION {e.kinds : e \in S}
<1>1. \A e \in S : /\ e.strength \in 1..4 /\ e.data \in 0..2
                   /\ e.kinds \in SUBSET {"name", "type"}
    BY DEF SymbolRefs, StrengthRanks
<1>2. str \in SUBSET (0..4) /\ str # {} /\ dat \in SUBSET (0..4) /\ dat # {}
    BY <1>1
<1>3. (\E m \in str : \A x \in str : x <= m) /\ (\E m \in dat : \A x \in dat : x <= m)
    <2> HIDE DEF str, dat
    <2> QED
        BY <1>2, GreatestRank
<1>4. (\E m \in str : \A e \in S : e.strength <= m) /\ (\E m \in dat : \A e \in S : e.data <= m)
    BY <1>3
<1>5. Strongest(S) \in str /\ \A e \in S : e.strength <= Strongest(S)
    BY <1>4 DEF Strongest
<1>6. PICK d : d = CHOOSE x \in dat : \A e \in S : e.data <= x
    OBVIOUS
<1>7. d \in dat
    BY <1>4, <1>6
<1>8. Strongest(S) \in 1..4 /\ d \in 0..2 /\ knd \in SUBSET {"name", "type"}
    BY <1>1, <1>5, <1>7
<1>9. <<a, FALSE>> \in Ends /\ <<b, FALSE>> \in Ends
    BY DEF Ends
<1>10. Aggregate(a, b, S) = [from |-> <<a, FALSE>>, to |-> <<b, FALSE>>, strength |-> Strongest(S),
                             data |-> d, kinds |-> knd]
    BY <1>6 DEF Aggregate
<1>11. \E e \in S : e.strength = Strongest(S)
    BY <1>5
<1> HIDE DEF str, dat, knd
<1>12. /\ g.from = <<a, FALSE>> /\ g.to = <<b, FALSE>> /\ g.strength = Strongest(S)
       /\ g \in SymbolRefs
    <2>1. PICK f, t, m : f = <<a, FALSE>> /\ t = <<b, FALSE>> /\ m = Strongest(S)
        OBVIOUS
    <2>2. g = [from |-> f, to |-> t, strength |-> m, data |-> d, kinds |-> knd]
        BY <1>10, <2>1
    <2>3. g.from = f /\ g.to = t /\ g.strength = m
        BY <2>2
    <2>4. f \in Ends /\ t \in Ends /\ m \in 1..4
        BY <1>8, <1>9, <2>1
    <2>5. g \in SymbolRefs
        BY <1>8, <2>2, <2>4 DEF SymbolRefs, StrengthRanks
    <2> QED
        BY <2>1, <2>3, <2>5
<1>13. /\ \A e \in S : e.strength <= g.strength
       /\ \E e \in S : e.strength = g.strength
    BY <1>5, <1>11, <1>12
<1> QED
    BY <1>12, <1>13 DEF StandsFor

LEMMA AliasesAreRefs ==
    ASSUME NEW es \in SUBSET SymbolRefs, NEW own, NEW g \in Aggregates(es, own)
    PROVE  g \in SymbolRefs
<1>1. PICK a \in Crates, b \in Crates : /\ Between(es, own, a, b) # {}
                                        /\ g = Aggregate(a, b, Between(es, own, a, b))
    BY AggregateIs
<1>2. Between(es, own, a, b) \in SUBSET SymbolRefs
    BY DEF Between
<1> QED
    BY <1>1, <1>2, AggregateFields

\* Between packages not in doubt, owners and surely are the same.
LEMMA UnderIsBetween ==
    ASSUME NEW ps, IdsApart(ps), NEW es \in SUBSET SymbolRefs,
           NEW p \in ps, p.name \notin Blocked(ps), NEW q \in ps, q.name \notin Blocked(ps)
    PROVE  Under(ps, es, p.name, q.name) = Between(es, rustTargetPackageOwners(ps), p.name, q.name)
<1> DEFINE own == rustTargetPackageOwners(ps)
<1>1. \A e \in es : e.from[1] \in Crates /\ e.to[1] \in Crates
    BY DEF SymbolRefs, Ends
<1>2. ASSUME NEW c \in Crates, NEW r \in {p, q}
      PROVE  SurelyIn(ps, c, r.name) <=> c \in DOMAIN own /\ own[c] = r.name
    <2>1. r \in ps /\ r.name \notin Blocked(ps)
        OBVIOUS
    <2>2. SurelyIn(ps, c, r.name) => c \in DOMAIN own /\ own[c] = r.name
        BY <2>1, SurelyOwned
    <2>3. c \in DOMAIN own => SurelyIn(ps, c, own[c])
        BY OwnedSurely
    <2> QED
        BY <2>2, <2>3
<1> HIDE DEF own
<1>3. \A c \in Crates : /\ SurelyIn(ps, c, p.name) <=> c \in DOMAIN own /\ own[c] = p.name
                        /\ SurelyIn(ps, c, q.name) <=> c \in DOMAIN own /\ own[c] = q.name
    BY <1>2
<1>4. Under(ps, es, p.name, q.name) = Between(es, own, p.name, q.name)
    BY <1>1, <1>3 DEF Under, Between
<1> QED
    BY <1>4 DEF own

\* The two packages of an aggregate are named once and not in doubt.
LEMMA AggregateNames ==
    ASSUME NEW ps, IdsApart(ps), NEW es \in SUBSET SymbolRefs, NEW a \in Crates, NEW b \in Crates,
           Between(es, rustTargetPackageOwners(ps), a, b) # {}
    PROVE  \E p, q \in ps : /\ p.name = a /\ p.name \notin Blocked(ps)
                            /\ q.name = b /\ q.name \notin Blocked(ps)
<1>1. PICK e \in es : /\ e.from[1] \in DOMAIN rustTargetPackageOwners(ps)
                      /\ e.to[1] \in DOMAIN rustTargetPackageOwners(ps)
                      /\ rustTargetPackageOwners(ps)[e.from[1]] = a
                      /\ rustTargetPackageOwners(ps)[e.to[1]] = b
    BY DEF Between
<1>2. a \notin Blocked(ps) /\ \E p \in ps : p.name = a
    BY <1>1, OwnedSurely
<1>3. b \notin Blocked(ps) /\ \E q \in ps : q.name = b
    BY <1>1, OwnedSurely
<1> QED
    BY <1>2, <1>3

\* What an alias stands for.
AliasOf(g, ps, es, p, q) ==
    /\ p.name \notin Blocked(ps) /\ q.name \notin Blocked(ps) /\ p.name # q.name
    /\ g = Aggregate(p.name, q.name, Under(ps, es, p.name, q.name))
    /\ StandsFor(g, p.name, q.name, Under(ps, es, p.name, q.name))

LEMMA AliasStandsFor ==
    ASSUME NEW ps, IdsApart(ps), NEW es \in SUBSET SymbolRefs,
           NEW g \in Aggregates(es, rustTargetPackageOwners(ps))
    PROVE  \E p, q \in ps : AliasOf(g, ps, es, p, q)
<1>1. PICK own : own = rustTargetPackageOwners(ps)
    OBVIOUS
<1>2. PICK a \in Crates, b \in Crates : /\ a # b /\ Between(es, own, a, b) # {}
                                        /\ g = Aggregate(a, b, Between(es, own, a, b))
    BY <1>1, AggregateIs
<1>3. PICK p \in ps, q \in ps : /\ p.name = a /\ p.name \notin Blocked(ps)
                                /\ q.name = b /\ q.name \notin Blocked(ps)
    BY <1>1, <1>2, AggregateNames
<1>4. PICK S : S = Between(es, own, a, b)
    OBVIOUS
<1>5. S = Under(ps, es, p.name, q.name)
    BY <1>1, <1>3, <1>4, UnderIsBetween
<1>6. S \in SUBSET SymbolRefs
    BY <1>4 DEF Between
<1>7. StandsFor(g, a, b, S)
    <2>1. S # {} /\ g = Aggregate(a, b, S)
        BY <1>2, <1>4
    <2> QED
        BY <1>6, <2>1, AggregateFields
<1>8. g = Aggregate(p.name, q.name, S)
    BY <1>2, <1>3, <1>4
<1> QED
    BY <1>2, <1>3, <1>5, <1>7, <1>8 DEF AliasOf

\* The aliases hide no reference, and every pair of ends has one strength.
LEMMA OverlaidIs ==
    ASSUME NEW ps, IdsApart(ps), NEW es \in SUBSET SymbolRefs, OneEach(es),
           NEW al, al = rustObservedPackageEdges(es, rustTargetPackageOwners(ps)).aliases
    PROVE  /\ al \in SUBSET Aggregates(es, rustTargetPackageOwners(ps)) /\ al \in SUBSET SymbolRefs
           /\ Overlaid(es, al) = es \cup al /\ OneEach(Overlaid(es, al))
<1>1. PICK G : G = Aggregates(es, rustTargetPackageOwners(ps))
    OBVIOUS
<1>2. al = {g \in G : \A e \in es : ~SameEnds(e, g)}
    BY <1>1 DEF rustObservedPackageEdges
<1>3. G \in SUBSET SymbolRefs
    BY <1>1, AliasesAreRefs
<1>4. ASSUME NEW g \in G, NEW h \in G, SameEnds(g, h) PROVE g = h
    <2> g \in Aggregates(es, rustTargetPackageOwners(ps)) /\ h \in Aggregates(es, rustTargetPackageOwners(ps))
        BY <1>1
    <2>1. PICK p \in ps, q \in ps : AliasOf(g, ps, es, p, q)
        BY AliasStandsFor
    <2>2. PICK r \in ps, s \in ps : AliasOf(h, ps, es, r, s)
        BY AliasStandsFor
    <2>3. p.name = r.name /\ q.name = s.name
        <3>1. <<p.name, FALSE>> = <<r.name, FALSE>> /\ <<q.name, FALSE>> = <<s.name, FALSE>>
            BY <1>4, <2>1, <2>2, Zenon DEF SameEnds, AliasOf, StandsFor
        <3> QED
            BY <3>1
    <2> QED
        BY <2>1, <2>2, <2>3 DEF AliasOf
<1>5. Overlaid(es, al) = es \cup al
    BY <1>2 DEF Overlaid
<1>6. OneEach(es \cup al)
    BY <1>2, <1>4 DEF OneEach, SameEnds
<1> QED
    BY <1>1, <1>2, <1>3, <1>5, <1>6

\* Without an issue, every two packages have the strength of the references
\* between their crates.
LEMMA NoneUnderstated ==
    ASSUME NEW ps, IdsApart(ps), NEW es \in SUBSET SymbolRefs, ~Issues(ps, es),
           NEW p \in ps, NEW q \in ps, p.name # q.name, Under(ps, es, p.name, q.name) # {},
           NEW al, al = rustObservedPackageEdges(es, rustTargetPackageOwners(ps)).aliases
    PROVE  \E r \in es \cup al :
             /\ r.from = <<p.name, FALSE>> /\ r.to = <<q.name, FALSE>>
             /\ \A e \in Under(ps, es, p.name, q.name) : e.strength <= r.strength
<1>1. PICK own, G : own = rustTargetPackageOwners(ps) /\ G = Aggregates(es, own)
    OBVIOUS
<1>2. /\ Blocked(ps) = {}
      /\ \A g \in G, e \in es : SameEnds(e, g) => e = g
    BY <1>1 DEF Issues, rustObservedPackageEdges
<1>3. p.name \in Crates /\ q.name \in Crates
    BY DEF IdsApart, CargoPackages
<1>4. PICK S : S = Between(es, own, p.name, q.name)
    OBVIOUS
<1>5. S = Under(ps, es, p.name, q.name) /\ S # {} /\ S \in SUBSET SymbolRefs
    <2>1. S = Under(ps, es, p.name, q.name)
        BY <1>1, <1>2, <1>4, UnderIsBetween
    <2> QED
        BY <2>1 DEF Under
<1>6. PICK g : g = Aggregate(p.name, q.name, S)
    OBVIOUS
<1>7. g \in G
    BY <1>1, <1>3, <1>4, <1>5, <1>6, AggregateIs
<1>8. StandsFor(g, p.name, q.name, S)
    BY <1>3, <1>5, <1>6, AggregateFields
<1>9. g \in es \cup al
    <2>1. al = {x \in G : \A e \in es : ~SameEnds(e, x)}
        BY <1>1 DEF rustObservedPackageEdges
    <2> QED
        BY <1>2, <1>7, <2>1
<1> QED
    BY <1>5, <1>8, <1>9 DEF StandsFor

-----------------------------------------------------------------------------
(* Steps keep the invariant                                                   *)

\* What a step of the pipeline leaves alone.
Keeping(a, b) ==
    /\ IsAdapter(b)
    /\ b.scan = a.scan /\ b.answers = a.answers /\ b.lang = a.lang /\ b.version = a.version
    /\ b.packages = a.packages /\ b.raced = a.raced

AtEnd(a, m) == [a EXCEPT !.pc = "answer", !.raw = NoIndex, !.memo = m]

LEMMA EndedFields ==
    ASSUME NEW a, IsAdapter(a), NEW m
    PROVE  LET b == AtEnd(a, m)
           IN  Keeping(a, b) /\ b.pc = "answer" /\ b.key = a.key /\ b.memo = m
    BY DEF AdapterFields, IsAdapter, AtEnd, Keeping

\* A pipeline that ends with an index ends with what OutcomeOf says.
LEMMA ResultFields ==
    ASSUME NEW a, IsAdapter(a), IdsApart(a.packages),
           NEW raw \in RawIndexes, OneEach(raw.refs), raw.lang = a.lang, ReaderCovers(a.lang, raw),
           NEW b, b = rustPackageResult(a, raw, ReaderStatus(a.lang, raw), ReaderReason(a.lang, raw))
    PROVE  /\ Keeping(a, b) /\ b.pc = "answer" /\ b.key = a.key
           /\ b.memo \in IndexOutcomes /\ b.memo.ok /\ b.memo.raw = raw
           /\ OutcomeOf(b.memo, a.lang, a.packages)
<1>1. raw.refs \in SUBSET SymbolRefs
    BY DEF RawIndexes
<1>2. CASE a.lang # "rust"
    <2>1. b = Ended(a, TRUE, "partial", FALSE, raw, {})
        BY <1>2 DEF rustPackageResult, ReaderStatus, ReaderReason
    <2>2. PICK m : m = [ok |-> TRUE, status |-> "partial", reason |-> FALSE, raw |-> raw, aliases |-> {}]
        OBVIOUS
    <2>3. Keeping(a, b) /\ b.pc = "answer" /\ b.key = a.key /\ b.memo = m
        <3>1. b = AtEnd(a, m)
            BY <2>1, <2>2, Zenon DEF Ended, AtEnd
        <3> QED
            BY <3>1, EndedFields
    <2>4. /\ m \in IndexOutcomes /\ m.ok /\ m.raw = raw /\ m.status = "partial" /\ m.aliases = {}
        BY <2>2 DEF IndexOutcomes
    <2>5. OutcomeOf(m, a.lang, a.packages)
        BY <1>2, <2>4 DEF OutcomeOf
    <2> QED
        BY <2>3, <2>4, <2>5
<1>3. CASE a.lang = "rust"
    <2>1. PICK seen : seen = rustObservedPackageEdges(raw.refs, rustTargetPackageOwners(a.packages))
        OBVIOUS
    <2>2. PICK issues \in BOOLEAN : issues = Issues(a.packages, raw.refs)
        BY <2>1 DEF Issues, rustObservedPackageEdges
    <2>3. PICK al : al = seen.aliases
        OBVIOUS
    <2>4. al \in SUBSET SymbolRefs
        BY <1>1, <2>1, <2>3, OverlaidIs
    <2>5. PICK st \in {"ok", "partial"}, re \in BOOLEAN :
             /\ st = IF issues THEN "partial" ELSE ReaderStatus(a.lang, raw)
             /\ re = (ReaderReason(a.lang, raw) \/ issues)
        BY DEF ReaderStatus, ReaderReason
    <2>6. b = Ended(a, TRUE, st, re, raw, al)
        BY <1>3, <2>1, <2>2, <2>3, <2>5 DEF rustPackageResult, Issues
    <2>7. PICK m : m = [ok |-> TRUE, status |-> st, reason |-> re, raw |-> raw, aliases |-> al]
        OBVIOUS
    <2>8. Keeping(a, b) /\ b.pc = "answer" /\ b.key = a.key /\ b.memo = m
        <3>1. b = AtEnd(a, m)
            BY <2>6, <2>7, Zenon DEF Ended, AtEnd
        <3> QED
            BY <3>1, EndedFields
    <2>9. /\ m.ok /\ m.raw = raw /\ m.status = st /\ m.reason = re /\ m.aliases = al
          /\ m \in IndexOutcomes
        BY <2>4, <2>7 DEF IndexOutcomes
    <2>10. raw.attribution # "ok" => raw.attribution = "partial"
        BY <1>3 DEF RawIndexes, Attributions, ReaderCovers
    <2>11. Issues(a.packages, raw.refs) \/ raw.attribution # "ok" => st = "partial" /\ re
        BY <1>3, <2>2, <2>5, <2>10 DEF ReaderStatus, ReaderReason
    <2>12. al = rustObservedPackageEdges(raw.refs, rustTargetPackageOwners(a.packages)).aliases
        BY <2>1, <2>3
    <2>13. OutcomeOf(m, a.lang, a.packages)
        BY <1>3, <2>9, <2>11, <2>12 DEF OutcomeOf
    <2> QED
        BY <2>8, <2>9, <2>13
<1> QED
    BY <1>2, <1>3

\* The pipeline ends.
LEMMA Concludes ==
    ASSUME IndexInv, CachedWell', UNCHANGED <<indexed, host>>,
           adapter.pc \in {"detect", "reader", "lookup", "index", "read"},
           Keeping(adapter, adapter'), adapter'.pc = "answer", adapter'.memo \in IndexOutcomes,
           OutcomeOf(adapter'.memo, adapter.lang, adapter.packages),
           adapter'.memo.ok =>
             /\ adapter'.key \in IndexKeys
             /\ adapter'.key[1] = adapter.lang /\ adapter'.key[2] = adapter.version
             /\ ReadFor(adapter'.memo.raw, adapter'.key)
    PROVE  IndexInv'
<1>1. adapter.answers = <<>>
    BY DEF IndexInv, Running
<1>2. IndexTyped'
    BY DEF IndexInv, IndexTyped, Keeping
<1>3. adapter'.memo # NoIndex
    BY SymbolIndexAssumption DEF SymbolIndexAssumption
<1>4. Running'
    BY <1>1, <1>3 DEF Running, Keeping
<1>5. Concluded'
    BY DEF Concluded, Keeping, KeyOfScan
<1>6. AnswersFollow'
    BY <1>1 DEF AnswersFollow, Keeping
<1> QED
    BY <1>2, <1>4, <1>5, <1>6 DEF IndexInv

LEMMA StopsKeeps ==
    ASSUME IndexInv, UNCHANGED <<indexed, host, indexFacts>>,
           adapter.pc \in {"detect", "reader", "lookup", "index", "read"},
           NEW status \in {"absent", "timed_out", "partial"}, NEW reason \in BOOLEAN, Stops(status, reason)
    PROVE  IndexInv'
<1>1. IsAdapter(adapter)
    BY DEF IndexInv, IndexTyped
<1>2. PICK m : m = [ok |-> FALSE, status |-> status, reason |-> reason, raw |-> NoIndex, aliases |-> {}]
    OBVIOUS
<1>3. Keeping(adapter, adapter') /\ adapter'.pc = "answer" /\ adapter'.memo = m
    <2>1. adapter' = AtEnd(adapter, m)
        BY <1>2, Zenon DEF Stops, Ended, AtEnd
    <2> QED
        BY <1>1, <2>1, EndedFields
<1>4. m \in IndexOutcomes /\ ~m.ok /\ m.status # "ok" /\ m.raw = NoIndex /\ m.aliases = {}
    BY <1>2 DEF IndexOutcomes
<1>5. OutcomeOf(m, adapter.lang, adapter.packages)
    BY <1>4 DEF OutcomeOf
<1>6. CachedWell'
    BY DEF IndexInv, CachedWell
<1> QED
    BY <1>3, <1>4, <1>5, <1>6, Concludes

\* What the consumers are told.
Says(who, m, status, items) ==
    /\ ~m.ok \/ Unparsed(m.raw) => status = m.status /\ items = {}
    /\ m.ok /\ ~Unparsed(m.raw) =>
         /\ who = "strengths" => items = Overlaid(m.raw.refs, m.aliases)
         /\ who \in {"strengths", "symbols"} /\ status = "ok" => ~Partial(m) /\ m.raw.shape # "empty"

LEMMA AnswerIs ==
    ASSUME NEW m \in IndexOutcomes, m.ok => m.raw \in RawIndexes,
           NEW who \in {"strengths", "connascence", "data", "symbols"}
    PROVE  \E status \in {"absent", "timed_out", "partial", "ok"}, items \in SUBSET SymbolRefs :
             AnswerOf(who, m) = Answer(who, status, items) /\ Says(who, m, status, items)
<1>1. m.status \in {"absent", "timed_out", "partial", "ok"} /\ m.aliases \in SUBSET SymbolRefs
    BY DEF IndexOutcomes
<1>2. CASE ~m.ok \/ Unparsed(m.raw)
    <2>1. AnswerOf(who, m) = Answer(who, m.status, {}) /\ Says(who, m, m.status, {})
        BY <1>2 DEF AnswerOf, Says
    <2> QED
        BY <1>1, <2>1
<1>3. CASE m.ok /\ ~Unparsed(m.raw)
    <2>1. m.raw.refs \in SUBSET SymbolRefs
        BY <1>3 DEF RawIndexes
    <2>2. PICK all : all = Overlaid(m.raw.refs, m.aliases)
        OBVIOUS
    <2>3. all \in SUBSET SymbolRefs
        BY <1>1, <2>1, <2>2 DEF Overlaid
    <2>4. CASE who = "strengths"
        <3>1. PICK st \in {"partial", "ok"} :
                 st = IF Partial(m) \/ m.raw.shape = "empty" THEN "partial" ELSE "ok"
            OBVIOUS
        <3>2. AnswerOf(who, m) = Answer(who, st, all)
            BY <1>3, <2>2, <2>4, <3>1 DEF AnswerOf, StrengthsFor
        <3>3. Says(who, m, st, all)
            BY <1>3, <2>2, <3>1 DEF Says
        <3> QED
            BY <2>3, <3>2, <3>3
    <2>5. CASE who = "connascence"
        <3>1. PICK st \in {"partial", "ok"}, es \in SUBSET SymbolRefs :
                 /\ st = IF Partial(m) THEN "partial" ELSE "ok"
                 /\ es = {e \in all : e.kinds # {}}
            BY <2>3
        <3>2. AnswerOf(who, m) = Answer(who, st, es)
            BY <1>3, <2>2, <2>5, <3>1 DEF AnswerOf, ConnascenceFor
        <3>3. Says(who, m, st, es)
            BY <1>3, <2>5 DEF Says
        <3> QED
            BY <3>2, <3>3
    <2>6. CASE who = "data"
        <3>1. PICK st \in {"partial", "ok"}, es \in SUBSET SymbolRefs :
                 /\ st = IF Partial(m) THEN "partial" ELSE "ok"
                 /\ es = {e \in all : e.data > 0}
            BY <2>3
        <3>2. AnswerOf(who, m) = Answer(who, st, es)
            BY <1>3, <2>2, <2>6, <3>1 DEF AnswerOf, DataStrengthsFor
        <3>3. Says(who, m, st, es)
            BY <1>3, <2>6 DEF Says
        <3> QED
            BY <3>2, <3>3
    <2>7. CASE who = "symbols"
        <3>1. PICK st \in {"partial", "ok"} :
                 st = IF Partial(m) \/ m.raw.shape = "empty" THEN "partial" ELSE "ok"
            OBVIOUS
        <3>2. AnswerOf(who, m) = Answer(who, st, {})
            BY <1>3, <2>7, <3>1 DEF AnswerOf, SymbolsFor
        <3>3. Says(who, m, st, {})
            BY <1>3, <2>7, <3>1 DEF Says
        <3> QED
            BY <3>2, <3>3
    <2> QED
        BY <2>4, <2>5, <2>6, <2>7
<1> QED
    BY <1>2, <1>3

LEMMA AnswerTyped ==
    ASSUME NEW m \in IndexOutcomes, m.ok => m.raw \in RawIndexes,
           NEW who \in {"strengths", "connascence", "data", "symbols"}
    PROVE  LET a == Given(who, m)
           IN  /\ a \in AnswerType /\ a.raw = m.raw /\ a.consumer = who
               /\ Says(who, m, a.status, a.items)
<1>1. PICK status \in {"absent", "timed_out", "partial", "ok"}, items \in SUBSET SymbolRefs :
         AnswerOf(who, m) = Answer(who, status, items) /\ Says(who, m, status, items)
    BY AnswerIs
<1>2. m.raw \in RawIndexes \cup {NoIndex}
    BY DEF IndexOutcomes
<1>3. PICK raw : raw = m.raw
    OBVIOUS
<1>4. PICK a : a = Given(who, m)
    OBVIOUS
<1>5. a = [consumer |-> who, status |-> status, items |-> items, raw |-> raw]
    BY <1>1, <1>3, <1>4 DEF Answer, Given
<1>6. a.consumer = who /\ a.status = status /\ a.items = items /\ a.raw = raw
    BY <1>5
<1>7. a \in AnswerType
    <2>1. raw \in RawIndexes \cup {NoIndex}
        BY <1>2, <1>3
    <2> QED
        BY <1>5, <2>1 DEF AnswerType
<1> QED
    BY <1>1, <1>3, <1>4, <1>6, <1>7

LEMMA ScanStartsKeeps ==
    ASSUME IndexInv, ScanStarts
    PROVE  IndexInv'
<1>0. adapter.scan \in Nat
    BY DEF IndexInv, IndexTyped
<1>1. PICK n \in Nat : n = adapter.scan + 1
    BY <1>0
<1>2. adapter' = NewAdapter(n)
    BY <1>1 DEF ScanStarts
<1>3. /\ IsAdapter(adapter') /\ adapter'.scan = n /\ adapter'.pc = "idle" /\ adapter'.answers = <<>>
      /\ adapter'.memo = NoIndex /\ adapter'.lang = "" /\ adapter'.version = 0 /\ adapter'.packages = {}
      /\ adapter'.raced = FALSE
    BY <1>2 DEF NewAdapter, IsAdapter, AdapterFields
<1>4. IndexTyped'
    <2>1. adapter'.answers \in Seq(AnswerType) /\ Len(adapter'.answers) <= 4
        <3>1. <<>> \in Seq(AnswerType) /\ Len(<<>>) <= 4
            OBVIOUS
        <3> QED
            BY <1>3, <3>1, Zenon
    <2>2. IdsApart(adapter'.packages)
        BY <1>3 DEF IdsApart
    <2>3. adapter'.pc \in {"idle", "detect", "reader", "lookup", "index", "read", "answer", "done"}
        BY <1>3, Zenon
    <2>4. adapter'.lang \in IndexLangs \cup {""} /\ adapter'.raced \in BOOLEAN
        BY <1>3, Zenon
    <2>5. adapter'.version \in Nat
        <3>1. adapter'.version = 0
            BY <1>3
        <3> QED
            BY <3>1
    <2>6. adapter'.memo \in IndexOutcomes \cup {NoIndex}
        BY <1>3, Zenon
    <2>7. adapter'.lang # "rust" => adapter'.packages = {}
        BY <1>3, Zenon
    <2>8. indexed' = indexed /\ host' = host
        BY DEF ScanStarts
    <2> QED
        BY <1>1, <1>3, <2>1, <2>2, <2>3, <2>4, <2>5, <2>6, <2>7, <2>8 DEF IndexInv, IndexTyped
<1>5. CachedWell'
    BY DEF IndexInv, CachedWell, ScanStarts
<1>6. Running'
    <2>1. adapter'.pc = "idle" /\ adapter'.answers = <<>> /\ adapter'.lang = ""
        BY <1>3
    <2> QED
        BY <2>1 DEF Running
<1>7. Concluded' /\ AnswersFollow'
    <2>1. adapter'.memo = NoIndex /\ adapter'.answers = <<>>
        BY <1>3
    <2> QED
        BY <2>1 DEF Concluded, AnswersFollow
<1> QED
    BY <1>4, <1>5, <1>6, <1>7 DEF IndexInv

LEMMA PipelineKeeps ==
    ASSUME IndexInv, runSCIPPipeline
    PROVE  IndexInv'
<1>1. PICK pc \in {"answer", "detect"} : pc = IF adapter.memo # NoIndex THEN "answer" ELSE "detect"
    OBVIOUS
<1>2. /\ Keeping(adapter, adapter') /\ adapter'.pc = pc
      /\ adapter'.memo = adapter.memo /\ adapter'.key = adapter.key
    <2>1. adapter' = [adapter EXCEPT !.pc = pc]
        BY <1>1 DEF runSCIPPipeline
    <2>2. IsAdapter(adapter)
        BY DEF IndexInv, IndexTyped
    <2> QED
        BY <2>1, <2>2 DEF IsAdapter, AdapterFields, Keeping
<1>3. adapter.pc = "idle" /\ Len(adapter.answers) < 4 /\ UNCHANGED <<indexed, host, indexFacts>>
    BY DEF runSCIPPipeline, Consumers
<1>4. IndexTyped'
    BY <1>2, <1>3 DEF IndexInv, IndexTyped, Keeping
<1>5. CachedWell'
    BY <1>3 DEF IndexInv, CachedWell
<1>6. Running'
    BY <1>1, <1>2, <1>3 DEF IndexInv, Running, Keeping
<1>7. Concluded' /\ AnswersFollow'
    BY <1>2 DEF IndexInv, Concluded, AnswersFollow, Keeping, KeyOfScan
<1> QED
    BY <1>4, <1>5, <1>6, <1>7 DEF IndexInv

LEMMA NoPackages ==
    ASSUME NEW a, IsAdapter(a), a.packages = {}, NEW l
    PROVE  [a EXCEPT !.pc = "reader", !.lang = l] = [a EXCEPT !.pc = "reader", !.lang = l, !.packages = {}]
BY DEF IsAdapter, AdapterFields

LEMMA DetectKeeps ==
    ASSUME IndexInv, detectIndexer
    PROVE  IndexInv'
<1>1. adapter.pc = "detect" /\ adapter.lang = "" /\ adapter.packages = {} /\ adapter.answers = <<>>
    BY DEF IndexInv, IndexTyped, Running, detectIndexer
<1>2. UNCHANGED <<indexed, host, indexFacts>>
    BY DEF detectIndexer
<1>3. CASE \E s \in {"absent", "timed_out", "partial"} : Stops(s, TRUE)
    BY <1>1, <1>2, <1>3, StopsKeeps
<1>4. ASSUME NEW l \in IndexLangs, NEW ps, IdsApart(ps), l # "rust" => ps = {},
             adapter' = [adapter EXCEPT !.pc = "reader", !.lang = l, !.packages = ps]
      PROVE  IndexInv'
    <2> IsAdapter(adapter)
        BY DEF IndexInv, IndexTyped
    <2>1. /\ IsAdapter(adapter') /\ adapter'.scan = adapter.scan /\ adapter'.pc = "reader"
          /\ adapter'.answers = <<>> /\ adapter'.memo = adapter.memo /\ adapter'.lang = l
          /\ adapter'.version = adapter.version /\ adapter'.packages = ps /\ adapter'.raced = adapter.raced
        BY <1>1, <1>4 DEF IsAdapter, AdapterFields
    <2>2. IndexTyped'
        <3>1. adapter'.answers \in Seq(AnswerType) /\ Len(adapter'.answers) <= 4
            BY <1>1, <2>1 DEF IndexInv, IndexTyped
        <3>2. IdsApart(adapter'.packages) /\ (adapter'.lang # "rust" => adapter'.packages = {})
            BY <1>4, <2>1, Zenon
        <3> QED
            BY <1>2, <2>1, <3>1, <3>2 DEF IndexInv, IndexTyped
    <2>3. adapter.memo = NoIndex
        BY <1>1 DEF IndexInv, Running
    <2>4. CachedWell'
        BY <1>2 DEF IndexInv, CachedWell
    <2>5. Running'
        <3>1. adapter'.pc = "reader" /\ adapter'.answers = <<>> /\ adapter'.memo = NoIndex /\ adapter'.lang = l
            BY <2>1, <2>3
        <3> QED
            BY <3>1 DEF Running
    <2>6. Concluded' /\ AnswersFollow'
        BY <2>1, <2>3 DEF Concluded, AnswersFollow
    <2> QED
        BY <2>2, <2>4, <2>5, <2>6 DEF IndexInv
<1>5. ASSUME NEW n \in Detected PROVE Tried[n] \in IndexLangs
    BY DEF Detected, Tried, IndexLangs
<1>6. CASE \E n \in Detected : Tried[n] = "rust" /\ cargoWorkspaceMembers
    <2>1. CASE adapter' = [adapter EXCEPT !.pc = "reader", !.lang = "rust", !.packages = indexed.tree.packages]
        <3>1. IdsApart(indexed.tree.packages)
            BY SymbolIndexAssumption DEF SymbolIndexAssumption, IndexInv, IndexTyped, IdsApart
        <3> QED
            BY <1>4, <2>1, <3>1 DEF IndexLangs
    <2>2. CASE Stops("timed_out", TRUE) \/ Stops("partial", TRUE)
        BY <1>3, <2>2
    <2> QED
        BY <1>6, <2>1, <2>2 DEF cargoWorkspaceMembers
<1>7. ASSUME NEW n \in Detected, Tried[n] # "rust",
             adapter' = [adapter EXCEPT !.pc = "reader", !.lang = Tried[n]]
      PROVE  IndexInv'
    <2>1. PICK l \in IndexLangs : l = Tried[n]
        BY <1>5
    <2>2. adapter' = [adapter EXCEPT !.pc = "reader", !.lang = l, !.packages = {}]
        <3>1. IsAdapter(adapter)
            BY DEF IndexInv, IndexTyped
        <3>2. [adapter EXCEPT !.pc = "reader", !.lang = l]
                = [adapter EXCEPT !.pc = "reader", !.lang = l, !.packages = {}]
            BY <1>1, <3>1, NoPackages, Zenon
        <3> QED
            BY <1>7, <2>1, <3>2, Zenon
    <2>3. IdsApart({}) /\ l # "rust"
        BY <1>7, <2>1 DEF IdsApart
    <2> QED
        BY <1>4, <2>2, <2>3, Zenon
<1> QED
    BY <1>3, <1>6, <1>7 DEF detectIndexer

\* The pipeline goes on.
LEMMA Advances ==
    ASSUME IndexInv, UNCHANGED <<indexed, host, indexFacts>>,
           adapter.pc \in {"reader", "lookup", "index"}, adapter'.pc \in {"lookup", "index", "read"},
           IsAdapter(adapter'), adapter'.scan = adapter.scan, adapter'.answers = adapter.answers,
           adapter'.memo = adapter.memo, adapter'.lang = adapter.lang, adapter'.packages = adapter.packages,
           adapter'.version \in Nat, adapter'.raced \in BOOLEAN,
           adapter'.pc = "lookup" /\ ~adapter'.raced /\ adapter'.version # 0 => host.version = adapter'.version,
           adapter'.pc \in {"index", "read"} => KeyOfScan(adapter.key)',
           adapter'.pc = "index" /\ ~adapter'.raced =>
             /\ adapter'.key[4] = indexed.text
             /\ adapter'.version # 0 => host.version = adapter'.version,
           adapter'.pc = "read" => ReadFor(adapter'.raw, adapter'.key)
    PROVE  IndexInv'
<1>1. adapter.answers = <<>> /\ adapter.memo = NoIndex /\ adapter.lang \in IndexLangs
    BY DEF IndexInv, Running
<1>2. IndexTyped'
    <2>1. adapter'.answers \in Seq(AnswerType) /\ Len(adapter'.answers) <= 4
        BY DEF IndexInv, IndexTyped
    <2>2. IdsApart(adapter'.packages) /\ (adapter'.lang # "rust" => adapter'.packages = {})
        BY DEF IndexInv, IndexTyped
    <2>3. adapter'.memo \in IndexOutcomes \cup {NoIndex} /\ adapter'.lang \in IndexLangs \cup {""}
        BY <1>1
    <2>4. adapter'.scan \in Nat
        BY DEF IndexInv, IndexTyped
    <2> QED
        BY <2>1, <2>2, <2>3, <2>4 DEF IndexInv, IndexTyped
<1>3. CachedWell'
    BY DEF IndexInv, CachedWell
<1>4. Running'
    BY <1>1 DEF Running
<1>5. Concluded' /\ AnswersFollow'
    BY <1>1 DEF Concluded, AnswersFollow
<1> QED
    BY <1>2, <1>3, <1>4, <1>5 DEF IndexInv

LEMMA PythonKeeps ==
    ASSUME IndexInv, readerPython
    PROVE  IndexInv'
<1>1. adapter.pc = "reader" /\ UNCHANGED <<indexed, host, indexFacts>>
    BY DEF readerPython
<1>2. CASE \E s \in {"absent", "timed_out", "partial"} : Stops(s, TRUE)
    BY <1>1, <1>2, StopsKeeps
<1>3. ASSUME NEW v \in {0, host.version},
             adapter' = [adapter EXCEPT !.pc = "lookup", !.version = v, !.raced = FALSE]
      PROVE  IndexInv'
    <2> IsAdapter(adapter)
        BY DEF IndexInv, IndexTyped
    <2>1. /\ IsAdapter(adapter') /\ adapter'.scan = adapter.scan /\ adapter'.pc = "lookup"
          /\ adapter'.answers = adapter.answers /\ adapter'.memo = adapter.memo /\ adapter'.lang = adapter.lang
          /\ adapter'.version = v /\ adapter'.packages = adapter.packages
        BY <1>3 DEF IsAdapter, AdapterFields
    <2>2. adapter'.raced = FALSE
        BY <1>3 DEF IsAdapter, AdapterFields
    <2>3. adapter'.raced \in BOOLEAN
        BY <2>2, Zenon
    <2>4. v \in Nat
        <3>1. host.version \in Nat
            BY DEF IndexInv, IndexTyped
        <3> QED
            BY <3>1
    <2>5. adapter'.version \in Nat /\ (adapter'.version # 0 => host.version = adapter'.version)
        BY <2>1, <2>4
    <2> QED
        BY <1>1, <2>1, <2>3, <2>5, Advances
<1> QED
    BY <1>2, <1>3 DEF readerPython

LEMMA ReaderKeeps ==
    ASSUME IndexInv, RunReader
    PROVE  IndexInv'
<1>1. adapter.pc = "read" /\ indexed' = indexed /\ host' = host
    BY DEF RunReader
<1>2. CASE \E s \in {"absent", "timed_out", "partial"} : Stops(s, TRUE) /\ UNCHANGED indexFacts
    BY <1>1, <1>2, StopsKeeps
<1>3. CASE /\ ReaderCovers(adapter.lang, adapter.raw)
           /\ adapter' = rustPackageResult(adapter, adapter.raw, ReaderStatus(adapter.lang, adapter.raw),
                                           ReaderReason(adapter.lang, adapter.raw))
           /\ \/ UNCHANGED indexFacts
              \/ indexFacts' = {e \in indexFacts : e.key # adapter.key}
                                 \cup {[key |-> adapter.key, raw |-> adapter.raw]}
    <2>1. IsAdapter(adapter) /\ IdsApart(adapter.packages)
        BY DEF IndexInv, IndexTyped
    <2>2. ReadFor(adapter.raw, adapter.key) /\ KeyOfScan(adapter.key)
        BY <1>1 DEF IndexInv, Running
    <2>3. adapter.raw \in RawIndexes /\ OneEach(adapter.raw.refs) /\ adapter.raw.lang = adapter.lang
        BY <2>2 DEF ReadFor, KeyOfScan
    <2>4. /\ Keeping(adapter, adapter') /\ adapter'.pc = "answer" /\ adapter'.key = adapter.key
          /\ adapter'.memo \in IndexOutcomes /\ adapter'.memo.ok /\ adapter'.memo.raw = adapter.raw
          /\ OutcomeOf(adapter'.memo, adapter.lang, adapter.packages)
        BY <1>3, <2>1, <2>3, ResultFields
    <2>5. CachedWell'
        <3>1. CASE UNCHANGED indexFacts
            BY <3>1 DEF IndexInv, CachedWell
        <3>2. CASE indexFacts' = {e \in indexFacts : e.key # adapter.key}
                                   \cup {[key |-> adapter.key, raw |-> adapter.raw]}
            <4>1. PICK f : f = [key |-> adapter.key, raw |-> adapter.raw]
                OBVIOUS
            <4>2. f.key = adapter.key /\ f.raw = adapter.raw
                BY <4>1
            <4>3. \A e \in indexFacts' : e \in indexFacts \/ e = f
                BY <3>2, <4>1, Zenon
            <4> QED
                BY <2>2, <4>2, <4>3 DEF IndexInv, CachedWell
        <3> QED
            BY <1>3, <3>1, <3>2
    <2>6. /\ adapter'.key \in IndexKeys /\ adapter'.key[1] = adapter.lang
          /\ adapter'.key[2] = adapter.version /\ ReadFor(adapter'.memo.raw, adapter'.key)
        BY <2>2, <2>4 DEF KeyOfScan
    <2> QED
        BY <1>1, <2>4, <2>5, <2>6, Concludes
<1> QED
    BY <1>1, <1>2, <1>3 DEF RunReader

LEMMA LookupKeeps ==
    ASSUME IndexInv, Lookup
    PROVE  IndexInv'
<1>1. adapter.pc = "lookup" /\ UNCHANGED <<indexed, host, indexFacts>>
    BY DEF Lookup
<1>2. IsAdapter(adapter) /\ IdsApart(adapter.packages)
    BY DEF IndexInv, IndexTyped
<1>3. PICK k : k = cacheKey
    OBVIOUS
<1>4. k \in IndexKeys /\ k[1] = adapter.lang /\ k[2] = adapter.version /\ k[4] = indexed.text
    BY <1>3 DEF cacheKey, IndexKeys, IndexInv, IndexTyped, IdsApart
<1>5. PICK a : a = [adapter EXCEPT !.key = k]
    OBVIOUS
<1>6. Keeping(adapter, a) /\ a.key = k /\ a.memo = adapter.memo /\ a.pc = adapter.pc
    BY <1>2, <1>5 DEF Keeping, IsAdapter, AdapterFields
<1>7. ASSUME NEW e \in indexFacts, e.key = k, ReaderCovers(adapter.lang, e.raw),
             adapter' = rustPackageResult(a, e.raw, ReaderStatus(a.lang, e.raw), ReaderReason(a.lang, e.raw))
      PROVE  IndexInv'
    <2>1. ReadFor(e.raw, k)
        BY <1>7 DEF IndexInv, CachedWell
    <2>2. e.raw \in RawIndexes /\ OneEach(e.raw.refs) /\ e.raw.lang = a.lang /\ ReaderCovers(a.lang, e.raw)
        BY <1>4, <1>6, <1>7, <2>1 DEF ReadFor, Keeping
    <2>3. IsAdapter(a) /\ IdsApart(a.packages)
        BY <1>2, <1>6 DEF Keeping
    <2>4. /\ Keeping(a, adapter') /\ adapter'.pc = "answer" /\ adapter'.key = a.key
          /\ adapter'.memo \in IndexOutcomes /\ adapter'.memo.ok /\ adapter'.memo.raw = e.raw
          /\ OutcomeOf(adapter'.memo, a.lang, a.packages)
        BY <1>7, <2>2, <2>3, ResultFields
    <2>5. /\ Keeping(adapter, adapter') /\ adapter'.key = k
          /\ OutcomeOf(adapter'.memo, adapter.lang, adapter.packages)
        BY <1>6, <2>4 DEF Keeping
    <2>6. CachedWell'
        BY <1>1 DEF IndexInv, CachedWell
    <2> QED
        BY <1>1, <1>4, <2>1, <2>4, <2>5, <2>6, Concludes
<1>8. ASSUME adapter' = [a EXCEPT !.pc = "index"]
      PROVE  IndexInv'
    <2>1. Keeping(adapter, adapter') /\ adapter'.key = k /\ adapter'.memo = adapter.memo /\ adapter'.pc = "index"
        BY <1>6, <1>8 DEF Keeping, IsAdapter, AdapterFields
    <2>2. KeyOfScan(adapter.key)'
        BY <1>4, <2>1 DEF KeyOfScan, Keeping
    <2>3. ~adapter.raced /\ adapter.version # 0 => host.version = adapter.version
        BY <1>1 DEF IndexInv, Running
    <2>4. adapter.version \in Nat /\ adapter.raced \in BOOLEAN
        BY DEF IndexInv, IndexTyped
    <2> QED
        BY <1>1, <1>4, <2>1, <2>2, <2>3, <2>4, Advances DEF Keeping
<1>9. CASE \E s \in {"absent", "partial"}, r \in BOOLEAN : Stops(s, r)
    BY <1>1, <1>9, StopsKeeps
<1> QED
    BY <1>3, <1>5, <1>7, <1>8, <1>9 DEF Lookup

LEMMA IndexerKeeps ==
    ASSUME IndexInv, RunIndexer
    PROVE  IndexInv'
<1>1. adapter.pc = "index" /\ UNCHANGED <<indexed, host, indexFacts>>
    BY DEF RunIndexer
<1>2. CASE \E s \in {"absent", "timed_out", "partial"}, r \in BOOLEAN : Stops(s, r)
    BY <1>1, <1>2, StopsKeeps
<1>3. ASSUME NEW s \in Shapes, NEW r \in Attributions, adapter.lang # "rust" => r = "ok",
             NEW es \in {indexed.tree.refs, {}},
             adapter' = [adapter EXCEPT !.pc = "read",
                           !.raw = [shape |-> s, attribution |-> r, text |-> indexed.text,
                                    version |-> host.version, lang |-> adapter.lang, raced |-> adapter.raced,
                                    refs |-> es]]
      PROVE  IndexInv'
    <2> IsAdapter(adapter)
        BY DEF IndexInv, IndexTyped
    <2>1. PICK raw : raw = [shape |-> s, attribution |-> r, text |-> indexed.text,
                            version |-> host.version, lang |-> adapter.lang, raced |-> adapter.raced,
                            refs |-> es]
        OBVIOUS
    <2>2. adapter' = [adapter EXCEPT !.pc = "read", !.raw = raw]
        BY <1>3, <2>1, Zenon
    <2>3. /\ Keeping(adapter, adapter') /\ adapter'.key = adapter.key /\ adapter'.memo = adapter.memo
          /\ adapter'.pc = "read" /\ adapter'.raw = raw
        BY <2>2 DEF Keeping, IsAdapter, AdapterFields
    <2>4. KeyOfScan(adapter.key) /\ adapter.lang \in IndexLangs
        BY <1>1 DEF IndexInv, Running
    <2>5. ~adapter.raced => /\ adapter.key[4] = indexed.text
                            /\ adapter.version # 0 => host.version = adapter.version
        BY <1>1 DEF IndexInv, Running
    <2>6. /\ adapter.version \in Nat /\ adapter.raced \in BOOLEAN
          /\ indexed.text \in Nat /\ host.version \in Nat /\ indexed.tree \in Indexed
        BY DEF IndexInv, IndexTyped
    <2>7. es \in SUBSET SymbolRefs /\ OneEach(es)
        <3>1. /\ indexed.tree.refs \in SUBSET SymbolRefs
              /\ \A e, f \in indexed.tree.refs : <<e.from, e.to>> = <<f.from, f.to>> => e = f
            BY <2>6, SymbolIndexAssumption DEF SymbolIndexAssumption
        <3>2. OneEach(indexed.tree.refs)
            BY <3>1 DEF OneEach, SameEnds
        <3> QED
            BY <3>1, <3>2 DEF OneEach
    <2>8. /\ raw.text = indexed.text /\ raw.version = host.version /\ raw.lang = adapter.lang
          /\ raw.raced = adapter.raced /\ raw.attribution = r /\ raw.refs = es
        BY <2>1
    <2>9. raw \in RawIndexes
        BY <2>1, <2>4, <2>6, <2>7 DEF RawIndexes
    <2>10. ReadFor(raw, adapter.key)
        BY <1>3, <2>4, <2>5, <2>7, <2>8, <2>9 DEF ReadFor, KeyOfScan
    <2>11. KeyOfScan(adapter.key)'
        BY <2>3, <2>4 DEF KeyOfScan, Keeping
    <2> QED
        BY <1>1, <2>3, <2>6, <2>10, <2>11, Advances DEF Keeping
<1>4. ASSUME NEW s \in {"error", "empty", IF indexed.tree.refs = {} THEN "symbols" ELSE "edges"},
             NEW r \in IF adapter.lang = "rust" THEN Attributions ELSE {"ok"}
      PROVE  /\ s \in Shapes /\ r \in Attributions /\ (adapter.lang # "rust" => r = "ok")
             /\ (IF s = "edges" THEN indexed.tree.refs ELSE {}) \in {indexed.tree.refs, {}}
    BY DEF Shapes, Attributions
<1> QED
    BY <1>2, <1>3, <1>4 DEF RunIndexer

LEMMA ReplyKeeps ==
    ASSUME IndexInv, Reply
    PROVE  IndexInv'
<1>1. /\ adapter.pc = "answer" /\ adapter.memo # NoIndex /\ Len(adapter.answers) < 4
      /\ UNCHANGED <<indexed, host, indexFacts>>
    BY DEF IndexInv, Running, Reply
<1>2. /\ IsAdapter(adapter) /\ adapter.answers \in Seq(AnswerType)
      /\ adapter.memo \in IndexOutcomes
    BY <1>1 DEF IndexInv, IndexTyped
<1>3. PICK n \in 1..4 : n = Len(adapter.answers) + 1
    BY <1>1, <1>2
<1>4. Consumers[n] \in {"strengths", "connascence", "data", "symbols"}
    BY DEF Consumers
<1>5. PICK a : a = Given(Consumers[n], adapter.memo)
    OBVIOUS
<1>6. a \in AnswerType
    BY <1>1, <1>2, <1>4, <1>5, AnswerTyped DEF IndexInv, Concluded, OutcomeOf
<1>7. PICK as : as = Append(adapter.answers, a)
    OBVIOUS
<1>8. /\ as \in Seq(AnswerType) /\ Len(as) = n /\ Len(as) <= 4
      /\ \A k \in DOMAIN as : (k \in DOMAIN adapter.answers /\ as[k] = adapter.answers[k]) \/ (k = n /\ as[k] = a)
    <2>1. PICK old \in Seq(AnswerType) : old = adapter.answers
        BY <1>2
    <2>2. as = Append(old, a) /\ n = Len(old) + 1
        BY <1>3, <1>7, <2>1
    <2>3. as \in Seq(AnswerType) /\ Len(as) = n
        BY <1>6, <2>2
    <2>4. DOMAIN as = 1..n /\ DOMAIN old = 1..(n - 1) /\ Len(old) \in Nat
        BY <1>6, <2>2
    <2>5. ASSUME NEW k \in 1..n
          PROVE  (k \in DOMAIN old /\ as[k] = old[k]) \/ (k = n /\ as[k] = a)
        <3>1. CASE k = n
            BY <1>6, <2>2, <3>1
        <3>2. CASE k # n
            <4>1. k \in 1..Len(old)
                BY <2>2, <2>4, <3>2
            <4>2. as[k] = old[k]
                BY <1>6, <2>2, <4>1
            <4> QED
                BY <2>2, <2>4, <4>1, <4>2
        <3> QED
            BY <3>1, <3>2
    <2>6. \A k \in DOMAIN as :
             (k \in DOMAIN adapter.answers /\ as[k] = adapter.answers[k]) \/ (k = n /\ as[k] = a)
        BY <2>1, <2>4, <2>5, Zenon
    <2>7. Len(as) <= 4
        BY <2>3
    <2> QED
        BY <2>3, <2>6, <2>7
<1>9. adapter' = [adapter EXCEPT !.pc = "idle", !.memo = adapter.memo, !.answers = as]
    BY <1>3, <1>5, <1>7 DEF Reply, Remembered, Given
<1>10. /\ IsAdapter(adapter') /\ adapter'.scan = adapter.scan /\ adapter'.pc = "idle"
       /\ adapter'.memo = adapter.memo /\ adapter'.lang = adapter.lang /\ adapter'.version = adapter.version
       /\ adapter'.packages = adapter.packages /\ adapter'.raced = adapter.raced /\ adapter'.key = adapter.key
    BY <1>2, <1>9 DEF IsAdapter, AdapterFields
<1>11. adapter'.answers = as
    BY <1>2, <1>9 DEF IsAdapter, AdapterFields
<1>12. IndexTyped'
    BY <1>1, <1>8, <1>10, <1>11 DEF IndexInv, IndexTyped
<1>13. CachedWell'
    BY <1>1 DEF IndexInv, CachedWell
<1>14. Running'
    BY <1>1, <1>10 DEF Running
<1>15. Concluded'
    BY <1>10 DEF IndexInv, Concluded, KeyOfScan
<1>16. AnswersFollow'
    BY <1>5, <1>8, <1>10, <1>11 DEF IndexInv, AnswersFollow
<1> QED
    BY <1>12, <1>13, <1>14, <1>15, <1>16 DEF IndexInv

\* A step that leaves what the invariant reads of the adapter but its turn.
LEMMA EnrichKeeps ==
    ASSUME IndexInv, enrichEdges
    PROVE  IndexInv'
<1>1. /\ adapter.pc = "idle" /\ Len(adapter.answers) = 4 /\ UNCHANGED <<indexed, host, indexFacts>>
    BY DEF enrichEdges, Consumers
<1>2. IsAdapter(adapter) /\ adapter.answers \in Seq(AnswerType)
    BY DEF IndexInv, IndexTyped
<1>3. \E h, o : adapter' = [adapter EXCEPT !.pc = "done", !.hints = h, !.overlay = o]
    BY DEF enrichEdges
<1>4. /\ Keeping(adapter, adapter') /\ adapter'.pc = "done" /\ adapter'.memo = adapter.memo
      /\ adapter'.key = adapter.key
    BY <1>2, <1>3 DEF Keeping, IsAdapter, AdapterFields
<1>5. adapter.memo # NoIndex
    <2>1. adapter.answers # <<>>
        BY <1>1
    <2> QED
        BY <2>1 DEF IndexInv, Running
<1>6. IndexTyped'
    BY <1>1, <1>4 DEF IndexInv, IndexTyped, Keeping
<1>7. CachedWell'
    BY <1>1 DEF IndexInv, CachedWell
<1>8. Running'
    BY <1>1, <1>4, <1>5 DEF Running, Keeping
<1>9. Concluded' /\ AnswersFollow'
    BY <1>4 DEF IndexInv, Concluded, AnswersFollow, Keeping, KeyOfScan
<1> QED
    BY <1>6, <1>7, <1>8, <1>9 DEF IndexInv

\* The tree and the host change.
LEMMA WorldKeeps ==
    ASSUME IndexInv, SourcesChange \/ IndexerUpgrade \/ HostChanges
    PROVE  IndexInv'
<1>1. IsAdapter(adapter) /\ adapter.raced \in BOOLEAN
    BY DEF IndexInv, IndexTyped
<1>2. CachedWell'
    BY DEF IndexInv, CachedWell, SourcesChange, IndexerUpgrade, HostChanges, Happens
<1>3. ASSUME NEW S \in SUBSET {"lookup", "index"}, NEW raced \in BOOLEAN,
             raced = (adapter.raced \/ adapter.pc \in S),
             adapter' = [adapter EXCEPT !.raced = raced],
             indexed' \in [tree : Indexed, text : Nat], indexed'.text = indexed.text \/ "index" \in S,
             host' \in [tools : SUBSET IndexLangs, python : {"uv", "none", "refused"}, modules : BOOLEAN, version : Nat],
             host'.version = host.version \/ S = {"lookup", "index"}
      PROVE  IndexInv'
    <2>1. /\ IsAdapter(adapter') /\ adapter'.scan = adapter.scan /\ adapter'.pc = adapter.pc
          /\ adapter'.answers = adapter.answers /\ adapter'.memo = adapter.memo /\ adapter'.lang = adapter.lang
          /\ adapter'.version = adapter.version /\ adapter'.packages = adapter.packages
          /\ adapter'.key = adapter.key /\ adapter'.raw = adapter.raw /\ adapter'.raced = raced
        BY <1>1, <1>3 DEF IsAdapter, AdapterFields
    <2>2. IndexTyped'
        BY <1>3, <2>1 DEF IndexInv, IndexTyped
    <2>3. Running'
        <3>1. adapter.pc = "lookup" /\ ~raced /\ adapter.version # 0 => host'.version = adapter.version
            BY <1>3 DEF IndexInv, Running
        <3>2. adapter.pc = "index" /\ ~raced => /\ adapter.key[4] = indexed'.text
                                                /\ adapter.version # 0 => host'.version = adapter.version
            BY <1>3 DEF IndexInv, Running
        <3>3. KeyOfScan(adapter.key) => KeyOfScan(adapter.key)'
            BY <2>1 DEF KeyOfScan
        <3>4. /\ adapter.pc \in {"detect", "reader", "lookup", "index", "read"} =>
                   adapter.answers = <<>> /\ adapter.memo = NoIndex
              /\ adapter.pc \in {"reader", "lookup", "index", "read"} => adapter.lang \in IndexLangs
              /\ adapter.pc \in {"index", "read"} => KeyOfScan(adapter.key)
              /\ adapter.pc = "read" => ReadFor(adapter.raw, adapter.key)
              /\ adapter.pc \in {"answer", "done"} => adapter.memo # NoIndex
              /\ adapter.pc = "answer" => Len(adapter.answers) < 4
              /\ adapter.pc = "done" => Len(adapter.answers) = 4
              /\ adapter.memo = NoIndex => adapter.answers = <<>>
              /\ adapter.pc = "detect" \/ (adapter.pc = "idle" /\ adapter.memo = NoIndex) => adapter.lang = ""
            BY DEF IndexInv, Running
        <3> QED
            BY <2>1, <3>1, <3>2, <3>3, <3>4 DEF Running
    <2>4. Concluded' /\ AnswersFollow'
        BY <2>1 DEF IndexInv, Concluded, AnswersFollow, KeyOfScan
    <2> QED
        BY <1>2, <2>2, <2>3, <2>4 DEF IndexInv
<1>4. /\ indexed \in [tree : Indexed, text : Nat]
      /\ host \in [tools : SUBSET IndexLangs, python : {"uv", "none", "refused"}, modules : BOOLEAN, version : Nat]
    BY DEF IndexInv, IndexTyped
<1>5. CASE SourcesChange
    <2>1. PICK raced \in BOOLEAN : raced = (adapter.raced \/ adapter.pc \in {"index"})
        OBVIOUS
    <2>2. adapter' = [adapter EXCEPT !.raced = raced]
        BY <1>5, <2>1 DEF SourcesChange
    <2>3. indexed' \in [tree : Indexed, text : Nat] /\ host' = host
        BY <1>4, <1>5 DEF SourcesChange
    <2> QED
        BY <1>3, <1>4, <2>1, <2>2, <2>3
<1>6. CASE IndexerUpgrade
    <2>1. PICK raced \in BOOLEAN : raced = (adapter.raced \/ adapter.pc \in {"lookup", "index"})
        OBVIOUS
    <2>2. adapter' = [adapter EXCEPT !.raced = raced]
        BY <1>6, <2>1 DEF IndexerUpgrade
    <2>3. /\ host' \in [tools : SUBSET IndexLangs, python : {"uv", "none", "refused"}, modules : BOOLEAN, version : Nat]
          /\ indexed' = indexed
        BY <1>4, <1>6 DEF IndexerUpgrade
    <2> QED
        BY <1>3, <1>4, <2>1, <2>2, <2>3
<1>7. CASE HostChanges
    <2>1. adapter' = adapter /\ indexed' = indexed
        BY <1>7 DEF HostChanges
    <2>2. indexed.tree.manifests \subseteq IndexLangs
        BY <1>4, SymbolIndexAssumption DEF SymbolIndexAssumption
    <2>3. /\ host' \in [tools : SUBSET IndexLangs, python : {"uv", "none", "refused"}, modules : BOOLEAN, version : Nat]
          /\ host'.version = host.version
        <3>1. CASE \E l \in indexed.tree.manifests :
                     host' = [host EXCEPT !.tools = IF l \in @ THEN @ \ {l} ELSE @ \cup {l}]
            <4>1. PICK l \in IndexLangs :
                     host' = [host EXCEPT !.tools = IF l \in @ THEN @ \ {l} ELSE @ \cup {l}]
                BY <2>2, <3>1
            <4>2. PICK T \in SUBSET IndexLangs :
                     T = IF l \in host.tools THEN host.tools \ {l} ELSE host.tools \cup {l}
                BY <1>4
            <4>3. host' = [host EXCEPT !.tools = T]
                BY <4>1, <4>2
            <4> QED
                BY <1>4, <4>3
        <3>2. CASE \E p \in {"uv", "none", "refused"} \ {host.python} : host' = [host EXCEPT !.python = p]
            BY <1>4, <3>2
        <3>3. CASE host' = [host EXCEPT !.modules = ~@]
            BY <1>4, <3>3
        <3> QED
            BY <1>7, <3>1, <3>2, <3>3 DEF HostChanges
    <2>4. IndexTyped'
        BY <1>4, <2>1, <2>3 DEF IndexInv, IndexTyped
    <2>5. Running' /\ Concluded' /\ AnswersFollow'
        BY <2>1, <2>3 DEF IndexInv, Running, Concluded, AnswersFollow, KeyOfScan
    <2> QED
        BY <1>2, <2>4, <2>5 DEF IndexInv
<1> QED
    BY <1>5, <1>6, <1>7

LEMMA IndexInitInv == IndexInit => IndexInv
<1> SUFFICES ASSUME IndexInit PROVE IndexInv
    OBVIOUS
<1>1. /\ IsAdapter(adapter) /\ adapter.scan = 0 /\ adapter.pc = "idle" /\ adapter.answers = <<>>
      /\ adapter.memo = NoIndex /\ adapter.lang = "" /\ adapter.version = 0
    BY DEF IndexInit, NewAdapter, IsAdapter, AdapterFields
<1>2. adapter.packages = {} /\ adapter.raced = FALSE
    BY DEF IndexInit, NewAdapter
<1>3. IndexTyped
    <2>1. adapter.answers \in Seq(AnswerType) /\ Len(adapter.answers) <= 4
        <3>1. <<>> \in Seq(AnswerType) /\ Len(<<>>) <= 4
            OBVIOUS
        <3> QED
            BY <1>1, <3>1, Zenon
    <2>2. IdsApart(adapter.packages)
        BY <1>2 DEF IdsApart
    <2>3. adapter.lang # "rust" => adapter.packages = {}
        BY <1>2, Zenon
    <2>4. /\ adapter.pc \in {"idle", "detect", "reader", "lookup", "index", "read", "answer", "done"}
          /\ adapter.memo \in IndexOutcomes \cup {NoIndex} /\ adapter.lang \in IndexLangs \cup {""}
        BY <1>1, Zenon
    <2>5. adapter.raced \in BOOLEAN
        BY <1>2, Zenon
    <2>6. adapter.scan \in Nat /\ adapter.version \in Nat
        <3>1. adapter.scan = 0 /\ adapter.version = 0
            BY <1>1
        <3> QED
            BY <3>1
    <2>7. /\ indexed \in [tree : Indexed, text : Nat]
          /\ host \in [tools : SUBSET IndexLangs, python : {"uv", "none", "refused"}, modules : BOOLEAN, version : Nat]
        BY DEF IndexInit
    <2> QED
        BY <1>1, <2>1, <2>2, <2>3, <2>4, <2>5, <2>6, <2>7 DEF IndexTyped
<1>4. CachedWell
    BY DEF IndexInit, CachedWell
<1>5. Running
    BY <1>1 DEF Running
<1>6. Concluded /\ AnswersFollow
    <2>1. adapter.memo = NoIndex /\ adapter.answers = <<>>
        BY <1>1
    <2> QED
        BY <2>1 DEF Concluded, AnswersFollow
<1> QED
    BY <1>3, <1>4, <1>5, <1>6 DEF IndexInv

LEMMA IndexNextInv == IndexInv /\ [IndexNext]_indexVars => IndexInv'
<1> SUFFICES ASSUME IndexInv, [IndexNext]_indexVars PROVE IndexInv'
    OBVIOUS
<1>1. CASE UNCHANGED indexVars
    <2>1. indexed' = indexed /\ host' = host /\ indexFacts' = indexFacts /\ adapter' = adapter
        BY <1>1 DEF indexVars
    <2>2. IndexTyped'
        BY <2>1 DEF IndexInv, IndexTyped
    <2>3. CachedWell'
        BY <2>1 DEF IndexInv, CachedWell
    <2>4. Running'
        BY <2>1 DEF IndexInv, Running, KeyOfScan
    <2>5. Concluded'
        BY <2>1 DEF IndexInv, Concluded, KeyOfScan
    <2>6. AnswersFollow'
        BY <2>1 DEF IndexInv, AnswersFollow
    <2> QED
        BY <2>2, <2>3, <2>4, <2>5, <2>6 DEF IndexInv
<1> QED
    BY <1>1, ScanStartsKeeps, PipelineKeeps, DetectKeeps, PythonKeeps, LookupKeeps, IndexerKeeps, ReaderKeeps,
       ReplyKeeps, EnrichKeeps, WorldKeeps DEF IndexNext

-----------------------------------------------------------------------------
(* What the invariant gives                                                   *)

\* What is known of an answer.
LEMMA AnswerKnown ==
    ASSUME IndexInv, NEW n \in DOMAIN adapter.answers
    PROVE  /\ n \in 1..4 /\ adapter.memo \in IndexOutcomes
           /\ OutcomeOf(adapter.memo, adapter.lang, adapter.packages)
           /\ adapter.memo.ok => OneEach(adapter.memo.raw.refs) /\ adapter.memo.raw.refs \in SUBSET SymbolRefs
           /\ adapter.answers[n].consumer = Consumers[n] /\ adapter.answers[n].raw = adapter.memo.raw
           /\ Says(Consumers[n], adapter.memo, adapter.answers[n].status, adapter.answers[n].items)
<1>1. n \in 1..4
    <2>1. adapter.answers \in Seq(AnswerType) /\ Len(adapter.answers) <= 4
        BY DEF IndexInv, IndexTyped
    <2>2. n \in 1..Len(adapter.answers) /\ Len(adapter.answers) \in Nat
        BY <2>1
    <2> QED
        BY <2>1, <2>2
<1>2. adapter.memo # NoIndex
    <2>1. adapter.answers # <<>>
        OBVIOUS
    <2> QED
        BY <2>1 DEF IndexInv, Running
<1>3. adapter.memo \in IndexOutcomes
    BY <1>2 DEF IndexInv, IndexTyped
<1>4. /\ OutcomeOf(adapter.memo, adapter.lang, adapter.packages)
      /\ adapter.memo.ok => ReadFor(adapter.memo.raw, adapter.key)
    BY <1>2 DEF IndexInv, Concluded
<1>5. adapter.memo.ok => OneEach(adapter.memo.raw.refs) /\ adapter.memo.raw.refs \in SUBSET SymbolRefs
    BY <1>4 DEF ReadFor, RawIndexes
<1>6. adapter.memo.ok => adapter.memo.raw \in RawIndexes
    BY <1>4 DEF ReadFor
<1>7. Consumers[n] \in {"strengths", "connascence", "data", "symbols"}
    BY <1>1 DEF Consumers
<1>8. adapter.answers[n] = Given(Consumers[n], adapter.memo)
    BY DEF IndexInv, AnswersFollow
<1>9. /\ adapter.answers[n].consumer = Consumers[n] /\ adapter.answers[n].raw = adapter.memo.raw
      /\ Says(Consumers[n], adapter.memo, adapter.answers[n].status, adapter.answers[n].items)
    <2>1. PICK a, who, m : a = adapter.answers[n] /\ who = Consumers[n] /\ m = adapter.memo
        OBVIOUS
    <2>2. a = Given(who, m)
        BY <1>8, <2>1
    <2>3. /\ m \in IndexOutcomes /\ (m.ok => m.raw \in RawIndexes)
          /\ who \in {"strengths", "connascence", "data", "symbols"}
        BY <1>3, <1>6, <1>7, <2>1, Zenon
    <2>4. a.raw = m.raw /\ a.consumer = who /\ Says(who, m, a.status, a.items)
        BY <2>2, <2>3, AnswerTyped
    <2> QED
        BY <2>1, <2>4, Zenon
<1> QED
    BY <1>1, <1>3, <1>4, <1>5, <1>9

LEMMA InvAgrees == IndexInv => ConsumersAgree
    BY AnswerKnown DEF ConsumersAgree

LEMMA InvIsOfTree == IndexInv => IndexIsOfTree
    BY DEF IndexInv, Concluded, OutcomeOf, ReadFor, KeyOfScan, IndexIsOfTree

LEMMA InvIsWhole == IndexInv => OkIsWhole
<1> SUFFICES ASSUME IndexInv, NEW a \in Told("strengths") \cup Told("symbols"), a.status = "ok"
             PROVE  /\ a.raw.shape \in {"symbols", "edges"}
                    /\ a.raw.lang = "rust" => a.raw.attribution = "ok"
    BY DEF OkIsWhole
<1>1. PICK n \in DOMAIN adapter.answers : /\ a = adapter.answers[n]
                                          /\ a.consumer \in {"strengths", "symbols"}
    BY DEF Told
<1>2. PICK m : m = adapter.memo
    OBVIOUS
<1>3. /\ OutcomeOf(m, adapter.lang, adapter.packages) /\ a.raw = m.raw
      /\ Says(a.consumer, m, a.status, a.items)
    BY <1>1, <1>2, AnswerKnown
<1>4. m.ok /\ ~Unparsed(m.raw)
    BY <1>3 DEF Says, OutcomeOf, Unparsed, ReaderCovers
<1>5. ~Partial(m) /\ m.raw.shape # "empty"
    BY <1>1, <1>3, <1>4 DEF Says
<1>6. m.raw \in RawIndexes /\ m.raw.shape \in Shapes
    BY <1>3, <1>4 DEF OutcomeOf, RawIndexes
<1>7. m.raw.shape \in {"symbols", "edges"}
    BY <1>4, <1>5, <1>6 DEF Shapes, Unparsed
<1>8. m.raw.lang = "rust" => m.raw.attribution = "ok"
    BY <1>3, <1>4, <1>5 DEF OutcomeOf, Partial
<1> QED
    BY <1>3, <1>7, <1>8

\* The strengths a consumer was told of, when there are any.
LEMMA StrengthsAre ==
    ASSUME IndexInv, NEW t \in Told("strengths")
    PROVE  \E m \in IndexOutcomes :
             /\ OutcomeOf(m, adapter.lang, adapter.packages) /\ t.raw = m.raw
             /\ Says("strengths", m, t.status, t.items)
             /\ m.ok => OneEach(m.raw.refs) /\ m.raw.refs \in SUBSET SymbolRefs
<1>1. PICK n \in DOMAIN adapter.answers : t = adapter.answers[n] /\ t.consumer = "strengths"
    BY DEF Told
<1> QED
    BY <1>1, AnswerKnown

LEMMA InvSoundAliases == IndexInv => AliasesAreSound
<1> SUFFICES ASSUME IndexInv, NEW t \in Told("strengths"), t.raw # NoIndex, t.items # {}
             PROVE  /\ t.raw.refs \subseteq t.items
                    /\ \A g \in t.items \ t.raw.refs :
                         /\ ~g.from[2] /\ ~g.to[2] /\ Unmistakable(g.from[1]) /\ Unmistakable(g.to[1])
                         /\ \A e \in Beneath(g.from[1], g.to[1], t.raw.refs) : e.strength <= g.strength
                         /\ \E e \in Beneath(g.from[1], g.to[1], t.raw.refs) : e.strength = g.strength
    BY DEF AliasesAreSound
<1>1. PICK m \in IndexOutcomes :
         /\ OutcomeOf(m, adapter.lang, adapter.packages) /\ t.raw = m.raw
         /\ Says("strengths", m, t.status, t.items)
         /\ m.ok => OneEach(m.raw.refs) /\ m.raw.refs \in SUBSET SymbolRefs
    BY StrengthsAre
<1>2. m.ok /\ t.items = Overlaid(m.raw.refs, m.aliases)
    BY <1>1 DEF Says
<1>3. PICK es, ps : es = m.raw.refs /\ ps = adapter.packages
    OBVIOUS
<1>4. es \in SUBSET SymbolRefs /\ OneEach(es) /\ t.raw.refs = es /\ IdsApart(ps)
    BY <1>1, <1>2, <1>3 DEF IndexInv, IndexTyped
<1>5. CASE adapter.lang # "rust"
    <2>1. m.aliases = {}
        BY <1>1, <1>2, <1>5 DEF OutcomeOf
    <2>2. t.items = es
        BY <1>2, <1>3, <2>1 DEF Overlaid
    <2> QED
        BY <1>4, <2>2
<1>6. CASE adapter.lang = "rust"
    <2>1. PICK al : al = m.aliases
        OBVIOUS
    <2>2. al = rustObservedPackageEdges(es, rustTargetPackageOwners(ps)).aliases
        BY <1>1, <1>2, <1>3, <1>6, <2>1 DEF OutcomeOf
    <2>3. al \in SUBSET Aggregates(es, rustTargetPackageOwners(ps)) /\ Overlaid(es, al) = es \cup al
        BY <1>4, <2>2, OverlaidIs
    <2>4. t.items = es \cup al
        BY <1>2, <1>3, <2>1, <2>3
    <2>5. ASSUME NEW g \in al
          PROVE  /\ ~g.from[2] /\ ~g.to[2] /\ Unmistakable(g.from[1]) /\ Unmistakable(g.to[1])
                 /\ \A e \in Beneath(g.from[1], g.to[1], es) : e.strength <= g.strength
                 /\ \E e \in Beneath(g.from[1], g.to[1], es) : e.strength = g.strength
        <3>1. g \in Aggregates(es, rustTargetPackageOwners(ps))
            BY <2>3
        <3>2. PICK p \in ps, q \in ps : AliasOf(g, ps, es, p, q)
            BY <1>4, <3>1, AliasStandsFor
        <3>3. g.from = <<p.name, FALSE>> /\ g.to = <<q.name, FALSE>>
            BY <3>2 DEF AliasOf, StandsFor
        <3>4. g.from[1] = p.name /\ g.to[1] = q.name /\ ~g.from[2] /\ ~g.to[2]
            BY <3>3
        <3>5. ASSUME NEW r \in {p, q} PROVE Unmistakable(r.name)
            <4>1. r \in ps /\ r.name \notin Blocked(ps)
                BY <3>2 DEF AliasOf
            <4>2. /\ {x \in ps : x.name = r.name} = {r}
                  /\ \A x \in Owners(ps, r.name) : x = r
                BY <1>4, <4>1, NamedOnce
            <4>3. Cardinality({x \in ps : x.name = r.name}) = 1
                BY <1>4, <4>1, <4>2, OneOrMore
            <4> QED
                BY <1>3, <4>2, <4>3 DEF Unmistakable
        <3>6. Beneath(p.name, q.name, es) = Under(ps, es, p.name, q.name)
            BY <1>3 DEF Beneath, Under, Surely, SurelyIn
        <3>7. /\ \A e \in Under(ps, es, p.name, q.name) : e.strength <= g.strength
              /\ \E e \in Under(ps, es, p.name, q.name) : e.strength = g.strength
            BY <3>2 DEF AliasOf, StandsFor
        <3> QED
            BY <3>4, <3>5, <3>6, <3>7
    <2> QED
        BY <1>4, <2>4, <2>5
<1> QED
    BY <1>5, <1>6

-----------------------------------------------------------------------------
(* Strengths over the extractors' edges                                       *)

\* An extractor's edge: Go's own have a strength, Cargo's are of a Rust scan.
LEMMA ExtractedIs ==
    ASSUME IndexInv, NEW e \in ExtractedEdges
    PROVE  /\ DOMAIN e = {"lang", "from", "to", "hint"}
           /\ e.lang = "go" => e.hint = 1
           /\ e.lang = "rust" => adapter.lang = "rust" /\ e.from \in Ends /\ e.to \in Ends /\ e.from # e.to
<1>1. /\ indexed.tree.refs \in SUBSET SymbolRefs /\ IdsApart(adapter.packages)
      /\ adapter.lang # "rust" => adapter.packages = {}
    BY SymbolIndexAssumption DEF SymbolIndexAssumption, IndexInv, IndexTyped
<1>2. CASE \E r \in indexed.tree.refs :
             /\ e = [lang |-> adapter.lang, from |-> r.from, to |-> r.to, hint |-> 0]
             /\ adapter.lang # "go" /\ e.from # e.to
    BY <1>1, <1>2 DEF SymbolRefs
<1>3. CASE e \in CargoEdges /\ e.from # e.to
    <2>1. PICK p \in adapter.packages, q \in adapter.packages : e = CargoEdge(p, q)
        BY <1>3 DEF CargoEdges
    <2>2. <<p.name, FALSE>> \in Ends /\ <<q.name, FALSE>> \in Ends
        BY <1>1 DEF IdsApart, CargoPackages, Ends
    <2>3. adapter.lang = "rust"
        BY <1>1
    <2> QED
        BY <1>3, <2>1, <2>2, <2>3 DEF CargoEdge
<1>4. CASE \E r \in indexed.tree.refs : e = [lang |-> "go", from |-> r.from, to |-> r.to, hint |-> 1]
    BY <1>4
<1>5. CASE e \in ReferredEdges(adapter.lang, 0) /\ adapter.lang # "go" /\ e.from # e.to
    BY <1>2, <1>5 DEF ReferredEdges
<1>6. CASE e \in ReferredEdges("go", 1)
    BY <1>4, <1>6 DEF ReferredEdges
<1> QED
    BY <1>3, <1>5, <1>6 DEF ExtractedEdges

\* A Rust edge gets the strength of the references between its packages' crates.
LEMMA RustEdgeEarned ==
    ASSUME IndexInv, NEW t \in Told("strengths"), t.status = "ok",
           NEW e \in ExtractedEdges, e.lang = "rust", ~e.from[2], ~e.to[2],
           NEW f \in Beneath(e.from[1], e.to[1], t.raw.refs)
    PROVE  f.strength <= Enriched(e, t.items).hint
<1>1. PICK m \in IndexOutcomes :
         /\ OutcomeOf(m, adapter.lang, adapter.packages) /\ t.raw = m.raw
         /\ Says("strengths", m, t.status, t.items)
         /\ m.ok => OneEach(m.raw.refs) /\ m.raw.refs \in SUBSET SymbolRefs
    BY StrengthsAre
<1>2. /\ DOMAIN e = {"lang", "from", "to", "hint"}
      /\ adapter.lang = "rust" /\ e.from \in Ends /\ e.to \in Ends /\ e.from # e.to
    BY ExtractedIs
<1>3. PICK a \in Crates, b \in Crates : e.from = <<a, FALSE>> /\ e.to = <<b, FALSE>> /\ a # b
    <2>1. PICK a \in Crates, b \in Crates, c \in BOOLEAN, d \in BOOLEAN : e.from = <<a, c>> /\ e.to = <<b, d>>
        BY <1>2 DEF Ends
    <2>2. ~c /\ ~d
        BY <2>1
    <2>3. e.from = <<a, FALSE>> /\ e.to = <<b, FALSE>>
        BY <2>1, <2>2
    <2>4. a # b
        BY <1>2, <2>3
    <2> QED
        BY <2>3, <2>4
<1>4. PICK es, ps, al : es = m.raw.refs /\ ps = adapter.packages /\ al = m.aliases
    OBVIOUS
<1>5. m.ok /\ ~Unparsed(m.raw)
    <2>1. m.ok
        BY <1>1 DEF Says, OutcomeOf
    <2>2. m.raw.shape # "error"
        BY <1>1, <1>2, <2>1 DEF OutcomeOf, ReaderCovers
    <2> QED
        BY <2>1, <2>2 DEF Unparsed
<1>6. t.items = Overlaid(es, al) /\ ~Partial(m)
    BY <1>1, <1>4, <1>5 DEF Says
<1>7. /\ al = rustObservedPackageEdges(es, rustTargetPackageOwners(ps)).aliases
      /\ ~Issues(ps, es)
    BY <1>1, <1>2, <1>4, <1>5, <1>6 DEF OutcomeOf, Partial
<1>8. es \in SUBSET SymbolRefs /\ OneEach(es) /\ t.raw.refs = es /\ IdsApart(ps)
    BY <1>1, <1>4, <1>5 DEF IndexInv, IndexTyped
<1>9. t.items = es \cup al /\ OneEach(t.items)
    BY <1>6, <1>7, <1>8, OverlaidIs
<1>10. f \in Under(ps, es, a, b)
    <2>1. f \in Beneath(a, b, es)
        BY <1>3, <1>8
    <2> QED
        BY <1>4, <2>1 DEF Beneath, Under, Surely, SurelyIn
<1>11. PICK p \in ps, q \in ps : p.name = a /\ q.name = b
    BY <1>10 DEF Under, SurelyIn, Owners
<1>12. PICK r \in es \cup al :
          /\ r.from = <<a, FALSE>> /\ r.to = <<b, FALSE>>
          /\ \A x \in Under(ps, es, a, b) : x.strength <= r.strength
    BY <1>3, <1>7, <1>8, <1>10, <1>11, NoneUnderstated
<1>13. SameEnds(r, e) /\ r \in t.items
    BY <1>3, <1>9, <1>12 DEF SameEnds
<1>14. \A x \in t.items : SameEnds(x, e) => x = r
    BY <1>9, <1>13 DEF OneEach, SameEnds
<1>15. (CHOOSE x \in t.items : SameEnds(x, e)) = r
    BY <1>13, <1>14
<1>16. Enriched(e, t.items).hint = r.strength
    BY <1>2, <1>13, <1>15 DEF Enriched
<1> QED
    BY <1>10, <1>12, <1>16

LEMMA EnrichEarns ==
    ASSUME IndexInv, enrichEdges
    PROVE  HintsAreEarned'
<1>1. /\ adapter.pc = "idle" /\ Len(adapter.answers) = 4
      /\ IsAdapter(adapter) /\ adapter.answers \in Seq(AnswerType)
    BY DEF enrichEdges, Consumers, IndexInv, IndexTyped
<1>2. PICK t : t = adapter.answers[1]
    OBVIOUS
<1>3. PICK H : H = {Enriched(e, t.items) : e \in ExtractedEdges}
    OBVIOUS
<1>4. \E o : adapter' = [adapter EXCEPT !.pc = "done", !.hints = H, !.overlay = o]
    BY <1>2, <1>3 DEF enrichEdges
<1>5. /\ adapter'.hints = H /\ adapter'.answers = adapter.answers /\ adapter'.packages = adapter.packages
    BY <1>1, <1>4 DEF IsAdapter, AdapterFields
<1>6. t \in Told("strengths")
    <2>1. 1 \in DOMAIN adapter.answers
        BY <1>1
    <2>2. adapter.answers[1].consumer = Consumers[1]
        BY <2>1, AnswerKnown
    <2>3. Consumers[1] = "strengths"
        BY DEF Consumers
    <2> QED
        BY <1>2, <2>1, <2>2, <2>3 DEF Told
<1>7. ASSUME NEW e \in ExtractedEdges
      PROVE  LET h == Enriched(e, t.items)
             IN  /\ h.lang = "go" => h.hint = 1
                 /\ h.lang = "rust" /\ t.status = "ok" /\ ~h.from[2] /\ ~h.to[2] =>
                      \A f \in Beneath(h.from[1], h.to[1], t.raw.refs) : f.strength <= h.hint
    <2>1. DOMAIN e = {"lang", "from", "to", "hint"} /\ (e.lang = "go" => e.hint = 1)
        BY ExtractedIs
    <2>2. PICK h : h = Enriched(e, t.items)
        OBVIOUS
    <2>3. h.lang = e.lang /\ h.from = e.from /\ h.to = e.to /\ (e.lang = "go" => h.hint = 1)
        BY <2>1, <2>2 DEF Enriched
    <2>4. ASSUME h.lang = "rust", t.status = "ok", ~h.from[2], ~h.to[2],
                 NEW f \in Beneath(h.from[1], h.to[1], t.raw.refs)
          PROVE  f.strength <= h.hint
        BY <1>6, <2>2, <2>3, <2>4, RustEdgeEarned
    <2> QED
        BY <2>2, <2>3, <2>4
<1>8. \A a, b, es : Beneath(a, b, es)' = Beneath(a, b, es)
    BY <1>5 DEF Beneath, Surely, Owners
<1>9. adapter'.answers[1] = t
    BY <1>2, <1>5
<1> QED
    BY <1>3, <1>5, <1>7, <1>8, <1>9 DEF HintsAreEarned

\* A pipeline that ends with an index waits to answer.
LEMMA ResultEnds ==
    ASSUME NEW a, IsAdapter(a), NEW raw, NEW s, NEW r
    PROVE  rustPackageResult(a, raw, s, r).pc = "answer"
<1>1. ASSUME NEW st, NEW re, NEW al PROVE Ended(a, TRUE, st, re, raw, al).pc = "answer"
    <2>1. PICK m : m = [ok |-> TRUE, status |-> st, reason |-> re, raw |-> raw, aliases |-> al]
        OBVIOUS
    <2>2. Ended(a, TRUE, st, re, raw, al) = AtEnd(a, m)
        BY <2>1, Zenon DEF Ended, AtEnd
    <2>3. AtEnd(a, m).pc = "answer"
        BY EndedFields
    <2> QED
        BY <2>2, <2>3, Zenon
<1> QED
    BY <1>1 DEF rustPackageResult

\* The steps after it leave the hints and what they were earned from.
LEMMA HintsStay ==
    ASSUME IndexInv, HintsAreEarned, [IndexNext]_indexVars
    PROVE  HintsAreEarned'
<1>1. CASE enrichEdges
    BY <1>1, EnrichEarns
<1>2. ASSUME adapter'.pc = adapter.pc, adapter'.hints = adapter.hints, adapter'.answers = adapter.answers,
             adapter'.packages = adapter.packages
      PROVE  HintsAreEarned'
    BY <1>2 DEF HintsAreEarned, Beneath, Surely, Owners
<1>3. IsAdapter(adapter)
    BY DEF IndexInv, IndexTyped
<1>4. CASE SourcesChange \/ IndexerUpgrade
    <2>1. \E r : adapter' = [adapter EXCEPT !.raced = r]
        BY <1>4 DEF SourcesChange, IndexerUpgrade
    <2> QED
        BY <1>2, <1>3, <2>1 DEF IsAdapter, AdapterFields
<1>5. CASE HostChanges \/ UNCHANGED indexVars
    BY <1>2, <1>5 DEF HostChanges, indexVars
<1>6. ASSUME adapter'.pc # "done" PROVE HintsAreEarned'
    BY <1>6 DEF HintsAreEarned
<1>7. CASE ScanStarts
    <2>1. adapter'.pc = "idle"
        BY <1>7 DEF ScanStarts, NewAdapter
    <2> QED
        BY <1>6, <2>1
<1>8. ASSUME NEW pc \in {"idle", "detect", "reader", "lookup", "index", "read", "answer"}, adapter'.pc = pc
      PROVE  HintsAreEarned'
    BY <1>6, <1>8
<1>9. ASSUME NEW s, NEW r, Stops(s, r) PROVE HintsAreEarned'
    <2>1. PICK m : m = [ok |-> FALSE, status |-> s, reason |-> r, raw |-> NoIndex, aliases |-> {}]
        OBVIOUS
    <2>2. adapter' = AtEnd(adapter, m)
        BY <1>9, <2>1, Zenon DEF Stops, Ended, AtEnd
    <2>3. adapter'.pc = "answer"
        BY <1>3, <2>2, EndedFields
    <2> QED
        BY <1>6, <2>3
<1>10. CASE runSCIPPipeline
    <2>1. adapter'.pc \in {"answer", "detect"}
        BY <1>3, <1>10 DEF runSCIPPipeline, IsAdapter, AdapterFields
    <2> QED
        BY <1>6, <2>1
<1>11. CASE detectIndexer
    <2>1. CASE \E s : Stops(s, TRUE)
        BY <1>9, <2>1
    <2>2. CASE adapter'.pc = "reader"
        BY <1>6, <2>2
    <2>3. ASSUME adapter' = [adapter EXCEPT !.pc = "reader", !.lang = "rust", !.packages = indexed.tree.packages]
          PROVE  adapter'.pc = "reader"
        BY <1>3, <2>3 DEF IsAdapter, AdapterFields
    <2>4. ASSUME NEW n \in Detected, adapter' = [adapter EXCEPT !.pc = "reader", !.lang = Tried[n]]
          PROVE  adapter'.pc = "reader"
        BY <1>3, <2>4 DEF IsAdapter, AdapterFields
    <2> QED
        BY <1>11, <2>1, <2>2, <2>3, <2>4 DEF detectIndexer, cargoWorkspaceMembers
<1>12. CASE readerPython
    <2>1. CASE \E s : Stops(s, TRUE)
        BY <1>9, <2>1
    <2>2. CASE \E v : adapter' = [adapter EXCEPT !.pc = "lookup", !.version = v, !.raced = FALSE]
        <3>1. adapter'.pc = "lookup"
            BY <1>3, <2>2 DEF IsAdapter, AdapterFields
        <3> QED
            BY <1>6, <3>1
    <2> QED
        BY <1>12, <2>1, <2>2 DEF readerPython
<1>13. CASE Lookup
    <2>1. PICK a : a = [adapter EXCEPT !.key = cacheKey]
        OBVIOUS
    <2>2. IsAdapter(a)
        BY <1>3, <2>1 DEF IsAdapter
    <2>3. CASE \E raw, s, r : adapter' = rustPackageResult(a, raw, s, r)
        BY <1>6, <2>2, <2>3, ResultEnds
    <2>4. CASE adapter' = [a EXCEPT !.pc = "index"]
        <3>1. adapter'.pc = "index"
            BY <2>2, <2>4 DEF IsAdapter, AdapterFields
        <3> QED
            BY <1>6, <3>1
    <2>5. CASE \E s, r : Stops(s, r)
        BY <1>9, <2>5
    <2> QED
        BY <1>13, <2>1, <2>3, <2>4, <2>5 DEF Lookup
<1>14. CASE RunIndexer
    <2>1. CASE \E s, r : Stops(s, r)
        BY <1>9, <2>1
    <2>2. CASE \E x : adapter' = [adapter EXCEPT !.pc = "read", !.raw = x]
        <3>1. adapter'.pc = "read"
            BY <1>3, <2>2 DEF IsAdapter, AdapterFields
        <3> QED
            BY <1>6, <3>1
    <2> QED
        BY <1>14, <2>1, <2>2 DEF RunIndexer
<1>15. CASE RunReader
    <2>1. CASE \E s, r : Stops(s, r)
        BY <1>9, <2>1
    <2>2. CASE \E raw, s, r : adapter' = rustPackageResult(adapter, raw, s, r)
        BY <1>3, <1>6, <2>2, ResultEnds
    <2> QED
        BY <1>15, <2>1, <2>2 DEF RunReader
<1>16. CASE Reply
    <2>1. \E m, as : adapter' = [adapter EXCEPT !.pc = "idle", !.memo = m, !.answers = as]
        BY <1>16 DEF Reply
    <2>2. adapter'.pc = "idle"
        BY <1>3, <2>1 DEF IsAdapter, AdapterFields
    <2> QED
        BY <1>6, <2>2
<1> QED
    BY <1>1, <1>4, <1>5, <1>7, <1>10, <1>11, <1>12, <1>13, <1>14, <1>15, <1>16 DEF IndexNext

-----------------------------------------------------------------------------
(* The theorem                                                                *)

LEMMA IndexInvHolds == IndexSpec => []IndexInv
    BY IndexInitInv, IndexNextInv, PTL DEF IndexSpec

LEMMA HintsHold == IndexSpec => []HintsAreEarned
<1>1. IndexInit => HintsAreEarned
    <2> SUFFICES ASSUME IndexInit PROVE HintsAreEarned
        OBVIOUS
    <2>1. adapter.pc = "idle"
        BY DEF IndexInit, NewAdapter
    <2> QED
        BY <2>1 DEF HintsAreEarned
<1>2. IndexInv /\ HintsAreEarned /\ [IndexNext]_indexVars => HintsAreEarned'
    BY HintsStay
<1> QED
    BY <1>1, <1>2, IndexInvHolds, PTL DEF IndexSpec

\* One index answers every consumer; it is of the text and the indexer its key
\* names; "ok" is said only of a whole index; an alias hides no reference and
\* stands, at its strongest, for packages that their names tell apart; and an
\* edge between packages is as strong as what was seen between their crates.
THEOREM StrengthsEarned == IndexSpec => []StrengthIsEarned
<1>1. IndexInv /\ HintsAreEarned => StrengthIsEarned
    BY InvAgrees, InvIsOfTree, InvIsWhole, InvSoundAliases DEF StrengthIsEarned
<1> QED
    BY <1>1, IndexInvHolds, HintsHold, PTL

-----------------------------------------------------------------------------
(* Claims: what a dimension says when something is lost                        *)

\* What a run may have read of a tree.
Readings(t) ==
    [row : [EdgeTools -> {"ok", "absent", "partial", "timed_out"}], gaps : SUBSET t.tools,
     holes : SUBSET {"dotnet-msbuild"}, lost : SUBSET t.uses, coarse : BOOLEAN, unevaluated : SUBSET t.active,
     history : {t.history, "none", "partial"}, comparable : BOOLEAN, findings : SUBSET FoundFindings]

\* What is not in the rows is in the gaps, and what is lost is of a tool with a gap.
Disclosed(t, r) ==
    /\ \A p \in EdgeTools : r.row[p] = "ok" => p \in t.tools /\ p \notin r.gaps
    /\ \A p \in EdgeTools \ r.gaps : r.row[p] = IF p \in t.tools THEN "ok" ELSE "absent"
    /\ \A e \in r.lost : e.tool \in r.gaps
    /\ "roslyn" \in r.gaps => "dotnet-msbuild" \in r.holes
    /\ r.history # t.history => t.history = "ok"
ClaimsInv ==
    /\ codetree = NoCodeTree \/ codetree \in CodeTrees
    /\ codetree # NoCodeTree => reading \in Readings(codetree) /\ Disclosed(codetree, reading)

LEMMA ClaimsStart == ClaimsInit => ClaimsInv
    BY DEF ClaimsInit, ClaimsInv

LEMMA OpenKeeps == ASSUME ClaimsInv, NEW t \in CodeTrees, OpenTree(t) PROVE ClaimsInv'
<1>1. codetree' = t /\ IsTree(t)
    BY ClaimsAssumption DEF OpenTree
<1>2. reading' \in Readings(t)
    BY <1>1 DEF OpenTree, Readings, EdgeTools, PrimaryTools
<1>3. Disclosed(t, reading')
    BY <1>1 DEF OpenTree, Disclosed
<1> QED
    BY <1>1, <1>2, <1>3 DEF ClaimsInv

LEMMA FailKeeps ==
    ASSUME ClaimsInv, codetree # NoCodeTree, NEW p \in EdgeTools, NEW s \in {"partial", "timed_out", "absent"},
           NEW gone \in SUBSET UsesOf(p), ToolFails(p, s, gone)
    PROVE  ClaimsInv'
<1>1. reading \in Readings(codetree) /\ Disclosed(codetree, reading) /\ codetree \in CodeTrees /\ codetree' = codetree
    BY DEF ClaimsInv, ToolFails
<1>2. p \in codetree.tools /\ p \notin reading.gaps
    BY <1>1 DEF Disclosed, ToolFails
<1>3. PICK c \in BOOLEAN :
        reading' = [reading EXCEPT !.row[p] = s, !.gaps = @ \cup {p}, !.lost = @ \cup gone, !.coarse = c,
                                   !.holes = IF p = "roslyn" THEN @ \cup {"dotnet-msbuild"} ELSE @]
    <2>1. reading.coarse \in BOOLEAN
        BY <1>1 DEF Readings
    <2> QED
        BY <2>1 DEF ToolFails
<1>4. gone \subseteq codetree.uses /\ \A e \in gone : e.tool = p
    BY DEF UsesOf
<1>5. reading' \in Readings(codetree)
    BY <1>1, <1>2, <1>3, <1>4 DEF Readings
<1>6. /\ reading'.row = [reading.row EXCEPT ![p] = s] /\ reading'.gaps = reading.gaps \cup {p}
      /\ reading'.lost = reading.lost \cup gone /\ reading'.history = reading.history
      /\ reading.holes \subseteq reading'.holes /\ (p = "roslyn" => "dotnet-msbuild" \in reading'.holes)
      /\ reading.row \in [EdgeTools -> {"ok", "absent", "partial", "timed_out"}]
    BY <1>1, <1>3 DEF Readings
<1>7. Disclosed(codetree, reading')
    BY <1>1, <1>4, <1>6 DEF Disclosed
<1> QED
    BY <1>1, <1>5, <1>7 DEF ClaimsInv

LEMMA ClaimsSteps == ClaimsInv /\ [ClaimsNext]_claimVars => ClaimsInv'
<1> SUFFICES ASSUME ClaimsInv, [ClaimsNext]_claimVars PROVE ClaimsInv'
    OBVIOUS
<1>1. ASSUME NEW t \in CodeTrees, OpenTree(t) PROVE ClaimsInv'
    BY <1>1, OpenKeeps
<1>2. ASSUME codetree # NoCodeTree, NEW p \in EdgeTools, NEW s \in {"partial", "timed_out", "absent"},
             NEW gone \in SUBSET UsesOf(p), ToolFails(p, s, gone)
      PROVE  ClaimsInv'
    BY <1>2, FailKeeps
<1>3. ASSUME codetree # NoCodeTree, NEW r \in codetree.active, RuleUndecided(r) PROVE ClaimsInv'
    BY <1>3 DEF ClaimsInv, RuleUndecided, Readings, Disclosed
<1>4. ASSUME codetree # NoCodeTree, NEW s \in {"none", "partial"}, HistoryEnds(s) PROVE ClaimsInv'
    BY <1>4 DEF ClaimsInv, HistoryEnds, Readings, Disclosed
<1>5. ASSUME codetree # NoCodeTree, ReferenceDiffers PROVE ClaimsInv'
    BY <1>5 DEF ClaimsInv, ReferenceDiffers, Readings, Disclosed
<1>6. ASSUME codetree # NoCodeTree, NEW f \in FoundFindings, Finds(f) PROVE ClaimsInv'
    BY <1>6 DEF ClaimsInv, Finds, Readings, Disclosed
<1>7. CASE UNCHANGED claimVars
    BY <1>7 DEF ClaimsInv, claimVars
<1> QED
    BY <1>1, <1>2, <1>3, <1>4, <1>5, <1>6, <1>7 DEF ClaimsNext

\* A rule's dimension, whatever its name.
LEMMA RuleHasDimension ==
    ASSUME NEW t, NEW r, NEW rule
    PROVE  OwnerOfRule(t, r, rule) \in Dimensions
<1>1. CASE rule \in ClaimMetrics
    <2>1. ShownBy(rule) \in Dimensions
        BY <1>1 DEF ShownBy, ClaimMetrics, Dimensions
    <2>2. OwnerOfRule(t, r, rule) = IF rule \in t.metrics /\ Reports(t, r, rule) THEN ShownBy(rule) ELSE "intent"
        BY <1>1 DEF OwnerOfRule, ClaimMetrics
    <2> QED
        BY <2>1, <2>2 DEF Dimensions
<1>2. CASE rule \notin ClaimMetrics
    BY <1>2 DEF OwnerOfRule, Dimensions
<1> QED
    BY <1>1, <1>2

LEMMA BlockersShow == BlockersFailGates
<1>1. \A d \in Dimensions :
        GateFor(d, codetree, reading) = "fail" <=> \E f \in HeldBy(d, codetree, reading) : f.kind = "gate"
    BY DEF GateFor
<1>2. Blockers(reading) # {} <=> \E f \in Active(reading) : f.kind = "gate"
    BY DEF Blockers
<1>3. \A f \in Active(reading) : \E d \in Dimensions : f \in HeldBy(d, codetree, reading)
    BY RuleHasDimension DEF HeldBy
<1>4. \A d \in Dimensions : HeldBy(d, codetree, reading) \subseteq Active(reading)
    BY DEF HeldBy
<1> QED
    BY <1>1, <1>2, <1>3, <1>4 DEF BlockersFailGates

\* The evidence of a run, and that of the same run with nothing gone wrong.
Whole(t, r, w) ==
    /\ w.row = [p \in EdgeTools |-> IF p \in t.tools THEN "ok" ELSE "absent"]
    /\ w.gaps = {} /\ w.holes = {} /\ w.lost = {} /\ w.coarse = FALSE
    /\ w.unevaluated = {} /\ w.history = t.history /\ w.comparable = TRUE

LEMMA UnhinderedIsWhole ==
    ASSUME NEW t, NEW r \in Readings(t)
    PROVE  Whole(t, r, Unhindered(t, r))
    BY DEF Whole, Unhindered, Readings

LEMMA AppliesAlike ==
    ASSUME NEW t, IsTree(t), NEW r \in Readings(t), Disclosed(t, r), NEW w, Whole(t, r, w)
    PROVE  /\ Applies(r) = PrimaryTools \cap t.tools /\ Applies(w) = Applies(r)
           /\ Completed(w) = Applies(w)
<1>1. PrimaryTools \subseteq EdgeTools
    BY DEF EdgeTools
<1>2. \A p \in PrimaryTools : p \in Applies(r) <=> p \in t.tools
    <2> SUFFICES ASSUME NEW p \in PrimaryTools PROVE p \in Applies(r) <=> p \in t.tools
        OBVIOUS
    <2>1. CASE p \in r.gaps
        BY <2>1 DEF Applies, Readings
    <2>2. CASE p \notin r.gaps
        BY <2>2, <1>1 DEF Applies, Disclosed
    <2> QED
        BY <2>1, <2>2
<1>3. \A p \in PrimaryTools : w.row[p] = IF p \in t.tools THEN "ok" ELSE "absent"
    BY <1>1 DEF Whole
<1>4. Applies(w) = PrimaryTools \cap t.tools
    BY <1>3 DEF Applies, Whole
<1>5. Completed(w) = Applies(w)
    BY <1>3, <1>4 DEF Completed, Whole
<1> QED
    BY <1>2, <1>4, <1>5 DEF Applies

\* A complete inventory lost nothing but what cargo-modules would have found.
LEMMA CompleteLostNothing ==
    ASSUME NEW t, IsTree(t), NEW r \in Readings(t), Disclosed(t, r), Completed(r) = Applies(r),
           \A e \in r.lost : e.tool # "cargo-modules"
    PROVE  r.lost = {}
<1> SUFFICES ASSUME NEW e \in r.lost PROVE FALSE
    OBVIOUS
<1>1. e.tool \in r.gaps /\ e.tool \in t.tools /\ e.tool \in EdgeTools
    BY DEF Disclosed, Readings, IsTree
<1>2. CASE e.tool \in PrimaryTools
    <2>1. e.tool \in Applies(r)
        BY <1>1, <1>2 DEF Applies
    <2> QED
        BY <2>1, <1>1 DEF Completed, Disclosed
<1>3. CASE e.tool = "roslyn"
    <2>1. "dotnet-msbuild" \in r.holes /\ "dotnet-msbuild" \in t.tools
        BY <1>1, <1>3 DEF Disclosed, IsTree
    <2>2. "dotnet-msbuild" \in Applies(r)
        <3>1. CASE "dotnet-msbuild" \in r.gaps
            BY <3>1 DEF Applies, PrimaryTools
        <3>2. CASE "dotnet-msbuild" \notin r.gaps
            BY <3>2, <2>1 DEF Applies, Disclosed, PrimaryTools, EdgeTools
        <3> QED
            BY <3>1, <3>2
    <2> QED
        BY <2>1, <2>2 DEF Completed
<1> QED
    BY <1>1, <1>2, <1>3 DEF EdgeTools

\* More facts, the same exceptions: no lower a status.
LEMMA MoreFacts ==
    ASSUME NEW d, NEW few, NEW many, few \subseteq many, NEW except
    PROVE  StatusRank(Promote(d, few, except)) <= StatusRank(Promote(d, many, except))
<1>1. \A S : Promote(d, S, except) = IF RequiredFacts(d) \subseteq S \cup except THEN "measured"
                                     ELSE IF S # {} THEN "partial" ELSE "unmeasured"
    BY DEF Promote
<1>2. StatusRank("measured") = 2 /\ StatusRank("partial") = 1 /\ StatusRank("unmeasured") = 0
    BY DEF StatusRank
<1>3. CASE RequiredFacts(d) \subseteq few \cup except
    <2>1. RequiredFacts(d) \subseteq many \cup except
        BY <1>3
    <2> QED
        BY <2>1, <1>1, <1>2
<1>4. CASE ~(RequiredFacts(d) \subseteq few \cup except)
    <2>1. few # {} => many # {}
        OBVIOUS
    <2> QED
        BY <2>1, <1>1, <1>2, <1>4
<1> QED
    BY <1>3, <1>4

\* What is observed with something missing is observed with everything read.
LEMMA ObservesMore ==
    ASSUME NEW t, IsTree(t), NEW r \in Readings(t), Disclosed(t, r), NEW w, Whole(t, r, w),
           NEW d \in Dimensions, d # "coupling"
    PROVE  Observed(d, t, r) \subseteq Observed(d, t, w) /\ Inapplicable(d, t, r) = Inapplicable(d, t, w)
<1>1. Applies(w) = Applies(r) /\ Completed(w) = Applies(w)
    BY AppliesAlike
<1>2. Complete(r) => Complete(w)
    BY <1>1 DEF Complete
<1>3. Completed(r) # {} => Completed(w) # {}
    BY <1>1 DEF Completed
<1>4. IntentFacts(t, r) \subseteq IntentFacts(t, w)
    BY DEF IntentFacts, When, Whole
<1>5. StructureFacts(t, r) \subseteq StructureFacts(t, w)
    BY <1>1, <1>2, <1>3 DEF StructureFacts, When
<1>6. ModularityFacts(t, r) \subseteq ModularityFacts(t, w)
    BY <1>2 DEF ModularityFacts, When
<1>7. ChangeLocalityFacts(r) \subseteq ChangeLocalityFacts(w)
    <2>1. r.history = t.history \/ w.history = "ok"
        BY DEF Disclosed, Whole
    <2> QED
        BY <2>1 DEF ChangeLocalityFacts, When, Whole
<1>8. ComplexityFacts(t, r) \subseteq ComplexityFacts(t, w)
    BY <1>2 DEF ComplexityFacts, When
<1>9. DriftFacts(r) \subseteq DriftFacts(w)
    BY DEF DriftFacts, When, Whole
<1>10. Observed(d, t, r) \subseteq Observed(d, t, w)
    BY <1>4, <1>5, <1>6, <1>7, <1>8, <1>9 DEF Observed, Dimensions
<1>11. Inapplicable(d, t, r) = Inapplicable(d, t, w)
    BY <1>1 DEF Inapplicable
<1> QED
    BY <1>10, <1>11

LEMMA ReadAlike ==
    ASSUME NEW t, NEW r, NEW w, Whole(t, r, w)
    PROVE  ReadOf(t, w) = t.uses /\ ReadOf(t, r) \subseteq t.uses /\ (r.lost = {} => ReadOf(t, r) = ReadOf(t, w))
    BY DEF ReadOf, Whole

\* The coupling looks at what resolves; when it looked at all that was lost, it is not measured.
LEMMA CouplingClaims ==
    ASSUME NEW t, IsTree(t), NEW r \in Readings(t), Disclosed(t, r), NEW w, Whole(t, r, w),
           \A e \in r.lost : Watches("coupling", r, e)
    PROVE  /\ StatusRank(StatusOf("coupling", t, r)) <= StatusRank(StatusOf("coupling", t, w))
           /\ StatusOf("coupling", t, r) = "measured" => r.lost = {}
<1>1. /\ Observed("coupling", t, r) = CouplingFacts(t, r) /\ Observed("coupling", t, w) = CouplingFacts(t, w)
      /\ Inapplicable("coupling", t, r) = {} /\ Inapplicable("coupling", t, w) = {}
    BY DEF Observed, Inapplicable
<1>2. CASE r.lost = {}
    <2>1. ReadOf(t, r) = ReadOf(t, w)
        BY <1>2, ReadAlike
    <2>2. ~TSUnresolvedPartial(w) /\ ~RoslynIncomplete(w)
        BY DEF TSUnresolvedPartial, RoslynIncomplete, Whole, EdgeTools
    <2>3. CouplingFacts(t, r) \subseteq CouplingFacts(t, w)
        BY <2>1, <2>2 DEF CouplingFacts, When
    <2> QED
        BY <1>1, <1>2, <2>3, MoreFacts DEF StatusOf
<1>3. CASE r.lost # {}
    <2>1. TSUnresolvedPartial(r) \/ RoslynIncomplete(r)
        BY <1>3 DEF Watches
    <2>2. "resolution" \notin CouplingFacts(t, r)
        BY <2>1 DEF CouplingFacts, When
    <2>3. "resolution" \in RequiredFacts("coupling")
        BY DEF RequiredFacts
    <2>4. StatusOf("coupling", t, r) = IF CouplingFacts(t, r) # {} THEN "partial" ELSE "unmeasured"
        BY <1>1, <2>2, <2>3 DEF StatusOf, Promote
    <2>5. CouplingFacts(t, r) # {} => CouplingFacts(t, w) # {}
        <3>1. CouplingFacts(t, r) # {} => Crossing(t, ReadOf(t, r)) # {}
            BY DEF CouplingFacts, When
        <3>2. Crossing(t, ReadOf(t, r)) \subseteq Crossing(t, ReadOf(t, w))
            BY ReadAlike DEF Crossing
        <3>3. Crossing(t, ReadOf(t, w)) # {} => "candidates" \in CouplingFacts(t, w)
            BY DEF CouplingFacts, When
        <3> QED
            BY <3>1, <3>2, <3>3
    <2>6. \A S : Promote("coupling", S, {}) =
            IF RequiredFacts("coupling") \subseteq S \cup {} THEN "measured" ELSE IF S # {} THEN "partial" ELSE "unmeasured"
        BY DEF Promote
    <2>7. StatusRank("measured") = 2 /\ StatusRank("partial") = 1 /\ StatusRank("unmeasured") = 0
        BY DEF StatusRank
    <2>8. StatusRank(StatusOf("coupling", t, r)) <= StatusRank(StatusOf("coupling", t, w))
        BY <1>1, <2>4, <2>5, <2>6, <2>7 DEF StatusOf
    <2> QED
        BY <2>4, <2>8
<1> QED
    BY <1>2, <1>3

LEMMA MeasuredLostNothing ==
    ASSUME NEW t, IsTree(t), NEW r \in Readings(t), Disclosed(t, r), NEW w, Whole(t, r, w),
           NEW d \in {"structure", "modularity", "complexity"},
           \A e \in r.lost : e.tool # "cargo-modules", StatusOf(d, t, r) = "measured"
    PROVE  r.lost = {}
<1>1. RequiredFacts(d) \subseteq Observed(d, t, r) \cup Inapplicable(d, t, r)
    BY DEF StatusOf, Promote
<1>2. Complete(r) => Completed(r) = Applies(r)
    BY DEF Complete
<1>3. Applies(r) = {} => Completed(r) = Applies(r)
    BY DEF Completed
<1>4. Complete(r) \/ Applies(r) = {}
    <2>1. CASE d = "structure"
        <3>1. "inventory" \in StructureFacts(t, r)
            BY <1>1, <2>1 DEF RequiredFacts, Observed, Inapplicable
        <3> QED
            BY <3>1 DEF StructureFacts, When
    <2>2. CASE d = "modularity"
        <3>1. "attribution" \in ModularityFacts(t, r) \/ "attribution" \in When(Applies(r) = {} /\ Declared(t) # {}, {"attribution", "shape"})
            BY <1>1, <2>2 DEF RequiredFacts, Observed, Inapplicable
        <3> QED
            BY <3>1 DEF ModularityFacts, When
    <2>3. CASE d = "complexity"
        <3>1. "depth" \in ComplexityFacts(t, r)
            BY <1>1, <2>3 DEF RequiredFacts, Observed, Inapplicable
        <3> QED
            BY <3>1 DEF ComplexityFacts, When
    <2> QED
        BY <2>1, <2>2, <2>3
<1> QED
    BY <1>2, <1>3, <1>4, CompleteLostNothing

LEMMA FiguresAlike ==
    ASSUME NEW d \in Dimensions, NEW t, NEW r, NEW w,
           d \in {"structure", "modularity", "coupling", "complexity"} => ReadOf(t, r) = ReadOf(t, w)
    PROVE  Figures(d, t, r) = Figures(d, t, w)
<1>1. CASE d = "structure"
    BY <1>1, Zenon DEF Figures
<1>2. CASE d = "modularity"
    BY <1>2, Zenon DEF Figures
<1>3. CASE d = "coupling"
    BY <1>3, Zenon DEF Figures
<1>4. CASE d = "complexity"
    BY <1>4, Zenon DEF Figures
<1>5. CASE d \notin {"structure", "modularity", "coupling", "complexity"}
    BY <1>5 DEF Figures
<1> QED
    BY <1>1, <1>2, <1>3, <1>4, <1>5

LEMMA ClaimHolds ==
    ASSUME NEW t, IsTree(t), NEW r \in Readings(t), Disclosed(t, r), NEW w, Whole(t, r, w),
           NEW d \in Dimensions, \A e \in r.lost : Watches(d, r, e)
    PROVE  /\ StatusRank(StatusOf(d, t, r)) <= StatusRank(StatusOf(d, t, w))
           /\ StatusOf(d, t, r) = "measured" => Figures(d, t, r) = Figures(d, t, w)
<1>1. CASE d = "coupling"
    <2>1. /\ StatusRank(StatusOf(d, t, r)) <= StatusRank(StatusOf(d, t, w))
          /\ StatusOf(d, t, r) = "measured" => r.lost = {}
        BY <1>1, CouplingClaims
    <2> QED
        BY <2>1, ReadAlike, FiguresAlike
<1>2. CASE d # "coupling"
    <2>1. StatusRank(StatusOf(d, t, r)) <= StatusRank(StatusOf(d, t, w))
        BY <1>2, ObservesMore, MoreFacts DEF StatusOf
    <2>2. \A e \in r.lost : e.tool # "cargo-modules"
        BY <1>2 DEF Watches
    <2>3. StatusOf(d, t, r) = "measured" /\ d \in {"structure", "modularity", "complexity"} => r.lost = {}
        BY <2>2, MeasuredLostNothing
    <2>4. StatusOf(d, t, r) = "measured" => Figures(d, t, r) = Figures(d, t, w)
        BY <1>2, <2>3, ReadAlike, FiguresAlike
    <2> QED
        BY <2>1, <2>4
<1> QED
    BY <1>1, <1>2

LEMMA ClaimsHold == ClaimsInv => ClaimIsWhole
<1> SUFFICES ASSUME ClaimsInv, BeforeJudging, NEW d \in Dimensions,
                    \A e \in reading.lost : Watches(d, reading, e)
             PROVE  LET w == Unhindered(codetree, reading)
                    IN  /\ StatusRank(StatusOf(d, codetree, reading)) <= StatusRank(StatusOf(d, codetree, w))
                        /\ StatusOf(d, codetree, reading) = "measured" =>
                             Figures(d, codetree, reading) = Figures(d, codetree, w)
    BY DEF ClaimIsWhole
<1>1. codetree \in CodeTrees /\ reading \in Readings(codetree) /\ Disclosed(codetree, reading) /\ IsTree(codetree)
    BY ClaimsAssumption DEF ClaimsInv, BeforeJudging
<1>2. Whole(codetree, reading, Unhindered(codetree, reading))
    BY <1>1, UnhinderedIsWhole
<1> QED
    BY <1>1, <1>2, ClaimHolds

\* For any tree, tools and policy, and any number of troubles: while nothing is judged, a
\* dimension that watches all that was lost claims no more than it would with everything read,
\* and where it is measured its figures are those; and an active gate finding fails the gate of
\* some dimension, as no other does.
THEOREM ClaimsAreWhole == ClaimsSpec => [](ClaimIsWhole /\ BlockersFailGates)
<1>1. ClaimsSpec => []ClaimsInv
    BY ClaimsStart, ClaimsSteps, PTL DEF ClaimsSpec
<1> QED
    BY <1>1, ClaimsHold, BlockersShow, PTL

-----------------------------------------------------------------------------
(* Supplied coverage: what an ingest called fresh is                            *)

LEMMA ImagesFinite ==
    ASSUME NEW S, IsFiniteSet(S), NEW f, DOMAIN f = S
    PROVE  IsFiniteSet({f[x] : x \in S})
<1> DEFINE T == {f[x] : x \in S}
<1>1. [x \in S |-> f[x]] \in Surjection(S, T)
    BY DEF Surjection
<1> QED
    BY <1>1, FS_Surjection

\* Of numbers there is a least: of their intervals one contains no other.
LEMMA LeastIs ==
    ASSUME NEW S, S \subseteq Nat, S # {}
    PROVE  Min(S) \in S /\ \A y \in S : Min(S) <= y
<1> DEFINE R == StrictSubsetOrdering(Nat)
           T == {1..n : n \in S}
<1>1. IsWellFoundedOn(R, FiniteSubsetsOf(Nat))
    BY FS_StrictSubsetOrderingWellFounded
<1>2. \A n \in S : IsFiniteSet(1..n)
    BY FS_Interval
<1>3. T \subseteq FiniteSubsetsOf(Nat) /\ T # {}
    <2>1. \A n \in S : 1..n \in FiniteSubsetsOf(Nat)
        BY <1>2 DEF FiniteSubsetsOf
    <2> QED
        BY <2>1
<1> HIDE DEF R
<1>4. \E X \in T : \A Y \in T : ~(<<Y, X>> \in R)
    BY <1>1, <1>3, WFMin
<1>5. PICK x \in S : \A y \in S : ~(<<1..y, 1..x>> \in R)
    BY <1>4
<1>6. \A y \in S : x <= y
    <2> SUFFICES ASSUME NEW y \in S, y < x PROVE FALSE
        OBVIOUS
    <2>1. 1..y \subseteq 1..x /\ x \in 1..x /\ x \notin 1..y /\ 1..y \subseteq Nat /\ 1..x \subseteq Nat
        OBVIOUS
    <2>2. <<1..y, 1..x>> \in R
        BY <2>1 DEF R, StrictSubsetOrdering
    <2> QED
        BY <2>2, <1>5
<1> QED
    BY <1>6 DEF Min

LEMMA NormalizedIs ==
    ASSUME NEW p \in DOMAIN Candidates, NEW bytes, Normalize(p, bytes) # Unresolved
    PROVE  /\ Normalize(p, bytes) \in CoveredFiles /\ Normalize(p, bytes) # Outside
           /\ \E k \in DOMAIN Candidates[p] : Candidates[p][k] = Normalize(p, bytes)
<1> DEFINE found == {i \in DOMAIN Candidates[p] : Candidates[p][i] \in Present(bytes)}
<1>1. DOMAIN Candidates[p] \subseteq Nat
    BY SuppliedAssumption, LenProperties
<1>2. found # {} /\ Normalize(p, bytes) = Candidates[p][Min(found)]
    BY DEF Normalize
<1>3. Min(found) \in found
    BY <1>1, <1>2, LeastIs
<1> QED
    BY <1>2, <1>3, SuppliedAssumption DEF Present

\* What a set of facts says of the paths of an artifact, whatever the bytes were.
CoversAll(facts, records) ==
    /\ \A x \in facts : \A p \in x.paths :
         x.file \in CoveredFiles /\ \E k \in DOMAIN Candidates[p] : Candidates[p][k] = x.file
    /\ \A r \in records : lexicallyInside(r.raw) => \E x \in facts : r.raw \in x.paths
IsContent(content) ==
    IsFiniteSet(content.records) /\ \A r \in content.records : r.raw \in DOMAIN Candidates

LEMMA PathsMerge ==
    ASSUME NEW format, NEW content, IsContent(content), NEW bytes
    PROVE  /\ IsFiniteSet(MergedPaths(format, content, bytes))
           /\ \A P \in MergedPaths(format, content, bytes) :
                P # {} /\ P \subseteq Raws(content) /\ \A p, q \in P : Normalize(p, bytes) = Normalize(q, bytes)
           /\ \A p \in Raws(content) : lexicallyInside(p) => \E P \in MergedPaths(format, content, bytes) : p \in P
<1> DEFINE C == coberturaFacts(content, bytes)
           Q == {resolveCoberturaPath(p, bytes) : p \in C}
           SameAs(q) == {p \in C : resolveCoberturaPath(p, bytes) = q}
<1>1. IsFiniteSet(Raws(content)) /\ Raws(content) \subseteq DOMAIN Candidates
    <2>1. IsFiniteSet({[r \in content.records |-> r.raw][x] : x \in content.records})
        BY ImagesFinite DEF IsContent
    <2>2. {[r \in content.records |-> r.raw][x] : x \in content.records} = Raws(content)
        BY DEF Raws
    <2>3. Raws(content) \subseteq DOMAIN Candidates
        BY DEF Raws, IsContent
    <2> QED
        BY <2>1, <2>2, <2>3
<1>2. C \subseteq Raws(content) /\ \A p \in Raws(content) : lexicallyInside(p) => p \in C
    BY DEF coberturaFacts
<1> DEFINE M == MergedPaths(format, content, bytes)
           Merged ==
             /\ \A P \in M : P # {} /\ P \subseteq Raws(content) /\ \A p, q \in P : Normalize(p, bytes) = Normalize(q, bytes)
             /\ \A p \in Raws(content) : lexicallyInside(p) => \E P \in M : p \in P
<1>3. ASSUME format = "cobertura" PROVE Merged
    <2>1. MergedPaths(format, content, bytes) = {SameAs(q) : q \in Q}
        BY <1>3 DEF MergedPaths
    <2> HIDE DEF C
    <2>5. \A p, q \in C : resolveCoberturaPath(p, bytes) = resolveCoberturaPath(q, bytes) => Normalize(p, bytes) = Normalize(q, bytes)
        <3> SUFFICES ASSUME NEW p \in C, NEW q \in C, resolveCoberturaPath(p, bytes) = resolveCoberturaPath(q, bytes)
                     PROVE  Normalize(p, bytes) = Normalize(q, bytes)
            OBVIOUS
        <3>1. p \in DOMAIN Candidates /\ q \in DOMAIN Candidates
            BY <1>1, <1>2
        <3>2. CASE Normalize(p, bytes) # Unresolved /\ Normalize(q, bytes) # Unresolved
            BY <3>2 DEF resolveCoberturaPath
        <3>3. CASE Normalize(p, bytes) = Unresolved /\ Normalize(q, bytes) # Unresolved
            BY <3>1, <3>3, NormalizedIs, SuppliedAssumption DEF resolveCoberturaPath
        <3>4. CASE Normalize(p, bytes) # Unresolved /\ Normalize(q, bytes) = Unresolved
            BY <3>1, <3>4, NormalizedIs, SuppliedAssumption DEF resolveCoberturaPath
        <3> QED
            BY <3>2, <3>3, <3>4
    <2>6. \A q \in Q : \E p \in C : p \in SameAs(q)
        BY DEF Q
    <2>7. \A p \in C : \E q \in Q : p \in SameAs(q)
        BY DEF Q
    <2>8. \A q \in Q : SameAs(q) \subseteq C /\ \A p, o \in SameAs(q) : Normalize(p, bytes) = Normalize(o, bytes)
        BY <2>5
    <2> HIDE DEF SameAs
    <2> QED
        BY <2>1, <2>6, <2>7, <2>8, <1>2
<1>4. ASSUME format # "cobertura" PROVE Merged
    <2>1. MergedPaths(format, content, bytes) = {{p} : p \in Raws(content)}
        BY <1>4 DEF MergedPaths
    <2> QED
        BY <2>1
<1>5. MergedPaths(format, content, bytes) \subseteq SUBSET Raws(content)
    BY <1>3, <1>4
<1>6. IsFiniteSet(MergedPaths(format, content, bytes))
    BY <1>1, <1>5, FS_SUBSET, FS_Subset
<1> QED
    BY <1>3, <1>4, <1>6

\* Facts that all name a file cover the artifact.
LEMMA ParseCovers ==
    ASSUME NEW format, NEW content, IsContent(content), NEW bytes,
           \A x \in parse(format, content, bytes) : x.file # Unresolved
    PROVE  CoversAll(parse(format, content, bytes), content.records)
<1> DEFINE M == MergedPaths(format, content, bytes)
           F(P) == FactOf(format, content, P, bytes)
<1>1. parse(format, content, bytes) = {F(P) : P \in M}
    BY DEF parse
<1>2. \A P : F(P).paths = P /\ F(P).file = Normalize(CHOOSE p \in P : TRUE, bytes)
    BY DEF FactOf
<1>3. /\ \A P \in M : P # {} /\ P \subseteq Raws(content) /\ \A p, q \in P : Normalize(p, bytes) = Normalize(q, bytes)
      /\ \A p \in Raws(content) : lexicallyInside(p) => \E P \in M : p \in P
    BY PathsMerge
<1>4. Raws(content) \subseteq DOMAIN Candidates /\ \A r \in content.records : r.raw \in Raws(content)
    BY DEF IsContent, Raws
<1> HIDE DEF M, F
<1>5. \A P \in M : \A p \in P : F(P).file = Normalize(p, bytes)
    BY <1>2, <1>3
<1>6. \A P \in M : \A p \in P :
        F(P).file \in CoveredFiles /\ \E k \in DOMAIN Candidates[p] : Candidates[p][k] = F(P).file
    <2> SUFFICES ASSUME NEW P \in M, NEW p \in P
                 PROVE  F(P).file \in CoveredFiles /\ \E k \in DOMAIN Candidates[p] : Candidates[p][k] = F(P).file
        OBVIOUS
    <2>1. F(P).file = Normalize(p, bytes) /\ F(P).file # Unresolved /\ p \in DOMAIN Candidates
        BY <1>1, <1>3, <1>4, <1>5
    <2> QED
        BY <2>1, NormalizedIs
<1> QED
    BY <1>1, <1>2, <1>3, <1>4, <1>6 DEF CoversAll

\* What a job wrote, and what its sidecar says of it.
JobHolds(a, s) ==
    /\ a # NoArtifact => IsContent(a) /\ a.meant = [p \in Raws(a) |-> Normalize(p, a.taken)]
    /\ s.state = "valid" => \A f \in DOMAIN s.hashes : Stood(a, f) # {} /\ a.taken[f] = s.hashes[f]

IsAttested(a) == a = [freshness |-> a.freshness, reasons |-> a.reasons, ref |-> a.ref, matched |-> a.matched]

LEMMA AttestedIs ==
    ASSUME NEW a, NEW s, JobHolds(a, s), NEW bytes
    PROVE  /\ IsAttested(attest(s, bytes))
           /\ attest(s, bytes).freshness = "matched" =>
                /\ attest(s, bytes).reasons = {}
                /\ \A f \in attest(s, bytes).matched : Stood(a, f) # {} /\ a.taken[f] = bytes[f]
<1>1. CASE s.state # "valid" \/ DOMAIN s.hashes = {}
    <2>1. attest(s, bytes) = [freshness |-> "unverified", reasons |-> {"freshness_unverified"}, ref |-> NoRef, matched |-> {}]
        BY <1>1 DEF attest, Unverified
    <2> QED
        BY <2>1 DEF IsAttested
<1>2. CASE s.state = "valid" /\ DOMAIN s.hashes # {}
    <2>1. CASE \E f \in DOMAIN s.hashes : bytes[f] = Deleted \/ bytes[f] # s.hashes[f]
        <3>1. attest(s, bytes) = [freshness |-> "stale", reasons |-> {"worktree_differs_from_ref"}, ref |-> s.ref, matched |-> {}]
            BY <1>2, <2>1 DEF attest
        <3> QED
            BY <3>1 DEF IsAttested
    <2>2. CASE ~\E f \in DOMAIN s.hashes : bytes[f] = Deleted \/ bytes[f] # s.hashes[f]
        <3>1. attest(s, bytes) = [freshness |-> "matched", reasons |-> {}, ref |-> s.ref, matched |-> DOMAIN s.hashes]
            BY <1>2, <2>2 DEF attest
        <3> QED
            BY <3>1, <1>2, <2>2 DEF IsAttested, JobHolds
    <2> QED
        BY <2>1, <2>2
<1> QED
    BY <1>1, <1>2

LEMMA BoundIs ==
    ASSUME NEW a, IsAttested(a), NEW facts, bindAttestationToFacts(a, facts).freshness = "matched"
    PROVE  a.freshness = "matched" /\ bindAttestationToFacts(a, facts) = a /\ \A x \in facts : x.file \in a.matched
<1>1. facts # {}
    <2>1. facts = {} => bindAttestationToFacts(a, facts) = [a EXCEPT !.freshness = "unverified", !.matched = {}, !.reasons = @ \cup {"freshness_unverified"}]
        BY DEF bindAttestationToFacts, unverifyAttestation
    <2>2. [a EXCEPT !.freshness = "unverified", !.matched = {}, !.reasons = @ \cup {"freshness_unverified"}].freshness = "unverified"
        BY DEF IsAttested
    <2> QED
        BY <2>1, <2>2
<1>2. ~(a.freshness = "matched" /\ \E x \in facts : x.file \notin a.matched)
    <2> SUFFICES ASSUME a.freshness = "matched" /\ \E x \in facts : x.file \notin a.matched PROVE FALSE
        OBVIOUS
    <2>1. bindAttestationToFacts(a, facts) = [a EXCEPT !.freshness = "stale", !.reasons = {"worktree_differs_from_ref"}, !.matched = {}]
        BY <1>1 DEF bindAttestationToFacts
    <2>2. [a EXCEPT !.freshness = "stale", !.reasons = {"worktree_differs_from_ref"}, !.matched = {}].freshness = "stale"
        BY DEF IsAttested
    <2> QED
        BY <2>1, <2>2
<1>3. bindAttestationToFacts(a, facts) = a
    BY <1>1, <1>2 DEF bindAttestationToFacts
<1> QED
    BY <1>2, <1>3

\* What an ingest called fresh holds.
FreshHolds(one) ==
    one.freshness = "matched" =>
      \A x \in one.facts : Stood(one.read, x.file) # {} /\ one.read.taken[x.file] = one.scanned[x.file]
WholeHolds(one) ==
    one.freshness = "matched" =>
      /\ IsContent(one.read) /\ one.read.meant = [p \in Raws(one.read) |-> Normalize(p, one.read.taken)]
      /\ one.facts # {} /\ one.unresolved = 0 =>
           /\ one.reasons = {} \/ one.read.summaryDiffers
           /\ CoversAll(one.facts, one.read.records)
StoreHolds(store) == \A k \in DOMAIN store : CoversAll(store[k], k.data)

LEMMA ParsedHolds ==
    ASSUME NEW format, NEW content, content # NoArtifact, NEW s, JobHolds(content, s), NEW limit
    PROVE  LET one == parsedIngest(format, content, attest(s, sources), limit)
           IN  FreshHolds(one) /\ WholeHolds(one) /\ (Cacheable(one) => CoversAll(one.facts, content.records))
<1> DEFINE attested == attest(s, sources)
           one == parsedIngest(format, content, attested, limit)
           parsed == parse(format, content, sources)
           kept == {x \in parsed : x.file # Unresolved}
           normalized == normalizeParsedFacts(parsed, limit)
           a == bindAttestationToFacts(attested, normalized.facts)
<1>1. /\ IsAttested(attested)
      /\ attested.freshness = "matched" =>
           attested.reasons = {} /\ \A f \in attested.matched : Stood(content, f) # {} /\ content.taken[f] = sources[f]
    BY AttestedIs
<1>2. IsContent(content) /\ content.meant = [p \in Raws(content) |-> Normalize(p, content.taken)]
    BY DEF JobHolds
<1>3. CASE Malformed(format, content)
    <2>1. one.freshness = unverifyAttestation(attested).freshness
        BY <1>3 DEF parsedIngest, Ingested
    <2>2. unverifyAttestation(attested).freshness = "unverified"
        BY <1>1 DEF unverifyAttestation, IsAttested
    <2> QED
        BY <2>1, <2>2 DEF FreshHolds, WholeHolds, Cacheable
<1>4. CASE ~Malformed(format, content)
    <2>1. /\ normalized.facts = IF Cardinality(kept) > limit THEN {} ELSE kept
          /\ normalized.unresolved = Cardinality(parsed \ kept) /\ normalized.exceeded = (Cardinality(kept) > limit)
        BY DEF normalizeParsedFacts
    <2>2. IsFiniteSet(parsed \ kept)
        <3>1. IsFiniteSet(MergedPaths(format, content, sources))
            BY <1>2, PathsMerge
        <3> DEFINE M == MergedPaths(format, content, sources)
                   g == [P \in M |-> FactOf(format, content, P, sources)]
        <3>2. parsed = {g[x] : x \in M}
            BY DEF parse
        <3>3. DOMAIN g = M
            OBVIOUS
        <3> HIDE DEF g, M, parsed
        <3>4. IsFiniteSet({g[x] : x \in M})
            BY <3>1, <3>3, ImagesFinite DEF M
        <3> QED
            BY <3>2, <3>4, FS_Subset
    <2> HIDE DEF parsed
    <2>3. Cardinality(parsed \ kept) = 0 => kept = parsed
        BY <2>2, FS_EmptySet
    <2>4. CASE normalized.exceeded
        <3>1. /\ one.freshness = a.freshness /\ one.facts = {} /\ one.read = content
              /\ "coverage_fact_limit_exceeded" \in one.reasons
            BY <1>4, <2>4 DEF parsedIngest, Ingested, parsed
        <3> QED
            BY <3>1, <1>2 DEF FreshHolds, WholeHolds, Cacheable
    <2>5. CASE ~normalized.exceeded
        <3>1. /\ one.freshness = a.freshness /\ one.facts = normalized.facts /\ one.read = content /\ one.scanned = sources
              /\ one.unresolved = normalized.unresolved /\ one.reasons = FactReasons(normalized, content) \cup a.reasons
            BY <1>4, <2>5 DEF parsedIngest, Ingested, parsed
        <3>2. normalized.facts = kept
            BY <2>1, <2>5
        <3>3. one.unresolved = 0 => CoversAll(one.facts, content.records)
            <4>1. one.unresolved = 0 => kept = parsed
                BY <2>1, <2>3, <3>1
            <4> QED
                BY <4>1, <3>1, <3>2, <1>2, ParseCovers DEF parsed
        <3>4. a.freshness = "matched" => attested.freshness = "matched" /\ a = attested /\ \A x \in kept : x.file \in attested.matched
            BY <1>1, <3>2, BoundIs
        <3>5. one.facts # {} /\ one.unresolved = 0 => FactReasons(normalized, content) = {} \/ content.summaryDiffers
            BY <3>1 DEF FactReasons, Reason
        <3> HIDE DEF a, one, normalized, attested
        <3>6. FreshHolds(one)
            BY <1>1, <3>1, <3>2, <3>4 DEF FreshHolds
        <3>7. WholeHolds(one)
            BY <1>1, <1>2, <3>1, <3>3, <3>4, <3>5 DEF WholeHolds
        <3> QED
            BY <3>3, <3>6, <3>7 DEF Cacheable, one, attested
    <2> QED
        BY <2>4, <2>5
<1> QED
    BY <1>3, <1>4

LEMMA IngestHolds ==
    ASSUME NEW source, source.path \in Paths, JobHolds(artifact[source.path], sidecar[source.path]),
           StoreHolds(factStore), NEW limit
    PROVE  FreshHolds(ingest(source, limit).out) /\ WholeHolds(ingest(source, limit).out)
           /\ StoreHolds(ingest(source, limit).store)
<1> DEFINE content == artifact[source.path]
           format == CHOOSE x \in selectParser(source, content) : TRUE
           attested == attest(sidecar[source.path], sources)
           key == coverageCacheKey(source, format, attested, content)
           fresh == parsedIngest(format, content, attested, limit)
           result == ingest(source, limit)
<1>1. \A c, reasons : FreshHolds(Rejected(c, reasons)) /\ WholeHolds(Rejected(c, reasons))
    BY DEF FreshHolds, WholeHolds, Rejected
<1>2. CASE content = NoArtifact \/ content.large \/ Cardinality(selectParser(source, content)) # 1
    <2>1. result.store = factStore /\ \E reasons : result.out = Rejected(content, reasons)
        BY <1>2 DEF ingest
    <2> QED
        BY <2>1, <1>1
<1>3. CASE ~(content = NoArtifact \/ content.large \/ Cardinality(selectParser(source, content)) # 1)
    <2>1. result = IF key \in DOMAIN factStore
                   THEN [out |-> lookupCached(factStore[key], attested, limit, content), store |-> factStore]
                   ELSE [out |-> fresh, store |-> IF Cacheable(fresh) THEN FactsStored(factStore, key, fresh.facts) ELSE factStore]
        BY <1>3 DEF ingest
    <2>2. key.data = content.records
        BY DEF coverageCacheKey
    <2>3. CASE key \in DOMAIN factStore
        <3> DEFINE facts == factStore[key]
                   a == bindAttestationToFacts(attested, facts)
                   one == lookupCached(facts, attested, limit, content)
        <3>1. CoversAll(facts, content.records)
            BY <2>2, <2>3 DEF StoreHolds
        <3>2. /\ one.freshness = a.freshness /\ one.facts = (IF Cardinality(facts) > limit THEN {} ELSE facts)
              /\ one.read = content /\ one.scanned = sources
              /\ one.facts # {} => one.reasons = a.reasons
            BY DEF lookupCached, Ingested
        <3>3. /\ IsAttested(attested)
              /\ attested.freshness = "matched" =>
                   attested.reasons = {} /\ \A f \in attested.matched : Stood(content, f) # {} /\ content.taken[f] = sources[f]
            BY AttestedIs
        <3>4. a.freshness = "matched" => attested.freshness = "matched" /\ a = attested /\ \A x \in facts : x.file \in attested.matched
            BY <3>3, BoundIs
        <3>5. IsContent(content) /\ content.meant = [p \in Raws(content) |-> Normalize(p, content.taken)]
            BY <1>3 DEF JobHolds
        <3>6. result.out = one /\ result.store = factStore
            BY <2>1, <2>3
        <3> HIDE DEF a, one, attested, facts, content, result
        <3>7. FreshHolds(one)
            BY <3>2, <3>3, <3>4 DEF FreshHolds
        <3>8. WholeHolds(one)
            BY <3>1, <3>2, <3>3, <3>4, <3>5 DEF WholeHolds
        <3> QED
            BY <3>6, <3>7, <3>8 DEF result
    <2>4. CASE key \notin DOMAIN factStore
        <3>1. FreshHolds(fresh) /\ WholeHolds(fresh) /\ (Cacheable(fresh) => CoversAll(fresh.facts, content.records))
            BY <1>3, ParsedHolds
        <3>2. result.out = fresh /\ result.store = IF Cacheable(fresh) THEN FactsStored(factStore, key, fresh.facts) ELSE factStore
            BY <2>1, <2>4
        <3> HIDE DEF fresh, key, content, result
        <3>3. Cacheable(fresh) => StoreHolds(FactsStored(factStore, key, fresh.facts))
            BY <3>1, <2>2 DEF StoreHolds, FactsStored
        <3> QED
            BY <3>1, <3>2, <3>3 DEF result
    <2> QED
        BY <2>3, <2>4
<1> QED
    BY <1>2, <1>3

\* What holds between the steps of jobs, edits and checks.
IngestsHold(ingests) == \A i \in DOMAIN ingests : FreshHolds(ingests[i]) /\ WholeHolds(ingests[i])
CoverageInv ==
    /\ artifact = [p \in Paths |-> artifact[p]] /\ sidecar = [p \in Paths |-> sidecar[p]]
    /\ \A p \in Paths : JobHolds(artifact[p], sidecar[p])
    /\ StoreHolds(factStore)
    /\ ingestion = [running |-> ingestion.running, limit |-> ingestion.limit, ingests |-> ingestion.ingests]
    /\ (\E S : ingestion.ingests \in Seq(S)) /\ IngestsHold(ingestion.ingests)
    /\ testability = NothingSaid \/ testability = testabilityDimension(testability.ingests)
    /\ IngestsHold(testability.ingests)

LEMMA CoverageStarts == SuppliedInit => CoverageInv
<1> SUFFICES ASSUME SuppliedInit PROVE CoverageInv
    OBVIOUS
<1>1. /\ artifact = [p \in Paths |-> NoArtifact] /\ sidecar = [p \in Paths |-> NoSidecar]
      /\ factStore = <<>> /\ ingestion = NotIngesting /\ testability = NothingSaid
    BY DEF SuppliedInit
<1>2. \A p \in Paths : JobHolds(artifact[p], sidecar[p])
    BY <1>1 DEF JobHolds, NoSidecar
<1>3. StoreHolds(factStore)
    BY <1>1 DEF StoreHolds
<1>4. /\ ingestion = [running |-> ingestion.running, limit |-> ingestion.limit, ingests |-> ingestion.ingests]
      /\ ingestion.ingests = <<>> /\ testability.ingests = <<>>
    BY <1>1 DEF NotIngesting, NothingSaid
<1>5. IngestsHold(<<>>)
    BY DEF IngestsHold
<1>6. <<>> \in Seq({})
    BY EmptySeq
<1> QED
    BY <1>1, <1>2, <1>3, <1>4, <1>5, <1>6 DEF CoverageInv

LEMMA JobKeeps == ASSUME CoverageInv, RunJob PROVE CoverageInv'
<1>1. PICK j \in Jobs :
        LET meant == [p \in Raws(j) |-> Normalize(p, sources)]
            files == {meant[p] : p \in Raws(j)} \ {Unresolved}
        IN  /\ artifact' = [artifact EXCEPT ![j.to] =
                 [format |-> j.format, records |-> j.records, broken |-> j.broken, large |-> j.large,
                  summaryDiffers |-> j.summaryDiffers, meant |-> meant, taken |-> sources]]
            /\ sidecar' = [sidecar EXCEPT ![j.to] =
                 IF j.beside \in {"all", "part"}
                 THEN [state |-> "valid", ref |-> j.ref,
                       hashes |-> [f \in files \ (IF j.beside = "part" THEN {CHOOSE x \in files : TRUE} ELSE {})
                                     |-> sources[f]]]
                 ELSE [state |-> j.beside]]
    BY DEF RunJob
<1> DEFINE meant == [p \in Raws(j) |-> Normalize(p, sources)]
           files == {meant[p] : p \in Raws(j)} \ {Unresolved}
           listed == files \ (IF j.beside = "part" THEN {CHOOSE x \in files : TRUE} ELSE {})
           a == [format |-> j.format, records |-> j.records, broken |-> j.broken, large |-> j.large,
                 summaryDiffers |-> j.summaryDiffers, meant |-> meant, taken |-> sources]
           s == IF j.beside \in {"all", "part"}
                THEN [state |-> "valid", ref |-> j.ref, hashes |-> [f \in listed |-> sources[f]]]
                ELSE [state |-> j.beside]
<1>2. artifact' = [artifact EXCEPT ![j.to] = a] /\ sidecar' = [sidecar EXCEPT ![j.to] = s]
    BY <1>1
<1>3. /\ j.to \in Paths /\ IsFiniteSet(j.records) /\ j.beside # "valid"
      /\ \A r \in j.records : r.raw \in DOMAIN Candidates
    BY SuppliedAssumption DEF Paths
<1>4. a.records = j.records /\ a.meant = meant /\ a.taken = sources /\ Raws(a) = Raws(j)
    BY DEF Raws
<1>5. IsContent(a) /\ a.meant = [p \in Raws(a) |-> Normalize(p, a.taken)]
    BY <1>3, <1>4 DEF IsContent
<1>6. s.state = "valid" =>
        \A f \in DOMAIN s.hashes : Stood(a, f) # {} /\ a.taken[f] = s.hashes[f]
    <2> SUFFICES ASSUME j.beside \in {"all", "part"}
                 PROVE  \A f \in DOMAIN s.hashes : Stood(a, f) # {} /\ a.taken[f] = s.hashes[f]
        BY <1>3
    <2>1. DOMAIN s.hashes = listed /\ \A f \in listed : s.hashes[f] = sources[f]
        OBVIOUS
    <2>2. \A f \in listed : Stood(a, f) # {}
        <3> SUFFICES ASSUME NEW f \in listed PROVE Stood(a, f) # {}
            OBVIOUS
        <3>1. PICK p \in Raws(j) : meant[p] = f
            OBVIOUS
        <3> QED
            BY <3>1, <1>4 DEF Stood
    <2> QED
        BY <2>1, <2>2, <1>4
<1>7. JobHolds(a, s)
    BY <1>5, <1>6 DEF JobHolds
<1> HIDE DEF a, s
<1>8. /\ artifact' = [p \in Paths |-> artifact'[p]] /\ sidecar' = [p \in Paths |-> sidecar'[p]]
      /\ \A p \in Paths : artifact'[p] = (IF p = j.to THEN a ELSE artifact[p]) /\ sidecar'[p] = (IF p = j.to THEN s ELSE sidecar[p])
    BY <1>2, <1>3 DEF CoverageInv
<1>9. \A p \in Paths : JobHolds(artifact'[p], sidecar'[p])
    BY <1>7, <1>8 DEF CoverageInv
<1> QED
    BY <1>8, <1>9 DEF RunJob, CoverageInv

LEMMA IngestKeeps == ASSUME CoverageInv, IngestNext PROVE CoverageInv'
<1> DEFINE n == Len(ingestion.ingests)
           source == Artifacts[n + 1]
           result == ingest(source, ingestion.limit)
<1>1. PICK S : ingestion.ingests \in Seq(S)
    BY DEF CoverageInv
<1>2. n \in Nat /\ DOMAIN ingestion.ingests = 1..n
    BY <1>1, LenProperties
<1>3. source.path \in Paths
    <2>1. n + 1 \in DOMAIN Artifacts
        BY <1>2, SuppliedAssumption DEF IngestNext
    <2> QED
        BY <2>1 DEF Paths
<1>4. FreshHolds(result.out) /\ WholeHolds(result.out) /\ StoreHolds(result.store)
    BY <1>3, IngestHolds DEF CoverageInv
<1>5. ingestion' = [ingestion EXCEPT !.ingests = Append(@, result.out)] /\ factStore' = result.store
    BY DEF IngestNext
<1> HIDE DEF result
<1>6. /\ ingestion'.ingests = Append(ingestion.ingests, result.out)
      /\ ingestion' = [running |-> ingestion'.running, limit |-> ingestion'.limit, ingests |-> ingestion'.ingests]
    BY <1>5 DEF CoverageInv
<1>7. /\ Append(ingestion.ingests, result.out) \in Seq(S \cup {result.out})
      /\ DOMAIN Append(ingestion.ingests, result.out) = 1..(n + 1)
      /\ Append(ingestion.ingests, result.out)[n + 1] = result.out
      /\ \A i \in 1..n : Append(ingestion.ingests, result.out)[i] = ingestion.ingests[i]
    <2>1. ingestion.ingests \in Seq(S \cup {result.out})
        BY <1>1
    <2> QED
        BY <2>1, <1>2, AppendProperties, LenProperties
<1>8. IngestsHold(Append(ingestion.ingests, result.out))
    <2>1. \A i \in 1..(n + 1) : i = n + 1 \/ i \in 1..n
        BY <1>2
    <2> QED
        BY <1>2, <1>4, <1>7, <2>1 DEF IngestsHold, CoverageInv
<1> QED
    BY <1>4, <1>5, <1>6, <1>7, <1>8 DEF IngestNext, CoverageInv

LEMMA CoverageSteps == ASSUME CoverageInv, [SuppliedNext]_suppliedVars PROVE CoverageInv'
<1>1. CASE RunJob
    BY <1>1, JobKeeps
<1>2. CASE EditSource
    BY <1>2 DEF EditSource, CoverageInv
<1>3. CASE BeginIngest
    <2>1. PICK limit \in FactLimits : ingestion' = [running |-> TRUE, limit |-> limit, ingests |-> <<>>]
        BY <1>3 DEF BeginIngest
    <2>2. /\ ingestion' = [running |-> ingestion'.running, limit |-> ingestion'.limit, ingests |-> ingestion'.ingests]
          /\ ingestion'.ingests = <<>>
        BY <2>1
    <2>3. IngestsHold(<<>>) /\ <<>> \in Seq({})
        BY EmptySeq DEF IngestsHold
    <2> QED
        BY <1>3, <2>2, <2>3 DEF BeginIngest, CoverageInv
<1>4. CASE IngestNext
    BY <1>4, IngestKeeps
<1>5. CASE AssessTestability
    <2>1. testability' = testabilityDimension(ingestion.ingests) /\ ingestion' = NotIngesting
        BY <1>5 DEF AssessTestability
    <2>2. testability'.ingests = ingestion.ingests
        BY <2>1 DEF testabilityDimension
    <2>3. /\ ingestion' = [running |-> ingestion'.running, limit |-> ingestion'.limit, ingests |-> ingestion'.ingests]
          /\ ingestion'.ingests = <<>>
        BY <2>1 DEF NotIngesting
    <2>4. IngestsHold(<<>>) /\ <<>> \in Seq({})
        BY EmptySeq DEF IngestsHold
    <2> QED
        BY <1>5, <2>1, <2>2, <2>3, <2>4 DEF AssessTestability, CoverageInv
<1>6. CASE UNCHANGED suppliedVars
    BY <1>6 DEF suppliedVars, CoverageInv
<1> QED
    BY <1>1, <1>2, <1>3, <1>4, <1>5, <1>6 DEF SuppliedNext

LEMMA FreshFollows == ASSUME CoverageInv PROVE FreshIsMeasured
    BY DEF CoverageInv, IngestsHold, FreshHolds, FreshIsMeasured

\* What the four conditions of "measured" say.
LEMMA MeasuredIs ==
    ASSUME NEW ingests, testabilityDimension(ingests).status = "measured"
    PROVE  /\ \A i \in DOMAIN ingests :
                ingests[i].facts # {} /\ ingests[i].unresolved = 0 /\ ingests[i].freshness = "matched"
           /\ addFact(FactsOf(ingests)) # {}
           /\ {OwnerOf[f] : f \in {x.file : x \in addFact(FactsOf(ingests))}} = DeclaredModules
<1> DEFINE summary == summarizeSuppliedCoverage(ingests)
<1>1. summary.units /\ summary.resolved /\ summary.attributed /\ summary.fresh
    BY DEF testabilityDimension
<1> QED
    BY <1>1 DEF summarizeSuppliedCoverage

LEMMA MeasuredFollows == ASSUME CoverageInv PROVE MeasuredIsWhole
<1> SUFFICES ASSUME testability # NothingSaid, testability.status = "measured" PROVE MeasuredIsWhole
    BY DEF MeasuredIsWhole
<1>1. PICK ingests : ingests = testability.ingests
    OBVIOUS
<1>2. testability = testabilityDimension(ingests)
    BY <1>1 DEF CoverageInv
<1>3. /\ \A i \in DOMAIN ingests :
           ingests[i].facts # {} /\ ingests[i].unresolved = 0 /\ ingests[i].freshness = "matched"
      /\ addFact(FactsOf(ingests)) # {}
      /\ {OwnerOf[f] : f \in {x.file : x \in addFact(FactsOf(ingests))}} = DeclaredModules
    BY <1>2, MeasuredIs
<1>4. \A x \in addFact(FactsOf(ingests)) : \E i \in DOMAIN ingests : x \in ingests[i].facts
    BY DEF addFact, FactsOf
<1>5. \A i \in DOMAIN ingests : FreshHolds(ingests[i]) /\ WholeHolds(ingests[i])
    BY <1>1 DEF CoverageInv, IngestsHold
<1>6. testability.row = "ok" \/ \E i \in DOMAIN ingests : ingests[i].read.summaryDiffers
    <2> SUFFICES ASSUME ~\E i \in DOMAIN ingests : ingests[i].read.summaryDiffers PROVE testability.row = "ok"
        OBVIOUS
    <2>1. testability.row = coverageHealth(ingests)
        BY <1>2 DEF testabilityDimension
    <2>2. DOMAIN ingests # {} /\ \A i \in DOMAIN ingests : ingests[i].reasons = {}
        BY <1>3, <1>4, <1>5 DEF WholeHolds
    <2> QED
        BY <2>1, <2>2 DEF coverageHealth
<1>7. \A m \in DeclaredModules : \E i \in DOMAIN ingests : \E x \in ingests[i].facts : OwnerOf[x.file] = m
    BY <1>3, <1>4
<1>8. ASSUME NEW i \in DOMAIN ingests, NEW p \in DOMAIN ingests[i].read.meant, ingests[i].read.meant[p] # Unresolved
      PROVE  \E x \in ingests[i].facts :
               p \in x.paths /\ (Apart(DOMAIN ingests[i].read.meant) => x.file = ingests[i].read.meant[p])
    <2>1. PICK one : one = ingests[i]
        OBVIOUS
    <2>2. /\ IsContent(one.read) /\ CoversAll(one.facts, one.read.records)
          /\ one.read.meant = [q \in Raws(one.read) |-> Normalize(q, one.read.taken)]
        BY <2>1, <1>3, <1>5 DEF WholeHolds
    <2>3. \A x \in one.facts : Stood(one.read, x.file) # {}
        BY <2>1, <1>3, <1>5 DEF FreshHolds
    <2>4. DOMAIN one.read.meant = Raws(one.read) /\ Raws(one.read) \subseteq DOMAIN Candidates
        BY <2>2 DEF Raws, IsContent
    <2>5. \A q \in Raws(one.read) : one.read.meant[q] # Unresolved =>
            one.read.meant[q] # Outside /\ \E k \in DOMAIN Candidates[q] : Candidates[q][k] = one.read.meant[q]
        BY <2>2, <2>4, NormalizedIs
    <2>6. lexicallyInside(p)
        BY <2>1, <2>4, <2>5, <1>8 DEF lexicallyInside
    <2>7. PICK r \in one.read.records : r.raw = p
        BY <2>1, <2>4, <1>8 DEF Raws
    <2>8. PICK x \in one.facts : p \in x.paths
        BY <2>2, <2>6, <2>7 DEF CoversAll
    <2>9. x.file \in CoveredFiles /\ \E k \in DOMAIN Candidates[p] : Candidates[p][k] = x.file
        BY <2>2, <2>8 DEF CoversAll
    <2>10. PICK q \in Raws(one.read) : one.read.meant[q] = x.file
        BY <2>3, <2>4 DEF Stood
    <2>11. ASSUME Apart(DOMAIN one.read.meant) PROVE q = p
        BY <2>1, <2>4, <2>11, <2>5, <2>9, <2>10, <1>8, SuppliedAssumption DEF Apart
    <2> QED
        BY <2>1, <2>8, <2>10, <2>11
<1> QED
    BY <1>1, <1>6, <1>7, <1>8 DEF MeasuredIsWhole

\* Whatever jobs write, whatever is edited between the steps of a check, and whatever the fact
\* cache holds: facts called fresh are of files the artifact's job measured, with the very
\* bytes the check held its sidecar against.
THEOREM FreshMeasured == SuppliedSpec => []FreshIsMeasured
<1> QED
    BY CoverageStarts, CoverageSteps, FreshFollows, PTL DEF SuppliedSpec

\* In the same histories: where testability is measured, the row is ok but for a summary that
\* differs, every declared module has facts, and each path that stood for a file is counted,
\* for that file where the paths are apart.
THEOREM MeasuredWhole == SuppliedSpec => []MeasuredIsWhole
<1> QED
    BY CoverageStarts, CoverageSteps, MeasuredFollows, PTL DEF SuppliedSpec

-----------------------------------------------------------------------------
(* Operations: what CODEOWNERS says of a module, a rule says of a file of it  *)

\* Of numbers that none exceeds there is a greatest.
LEMMA GreatestIs ==
    ASSUME NEW S, S \subseteq Nat, S # {}, NEW top \in Nat, \A x \in S : x <= top
    PROVE  \E x \in S : \A y \in S : y <= x
<1> DEFINE T == {top - x : x \in S}
<1>1. T \subseteq Nat /\ T # {}
    <2>1. \A x \in S : x \in Nat /\ top - x \in Nat
        OBVIOUS
    <2>2. PICK x \in S : TRUE
        OBVIOUS
    <2>3. top - x \in T
        BY <2>2
    <2> QED
        BY <2>1, <2>3
<1>2. PICK t \in T : \A u \in T : t <= u
    <2> HIDE DEF T
    <2> QED
        BY <1>1, LeastIs
<1>3. PICK x \in S : t = top - x
    BY <1>2
<1>4. \A y \in S : top - x <= top - y
    BY <1>2, <1>3
<1> QED
    BY <1>4

\* What is taken most is taken.
LEMMA DominantIs ==
    ASSUME NEW taken, IsFiniteSet(DOMAIN taken), DOMAIN taken # {}, Range(taken) \subseteq DOMAIN RankOf
    PROVE  dominant(Tally(taken)) \in Range(taken)
<1> DEFINE V == Range(taken)
           counts == Tally(taken)
           By(v) == {x \in DOMAIN taken : taken[x] = v}
           top == Cardinality(DOMAIN taken)
<1>1. V = {taken[x] : x \in DOMAIN taken} /\ V # {}
    BY DEF Range
<1>2. counts = [v \in V |-> Cardinality(By(v))]
    BY DEF Tally
<1>3. top \in Nat /\ \A v \in V : Cardinality(By(v)) \in Nat /\ Cardinality(By(v)) <= top
    BY FS_Subset, FS_CardinalityType
<1> HIDE DEF V, counts, By, top
<1>4. \A v \in V : counts[v] \in Nat /\ counts[v] <= top
    BY <1>2, <1>3
<1>5. PICK v \in V : \A w \in V : counts[w] <= counts[v]
    <2> DEFINE N == {counts[w] : w \in V}
    <2>1. N \subseteq Nat /\ N # {} /\ \A n \in N : n <= top
        BY <1>1, <1>4
    <2>2. PICK n \in N : \A m \in N : m <= n
        <3> HIDE DEF N
        <3> QED
            BY <1>3, <2>1, GreatestIs
    <2> QED
        BY <2>2
<1>6. V \subseteq DOMAIN RankOf
    BY DEF V
<1>7. PICK k \in V : counts[k] = counts[v] /\ \A w \in V : counts[w] = counts[v] => RankOf[k] <= RankOf[w]
    <2> DEFINE R == {RankOf[w] : w \in {u \in V : counts[u] = counts[v]}}
    <2>1. R \subseteq Nat /\ R # {}
        BY <1>6, RankAssumption
    <2>2. PICK n \in R : \A m \in R : n <= m
        <3> HIDE DEF R
        <3> QED
            BY <2>1, LeastIs
    <2> QED
        BY <2>2
<1>8. \A o \in V \ {k} : counts[o] < counts[k] \/ (counts[o] = counts[k] /\ RankOf[k] < RankOf[o])
    <2> TAKE o \in V \ {k}
    <2>1. counts[o] <= counts[k] /\ counts[o] \in Nat /\ counts[k] \in Nat
        BY <1>4, <1>5, <1>7
    <2>2. counts[o] = counts[k] => RankOf[k] <= RankOf[o]
        BY <1>7
    <2>3. RankOf[k] \in Nat /\ RankOf[o] \in Nat /\ RankOf[k] # RankOf[o]
        BY <1>6, RankAssumption
    <2> QED
        BY <2>1, <2>2, <2>3
<1>9. DOMAIN counts = V
    BY <1>2
<1>10. \E x \in DOMAIN counts : \A o \in DOMAIN counts \ {x} :
         counts[o] < counts[x] \/ (counts[o] = counts[x] /\ RankOf[x] < RankOf[o])
    BY <1>8, <1>9
<1>11. dominant(counts) \in DOMAIN counts
    BY <1>10 DEF dominant
<1> QED
    BY <1>9, <1>11 DEF V, counts

\* A file that a CODEOWNERS rule gives an owner is matched by a rule of that owner.
LEMMA MatchIs ==
    ASSUME NEW rules, Len(rules) \in Nat, DOMAIN rules = 1..Len(rules), NEW f, matchCodeowners(rules, f) # Blank
    PROVE  \E r \in Range(rules) : codeownersMatch(r, f) /\ r.owner = matchCodeowners(rules, f)
<1> DEFINE hits == {i \in DOMAIN rules : codeownersMatch(rules[i], f)}
<1>1. hits # {} /\ matchCodeowners(rules, f) = rules[Max(hits)].owner
    BY DEF matchCodeowners
<1>2. hits \subseteq Nat /\ \A i \in hits : i <= Len(rules)
    OBVIOUS
<1> HIDE DEF hits
<1>3. \E i \in hits : \A j \in hits : j <= i
    BY <1>1, <1>2, GreatestIs
<1>4. \E i \in hits : \A j \in hits : i >= j
    BY <1>2, <1>3
<1>5. Max(hits) \in hits
    BY <1>4 DEF Max
<1>6. Max(hits) \in DOMAIN rules /\ codeownersMatch(rules[Max(hits)], f)
    BY <1>5 DEF hits
<1>7. rules[Max(hits)] \in Range(rules)
    BY <1>6 DEF Range
<1> QED
    BY <1>1, <1>6, <1>7

\* The owner that CODEOWNERS gives a module is one that a rule gives a file of it.
LEMMA StatedByRule ==
    ASSUME NEW g \in Grounds, NEW rules, Len(rules) \in Nat, DOMAIN rules = 1..Len(rules),
           \A r \in Range(rules) : r.owner \in DOMAIN RankOf,
           NEW m \in DOMAIN resolveFromCodeowners(g, rules)
    PROVE  \E f \in DOMAIN g.moduleOf : g.moduleOf[f] = m /\
             \E r \in Range(rules) : codeownersMatch(r, f) /\ r.owner = resolveFromCodeowners(g, rules)[m]
<1> DEFINE owned == {f \in DOMAIN g.moduleOf : g.moduleOf[f] # Wherever /\ matchCodeowners(rules, f) # Blank}
           own == {x \in owned : g.moduleOf[x] = m}
           taken == [f \in own |-> matchCodeowners(rules, f)]
<1>1. m \in {g.moduleOf[f] : f \in owned} /\ resolveFromCodeowners(g, rules)[m] = dominant(Tally(taken))
    BY DEF resolveFromCodeowners
<1>2. own # {} /\ own \subseteq DOMAIN g.moduleOf
    BY <1>1
<1>3. IsFiniteSet(own)
    BY <1>2, FS_Subset, GroundsAssumption
<1>4. \A f \in own : \E r \in Range(rules) : codeownersMatch(r, f) /\ r.owner = taken[f]
    BY MatchIs
<1>5. DOMAIN taken = own
    OBVIOUS
<1>6. \A f \in own : taken[f] \in DOMAIN RankOf
    BY <1>4
<1> HIDE DEF taken
<1>7. Range(taken) = {taken[f] : f \in own}
    BY <1>5 DEF Range
<1>8. Range(taken) \subseteq DOMAIN RankOf
    BY <1>6, <1>7
<1>9. dominant(Tally(taken)) \in Range(taken)
    BY <1>2, <1>3, <1>5, <1>8, DominantIs
<1>10. PICK f \in own : taken[f] = dominant(Tally(taken))
    BY <1>7, <1>9
<1>11. f \in DOMAIN g.moduleOf /\ g.moduleOf[f] = m
    OBVIOUS
<1> QED
    BY <1>1, <1>4, <1>10, <1>11

-----------------------------------------------------------------------------
(* Operations: what a measured dimension rests on                            *)

\* Whoever is asked for the owners that no module declares.
Resolved(g, commits, git) ==
    IF NeedsOwnerResolution(g) THEN ResolveWithProvenance(g, commits, git)
    ELSE [owners |-> NoOwners, source |-> "config"]
OwnerFactsOf(g, commits, git) == OwnerFacts(g, Resolved(g, commits, git))
FoundOf(g, go) == KeyCorroboratedByModule(g, Discover(g, go))

\* What the CODEOWNERS file says of the modules.
Stated(g) == resolveFromCodeowners(g, loadCodeowners(g))
IsStated(g, m) == loadCodeowners(g) # <<>> /\ m \in DOMAIN Stated(g)

LEMMA ObservedAll ==
    ASSUME NEW a \in BOOLEAN, NEW b \in BOOLEAN, NEW c \in BOOLEAN,
           NEW O, O = {"declared operational topology"} \cup (IF a THEN {"reconciliation"} ELSE {}) \cup
                      (IF b THEN {"corroborated deploy unit"} ELSE {}) \cup (IF c THEN {"owner provenance"} ELSE {})
    PROVE  O = OperationsFacts <=> a /\ b /\ c
<1>1. "reconciliation" \in O <=> a
    OBVIOUS
<1>2. "corroborated deploy unit" \in O <=> b
    OBVIOUS
<1>3. "owner provenance" \in O <=> c
    OBVIOUS
<1>4. a /\ b /\ c => O = OperationsFacts
    BY DEF OperationsFacts
<1> QED
    BY <1>1, <1>2, <1>3, <1>4 DEF OperationsFacts

LEMMA AnalysisIs ==
    ASSUME NEW g, NEW commits, NEW git, NEW go
    PROVE  /\ Analysis(g, commits, git, go).owners = OwnerFactsOf(g, commits, git)
           /\ Analysis(g, commits, git, go).found = FoundOf(g, go)
           /\ Analysis(g, commits, git, go).dimension.status = "measured" <=>
                /\ ModulesOf(g) # {} /\ DiscoveryRow(g, go) = "ok"
                /\ DOMAIN FoundOf(g, go) = ModulesOf(g)
                /\ qualifying(OwnerFactsOf(g, commits, git)) = ModulesOf(g)
<1> DEFINE facts == OwnerFactsOf(g, commits, git)
           found == FoundOf(g, go)
           row == DiscoveryRow(g, go)
           dim == operationsDimension(g, facts, found, row)
           O == {"declared operational topology"} \cup (IF row = "ok" THEN {"reconciliation"} ELSE {}) \cup
                (IF row = "ok" /\ DOMAIN found = ModulesOf(g) THEN {"corroborated deploy unit"} ELSE {}) \cup
                (IF qualifying(facts) = ModulesOf(g) THEN {"owner provenance"} ELSE {})
<1>1. /\ Analysis(g, commits, git, go).owners = facts
      /\ Analysis(g, commits, git, go).found = found
      /\ Analysis(g, commits, git, go).dimension = dim
    BY DEF Analysis, OwnerFactsOf, FoundOf, Resolved
<1>2. O = OperationsFacts <=> row = "ok" /\ (row = "ok" /\ DOMAIN found = ModulesOf(g)) /\ qualifying(facts) = ModulesOf(g)
    <2>1. (row = "ok") \in BOOLEAN /\ (row = "ok" /\ DOMAIN found = ModulesOf(g)) \in BOOLEAN
          /\ (qualifying(facts) = ModulesOf(g)) \in BOOLEAN
        OBVIOUS
    <2> HIDE DEF facts, found, row
    <2> QED
        BY <2>1, ObservedAll, Zenon
<1>3. dim.status = IF ModulesOf(g) = {} THEN "unmeasured" ELSE IF O = OperationsFacts THEN "measured" ELSE "partial"
    BY DEF operationsDimension
<1> HIDE DEF facts, found, row, dim, O
<1>4. dim.status = "measured" <=> ModulesOf(g) # {} /\ O = OperationsFacts
    BY <1>3
<1> QED
    BY <1>1, <1>2, <1>4 DEF facts, found, row

\* Nobody else answers as the CODEOWNERS file does.
LEMMA GitAnswers ==
    ASSUME NEW g, NEW commits, NEW git
    PROVE  resolveFromGitAuthor(g, commits, git).source \in {"git", "git_timeout", "none"}
    BY DEF resolveFromGitAuthor

\* An owner counts when the module or a rule states it, whatever git says.
LEMMA QualifiedIs ==
    ASSUME NEW g, NEW commits, NEW git
    PROVE  /\ qualifying(OwnerFactsOf(g, commits, git)) = {m \in ModulesOf(g) : g.owner[m] # Blank \/ IsStated(g, m)}
           /\ \A m \in qualifying(OwnerFactsOf(g, commits, git)) :
                g.owner[m] = Blank => IsStated(g, m) /\ OwnerFactsOf(g, commits, git)[m].owner = Stated(g)[m]
<1> DEFINE R == Resolved(g, commits, git)
           facts == OwnerFactsOf(g, commits, git)
<1>1. facts = [m \in {x \in ModulesOf(g) : g.owner[x] # Blank} \cup (DOMAIN R.owners \cap ModulesOf(g)) |->
                 IF g.owner[m] # Blank THEN [owner |-> g.owner[m], source |-> "declared"]
                 ELSE [owner |-> R.owners[m], source |-> R.source]]
    BY DEF OwnerFactsOf, OwnerFacts
<1>2. ASSUME NEW m \in ModulesOf(g), g.owner[m] = Blank
      PROVE  /\ m \in DOMAIN R.owners /\ R.source \in {"declared", "codeowners"} <=> IsStated(g, m)
             /\ IsStated(g, m) => R.owners = Stated(g)
    <2>1. R = ResolveWithProvenance(g, commits, git)
        BY <1>2 DEF Resolved, NeedsOwnerResolution
    <2>2. CASE loadCodeowners(g) = <<>>
        <3>1. R = resolveFromGitAuthor(g, commits, git)
            BY <2>1, <2>2 DEF ResolveWithProvenance
        <3>2. R.source \notin {"declared", "codeowners"}
            BY <3>1, GitAnswers
        <3> QED
            BY <2>2, <3>2 DEF IsStated
    <2>3. CASE loadCodeowners(g) # <<>>
        <3>1. R = [owners |-> Stated(g), source |-> IF Stated(g) = NoOwners THEN "codeowners_no_match" ELSE "codeowners"]
            BY <2>1, <2>3 DEF ResolveWithProvenance, Stated
        <3>2. R.owners = Stated(g) /\ R.source = IF Stated(g) = NoOwners THEN "codeowners_no_match" ELSE "codeowners"
            BY <3>1
        <3>3. DOMAIN NoOwners = {}
            BY DEF NoOwners
        <3>4. m \in DOMAIN Stated(g) => R.source = "codeowners"
            BY <3>2, <3>3
        <3> QED
            BY <2>3, <3>2, <3>4 DEF IsStated
    <2> QED
        BY <2>2, <2>3
<1>3. \A m \in DOMAIN facts : m \in ModulesOf(g) /\ (g.owner[m] = Blank => m \in DOMAIN R.owners)
    BY <1>1
<1>4. \A m \in DOMAIN facts :
        facts[m].source \in {"declared", "codeowners"} <=> g.owner[m] # Blank \/ R.source \in {"declared", "codeowners"}
    BY <1>1
<1>5. \A m \in DOMAIN facts : g.owner[m] = Blank => facts[m].owner = R.owners[m]
    BY <1>1
<1>6. \A m \in ModulesOf(g) : g.owner[m] # Blank \/ m \in DOMAIN R.owners => m \in DOMAIN facts
    BY <1>1
<1>7. qualifying(facts) = {m \in DOMAIN facts : facts[m].source \in {"declared", "codeowners"}}
    BY DEF qualifying
<1> HIDE DEF facts, R
<1>8. \A m : m \in qualifying(facts) <=> m \in ModulesOf(g) /\ (g.owner[m] # Blank \/ IsStated(g, m))
    BY <1>2, <1>3, <1>4, <1>6, <1>7
<1>9. \A m \in qualifying(facts) : g.owner[m] = Blank => IsStated(g, m) /\ facts[m].owner = Stated(g)[m]
    BY <1>2, <1>3, <1>5, <1>7, <1>8
<1> QED
    BY <1>8, <1>9 DEF facts

\* The rules that are loaded are those of one file.
LEMMA LoadedFrom ==
    ASSUME NEW g \in Grounds, loadCodeowners(g) # <<>>
    PROVE  \E l \in DOMAIN g.codeowners : loadCodeowners(g) = g.codeowners[l]
<1> DEFINE there == {i \in DOMAIN Locations : Locations[i] \in DOMAIN g.codeowners}
<1>1. there # {} /\ loadCodeowners(g) = g.codeowners[Locations[Min(there)]]
    BY DEF loadCodeowners
<1>2. there \subseteq Nat
    BY DEF Locations
<1>3. Min(there) \in there
    <2> HIDE DEF there
    <2> QED
        BY <1>1, <1>2, LeastIs
<1> QED
    BY <1>1, <1>3

\* What the detectors see, and that the first of a directory is there for it.
Seen(g, go) == detectGoMember(g, go) \cup FromManifests(g)

LEMMA SeenIs ==
    ASSUME NEW g \in Grounds, NEW go, NEW x \in Seen(g, go)
    PROVE  /\ x.source \in Range(DetectorOrder)
           /\ \E y \in g.manifests : y.dir = x.dir
<1>1. CASE x \in detectGoMember(g, go)
    <2>1. PICK y \in g.manifests : y.source = "go_main" /\
            x = [y EXCEPT !.unit = IF g.dirModule[y.dir] = Wherever THEN y.unit ELSE g.dirModule[y.dir]]
        BY <1>1 DEF detectGoMember
    <2>2. y = [dir |-> y.dir, source |-> y.source, unit |-> y.unit] /\ y.source \in Range(DetectorOrder)
        BY GroundsAssumption
    <2>3. x.dir = y.dir /\ x.source = y.source
        BY <2>1, <2>2
    <2> QED
        BY <2>2, <2>3
<1>2. CASE x \in g.manifests
    BY <1>2, GroundsAssumption
<1> QED
    BY <1>1, <1>2 DEF Seen, FromManifests

LEMMA FirstKeeps ==
    ASSUME NEW g \in Grounds, NEW go
    PROVE  {x.dir : x \in Discover(g, go)} = {x.dir : x \in Seen(g, go)} /\ Discover(g, go) \subseteq Seen(g, go)
<1> DEFINE seen == Seen(g, go)
           Place(x) == CHOOSE i \in DOMAIN DetectorOrder : DetectorOrder[i] = x.source
<1>1. Discover(g, go) = {x \in seen : \A y \in seen : y.dir = x.dir => Place(x) <= Place(y)}
    BY DEF Discover, Seen
<1>2. \A x \in seen : Place(x) \in Nat
    <2> TAKE x \in seen
    <2>1. DOMAIN DetectorOrder = 1..5
        BY DEF DetectorOrder
    <2>2. \E i \in DOMAIN DetectorOrder : DetectorOrder[i] = x.source
        BY SeenIs DEF Range
    <2>3. Place(x) \in DOMAIN DetectorOrder
        BY <2>2
    <2> HIDE DEF Place
    <2> QED
        BY <2>1, <2>3
<1> HIDE DEF seen, Place
<1>3. ASSUME NEW x \in seen
      PROVE  \E z \in Discover(g, go) : z.dir = x.dir
    <2> DEFINE same == {y \in seen : y.dir = x.dir}
               P == {Place(y) : y \in same}
    <2>1. P \subseteq Nat /\ P # {}
        BY <1>2
    <2>2. PICK p \in P : \A q \in P : p <= q
        <3> HIDE DEF P
        <3> QED
            BY <2>1, LeastIs
    <2>3. PICK z \in same : p = Place(z)
        BY <2>2
    <2>4. \A y \in seen : y.dir = z.dir => Place(z) <= Place(y)
        BY <2>2, <2>3
    <2> QED
        BY <1>1, <2>3, <2>4
<1> QED
    BY <1>1, <1>3 DEF seen

LEMMA FoundIs ==
    ASSUME NEW g \in Grounds, NEW go
    PROVE  DOMAIN FoundOf(g, go) = {g.dirModule[x.dir] : x \in Seen(g, go)} \cap ModulesOf(g)
<1>1. DOMAIN FoundOf(g, go) = {g.dirModule[x.dir] : x \in Discover(g, go)} \cap ModulesOf(g)
    BY DEF FoundOf, KeyCorroboratedByModule
<1>2. \A x \in Discover(g, go) : x \in Seen(g, go)
    BY FirstKeeps
<1>3. \A x \in Seen(g, go) : \E z \in Discover(g, go) : z.dir = x.dir
    <2> TAKE x \in Seen(g, go)
    <2>1. x.dir \in {y.dir : y \in Seen(g, go)}
        OBVIOUS
    <2>2. x.dir \in {y.dir : y \in Discover(g, go)}
        BY <2>1, FirstKeeps
    <2> QED
        BY <2>2
<1> QED
    BY <1>1, <1>2, <1>3

\* The Go toolchain in order, whatever it was.
AllGo(g) == [discovered |-> TRUE, installed |-> TRUE, list |-> [m \in g.members |-> "ok"]]

LEMMA AllGoIs ==
    ASSUME NEW g \in Grounds, NEW go
    PROVE  /\ DiscoveryRow(g, AllGo(g)) = "ok"
           /\ DOMAIN FoundOf(g, go) \subseteq DOMAIN FoundOf(g, AllGo(g))
<1>1. AllGo(g).discovered /\ AllGo(g).installed /\ \A m \in g.members : AllGo(g).list[m] = "ok"
    BY DEF AllGo
<1>2. detectGoMain(g, AllGo(g)) = "ok"
    <2>1. CASE g.members = {}
        BY <1>1, <2>1 DEF detectGoMain
    <2>2. CASE g.members # {}
        BY <1>1, <2>2 DEF detectGoMain
    <2> QED
        BY <2>1, <2>2
<1>3. DiscoveryRow(g, AllGo(g)) = "ok"
    BY <1>2 DEF DiscoveryRow
<1>4. detectGoMember(g, go) \subseteq detectGoMember(g, AllGo(g))
    <2> DEFINE Put(x) == [x EXCEPT !.unit = IF g.dirModule[x.dir] = Wherever THEN x.unit ELSE g.dirModule[x.dir]]
               Kept(s) == {y \in g.manifests :
                             /\ y.source = "go_main" /\ s.discovered /\ s.installed
                             /\ s.list[g.memberOf[y.dir]] = "ok"
                             /\ g.dirModule[y.dir] = Wherever \/ y.dir \in g.roots}
    <2>1. Kept(go) \subseteq Kept(AllGo(g))
        <3>1. \A y \in g.manifests : y.source = "go_main" => g.memberOf[y.dir] \in g.members
            BY GroundsAssumption
        <3> QED
            BY <1>1, <3>1
    <2>2. \A s : detectGoMember(g, s) = {Put(x) : x \in Kept(s)}
        BY DEF detectGoMember
    <2> HIDE DEF Put, Kept
    <2> QED
        BY <2>1, <2>2
<1>5. Seen(g, go) \subseteq Seen(g, AllGo(g))
    BY <1>4 DEF Seen, FromManifests
<1>6. \A s : DOMAIN FoundOf(g, s) = {g.dirModule[x.dir] : x \in Seen(g, s)} \cap ModulesOf(g)
    BY FoundIs
<1>7. DOMAIN FoundOf(g, go) \subseteq DOMAIN FoundOf(g, AllGo(g))
    <2> SUFFICES ASSUME NEW m \in DOMAIN FoundOf(g, go) PROVE m \in DOMAIN FoundOf(g, AllGo(g))
        OBVIOUS
    <2>1. m \in ModulesOf(g) /\ m \in {g.dirModule[x.dir] : x \in Seen(g, go)}
        BY <1>6
    <2>2. PICK x \in Seen(g, go) : m = g.dirModule[x.dir]
        BY <2>1
    <2> QED
        BY <1>5, <1>6, <2>1, <2>2
<1> QED
    BY <1>3, <1>7

-----------------------------------------------------------------------------
(* The invariant: what was said is what an analysis of this history says.    *)

OpsInv ==
    /\ ground # NoGround => ground \in Grounds
    /\ ground = NoGround => operations = NotAnalyzed
    /\ operations = NotAnalyzed \/
         \E git \in GitOutcomes \X GitOutcomes, go \in GoStates(ground) : operations = Analysis(ground, history, git, go)

LEMMA OpsStep == ASSUME OpsInv, [OperationsNext]_opsVars PROVE OpsInv'
<1>1. CASE Commit
    BY <1>1 DEF Commit, OpsInv
<1>2. CASE Analyze
    BY <1>2 DEF Analyze, OpsInv
<1>3. CASE \E g \in Grounds : Visit(g)
    BY <1>3, GroundsAssumption DEF Visit, OpsInv
<1>4. CASE UNCHANGED opsVars
    BY <1>4 DEF OpsInv, opsVars
<1> QED
    BY <1>1, <1>2, <1>3, <1>4 DEF OperationsNext

LEMMA OpsInvHolds == OperationsSpec => []OpsInv
<1>1. OperationsInit => OpsInv
    BY DEF OperationsInit, OpsInv
<1>2. OpsInv /\ [OperationsNext]_opsVars => OpsInv'
    BY OpsStep
<1> QED
    BY <1>1, <1>2, PTL DEF OperationsSpec

LEMMA MeasuredIsStated == ASSUME OpsInv PROVE OwnersAreStated
<1> SUFFICES ASSUME operations # NotAnalyzed, operations.dimension.status = "measured", NEW m \in ModulesOf(ground)
             PROVE  /\ \/ ground.owner[m] # Blank
                       \/ \E l \in DOMAIN ground.codeowners, f \in DOMAIN ground.moduleOf :
                            ground.moduleOf[f] = m /\
                            \E r \in Range(ground.codeowners[l]) :
                              codeownersMatch(r, f) /\ r.owner = operations.owners[m].owner
                    /\ \E x \in ground.manifests : ground.dirModule[x.dir] = m
    BY DEF OwnersAreStated
<1>1. ground \in Grounds
    BY DEF OpsInv
<1>2. PICK git \in GitOutcomes \X GitOutcomes, go \in GoStates(ground) : operations = Analysis(ground, history, git, go)
    BY DEF OpsInv
<1>3. /\ operations.owners = OwnerFactsOf(ground, history, git)
      /\ DOMAIN FoundOf(ground, go) = ModulesOf(ground)
      /\ qualifying(OwnerFactsOf(ground, history, git)) = ModulesOf(ground)
    BY <1>2, AnalysisIs
<1>4. ASSUME ground.owner[m] = Blank
      PROVE  \E l \in DOMAIN ground.codeowners, f \in DOMAIN ground.moduleOf :
               ground.moduleOf[f] = m /\
               \E r \in Range(ground.codeowners[l]) :
                 codeownersMatch(r, f) /\ r.owner = operations.owners[m].owner
    <2> DEFINE rules == loadCodeowners(ground)
    <2>1. IsStated(ground, m) /\ operations.owners[m].owner = Stated(ground)[m]
        BY <1>3, <1>4, QualifiedIs
    <2>2. PICK l \in DOMAIN ground.codeowners : rules = ground.codeowners[l]
        BY <1>1, <2>1, LoadedFrom DEF IsStated
    <2>3. /\ Len(rules) \in Nat /\ DOMAIN rules = 1..Len(rules)
          /\ \A r \in Range(rules) : r.owner \in DOMAIN RankOf
        BY <1>1, <2>2, GroundsAssumption
    <2>4. m \in DOMAIN resolveFromCodeowners(ground, rules)
          /\ operations.owners[m].owner = resolveFromCodeowners(ground, rules)[m]
        BY <2>1 DEF IsStated, Stated
    <2> HIDE DEF rules
    <2>5. PICK f \in DOMAIN ground.moduleOf : ground.moduleOf[f] = m /\
            \E r \in Range(rules) : codeownersMatch(r, f) /\ r.owner = resolveFromCodeowners(ground, rules)[m]
        BY <1>1, <2>3, <2>4, StatedByRule
    <2> QED
        BY <2>2, <2>4, <2>5
<1>5. \E x \in ground.manifests : ground.dirModule[x.dir] = m
    <2>1. PICK x \in Seen(ground, go) : ground.dirModule[x.dir] = m
        <3>1. DOMAIN FoundOf(ground, go) = {ground.dirModule[x.dir] : x \in Seen(ground, go)} \cap ModulesOf(ground)
            BY <1>1, FoundIs
        <3> QED
            BY <1>3, <3>1
    <2>2. PICK y \in ground.manifests : y.dir = x.dir
        BY <1>1, SeenIs
    <2> QED
        BY <2>1, <2>2
<1> QED
    BY <1>4, <1>5

LEMMA FailureCosts == ASSUME OpsInv PROVE FailureMakesNoEvidence
<1> DEFINE whole == Analysis(ground, history, <<"ok", "ok">>, AllGo(ground))
<1> SUFFICES ASSUME operations # NotAnalyzed
             PROVE  /\ operations.dimension.status = "measured" => whole.dimension.status = "measured"
                    /\ DOMAIN operations.found \subseteq DOMAIN whole.found
    BY DEF FailureMakesNoEvidence, AllGo
<1>1. ground \in Grounds
    BY DEF OpsInv
<1>2. PICK git \in GitOutcomes \X GitOutcomes, go \in GoStates(ground) : operations = Analysis(ground, history, git, go)
    BY DEF OpsInv
<1>3. DOMAIN FoundOf(ground, go) \subseteq DOMAIN FoundOf(ground, AllGo(ground)) /\ DiscoveryRow(ground, AllGo(ground)) = "ok"
    BY <1>1, AllGoIs
<1>4. DOMAIN FoundOf(ground, AllGo(ground)) \subseteq ModulesOf(ground)
    BY <1>1, FoundIs
<1>5. qualifying(OwnerFactsOf(ground, history, git)) = qualifying(OwnerFactsOf(ground, history, <<"ok", "ok">>))
    BY QualifiedIs
<1>6. operations.found = FoundOf(ground, go) /\ whole.found = FoundOf(ground, AllGo(ground))
    BY <1>2, AnalysisIs
<1>7. ASSUME operations.dimension.status = "measured" PROVE whole.dimension.status = "measured"
    <2> DEFINE all == <<"ok", "ok">>
    <2>1. /\ ModulesOf(ground) # {} /\ DOMAIN FoundOf(ground, go) = ModulesOf(ground)
          /\ qualifying(OwnerFactsOf(ground, history, git)) = ModulesOf(ground)
        BY <1>2, <1>7, AnalysisIs
    <2>2. DOMAIN FoundOf(ground, AllGo(ground)) = ModulesOf(ground)
        BY <1>3, <1>4, <2>1
    <2>3. qualifying(OwnerFactsOf(ground, history, all)) = ModulesOf(ground)
        BY <1>5, <2>1
    <2> HIDE DEF all
    <2>4. Analysis(ground, history, all, AllGo(ground)).dimension.status = "measured"
        BY <1>3, <2>1, <2>2, <2>3, AnalysisIs
    <2> QED
        BY <2>4 DEF all
<1> QED
    BY <1>3, <1>6, <1>7

\* Operations are measured only on owners somebody stated and manifests of the
\* module's own, and no failure of git or of the Go toolchain makes evidence.
THEOREM OwnersStated == OperationsSpec => [](OwnersAreStated /\ FailureMakesNoEvidence)
<1>1. OpsInv => OwnersAreStated /\ FailureMakesNoEvidence
    BY MeasuredIsStated, FailureCosts
<1> QED
    BY <1>1, OpsInvHolds, PTL

\* What an analysis says is of its type.
LEMMA AnalysisTyped ==
    ASSUME NEW g, NEW commits, NEW git, NEW go \in GoStates(g)
    PROVE  /\ Analysis(g, commits, git, go).source \in
                {"config", "codeowners", "codeowners_no_match", "git", "git_timeout", "none"}
           /\ Analysis(g, commits, git, go).row \in {"ok", "partial", "absent", "timed_out"}
           /\ Analysis(g, commits, git, go).dimension.status \in {"measured", "partial", "unmeasured"}
<1> DEFINE R == Resolved(g, commits, git)
           D(facts, found, row) == operationsDimension(g, facts, found, row)
<1>1. /\ Analysis(g, commits, git, go).source = R.source
      /\ Analysis(g, commits, git, go).row = DiscoveryRow(g, go)
      /\ Analysis(g, commits, git, go).dimension =
           D(OwnerFactsOf(g, commits, git), FoundOf(g, go), DiscoveryRow(g, go))
    BY DEF Analysis, OwnerFactsOf, FoundOf, Resolved
<1>2. R.source \in {"config", "codeowners", "codeowners_no_match", "git", "git_timeout", "none"}
    <2>1. CASE ~NeedsOwnerResolution(g)
        BY <2>1 DEF Resolved
    <2>2. CASE NeedsOwnerResolution(g) /\ loadCodeowners(g) = <<>>
        <3>1. R = resolveFromGitAuthor(g, commits, git)
            BY <2>2 DEF Resolved, ResolveWithProvenance
        <3> HIDE DEF R
        <3> QED
            BY <3>1, GitAnswers
    <2>3. CASE NeedsOwnerResolution(g) /\ loadCodeowners(g) # <<>>
        <3>1. R = [owners |-> Stated(g), source |-> IF Stated(g) = NoOwners THEN "codeowners_no_match" ELSE "codeowners"]
            BY <2>3 DEF Resolved, ResolveWithProvenance, Stated
        <3> HIDE DEF R
        <3> QED
            BY <3>1
    <2> QED
        BY <2>1, <2>2, <2>3
<1>3. DiscoveryRow(g, go) \in {"ok", "partial", "absent", "timed_out"}
    <2>1. go.discovered \in BOOLEAN /\ go.installed \in BOOLEAN
        BY DEF GoStates
    <2>2. CASE ~go.discovered
        BY <2>2 DEF DiscoveryRow, detectGoMain
    <2>3. CASE go.discovered /\ g.members = {}
        BY <2>3 DEF DiscoveryRow, detectGoMain
    <2>4. CASE go.discovered /\ g.members # {} /\ ~go.installed
        BY <2>4 DEF DiscoveryRow, detectGoMain
    <2>5. CASE go.discovered /\ g.members # {} /\ go.installed
        BY <2>5 DEF DiscoveryRow, detectGoMain
    <2> QED
        BY <2>1, <2>2, <2>3, <2>4, <2>5
<1>4. \A facts, found, row : D(facts, found, row).status \in {"measured", "partial", "unmeasured"}
    BY DEF operationsDimension
<1> QED
    BY <1>1, <1>2, <1>3, <1>4

\* The invariant, and the type of the history.
OpsTypes ==
    /\ OpsInv
    /\ IF ground = NoGround THEN history = <<>> ELSE history \in Seq(ground.pushes)
    /\ Len(history) <= MaxCommits

\* Every variable of Operations has its type, whatever git answers.
THEOREM OperationsTyped == OperationsSpec => []OperationsTypeOK
<1>1. OperationsInit => OpsTypes
    BY CommitsAssumption DEF OperationsInit, OpsTypes, OpsInv
<1>2. OpsTypes /\ [OperationsNext]_opsVars => OpsTypes'
    <2> SUFFICES ASSUME OpsTypes, [OperationsNext]_opsVars PROVE OpsTypes'
        OBVIOUS
    <2>1. OpsInv'
        BY OpsStep DEF OpsTypes
    <2>2. CASE Commit
        <3>1. ground # NoGround /\ history \in Seq(ground.pushes) /\ Len(history) < MaxCommits
            BY <2>2 DEF Commit, OpsTypes
        <3>2. PICK c \in ground.pushes : history' = Append(history, c)
            BY <2>2 DEF Commit
        <3>3. history' \in Seq(ground.pushes) /\ Len(history') <= MaxCommits
            BY <3>1, <3>2, CommitsAssumption
        <3> QED
            BY <2>1, <2>2, <3>1, <3>3 DEF Commit, OpsTypes
    <2>3. CASE Analyze
        BY <2>1, <2>3 DEF Analyze, OpsTypes
    <2>4. CASE \E g \in Grounds : Visit(g)
        <3>1. PICK g \in Grounds : Visit(g)
            BY <2>4
        <3>2. history' = <<>> /\ ground' = g /\ g # NoGround
            BY <3>1, GroundsAssumption DEF Visit, OpsTypes
        <3> QED
            BY <2>1, <3>2, CommitsAssumption DEF OpsTypes
    <2>5. CASE UNCHANGED opsVars
        BY <2>1, <2>5 DEF OpsTypes, opsVars
    <2> QED
        BY <2>2, <2>3, <2>4, <2>5 DEF OperationsNext
<1>3. OpsTypes => OperationsTypeOK
    <2> SUFFICES ASSUME OpsTypes, operations # NotAnalyzed
                 PROVE  /\ operations.source \in {"config", "codeowners", "codeowners_no_match", "git", "git_timeout", "none"}
                        /\ operations.row \in {"ok", "partial", "absent", "timed_out"}
                        /\ operations.dimension.status \in {"measured", "partial", "unmeasured"}
        BY DEF OpsTypes, OpsInv, OperationsTypeOK
    <2> QED
        BY AnalysisTyped DEF OpsTypes, OpsInv
<1> QED
    BY <1>1, <1>2, <1>3, PTL DEF OperationsSpec

=============================================================================
