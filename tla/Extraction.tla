----------------------------- MODULE Extraction -----------------------------
(***************************************************************************)
(* Acquisition of dependency evidence (acquisition.Collect): the extractor  *)
(* of each language in turn finds its project, its tools and its sources,   *)
(* runs a child process under a watchdog, and turns what the child said, or *)
(* its failure, into graph facts and one coverage row.                      *)
(*                                                                         *)
(* `project` is what is true of the tree, which no extractor sees whole;    *)
(* the properties relate the rows to it.  A file stands for one source      *)
(* unit: a Go package, a TypeScript or Python file, a Rust crate.  The .NET *)
(* extractor has a module of its own (DotNet).                              *)
(***************************************************************************)
EXTENDS Integers, Sequences, FiniteSets

CONSTANTS
    Files,
    Demanded,        \* the languages with an explicit gate: languages.<x>.gate
    ToolPython,      \* whether ARCHFIT_TOOL_PYTHON names the interpreter to use
    CargoManifest,   \* whether languages.rust.manifest is configured
    Projects,        \* the runs to consider: the languages looked at, what is true
    NoProject        \*   of them and how the config switches them

Langs == {"go", "typescript", "python", "rust"}

\* What there is to say of a file: its imports all resolve, one does not, its types
\* do not check, the producer cannot read it, or build constraints leave it out.
Kinds == {"plain", "open", "mistyped", "unread", "ignored"}

Modes == {"off", "auto", "on"}

ASSUME ExtractionAssumption ==
    /\ IsFiniteSet(Files)
    /\ Demanded \subseteq Langs
    /\ ToolPython \in BOOLEAN /\ CargoManifest \in BOOLEAN
    /\ \A p \in Projects :
         /\ p.mode \in [Langs -> Modes]
         /\ p.there \subseteq Langs
         /\ DOMAIN p.files = Langs
         /\ \A l \in Langs : \E F \in SUBSET Files : p.files[l] \in [F -> Kinds]
    /\ NoProject \notin Projects

VARIABLES
    project,   \* the run in progress
    at,        \* which extractor works, in the order of the registry
    stage,     \* which stage of it, 0 before the first
    child,     \* its child process: "none", "running", "hung"
    cancelled, \* whether the context of the run was cancelled
    row,       \* the coverage rows so far
    seen,      \* the files the graph holds whole
    errs       \* the languages whose extractor returned an error

extractVars == <<project, at, stage, child, cancelled, row, seen, errs>>

NoRow == [status |-> "pending", missing |-> 0, open |-> 0, imprecise |-> 0]
Row(status, missing, open, imprecise) ==
    [status |-> status, missing |-> missing, open |-> open, imprecise |-> imprecise]

Order == <<"go", "typescript", "python", "rust">>
Working == project # NoProject /\ at <= Len(Order)
Lang == Order[at]
Mode == project.mode[Lang]
Of(l, kinds) == {f \in DOMAIN project.files[l] : project.files[l][f] \in kinds}
Count(kinds) == Cardinality(Of(Lang, kinds))
Larger(a, b) == IF a > b THEN a ELSE b

-----------------------------------------------------------------------------
(* The ladder of each extractor: what may fail, in order, and as what.     *)
(* "error": Extract returns an error; "partial": a row that says so;        *)
(* "absent": as if the language were not there.                             *)

Stages ==
    [go         |-> <<"discover", "load">>,
     typescript |-> <<"inputs", "producer", "interpreter", "probe", "compiler",
                      "run", "exit", "parse">>,
     python     |-> <<"interpreter", "helper", "run", "exit", "parse">>,
     rust       |-> <<"cargo", "run", "exit", "parse">>]

\* A language switched on by the config must work.
Strict(mode) == IF mode = "on" THEN "error" ELSE "partial"
Gone(mode) == IF mode = "on" THEN "error" ELSE "absent"

\* No project of the language at the root.
NotApplicable(l, mode) ==
    CASE l = "go" -> "absent"
      [] l = "rust" -> IF CargoManifest THEN Gone(mode) ELSE "absent"
      [] OTHER -> Gone(mode)

\* A tree that cannot be walked is an error in any mode, a load that failed is not.
GoFailure(s, mode) == IF s = "discover" THEN "error" ELSE Strict(mode)

\* Without TypeScript files a missing producer loses nothing, and an exit of the
\* compiler for want of inputs (TS18003) is a complete, empty graph.
TsFailure(s, mode, files) ==
    CASE s = "producer" /\ files = {} -> Gone(mode)
      [] s \in {"probe", "compiler"} -> "partial"
      [] s = "run" -> "error"
      [] OTHER -> Strict(mode)

PyFailure(s, mode) ==
    CASE s = "interpreter" -> IF ToolPython THEN "error" ELSE Gone(mode)
      [] s = "exit" -> Strict(mode)
      [] OTHER -> "error"

RustFailure(s, mode) ==
    CASE s = "cargo" -> Gone(mode)
      [] s = "exit" -> Strict(mode)
      [] OTHER -> "error"

Failure(s) ==
    CASE Lang = "go" -> GoFailure(s, Mode)
      [] Lang = "typescript" -> TsFailure(s, Mode, DOMAIN project.files[Lang])
      [] Lang = "python" -> PyFailure(s, Mode)
      [] Lang = "rust" -> RustFailure(s, Mode)

\* What can fail: only TypeScript sources need a TypeScript compiler.
CanFail(s) == s = "compiler" => DOMAIN project.files[Lang] # {}

\* The stages that run a child process, which a cancellation ends, and a watchdog
\* unless the Go loader started it.
NeedsChild(s) == s \in {"load", "probe", "run"} \/ (s = "interpreter" /\ Lang = "python" /\ ToolPython)
WatchedNot(s) == FALSE
Watched(s) == s # "load"

-----------------------------------------------------------------------------
(* The row of a run that came through, and the files whose imports it has *)

GoRowUnchecked ==
    LET missing == Count({"open"})
        imprecise == Count({"mistyped"})
    IN  IF missing + imprecise > 0
        THEN Row("partial", missing, missing + imprecise, imprecise) ELSE Row("ok", 0, 0, 0)

\* go/packages: a package that did not load is missing, one that did not type-check
\* may have lost imports or only strength.  A load that read no file is checked
\* against the sources there are.
GoRow ==
    LET read == Of(Lang, {"plain", "open", "mistyped"})
        missing == Larger(Count({"unread", "open"}),
                          IF read = {} /\ Of(Lang, Kinds \ {"ignored"}) # {} THEN 1 ELSE 0)
        imprecise == Count({"mistyped"})
    IN  CASE read = {} /\ missing = 0 -> Row("absent", 0, 0, 0)
          [] missing + imprecise > 0 -> Row("partial", missing, missing + imprecise, imprecise)
          [] OTHER -> Row("ok", 0, 0, 0)

\* dependency-cruiser: specifiers that do not resolve, files it left out, and an
\* environment it calls incomplete.
TsRow(environment) ==
    LET open == Count({"open", "mistyped"})
        missing == Count({"unread", "ignored"})
    IN  CASE environment -> Row("partial", Larger(1, missing), open, 0)
          [] ~environment /\ missing > 0 -> Row("partial", missing, open, 0)
          [] OTHER -> Row(IF open > 0 THEN "partial" ELSE "ok", 0, open, 0)

\* grimp: every import or source gap is an input missing from the graph.
PyRow ==
    LET gaps == Count(Kinds \ {"plain"})
    IN  Row(IF gaps > 0 THEN "partial" ELSE "ok", gaps, gaps, 0)

\* cargo metadata names every member with its manifest's dependencies.
RustRow == Row("ok", 0, 0, 0)

Rows ==
    CASE Lang = "go" -> {GoRow}
      [] Lang = "typescript" -> {TsRow(e) : e \in BOOLEAN}
      [] Lang = "python" -> {PyRow}
      [] Lang = "rust" -> {RustRow}

Whole(l) ==
    CASE l = "go" -> Of(l, {"plain", "mistyped"})
      [] l = "rust" -> DOMAIN project.files[l]
      [] OTHER -> Of(l, {"plain"})

-----------------------------------------------------------------------------
(* The steps *)

ExtractInit ==
    /\ project = NoProject
    /\ at = 1 /\ stage = 0
    /\ child = "none" /\ cancelled = FALSE
    /\ row = [l \in Langs |-> NoRow]
    /\ seen = [l \in Langs |-> {}]
    /\ errs = {}

Start(p) ==
    /\ project = NoProject
    /\ project' = p
    /\ UNCHANGED <<at, stage, child, cancelled, row, seen, errs>>

\* A bug in its place: a killed child is forgotten, and still runs.
ReturnLeavesChild(r, whole) ==
    /\ row' = [row EXCEPT ![Lang] = r]
    /\ seen' = [seen EXCEPT ![Lang] = whole]
    /\ at' = at + 1 /\ stage' = 0
    /\ UNCHANGED <<project, child, cancelled>>

\* The extractor of the current language is done: its row, and the next one.
Return(r, whole) ==
    /\ row' = [row EXCEPT ![Lang] = r]
    /\ seen' = [seen EXCEPT ![Lang] = whole]
    /\ at' = at + 1 /\ stage' = 0
    /\ child' = "none"
    /\ UNCHANGED <<project, cancelled>>

\* An error becomes a partial row of the extractor's tool, without facts.
ReturnAs(outcome) ==
    /\ Return(Row(IF outcome = "absent" THEN "absent" ELSE "partial",
                  IF outcome = "partial" /\ Lang = "typescript"
                  THEN Larger(1, Cardinality(DOMAIN project.files[Lang])) ELSE 0, 0, 0), {})
    /\ errs' = IF outcome = "error" THEN errs \cup {Lang} ELSE errs

\* The language is switched off, or there is no project of it the config lets in.
IsThere == Lang \in project.there
Skip ==
    /\ Working /\ stage = 0
    /\ Mode = "off" \/ ~IsThere
    /\ ReturnAs(IF Mode = "off" THEN "absent" ELSE NotApplicable(Lang, Mode))

Enter ==
    /\ Working /\ stage = 0
    /\ Mode # "off" /\ IsThere
    /\ stage' = 1
    /\ UNCHANGED <<project, at, child, cancelled, row, seen, errs>>

Current == Stages[Lang][stage]

\* A stage that reads files or looks a tool up.
Pass ==
    /\ Working /\ stage > 0 /\ stage < Len(Stages[Lang])
    /\ ~NeedsChild(Current)
    /\ stage' = stage + 1
    /\ UNCHANGED <<project, at, child, cancelled, row, seen, errs>>

Fail ==
    /\ Working /\ stage > 0
    /\ ~NeedsChild(Current) /\ CanFail(Current)
    /\ ReturnAs(Failure(Current))

\* dependency-cruiser without inputs exits, and the graph is complete and empty.
NoInputs ==
    /\ Working /\ Lang = "typescript" /\ stage > 0 /\ Current = "exit"
    /\ DOMAIN project.files[Lang] = {}
    /\ Return(Row("ok", 0, 0, 0), {})
    /\ UNCHANGED errs

\* A child is started unless the context is done already.
Spawn ==
    /\ Working /\ stage > 0 /\ NeedsChild(Current)
    /\ child = "none" /\ ~cancelled
    /\ child' = "running"
    /\ UNCHANGED <<project, at, stage, cancelled, row, seen, errs>>

Hang ==
    /\ child = "running"
    /\ child' = "hung"
    /\ UNCHANGED <<project, at, stage, cancelled, row, seen, errs>>

\* It ends by itself: the answer is read, or is no answer.
ChildEnds ==
    /\ Working /\ child = "running"
    /\ IF stage < Len(Stages[Lang])
       THEN /\ stage' = stage + 1 /\ child' = "none"
            /\ UNCHANGED <<project, at, cancelled, row, seen, errs>>
       ELSE /\ \E r \in Rows : Return(r, Whole(Lang))
            /\ UNCHANGED errs

ChildFails ==
    /\ Working /\ child = "running"
    /\ ReturnAs(Failure(Current))

\* The watchdog's deadline passed, or the run was cancelled: the child is killed.
Killed ==
    /\ Working /\ stage > 0 /\ NeedsChild(Current)
    /\ (child = "hung" /\ Watched(Current)) \/ cancelled
    /\ ReturnAs(Failure(Current))

\* The last stage parses the answer.
Assemble ==
    /\ Working /\ stage = Len(Stages[Lang]) /\ ~NeedsChild(Current)
    /\ \E r \in Rows : Return(r, Whole(Lang))
    /\ UNCHANGED errs

Cancel ==
    /\ Working /\ ~cancelled
    /\ cancelled' = TRUE
    /\ UNCHANGED <<project, at, stage, child, row, seen, errs>>

ExtractNext ==
    \/ project = NoProject /\ \E p \in Projects : Start(p)
    \/ Skip \/ Enter \/ Pass \/ Fail \/ NoInputs
    \/ Spawn \/ Hang \/ ChildEnds \/ ChildFails \/ Killed \/ Assemble
    \/ Cancel

ExtractSpec == ExtractInit /\ [][ExtractNext]_extractVars

\* A child ends, or its deadline passes; a run waits for nothing else.  Nobody is
\* bound to cancel, and a child may hang.
Progress ==
    Skip \/ Enter \/ Pass \/ Fail \/ NoInputs \/ Spawn \/ ChildEnds \/ ChildFails \/ Killed \/ Assemble
ExtractFair == WF_extractVars(Progress)

-----------------------------------------------------------------------------
(* What the report says *)

\* The analyses of a measured row tell apart what a partial row lost.
Class(l, r) ==
    CASE r.status # "partial" -> r.status
      [] r.status = "partial" /\ r.missing = 0 /\ r.imprecise > 0 -> "degraded"
      [] r.status = "partial" /\ r.missing = 0 /\ r.imprecise = 0 /\ r.open > 0 /\ l = "typescript"
           -> "unresolved"
      [] OTHER -> "unavailable"

\* The row of a language switched off without a gate is marked, when it is there.
SwitchedOff(l) == project.mode[l] = "off" /\ l \notin Demanded
Reported(l) ==
    IF row[l].status = "absent" /\ SwitchedOff(l) /\ l \in project.there
    THEN "disabled" ELSE Class(l, row[l])

GapOfDemanded(l) == row[l].status = "absent" /\ l \in Demanded
Gap(l) == row[l].status = "absent" /\ ~SwitchedOff(l) /\ (l \in project.there \/ l \in Demanded)

\* The files a language answers for: all but those build constraints leave out.
InScope(l) == Of(l, IF l = "go" THEN Kinds \ {"ignored"} ELSE Kinds)

-----------------------------------------------------------------------------
(* Properties *)

\* Every variable has its type, and a child runs only while its extractor waits.
ExtractTypeOK ==
    /\ project # NoProject =>
         project.mode \in [Langs -> Modes] /\ project.there \subseteq Langs /\ DOMAIN project.files = Langs
    /\ at \in 1..Len(Order) + 1
    /\ Working => stage \in 0..Len(Stages[Lang])
    /\ child \in {"none", "running", "hung"}
    /\ child # "none" => Working /\ stage > 0 /\ NeedsChild(Current)
    /\ cancelled \in BOOLEAN
    /\ DOMAIN row = Langs /\ DOMAIN seen = Langs
    /\ \A l \in Langs : row[l].status \in {"pending", "ok", "partial", "absent"}
    /\ errs \subseteq Langs

\* What the graph lacks is disclosed, whatever failed, hung or was cancelled on the
\* way: a file whose imports are not all in the graph has a partial row, a coverage
\* gap, or a language the config switches off (markDisabledPrimaries,
\* buildCoverageGaps).
MissingIsDisclosed ==
    project # NoProject =>
      \A l \in project.there :
        row[l].status # "pending" /\ InScope(l) \ seen[l] # {} =>
          Reported(l) \in {"unresolved", "unavailable", "disabled"} \/ Gap(l)

\* The rows keep what `Check` takes for granted of an observation (Observation); its
\* trees have more to them than this one.
NoTree == [there |-> {}]
Promise == INSTANCE Observation WITH
    Unresolved <- {"typescript"},
    Degraded <- {"go"},
    NoTree <- NoTree,
    tree <- IF project = NoProject THEN NoTree
            ELSE [there |-> project.there,
                  inScope |-> [l \in Langs |-> InScope(l)],
                  off |-> {l \in Langs : SwitchedOff(l)},
                  on |-> {l \in Langs : project.mode[l] = "on"}],
    row <- [l \in Langs |-> IF project = NoProject THEN "pending" ELSE Reported(l)]
ImplementsObservation == Promise!Spec

\* Every acquisition ends, for its children run under a deadline; only the Go load
\* has none, and waits for as long as its `go list` does.
AcquireEnds ==
    project # NoProject ~> ~Working \/ (child = "hung" /\ Lang = "go")
=============================================================================
