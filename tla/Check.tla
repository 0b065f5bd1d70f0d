------------------------------- MODULE Check -------------------------------
(***************************************************************************)
(* The verdict on a change: `archfit check --base` and the `archfit        *)
(* baseline` and `baseline --reanchor` that decide which debt it forgives. *)
(*                                                                         *)
(* A check reads the working tree and a checkout of the base through the   *)
(* same dependency producers, any of which may be missing or incomplete on *)
(* either side.  It gives each violation it sees a status (status.Assign)  *)
(* and an origin (decision.ClassifyOrigins), groups them into repairs and  *)
(* judges the change (agentout.judge) and the repository (state.Decide).   *)
(*                                                                         *)
(* The model keeps what is true of the two trees, which the program never  *)
(* sees, beside what a run observed of them: the properties relate both.   *)
(***************************************************************************)
CONSTANTS
    Violations, \* what a fail-gated rule reports: one import under one rule
    EdgeOf,     \* the import of a violation
    Rules,
    RuleOf,     \* the rule of a violation
    Tools,      \* the dependency producers, one for each language
    ToolOf,     \* the producer of the language a rule is about
    GateOf,     \* languages.<x>.gate
    Off,        \* the producers whose language the config switches off
    Unresolved, \* whose partial runs are of unresolved specifiers (dependency-cruiser)
    Degraded,   \* whose partial runs may only lose precision (go/packages)
    RequireTools,
    Initial,    \* the languages there at first
    Added,      \* the languages a change may add or drop
    Waivable,   \* the violations an owner may waive
    NoRun

Rows == {"ok", "absent", "disabled", "unresolved", "degraded", "unavailable"}
Evidence == [row: [Tools -> Rows], seen: SUBSET Violations]

ASSUME CheckAssumption ==
    /\ RuleOf \in [Violations -> Rules]
    /\ ToolOf \in [Rules -> Tools]
    /\ DOMAIN EdgeOf = Violations
    /\ GateOf \in [Tools -> {"unset", "warn", "fail", "off"}]
    /\ Off \subseteq Tools /\ Unresolved \subseteq Tools /\ Degraded \subseteq Tools
    /\ RequireTools \in BOOLEAN
    /\ Initial \subseteq Tools /\ Added \subseteq Tools
    /\ Waivable \subseteq Violations
    /\ NoRun \notin [kind: {"check"}, head: Evidence, base: Evidence]
    /\ NoRun \notin [kind: {"capture", "reanchor"}, head: Evidence]

VARIABLES
    head,     \* the working tree: its languages and the violations in it
    base,     \* the commit the change is compared with
    waiver,   \* the waiver of each violation
    accepted, \* the findings the baseline file accepts
    run       \* the run in progress: what it was asked for and what it observed

vars == <<head, base, waiver, accepted, run>>

Tool(v) == ToolOf[RuleOf[v]]

Tree == [langs: SUBSET Tools, has: SUBSET Violations]

Runs == [kind: {"check"}, head: Evidence, base: Evidence]
          \cup [kind: {"capture", "reanchor"}, head: Evidence]

-----------------------------------------------------------------------------
(* What a run observes of a tree *)

\* Whether an absent producer is a gap: its language is not switched off, and is
\* there or was asked about by an explicit gate.
Demanded(t) == GateOf[t] \in {"warn", "fail"}
SwitchedOff(t) == t \in Off /\ GateOf[t] = "unset"
DemandedGap(t, T) == Demanded(t)
HasGap(t, T) == ~SwitchedOff(t) /\ (t \in T.langs \/ Demanded(t))

\* A producer switched off over a language that is there says so; over one that
\* is not, it is absent like any other.
MarkedUnprobed(t, T) == IF SwitchedOff(t) THEN "disabled" ELSE "absent"
MarkedOff(t, T) == IF SwitchedOff(t) /\ t \in T.langs THEN "disabled" ELSE "absent"

\* The coverage rows the producer may report.
RowsOf(t, T) ==
    IF t \in Off \/ t \notin T.langs THEN {MarkedOff(t, T)}
    ELSE {"ok", "absent", "unavailable"}
           \cup (IF t \in Unresolved THEN {"unresolved"} ELSE {})
           \cup (IF t \in Degraded THEN {"degraded"} ELSE {})

\* A complete run sees every violation of its language; one that resolved,
\* typed or finished only a part may miss any of them, and one that did not run
\* misses all.
Observed(T, e) ==
    /\ \A t \in Tools : e.row[t] \in RowsOf(t, T)
    /\ e.seen \subseteq T.has
    /\ \A v \in T.has :
         /\ e.row[Tool(v)] = "ok" => v \in e.seen
         /\ v \in e.seen => e.row[Tool(v)] \notin {"absent", "disabled"}

Observations(T) ==
    {e \in [row: {f \in [Tools -> Rows] : \A t \in Tools : f[t] \in RowsOf(t, T)},
            seen: SUBSET T.has] : Observed(T, e)}

Complete(T, e) == \A t \in T.langs : e.row[t] = "ok"

-----------------------------------------------------------------------------
(* Status: status.Assign *)

StatusOf(v, acc) ==
    CASE v \in acc             -> "baseline"
      [] waiver[v] = "valid"   -> "waived"
      [] waiver[v] = "expired" -> "expired_waiver"
      [] OTHER                 -> "new"

Active(v, acc) == StatusOf(v, acc) \in {"new", "expired_waiver"}

\* What the run reports as fixed: accepted, and not seen.
Fixed == accepted \ run.head.seen

\* The repair tasks: one for each active gate finding.
Tasks == {v \in run.head.seen : Active(v, accepted)}

-----------------------------------------------------------------------------
(* Origin: decision.ClassifyOrigins *)

\* A gapless absent row says the language is not in the tree.
Normal(t, T, e) ==
    IF e.row[t] = "absent" /\ ~HasGap(t, T) THEN "not_applicable" ELSE e.row[t]

\* Whether the two sides of a producer rest on equivalent evidence, and whether
\* that evidence is degraded in the same way on both.
Symmetric == {"unresolved", "degraded", "absent"}
PairAbsent(h, b) ==
    \/ h = b /\ h # "unavailable"
    \/ "ok" \in {h, b} /\ {h, b} \cap {"not_applicable", "absent"} # {}
Pairs(h, b) ==
    \/ h = b /\ h # "unavailable"
    \/ {h, b} = {"ok", "not_applicable"}

HeadEvidence(t) == Normal(t, head, run.head)
BaseEvidence(t) == Normal(t, base, run.base)
PairFamily(t) == Pairs(HeadEvidence(t), BaseEvidence(t))

Paired == \A t \in Tools : PairFamily(t)

\* The producers that pair in a degraded form, which origin_reasons discloses.
DegradedAlike == {t \in Tools : PairFamily(t) /\ HeadEvidence(t) \in Symmetric}

Origin(v) ==
    IF v \in run.base.seen THEN "pre_existing"
    ELSE IF Paired THEN "introduced" ELSE "unknown"

Resolved == IF Paired THEN run.base.seen \ run.head.seen ELSE {}

-----------------------------------------------------------------------------
(* Judgement: agentout.Build, evaluation.buildState, state.Decide *)

\* The tasks on one import are one repair.  It is out of scope only when every
\* one of them exists at the base.
AnyPreExisting(origins) ==
    IF "pre_existing" \in origins THEN "pre_existing" ELSE "introduced"
MergeOrigins(origins) ==
    IF origins = {"pre_existing"} THEN "pre_existing"
    ELSE IF "introduced" \in origins THEN "introduced" ELSE "unknown"

RepairOrigin(v) ==
    MergeOrigins({Origin(w) : w \in {w \in Tasks : EdgeOf[w] = EdgeOf[v]}})
Blockers == {v \in Tasks : RepairOrigin(v) # "pre_existing"}

\* A gap fails its gate when the config or --require-tools says so.
GateFails ==
    \E t \in Tools :
      /\ run.head.row[t] = "absent" /\ HasGap(t, head)
      /\ GateOf[t] = "fail" \/ (RequireTools /\ GateOf[t] # "off")

\* A rule has a result once a finding names it, whatever its status.
Fired(r) == \E v \in run.head.seen \cup Fixed : RuleOf[v] = r

\* A rule has a scope while its language is there and declared in scope: one
\* switched off without an explicit gate is not.
Applicable(r) == ToolOf[r] \in head.langs /\ ~SwitchedOff(ToolOf[r])
EvaluatedIfRan(r) ==
    Applicable(r) => Fired(r) \/ run.head.row[ToolOf[r]] \in {"ok", "unresolved"}
Evaluated(r) ==
    Applicable(r) => Fired(r) \/ run.head.row[ToolOf[r]] = "ok"

Unevaluated == {r \in Rules : ~Evaluated(r)}

Change ==
    IF Blockers # {} THEN "fail"
    ELSE IF GateFails \/ Unevaluated # {} THEN "unknown" ELSE "pass"

\* Structure is measured when every producer that applies completed; the other
\* dimensions are taken as measured, without which no verdict is healthy.
Applies(t) == ~(run.head.row[t] = "absent" /\ ~HasGap(t, head))
Measured == /\ \E t \in Tools : Applies(t)
            /\ \A t \in Tools : Applies(t) => run.head.row[t] = "ok"

Verdict ==
    IF Tasks # {} \/ GateFails THEN "blocked"
    ELSE IF Unevaluated # {} \/ ~Measured THEN "needs_attention" ELSE "healthy"

-----------------------------------------------------------------------------
(* The steps *)

Init ==
    /\ head \in {T \in Tree : T.langs = Initial /\ T.has \subseteq
                    {v \in Violations : Tool(v) \in Initial}}
    /\ base = head
    /\ waiver = [v \in Violations |-> "none"]
    /\ accepted = {}
    /\ run = NoRun

\* A change adds or removes a violation, or the project files of a language.
Edit(v) ==
    /\ run = NoRun
    /\ Tool(v) \in head.langs
    /\ head' = [head EXCEPT !.has = IF v \in @ THEN @ \ {v} ELSE @ \cup {v}]
    /\ UNCHANGED <<base, waiver, accepted, run>>

ChangeLanguage(t) ==
    /\ run = NoRun
    /\ \A v \in head.has : Tool(v) # t
    /\ head' = [head EXCEPT !.langs = IF t \in @ THEN @ \ {t} ELSE @ \cup {t}]
    /\ UNCHANGED <<base, waiver, accepted, run>>

\* The change lands, and the next one is compared with it.
Land ==
    /\ run = NoRun
    /\ base' = head
    /\ UNCHANGED <<head, waiver, accepted, run>>

\* An owner writes or removes a waiver; it expires as time passes.
Waive(v, w) ==
    /\ run = NoRun
    /\ w = "expired" => waiver[v] = "valid"
    /\ waiver' = [waiver EXCEPT ![v] = w]
    /\ UNCHANGED <<head, base, accepted, run>>

CheckChange ==
    /\ run = NoRun
    /\ \E h \in Observations(head), b \in Observations(base) :
         run' = [kind |-> "check", head |-> h, base |-> b]
    /\ UNCHANGED <<head, base, waiver, accepted>>

\* What a capture accepts, and what it leaves to its waiver.  A capture runs
\* with no baseline.
Captured(e) == {v \in e.seen : StatusOf(v, {}) \notin {"waived", "expired_waiver"}}
Waived(e) == e.seen \ Captured(e)

Capture ==
    /\ run = NoRun
    /\ \E h \in Observations(head) :
         /\ accepted' = Captured(h)
         /\ run' = [kind |-> "capture", head |-> h]
    /\ UNCHANGED <<head, base, waiver>>

\* A re-anchor keeps what the stored file accepted and the capture saw, even
\* under a waiver.
KeptCaptured(e) == accepted \cap Captured(e)
Kept(e) == accepted \cap (Captured(e) \cup Waived(e))

Reanchor ==
    /\ run = NoRun
    /\ \E h \in Observations(head) :
         /\ accepted' = Kept(h)
         /\ run' = [kind |-> "reanchor", head |-> h]
    /\ UNCHANGED <<head, base, waiver>>

\* The command prints its report and exits.
Exit ==
    /\ run # NoRun
    /\ run' = NoRun
    /\ UNCHANGED <<head, base, waiver, accepted>>

Next ==
    \/ \E v \in Violations : Edit(v)
    \/ \E t \in Added : ChangeLanguage(t)
    \/ Land
    \/ \E v \in Waivable, w \in {"none", "valid", "expired"} : Waive(v, w)
    \/ CheckChange
    \/ Capture
    \/ Reanchor
    \/ Exit

Spec == Init /\ [][Next]_vars

-----------------------------------------------------------------------------
(* Properties *)

\* Every variable has its type, a tree has the language of each violation in it,
\* and a run reports no producer as switched off over a tree without its
\* language, which would read as blindness to a language that is not there.
TypeOK ==
    /\ head \in Tree /\ base \in Tree
    /\ \A v \in head.has : Tool(v) \in head.langs
    /\ \A v \in base.has : Tool(v) \in base.langs
    /\ waiver \in [Violations -> {"none", "valid", "expired"}]
    /\ accepted \subseteq Violations
    /\ run \in Runs \cup {NoRun}
    /\ run # NoRun =>
         \A t \in Tools : run.head.row[t] = "disabled" => t \in head.langs

Checked == run # NoRun /\ run.kind = "check"

\* A finding called pre-existing is at the base.  One called introduced that is
\* at the base as well went unseen there only because its producer was degraded
\* alike on both sides, and origin_reasons names that producer.
BlameIsSound ==
    Checked => \A v \in run.head.seen :
      /\ Origin(v) = "pre_existing" => v \in base.has
      /\ Origin(v) = "introduced" /\ v \in base.has => Tool(v) \in DegradedAlike

\* A finding called resolved that is still in the tree went unseen only because
\* its producer was degraded alike on both sides, and origin_reasons names it.
ResolvedIsSound ==
    Checked => \A v \in Resolved \cap head.has : Tool(v) \in DegradedAlike

\* No check blames a change for what the base holds, or credits it with a
\* repair it did not make, except where it says its evidence is degraded.
OriginsAreSound == BlameIsSound /\ ResolvedIsSound

\* A change that passes hides no violation of its own: what it adds is accepted
\* or waived, or its rule already reports another finding, or the config
\* switched its language off.
NoBlockerPasses ==
    Checked /\ Change = "pass" =>
      \A v \in head.has \ base.has :
        \/ ~Active(v, accepted)
        \/ v \notin run.head.seen /\ (Fired(RuleOf[v]) \/ SwitchedOff(Tool(v)))

\* When every producer completed on both sides, the verdict on the change is
\* exact: it fails when the change adds an unforgiven violation, and passes
\* otherwise, whatever the base owes.
ExactWhenComplete ==
    Checked /\ Complete(head, run.head) /\ Complete(base, run.base) /\ ~GateFails =>
      Change = IF \E v \in head.has \ base.has : Active(v, accepted)
               THEN "fail" ELSE "pass"

\* A healthy repository holds nothing but forgiven violations, and no language
\* that went unread.
HealthyIsClean ==
    Checked /\ Verdict = "healthy" =>
      /\ head.langs \cap Off = {}
      /\ \A v \in head.has : ~Active(v, accepted)

\* Neither verdict of a check is green over a violation its evidence missed.
GreenIsSound == NoBlockerPasses /\ HealthyIsClean

\* What a complete run finds that the baseline does not accept.
Owed(acc) == head.has \ acc

\* Right after a complete capture, the only blockers left are those whose
\* waiver expired: a temporary exemption never becomes accepted debt.
CaptureLeavesWaivers ==
    run # NoRun /\ run.kind = "capture" /\ Complete(head, run.head) =>
      Owed(accepted) = {v \in head.has : waiver[v] # "none"}

\* A re-anchor forgives nothing new, and a complete one forgives as much as the
\* file before it, whatever becomes of the waivers afterwards.
KeepsDebt ==
    run' # NoRun /\ run'.kind = "reanchor" =>
      /\ Owed(accepted) \subseteq Owed(accepted')
      /\ Complete(head, run'.head) => Owed(accepted') = Owed(accepted)

\* Accepted debt is what an owner accepted: neither a temporary exemption nor a
\* run that only moves the anchor adds to it.
DebtIsDeliberate == [][CaptureLeavesWaivers' /\ KeepsDebt]_vars

\* agentout.go on ChangePass and ChangeUnknown: a change passes when "no
\* evidence is missing", and missing evidence "never passes".  Every rule has
\* then its producer's complete evidence, or a finding that this run observed.
MissingEvidenceNeverPasses ==
    Checked /\ Change = "pass" =>
      \A r \in Rules :
        \/ ~Applicable(r)
        \/ run.head.row[ToolOf[r]] = "ok"
        \/ \E v \in run.head.seen : RuleOf[v] = r
=============================================================================
