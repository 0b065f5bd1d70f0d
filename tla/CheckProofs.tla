---------------------------- MODULE CheckProofs ----------------------------
(***************************************************************************)
(* Every property of Check that TLC checks, for any violations, rules and  *)
(* producers.  What a run observed stays an observation of the two trees   *)
(* until it exits, for nothing moves under it (EvidenceInv); each property *)
(* of a verdict is then a fact about one state.  The second part proves of *)
(* AgentResult that an agent is told what blocks it: a result that is cut  *)
(* counts what it left out of the one that was assembled (DigestInv).  The *)
(* third part proves of HookInstall that an install keeps what is a        *)
(* person's, whatever is in the file it merges.                            *)
(***************************************************************************)
EXTENDS Check, AgentResult, HookInstall, FiniteSetTheorems, SequenceTheorems, TLAPS

USE DEF Tree, Evidence, Runs

\* What a run in progress observed, and what a capture stored, is what the
\* trees and the waivers made of it.
EvidenceInv ==
    /\ run # NoRun => run.head \in Observations(head)
    /\ Checked => run.base \in Observations(base)
    /\ run # NoRun /\ run.kind = "capture" => accepted = Captured(run.head)

-----------------------------------------------------------------------------

\* An observation is evidence, and an observed one.
LEMMA ObservationsObserve ==
    ASSUME NEW T \in Tree, NEW e \in Observations(T)
    PROVE  e \in Evidence /\ Observed(T, e)
BY DEF Observations

\* The producer of a violation is a producer.
LEMMA ToolType == \A v \in Violations : RuleOf[v] \in Rules /\ Tool(v) \in Tools
BY CheckAssumption DEF Tool

\* Over a tree that has its language, no producer reads as not applicable: one
\* switched off is marked as such, and one that is absent is a gap.
LEMMA PresentIsNormal ==
    ASSUME NEW T \in Tree, NEW e \in Observations(T),
           NEW t \in Tools, t \in T.langs
    PROVE  /\ Normal(t, T, e) = e.row[t]
           /\ e.row[t] = "absent" => HasGap(t, T)
           /\ e.row[t] \in Rows
<1>1. e \in Evidence /\ e.row[t] \in RowsOf(t, T)
  BY ObservationsObserve DEF Observed
<1>2. e.row[t] = "absent" => HasGap(t, T)
  <2>1. CASE SwitchedOff(t)
    BY <1>1, <2>1 DEF RowsOf, MarkedOff, SwitchedOff
  <2>2. CASE ~SwitchedOff(t)
    BY <2>2 DEF HasGap
  <2> QED BY <2>1, <2>2
<1> QED BY <1>1, <1>2 DEF Normal

\* A producer that missed a violation of the tree did not complete.
LEMMA UnseenIsIncomplete ==
    ASSUME NEW T \in Tree, NEW e \in Observations(T),
           NEW v \in T.has, v \notin e.seen, Tool(v) \in T.langs
    PROVE  /\ Normal(Tool(v), T, e) = e.row[Tool(v)]
           /\ e.row[Tool(v)] \in Rows \ {"ok"}
<1>1. Tool(v) \in Tools
  BY ToolType
<1>2. e.row[Tool(v)] # "ok"
  BY ObservationsObserve DEF Observed
<1> QED BY <1>1, <1>2, PresentIsNormal

\* A producer that reported a violation ran.
LEMMA SeenRan ==
    ASSUME NEW T \in Tree, NEW e \in Observations(T),
           NEW v \in e.seen, Tool(v) \in T.langs
    PROVE  /\ v \in T.has
           /\ Normal(Tool(v), T, e) = e.row[Tool(v)]
           /\ e.row[Tool(v)] \in Rows \ {"absent", "disabled"}
<1>1. v \in T.has /\ e.row[Tool(v)] \notin {"absent", "disabled"}
  BY ObservationsObserve DEF Observed
<1>2. Tool(v) \in Tools
  BY <1>1, ToolType
<1> QED BY <1>1, <1>2, PresentIsNormal

\* When each language of a tree has a complete producer, everything is seen.
LEMMA CompleteSeesAll ==
    ASSUME NEW T \in Tree, NEW e \in Observations(T), Complete(T, e),
           \A v \in T.has : Tool(v) \in T.langs
    PROVE  e.seen = T.has
<1>1. e.seen \subseteq T.has
  BY ObservationsObserve DEF Observed
<1>2. ASSUME NEW v \in T.has PROVE v \in e.seen
  BY <1>2, UnseenIsIncomplete DEF Complete
<1> QED BY <1>1, <1>2

\* Two producers of which one saw and the other missed a violation pair only
\* when both are degraded alike.
LEMMA OnlyDegradedPairs ==
    ASSUME NEW h \in Rows \ {"absent", "disabled"}, NEW b \in Rows \ {"ok"}
    PROVE  Pairs(h, b) \/ Pairs(b, h) => h = b /\ h \in Symmetric
BY DEF Pairs, Rows, Symmetric

-----------------------------------------------------------------------------
(* The trees, the baseline and the evidence of a run. *)

\* A tree has the language of each violation in it.
LEMMA TreeLanguages ==
    TypeOK => /\ head \in Tree /\ base \in Tree
              /\ \A v \in head.has : Tool(v) \in head.langs
              /\ \A v \in base.has : Tool(v) \in base.langs
BY DEF TypeOK

\* No run is NoRun, so a run that has begun has a kind.
LEMMA RunsBegin == NoRun \notin Runs
BY CheckAssumption

\* An observation of the working tree reports a producer as switched off only
\* over its language.
LEMMA DisabledIsPresent ==
    ASSUME NEW T \in Tree, NEW e \in Observations(T),
           NEW t \in Tools, e.row[t] = "disabled"
    PROVE  t \in T.langs
<1>1. e.row[t] \in RowsOf(t, T)
  BY ObservationsObserve DEF Observed
<1> QED BY <1>1 DEF RowsOf, MarkedOff

\* The types at first.
LEMMA InitTypes == Init => TypeOK /\ EvidenceInv
<1> SUFFICES ASSUME Init PROVE TypeOK /\ EvidenceInv
  OBVIOUS
<1>1. run = NoRun /\ accepted = {} /\ head \in Tree /\ base = head
  BY DEF Init
<1>2. \A v \in head.has : Tool(v) \in head.langs
  BY DEF Init
<1>3. waiver \in [Violations -> {"none", "valid", "expired"}]
  BY DEF Init
<1>4. EvidenceInv
  BY <1>1 DEF EvidenceInv, Checked
<1> QED BY <1>1, <1>2, <1>3, <1>4 DEF TypeOK

\* The steps between runs leave no run, and with it no evidence.
LEMMA NoEvidence == run' = NoRun => EvidenceInv'
BY DEF EvidenceInv, Checked

\* Each step keeps the types, and what a run observed.
LEMMA StepKeeps ==
    TypeOK /\ EvidenceInv /\ [Next]_vars => TypeOK' /\ EvidenceInv'
<1> SUFFICES ASSUME TypeOK, EvidenceInv, [Next]_vars PROVE TypeOK' /\ EvidenceInv'
  OBVIOUS
<1>1. ASSUME NEW v \in Violations, Edit(v) PROVE TypeOK' /\ EvidenceInv'
  <2>1. /\ head' = [head EXCEPT !.has = IF v \in @ THEN @ \ {v} ELSE @ \cup {v}]
        /\ Tool(v) \in head.langs /\ run' = NoRun
        /\ UNCHANGED <<base, waiver, accepted>>
    BY <1>1 DEF Edit
  <2>2. head' \in Tree /\ head'.langs = head.langs /\ head'.has \subseteq head.has \cup {v}
    BY <2>1, TreeLanguages
  <2>3. \A w \in head'.has : Tool(w) \in head'.langs
    BY <2>1, <2>2, TreeLanguages
  <2>4. TypeOK'
    BY <2>1, <2>2, <2>3 DEF TypeOK, Tool
  <2> QED BY <2>1, <2>4, NoEvidence
<1>2. ASSUME NEW t \in Added, ChangeLanguage(t) PROVE TypeOK' /\ EvidenceInv'
  <2>1. /\ head' = [head EXCEPT !.langs = IF t \in @ THEN @ \ {t} ELSE @ \cup {t}]
        /\ \A v \in head.has : Tool(v) # t
        /\ run' = NoRun /\ UNCHANGED <<base, waiver, accepted>>
    BY <1>2 DEF ChangeLanguage
  <2>2. t \in Tools
    BY CheckAssumption
  <2>3. /\ head' \in Tree /\ head'.has = head.has
        /\ head.langs \ {t} \subseteq head'.langs
    BY <2>1, <2>2, TreeLanguages
  <2>4. \A w \in head'.has : Tool(w) \in head'.langs
    BY <2>1, <2>3, TreeLanguages
  <2>5. TypeOK'
    BY <2>1, <2>3, <2>4 DEF TypeOK, Tool
  <2> QED BY <2>1, <2>5, NoEvidence
<1>3. CASE Land
  BY <1>3, NoEvidence DEF Land, TypeOK, Tool
<1>4. ASSUME NEW v \in Waivable, NEW w \in {"none", "valid", "expired"}, Waive(v, w)
      PROVE  TypeOK' /\ EvidenceInv'
  BY <1>4, NoEvidence DEF Waive, TypeOK, Tool
<1>5. CASE CheckChange
  <2>1. PICK h \in Observations(head), b \in Observations(base) :
            run' = [kind |-> "check", head |-> h, base |-> b]
    BY <1>5 DEF CheckChange
  <2>2. UNCHANGED <<head, base, waiver, accepted>>
    BY <1>5 DEF CheckChange
  <2>3. h \in Evidence /\ b \in Evidence
    BY ObservationsObserve, TreeLanguages
  <2>4. run' \in Runs /\ run'.head = h /\ run'.base = b /\ run'.kind = "check"
    BY <2>1, <2>3
  <2>5. \A t \in Tools : h.row[t] = "disabled" => t \in head.langs
    BY DisabledIsPresent, TreeLanguages
  <2>6. TypeOK'
    BY <2>2, <2>4, <2>5 DEF TypeOK, Tool
  <2>7. Observations(head)' = Observations(head) /\ Observations(base)' = Observations(base)
    BY <2>2 DEF Observations, Observed, RowsOf, MarkedOff, SwitchedOff, Tool
  <2>8. EvidenceInv'
    BY <2>4, <2>7 DEF EvidenceInv, Checked
  <2> QED BY <2>6, <2>8
<1>6. ASSUME NEW h \in Observations(head), NEW k \in {"capture", "reanchor"},
             run' = [kind |-> k, head |-> h],
             UNCHANGED <<head, base, waiver>>,
             accepted' \subseteq h.seen,
             k = "capture" => accepted' = Captured(h)
      PROVE  TypeOK' /\ EvidenceInv'
  <2>1. h \in Evidence
    BY ObservationsObserve, TreeLanguages
  <2>2. run' \in Runs /\ run'.head = h /\ run'.kind = k
    BY <1>6, <2>1
  <2>3. \A t \in Tools : h.row[t] = "disabled" => t \in head.langs
    BY DisabledIsPresent, TreeLanguages
  <2>4. TypeOK'
    BY <1>6, <2>1, <2>2, <2>3 DEF TypeOK, Tool
  <2>5. Observations(head)' = Observations(head)
    BY <1>6 DEF Observations, Observed, RowsOf, MarkedOff, SwitchedOff, Tool
  <2>6. Captured(run.head)' = Captured(h)
    BY <1>6, <2>2 DEF Captured, StatusOf
  <2>7. EvidenceInv'
    BY <1>6, <2>2, <2>5, <2>6 DEF EvidenceInv, Checked
  <2> QED BY <2>4, <2>7
<1>7. CASE Capture
  <2>1. PICK h \in Observations(head) :
            accepted' = Captured(h) /\ run' = [kind |-> "capture", head |-> h]
    BY <1>7 DEF Capture
  <2>2. UNCHANGED <<head, base, waiver>> /\ Captured(h) \subseteq h.seen
    BY <1>7 DEF Capture, Captured
  <2> QED BY <2>1, <2>2, <1>6
<1>8. CASE Reanchor
  <2>1. PICK h \in Observations(head) :
            accepted' = Kept(h) /\ run' = [kind |-> "reanchor", head |-> h]
    BY <1>8 DEF Reanchor
  <2>2. UNCHANGED <<head, base, waiver>> /\ Kept(h) \subseteq h.seen
    BY <1>8 DEF Reanchor, Kept, Captured, Waived
  <2> QED BY <2>1, <2>2, <1>6
<1>9. CASE Exit
  BY <1>9, NoEvidence DEF Exit, TypeOK, Tool
<1>10. CASE UNCHANGED vars
  BY <1>10 DEF vars, TypeOK, Tool, EvidenceInv, Checked, Observations, Observed,
               RowsOf, MarkedOff, SwitchedOff, Captured, StatusOf
<1> QED BY <1>1, <1>2, <1>3, <1>4, <1>5, <1>7, <1>8, <1>9, <1>10 DEF Next

\* Every variable keeps its type, and no producer reads as switched off over a
\* tree without its language, whatever the trees become (markDisabledPrimaries).
THEOREM TypeCorrect == Spec => []TypeOK
<1>1. Spec => [](TypeOK /\ EvidenceInv)
  BY InitTypes, StepKeeps, PTL DEF Spec
<1> QED BY <1>1, PTL

\* What a run observed is an observation of the trees as they are.
LEMMA EvidenceHolds == Spec => [](TypeOK /\ EvidenceInv)
BY InitTypes, StepKeeps, PTL DEF Spec

-----------------------------------------------------------------------------
(* What a verdict says of the trees. *)

\* The evidence of a check.
LEMMA CheckEvidence ==
    ASSUME TypeOK, EvidenceInv, Checked
    PROVE  /\ run.head \in Observations(head) /\ run.base \in Observations(base)
           /\ run.head \in Evidence /\ run.base \in Evidence
           /\ run.head.seen \subseteq head.has /\ run.base.seen \subseteq base.has
           /\ head.has \subseteq Violations /\ base.has \subseteq Violations
<1>1. run.head \in Observations(head) /\ run.base \in Observations(base)
  BY DEF EvidenceInv, Checked
<1> QED BY <1>1, ObservationsObserve, TreeLanguages DEF Observed

\* A finding is blamed on the right side of the comparison: what is called
\* pre-existing is at the base, and what is called introduced and is there too
\* went unseen by a producer degraded alike on both sides (ClassifyOrigins).
THEOREM BlameHolds == Spec => []BlameIsSound
<1>1. ASSUME TypeOK, EvidenceInv PROVE BlameIsSound
  <2> SUFFICES ASSUME Checked, NEW v \in run.head.seen
               PROVE  /\ Origin(v) = "pre_existing" => v \in base.has
                      /\ Origin(v) = "introduced" /\ v \in base.has =>
                           Tool(v) \in DegradedAlike
    BY DEF BlameIsSound
  <2>1. Origin(v) = "pre_existing" => v \in base.has
    BY <1>1, CheckEvidence DEF Origin
  <2>2. ASSUME Origin(v) = "introduced", v \in base.has
        PROVE  Tool(v) \in DegradedAlike
    <3>1. v \notin run.base.seen /\ Paired
      BY <2>2 DEF Origin
    <3>2. v \in head.has /\ Tool(v) \in head.langs /\ Tool(v) \in base.langs
      BY <1>1, <2>2, CheckEvidence, TreeLanguages
    <3>3. Tool(v) \in Tools
      BY <1>1, <3>2, CheckEvidence, ToolType
    <3>4. HeadEvidence(Tool(v)) \in Rows \ {"absent", "disabled"}
      BY <1>1, <3>2, CheckEvidence, TreeLanguages, SeenRan DEF HeadEvidence
    <3>5. BaseEvidence(Tool(v)) \in Rows \ {"ok"}
      BY <1>1, <2>2, <3>1, <3>2, CheckEvidence, TreeLanguages, UnseenIsIncomplete
      DEF BaseEvidence
    <3>6. PairFamily(Tool(v))
      BY <3>1, <3>3 DEF Paired
    <3>7. HeadEvidence(Tool(v)) \in Symmetric
      BY <3>4, <3>5, <3>6, OnlyDegradedPairs DEF PairFamily
    <3> QED BY <3>3, <3>6, <3>7 DEF DegradedAlike
  <2> QED BY <2>1, <2>2
<1> QED BY <1>1, EvidenceHolds, PTL

\* A finding called resolved is gone, unless a producer degraded alike on both
\* sides missed it this time (ClassifyOrigins).
THEOREM ResolvedHolds == Spec => []ResolvedIsSound
<1>1. ASSUME TypeOK, EvidenceInv PROVE ResolvedIsSound
  <2> SUFFICES ASSUME Checked, NEW v \in Resolved \cap head.has
               PROVE  Tool(v) \in DegradedAlike
    BY DEF ResolvedIsSound
  <2>1. v \in run.base.seen /\ v \notin run.head.seen /\ Paired
    BY DEF Resolved
  <2>2. v \in base.has /\ Tool(v) \in head.langs /\ Tool(v) \in base.langs
    BY <1>1, <2>1, CheckEvidence, TreeLanguages
  <2>3. Tool(v) \in Tools
    BY <1>1, <2>2, CheckEvidence, ToolType
  <2>4. BaseEvidence(Tool(v)) \in Rows \ {"absent", "disabled"}
    BY <1>1, <2>1, <2>2, CheckEvidence, TreeLanguages, SeenRan DEF BaseEvidence
  <2>5. HeadEvidence(Tool(v)) \in Rows \ {"ok"}
    BY <1>1, <2>1, <2>2, CheckEvidence, TreeLanguages, UnseenIsIncomplete
    DEF HeadEvidence
  <2>6. PairFamily(Tool(v))
    BY <2>1, <2>3 DEF Paired
  <2>7. HeadEvidence(Tool(v)) \in Symmetric
    BY <2>4, <2>5, <2>6, OnlyDegradedPairs DEF PairFamily
  <2> QED BY <2>3, <2>6, <2>7 DEF DegradedAlike
<1> QED BY <1>1, EvidenceHolds, PTL

\* The origin of every finding of a check is sound (ClassifyOrigins).
THEOREM OriginsHold == Spec => []OriginsAreSound
BY BlameHolds, ResolvedHolds, PTL DEF OriginsAreSound

\* A repair is out of scope only when each of its tasks exists at the base.
LEMMA OutOfScope ==
    ASSUME NEW v \in Tasks, v \notin Blockers,
           NEW w \in Tasks, EdgeOf[w] = EdgeOf[v]
    PROVE  Origin(w) = "pre_existing"
BY DEF Blockers, RepairOrigin, MergeOrigins

\* A change that passes added nothing unforgiven that its run could tell
\* (agentout.judge): a blocker in scope fails it, and a rule that no finding
\* names is only taken for clean on complete evidence.
THEOREM PassIsSound == Spec => []NoBlockerPasses
<1>1. ASSUME TypeOK, EvidenceInv PROVE NoBlockerPasses
  <2> SUFFICES ASSUME Checked, Change = "pass",
                      NEW v \in head.has \ base.has, Active(v, accepted)
               PROVE  /\ v \notin run.head.seen
                      /\ Fired(RuleOf[v]) \/ SwitchedOff(Tool(v))
    BY DEF NoBlockerPasses
  <2>1. Blockers = {} /\ Unevaluated = {}
    BY DEF Change
  <2>2. v \notin run.head.seen
    <3> SUFFICES ASSUME v \in run.head.seen PROVE FALSE
      OBVIOUS
    <3>1. v \in Tasks
      BY DEF Tasks
    <3>2. Origin(v) = "pre_existing"
      BY <2>1, <3>1, OutOfScope
    <3> QED BY <1>1, <3>2, CheckEvidence DEF Origin
  <2>3. Tool(v) \in head.langs /\ RuleOf[v] \in Rules
    BY <1>1, CheckEvidence, TreeLanguages, ToolType
  <2>4. run.head.row[Tool(v)] # "ok"
    BY <1>1, <2>2, <2>3, CheckEvidence, TreeLanguages, UnseenIsIncomplete
  <2>5. Evaluated(RuleOf[v])
    BY <2>1, <2>3 DEF Unevaluated
  <2> QED BY <2>2, <2>3, <2>4, <2>5 DEF Evaluated, Applicable, Tool
<1> QED BY <1>1, EvidenceHolds, PTL

\* On complete evidence the verdict on the change is exact: it fails for what
\* the change adds and for nothing else.
THEOREM CompleteIsExact == Spec => []ExactWhenComplete
<1>1. ASSUME TypeOK, EvidenceInv PROVE ExactWhenComplete
  <2> SUFFICES ASSUME Checked, Complete(head, run.head),
                      Complete(base, run.base), ~GateFails
               PROVE  Change = IF \E v \in head.has \ base.has : Active(v, accepted)
                               THEN "fail" ELSE "pass"
    BY DEF ExactWhenComplete
  <2>1. run.head.seen = head.has /\ run.base.seen = base.has
    BY <1>1, CheckEvidence, TreeLanguages, CompleteSeesAll
  <2>2. ASSUME NEW v \in head.has \ base.has, Active(v, accepted)
        PROVE  Blockers # {}
    <3>1. v \in Tasks
      BY <2>1, <2>2 DEF Tasks
    <3>2. Origin(v) # "pre_existing"
      BY <2>1, <2>2 DEF Origin
    <3> QED BY <3>1, <3>2, OutOfScope
  <2>3. ASSUME NEW v \in Blockers
        PROVE  \E w \in head.has \ base.has : Active(w, accepted)
    <3> DEFINE Group == {w \in Tasks : EdgeOf[w] = EdgeOf[v]}
    <3>1. v \in Group /\ MergeOrigins({Origin(w) : w \in Group}) # "pre_existing"
      BY <2>3 DEF Blockers, RepairOrigin
    <3>2. PICK w \in Group : Origin(w) # "pre_existing"
      <4> SUFFICES ASSUME \A w \in Group : Origin(w) = "pre_existing" PROVE FALSE
        OBVIOUS
      <4>1. {Origin(w) : w \in Group} = {"pre_existing"}
        BY <3>1
      <4> QED BY <3>1, <4>1 DEF MergeOrigins
    <3>3. w \in head.has /\ Active(w, accepted) /\ w \notin base.has
      BY <2>1, <3>2 DEF Tasks, Origin
    <3> QED BY <3>3
  <2>4. Unevaluated = {}
    BY DEF Unevaluated, Evaluated, Applicable, Complete
  <2> QED BY <2>2, <2>3, <2>4 DEF Change
<1> QED BY <1>1, EvidenceHolds, PTL

\* A healthy repository was read in full and holds nothing unforgiven
\* (state.Decide: missing evidence never becomes green by omission).
THEOREM HealthyHolds == Spec => []HealthyIsClean
<1>1. ASSUME TypeOK, EvidenceInv PROVE HealthyIsClean
  <2> SUFFICES ASSUME Checked, Verdict = "healthy"
               PROVE  /\ head.langs \cap Off = {}
                      /\ \A v \in head.has : ~Active(v, accepted)
    BY DEF HealthyIsClean
  <2>1. Tasks = {} /\ Measured
    BY DEF Verdict
  <2>2. ASSUME NEW t \in head.langs PROVE run.head.row[t] = "ok"
    <3>1. t \in Tools /\ (run.head.row[t] = "absent" => HasGap(t, head))
      BY <1>1, <2>2, CheckEvidence, TreeLanguages, PresentIsNormal
    <3>2. Applies(t)
      BY <3>1 DEF Applies
    <3> QED BY <2>1, <3>1, <3>2 DEF Measured
  <2>3. ASSUME NEW t \in head.langs \cap Off PROVE FALSE
    <3>1. run.head.row[t] \in RowsOf(t, head)
      BY <1>1, <2>3, CheckEvidence, TreeLanguages, ObservationsObserve DEF Observed
    <3> QED BY <2>2, <2>3, <3>1 DEF RowsOf, MarkedOff
  <2>4. run.head.seen = head.has
    BY <1>1, <2>2, CheckEvidence, TreeLanguages, CompleteSeesAll DEF Complete
  <2> QED BY <2>1, <2>3, <2>4 DEF Tasks
<1> QED BY <1>1, EvidenceHolds, PTL

\* A passing change and a healthy repository hide nothing (judge, state.Decide).
THEOREM GreenHolds == Spec => []GreenIsSound
BY PassIsSound, HealthyHolds, PTL DEF GreenIsSound

-----------------------------------------------------------------------------
(* What a baseline forgives. *)

\* A capture leaves what a waiver covers to the waiver, even an expired one
\* (BaselineService.Execute).
THEOREM CaptureHolds == Spec => []CaptureLeavesWaivers
<1>1. ASSUME TypeOK, EvidenceInv PROVE CaptureLeavesWaivers
  <2> SUFFICES ASSUME run # NoRun, run.kind = "capture", Complete(head, run.head)
               PROVE  Owed(accepted) = {v \in head.has : waiver[v] # "none"}
    BY DEF CaptureLeavesWaivers
  <2>1. run.head \in Observations(head) /\ accepted = Captured(run.head)
    BY <1>1 DEF EvidenceInv
  <2>2. run.head.seen = head.has
    BY <1>1, <2>1, TreeLanguages, CompleteSeesAll
  <2>3. ASSUME NEW v \in head.has
        PROVE  v \in Captured(run.head) <=> waiver[v] = "none"
    <3>1. waiver[v] \in {"none", "valid", "expired"}
      BY <1>1 DEF TypeOK
    <3> QED BY <2>2, <3>1 DEF Captured, StatusOf
  <2> QED BY <2>1, <2>3 DEF Owed
<1> QED BY <1>1, EvidenceHolds, PTL

\* A re-anchor carries the accepted debt over: it forgives nothing new, and on
\* complete evidence loses nothing, waived or not (reanchor).
THEOREM ReanchorHolds == Spec => [][KeepsDebt]_vars
<1>1. ASSUME TypeOK, EvidenceInv, [Next]_vars
      PROVE  [KeepsDebt]_vars
  <2> SUFFICES ASSUME Next, run' # NoRun, run'.kind = "reanchor"
               PROVE  /\ Owed(accepted) \subseteq Owed(accepted')
                      /\ Complete(head, run'.head) => Owed(accepted') = Owed(accepted)
    BY <1>1 DEF KeepsDebt
  <2>1. Reanchor
    BY DEF Next, Edit, ChangeLanguage, Land, Waive, CheckChange, Capture, Exit
  <2>2. PICK h \in Observations(head) : accepted' = Kept(h) /\ run' = [kind |-> "reanchor", head |-> h]
    BY <2>1 DEF Reanchor
  <2>3. accepted' = accepted \cap h.seen
    BY <2>2 DEF Kept, Captured, Waived
  <2>4. Complete(head, run'.head) => h.seen = head.has
    BY <1>1, <2>2, TreeLanguages, CompleteSeesAll
  <2> QED BY <2>3, <2>4 DEF Owed
<1> QED BY <1>1, EvidenceHolds, PTL DEF Spec

\* No command widens the accepted debt by itself (BaselineService.Execute, reanchor).
THEOREM DebtHolds == Spec => DebtIsDeliberate
BY CaptureHolds, ReanchorHolds, PTL DEF DebtIsDeliberate
-----------------------------------------------------------------------------
(* The result an agent is told (AgentResult) *)

\* The values of a function on a finite set are finitely many.
LEMMA ImageIsFinite ==
    ASSUME NEW S, IsFiniteSet(S), NEW g, g = [x \in S |-> g[x]]
    PROVE  IsFiniteSet({g[x] : x \in S}) /\ Cardinality({g[x] : x \in S}) <= Cardinality(S)
<1>1. g \in Surjection(S, {g[x] : x \in S})
  BY DEF Surjection
<1> QED BY <1>1, FS_Surjection

\* In a strict order of a finite set, as many come before an element as its place says,
\* and every place is some element's.
IsStrictOrder(L, S) ==
    /\ \A x \in S : <<x, x>> \notin L
    /\ \A x, y, z \in S : <<x, y>> \in L /\ <<y, z>> \in L => <<x, z>> \in L
    /\ \A x, y \in S : x # y => <<x, y>> \in L \/ <<y, x>> \in L
Preceding(L, S, x) == {y \in S : <<y, x>> \in L}
Place(L, S) == [x \in S |-> Cardinality(Preceding(L, S, x))]

\* What precedes in a strict order has fewer before it.
LEMMA PlaceGrows ==
    ASSUME NEW S, IsFiniteSet(S), NEW L, IsStrictOrder(L, S), NEW x \in S, NEW y \in S, <<x, y>> \in L
    PROVE  Cardinality(Preceding(L, S, x)) < Cardinality(Preceding(L, S, y))
<1>1. Preceding(L, S, x) \subseteq Preceding(L, S, y) /\ x \in Preceding(L, S, y) /\ x \notin Preceding(L, S, x)
  BY DEF Preceding, IsStrictOrder
<1>2. IsFiniteSet(Preceding(L, S, y)) /\ IsFiniteSet(Preceding(L, S, x))
  BY FS_Subset DEF Preceding
<1>3. Cardinality(Preceding(L, S, x)) <= Cardinality(Preceding(L, S, y)) /\ Cardinality(Preceding(L, S, x)) # Cardinality(Preceding(L, S, y))
  BY <1>1, <1>2, FS_Subset
<1>4. Cardinality(Preceding(L, S, x)) \in Nat /\ Cardinality(Preceding(L, S, y)) \in Nat
  BY <1>2, FS_CardinalityType
<1> QED BY <1>3, <1>4

\* In a finite strict order every place is taken, and by one alone.
LEMMA PlacesAreTaken ==
    ASSUME NEW S, IsFiniteSet(S), NEW L, IsStrictOrder(L, S)
    PROVE  /\ \A x \in S : Cardinality(Preceding(L, S, x)) \in 0..(Cardinality(S) - 1)
           /\ \A x, y \in S : Cardinality(Preceding(L, S, x)) = Cardinality(Preceding(L, S, y)) => x = y
           /\ \A n \in 0..(Cardinality(S) - 1) : \E x \in S : Cardinality(Preceding(L, S, x)) = n
<1> DEFINE T == 0..(Cardinality(S) - 1)
<1>0. Cardinality(S) \in Nat
  BY FS_CardinalityType
<1>1. ASSUME NEW x \in S PROVE Cardinality(Preceding(L, S, x)) \in T
  <2>1. Preceding(L, S, x) \in SUBSET S /\ Preceding(L, S, x) # S
    BY DEF Preceding, IsStrictOrder
  <2>2. IsFiniteSet(Preceding(L, S, x)) /\ Cardinality(Preceding(L, S, x)) <= Cardinality(S) /\ Cardinality(S) # Cardinality(Preceding(L, S, x))
    BY <2>1, FS_Subset
  <2>3. Cardinality(Preceding(L, S, x)) \in Nat
    BY <2>2, FS_CardinalityType
  <2> QED BY <2>2, <2>3, <1>0
<1>2. ASSUME NEW x \in S, NEW y \in S, x # y PROVE Cardinality(Preceding(L, S, x)) # Cardinality(Preceding(L, S, y))
  <2>0. Cardinality(Preceding(L, S, x)) \in Int /\ Cardinality(Preceding(L, S, y)) \in Int
    BY <1>1
  <2>1. CASE <<x, y>> \in L
    BY <2>0, <2>1, PlaceGrows
  <2>2. CASE <<y, x>> \in L
    BY <2>0, <2>2, PlaceGrows
  <2> QED BY <1>2, <2>1, <2>2 DEF IsStrictOrder
<1>3. Place(L, S) \in Injection(S, T)
  <2>1. Place(L, S) \in [S -> T]
    BY <1>1 DEF Place
  <2>2. \A x, y \in S : Place(L, S)[x] = Place(L, S)[y] => x = y
    BY <1>2 DEF Place
  <2> QED BY <2>1, <2>2 DEF Injection, IsInjective
<1>4. IsFiniteSet(T) /\ Cardinality(T) = Cardinality(S)
  BY <1>0, FS_Interval
<1>5. Place(L, S) \in Surjection(S, T)
  BY <1>3, <1>4, FS_Injection
<1>6. \A n \in T : \E x \in S : Place(L, S)[x] = n
  BY <1>5 DEF Surjection
<1> QED BY <1>1, <1>2, <1>6 DEF Place

\* A finite strict order has a first.
LEMMA FirstOfOrder ==
    ASSUME NEW S, IsFiniteSet(S), S # {}, NEW L, IsStrictOrder(L, S)
    PROVE  \E x \in S : \A y \in S : <<y, x>> \notin L
<1>1. 0 \in 0..(Cardinality(S) - 1)
  BY FS_CardinalityType, FS_EmptySet
<1>2. \A n \in 0..(Cardinality(S) - 1) : \E x \in S : Cardinality(Preceding(L, S, x)) = n
  BY PlacesAreTaken
<1>3. PICK x \in S : Cardinality(Preceding(L, S, x)) = 0
  BY <1>1, <1>2
<1>4. IsFiniteSet(Preceding(L, S, x))
  BY FS_Subset DEF Preceding
<1>5. Preceding(L, S, x) = {}
  BY <1>3, <1>4, FS_EmptySet
<1> QED BY <1>5 DEF Preceding

\* A finite set of integers that has any has a least and a greatest.
LEMMA LeastAndGreatest ==
    ASSUME NEW S \in SUBSET Int, IsFiniteSet(S), S # {}
    PROVE  (\E x \in S : \A y \in S : x <= y) /\ (\E x \in S : \A y \in S : y <= x)
<1> DEFINE L == {p \in S \X S : p[1] < p[2]}
           G == {p \in S \X S : p[1] > p[2]}
<1>1. \A x, y \in S : (<<x, y>> \in L <=> x < y) /\ (<<x, y>> \in G <=> x > y)
  OBVIOUS
<1> HIDE DEF L, G
<1>2. IsStrictOrder(L, S) /\ IsStrictOrder(G, S)
  BY <1>1 DEF IsStrictOrder
<1>3. PICK x \in S : \A y \in S : <<y, x>> \notin L
  BY <1>2, FirstOfOrder
<1>4. PICK g \in S : \A y \in S : <<y, g>> \notin G
  BY <1>2, FirstOfOrder
<1>5. \A y \in S : x <= y
  <2> TAKE y \in S
  <2>1. ~(y < x) /\ x \in Int /\ y \in Int
    BY <1>1, <1>3
  <2> QED BY <2>1
<1>6. \A y \in S : y <= g
  <2> TAKE y \in S
  <2>1. ~(y > g) /\ g \in Int /\ y \in Int
    BY <1>1, <1>4
  <2> QED BY <2>1
<1> QED BY <1>5, <1>6

\* An order of names numbers each with an integer of its own.
Numbers(order) ==
    /\ IsFiniteSet(DOMAIN order)
    /\ \A p, q \in DOMAIN order : order[p] \in Int /\ (order[p] = order[q] => p = q)

\* Paths apart by their numbers are strictly ordered by them.
LEMMA NumbersOrder ==
    ASSUME NEW order, Numbers(order), NEW ps \in SUBSET DOMAIN order
    PROVE  \E L : /\ IsStrictOrder(L, ps)
                  /\ \A p \in ps : NamesBefore(order, ps, p) = Preceding(L, ps, p)
<1> DEFINE L == {e \in ps \X ps : order[e[1]] < order[e[2]]}
<1>1. \A p, q \in ps : <<p, q>> \in L <=> order[p] < order[q]
  OBVIOUS
<1> HIDE DEF L
<1>2. \A p, q \in ps : order[p] \in Int /\ (order[p] = order[q] => p = q)
  BY DEF Numbers
<1>3. IsStrictOrder(L, ps)
  BY <1>1, <1>2 DEF IsStrictOrder
<1>4. \A p \in ps : NamesBefore(order, ps, p) = Preceding(L, ps, p)
  BY <1>1 DEF NamesBefore, Preceding
<1> QED BY <1>3, <1>4

\* A sequence that has a choice at each of n places is a sequence of what is chosen.
LEMMA PlacesMakeSequence ==
    ASSUME NEW n \in Nat, NEW s, s = [i \in 1..n |-> s[i]], NEW S, \A i \in 1..n : s[i] \in S
    PROVE  s \in Seq(S) /\ Len(s) = n /\ DOMAIN s = 1..n
OBVIOUS

\* A list in order holds every name once.
LEMMA InOrderHolds ==
    ASSUME NEW order, Numbers(order), NEW ps \in SUBSET DOMAIN order
    PROVE  /\ InOrder(order, ps) \in Seq(ps)
           /\ \A p \in ps : \E n \in DOMAIN InOrder(order, ps) : InOrder(order, ps)[n] = p
<1> DEFINE size == Cardinality(ps)
           s == InOrder(order, ps)
<1>1. IsFiniteSet(ps) /\ size \in Nat
  BY FS_Subset, FS_CardinalityType DEF Numbers
<1>2. PICK L : IsStrictOrder(L, ps) /\ \A p \in ps : NamesBefore(order, ps, p) = Preceding(L, ps, p)
  BY NumbersOrder
<1>3. /\ \A p \in ps : Cardinality(NamesBefore(order, ps, p)) \in 0..(size - 1)
      /\ \A p, q \in ps : Cardinality(NamesBefore(order, ps, p)) = Cardinality(NamesBefore(order, ps, q)) => p = q
      /\ \A k \in 0..(size - 1) : \E p \in ps : Cardinality(NamesBefore(order, ps, p)) = k
  BY <1>1, <1>2, PlacesAreTaken
<1>4. s = [n \in 1..size |-> s[n]] /\ \A n \in 1..size : s[n] = CHOOSE p \in ps : Cardinality(NamesBefore(order, ps, p)) = n - 1
  BY DEF InOrder
<1>5. ASSUME NEW n \in 1..size
      PROVE  s[n] \in ps /\ Cardinality(NamesBefore(order, ps, s[n])) = n - 1
  <2>1. n - 1 \in 0..(size - 1)
    BY <1>1
  <2>2. PICK p \in ps : Cardinality(NamesBefore(order, ps, p)) = n - 1
    BY <1>3, <2>1
  <2> QED BY <1>4, <2>2
<1> HIDE DEF s
<1>6. s \in Seq(ps) /\ DOMAIN s = 1..size
  BY <1>1, <1>4, <1>5, PlacesMakeSequence
<1>7. ASSUME NEW p \in ps PROVE \E n \in DOMAIN s : s[n] = p
  <2> DEFINE n == Cardinality(NamesBefore(order, ps, p)) + 1
  <2>1. n \in 1..size /\ n - 1 = Cardinality(NamesBefore(order, ps, p))
    BY <1>1, <1>3
  <2> HIDE DEF n
  <2>2. s[n] = p
    BY <1>3, <1>5, <2>1
  <2> QED BY <1>6, <2>1, <2>2
<1> QED BY <1>6, <1>7 DEF s

\* As many come first as the cap allows, and no more.
LEMMA CapIsKeptFirst ==
    ASSUME NEW order, Numbers(order), NEW ps \in SUBSET DOMAIN order, NEW cap \in Nat
    PROVE  Cardinality({p \in ps : Cardinality(NamesBefore(order, ps, p)) < cap}) <= cap
<1> DEFINE F == {p \in ps : Cardinality(NamesBefore(order, ps, p)) < cap}
           place == [p \in F |-> Cardinality(NamesBefore(order, ps, p))]
<1>1. IsFiniteSet(ps)
  BY FS_Subset DEF Numbers
<1>2. PICK L : IsStrictOrder(L, ps) /\ \A p \in ps : NamesBefore(order, ps, p) = Preceding(L, ps, p)
  BY NumbersOrder
<1>3. /\ \A p \in ps : Cardinality(NamesBefore(order, ps, p)) \in 0..(Cardinality(ps) - 1)
      /\ \A p, q \in ps : Cardinality(NamesBefore(order, ps, p)) = Cardinality(NamesBefore(order, ps, q)) => p = q
  BY <1>1, <1>2, PlacesAreTaken
<1>4. place \in [F -> 0..(cap - 1)]
  BY <1>3
<1>5. \A p, q \in F : place[p] = place[q] => p = q
  BY <1>3
<1>6. place \in Injection(F, 0..(cap - 1))
  BY <1>4, <1>5 DEF Injection, IsInjective
<1>7. IsFiniteSet(0..(cap - 1)) /\ Cardinality(0..(cap - 1)) = cap
  BY FS_Interval
<1> QED BY <1>6, <1>7, FS_Injection

\* What is kept is as many items, each one of them.
LEMMA KeptHolds ==
    ASSUME NEW U, NEW items \in Seq(U), NEW K \in SUBSET DOMAIN items
    PROVE  ItemsAt(items, K) \in Seq(U)
<1> DEFINE s == ItemsAt(items, K)
           Low(k) == {j \in K : j < k}
<1>0. DOMAIN items = 1..Len(items) /\ Len(items) \in Nat
  OBVIOUS
<1>1. IsFiniteSet(K) /\ Cardinality(K) \in Nat /\ K \subseteq Int
  <2>1. IsFiniteSet(1..Len(items))
    BY <1>0, FS_Interval
  <2>2. IsFiniteSet(K)
    BY <1>0, <2>1, FS_Subset
  <2> QED BY <1>0, <2>2, FS_CardinalityType
<1>2. \E L : IsStrictOrder(L, K) /\ \A k \in K : Low(k) = Preceding(L, K, k)
  <2> DEFINE L == {e \in K \X K : e[1] < e[2]}
  <2>1. \A j, k \in K : <<j, k>> \in L <=> j < k
    OBVIOUS
  <2> HIDE DEF L
  <2>2. IsStrictOrder(L, K)
    BY <1>1, <2>1 DEF IsStrictOrder
  <2>3. \A k \in K : Low(k) = Preceding(L, K, k)
    BY <2>1 DEF Preceding
  <2> QED BY <2>2, <2>3
<1>3. \A n \in 0..(Cardinality(K) - 1) : \E k \in K : Cardinality(Low(k)) = n
  <2>1. PICK L : IsStrictOrder(L, K) /\ \A k \in K : Low(k) = Preceding(L, K, k)
    BY <1>2
  <2>2. \A n \in 0..(Cardinality(K) - 1) : \E k \in K : Cardinality(Preceding(L, K, k)) = n
    BY <1>1, <2>1, PlacesAreTaken
  <2> HIDE DEF Low
  <2> QED BY <2>1, <2>2
<1>4. \A n \in 1..Cardinality(K) : (CHOOSE k \in K : Cardinality(Low(k)) = n - 1) \in K
  <2> TAKE n \in 1..Cardinality(K)
  <2>1. n - 1 \in 0..(Cardinality(K) - 1)
    BY <1>1
  <2>2. PICK k \in K : Cardinality(Low(k)) = n - 1
    BY <1>3, <2>1
  <2> QED BY <2>2
<1>5. s = [n \in 1..Cardinality(K) |-> items[CHOOSE k \in K : Cardinality(Low(k)) = n - 1]]
  BY DEF ItemsAt
<1>6. \A n \in 1..Cardinality(K) : s[n] \in U
  <2> TAKE n \in 1..Cardinality(K)
  <2> DEFINE k == CHOOSE k \in K : Cardinality(Low(k)) = n - 1
  <2>1. s[n] = items[k] /\ k \in 1..Len(items)
    BY <1>0, <1>4, <1>5
  <2> HIDE DEF k, s
  <2> QED BY <2>1
<1>7. s = [n \in 1..Cardinality(K) |-> s[n]]
  BY <1>5
<1> HIDE DEF s
<1>8. s \in Seq(U)
  BY <1>1, <1>6, <1>7, PlacesMakeSequence
<1> QED BY <1>8 DEF s

\* Repairs to put in order: whole, and apart by the findings they name.
AreRepairs(rs) ==
    /\ IsFiniteSet(rs)
    /\ \A r \in rs :
         /\ r.inScope \in BOOLEAN /\ r.kind \in {"code_change", "needs_owner_decision"} /\ r.severity \in Int
         /\ IsFiniteSet(r.ids) /\ r.ids \subseteq Int /\ r.ids # {}
    /\ \A r, s \in rs : r # s => r.ids \cap s.ids = {}

\* The least of the ids is one of them.
LEMMA LeastIdHolds ==
    ASSUME NEW ids \in SUBSET Int, IsFiniteSet(ids), ids # {}
    PROVE  LeastId(ids) \in ids
BY LeastAndGreatest DEF LeastId

\* Repairs with ids of their own are strictly ordered by what goes first.
LEMMA RepairsOrder ==
    ASSUME NEW rs, AreRepairs(rs)
    PROVE  \E L : /\ IsStrictOrder(L, rs)
                  /\ \A r, s \in rs : <<r, s>> \in L <=> repairLess(r, s)
                  /\ \A r \in rs : Ahead(rs, r) = Preceding(L, rs, r)
<1> DEFINE L == {e \in rs \X rs : repairLess(e[1], e[2])}
<1>1. \A r, s \in rs : <<r, s>> \in L <=> repairLess(r, s)
  OBVIOUS
<1> HIDE DEF L
<1>2. /\ \A r \in rs : LeastId(r.ids) \in Int
      /\ \A r, s \in rs : LeastId(r.ids) = LeastId(s.ids) => r = s
  <2>1. \A r \in rs : LeastId(r.ids) \in r.ids /\ LeastId(r.ids) \in Int
    BY LeastIdHolds DEF AreRepairs
  <2> QED BY <2>1 DEF AreRepairs
<1>3. \A r \in rs : r.inScope \in BOOLEAN /\ r.kind \in {"code_change", "needs_owner_decision"} /\ r.severity \in Int
  BY DEF AreRepairs
<1>4. IsStrictOrder(L, rs)
  <2>1. \A r \in rs : ~repairLess(r, r)
    BY <1>2, <1>3 DEF repairLess
  <2>2. ASSUME NEW r \in rs, NEW s \in rs, NEW t \in rs, repairLess(r, s), repairLess(s, t) PROVE repairLess(r, t)
    <3>1. /\ r.inScope \in BOOLEAN /\ s.inScope \in BOOLEAN /\ t.inScope \in BOOLEAN
          /\ r.kind \in {"code_change", "needs_owner_decision"} /\ s.kind \in {"code_change", "needs_owner_decision"}
          /\ t.kind \in {"code_change", "needs_owner_decision"}
          /\ r.severity \in Int /\ s.severity \in Int /\ t.severity \in Int
          /\ LeastId(r.ids) \in Int /\ LeastId(s.ids) \in Int /\ LeastId(t.ids) \in Int
      BY <1>2, <1>3
    <3> QED BY <2>2, <3>1 DEF repairLess
  <2>3. ASSUME NEW r \in rs, NEW s \in rs, r # s PROVE repairLess(r, s) \/ repairLess(s, r)
    <3>1. /\ r.inScope \in BOOLEAN /\ s.inScope \in BOOLEAN
          /\ r.kind \in {"code_change", "needs_owner_decision"} /\ s.kind \in {"code_change", "needs_owner_decision"}
          /\ r.severity \in Int /\ s.severity \in Int
          /\ LeastId(r.ids) \in Int /\ LeastId(s.ids) \in Int /\ LeastId(r.ids) # LeastId(s.ids)
      BY <1>2, <1>3, <2>3
    <3> QED BY <3>1 DEF repairLess
  <2> QED BY <1>1, <2>1, <2>2, <2>3 DEF IsStrictOrder
<1>5. \A r \in rs : Ahead(rs, r) = Preceding(L, rs, r)
  BY <1>1 DEF Ahead, Preceding
<1> QED BY <1>1, <1>4, <1>5

\* The list of repairs holds each once, and none before one that goes first.
LEMMA RankedHolds ==
    ASSUME NEW rs, AreRepairs(rs)
    PROVE  /\ Ranked(rs) \in Seq(rs)
           /\ \A r \in rs : \E n \in DOMAIN Ranked(rs) : Ranked(rs)[n] = r
           /\ \A n, k \in DOMAIN Ranked(rs) : Ranked(rs)[n] = Ranked(rs)[k] => n = k
           /\ \A n, k \in DOMAIN Ranked(rs) : n < k => ~repairLess(Ranked(rs)[k], Ranked(rs)[n])
<1> DEFINE size == Cardinality(rs)
           s == Ranked(rs)
           place(r) == Cardinality(Ahead(rs, r))
<1>1. IsFiniteSet(rs) /\ size \in Nat
  BY FS_CardinalityType DEF AreRepairs
<1>2. PICK L : /\ IsStrictOrder(L, rs)
               /\ \A r, q \in rs : <<r, q>> \in L <=> repairLess(r, q)
               /\ \A r \in rs : Ahead(rs, r) = Preceding(L, rs, r)
  BY RepairsOrder
<1>3. /\ \A r \in rs : place(r) \in 0..(size - 1)
      /\ \A r, q \in rs : place(r) = place(q) => r = q
      /\ \A n \in 0..(size - 1) : \E r \in rs : place(r) = n
  BY <1>1, <1>2, PlacesAreTaken
<1>4. \A r, q \in rs : repairLess(r, q) => place(r) < place(q)
  BY <1>1, <1>2, PlaceGrows
<1>5. s = [n \in 1..size |-> s[n]] /\ \A n \in 1..size : s[n] = CHOOSE r \in rs : place(r) = n - 1
  BY DEF Ranked
<1> HIDE DEF s, place
<1>6. ASSUME NEW n \in 1..size PROVE s[n] \in rs /\ place(s[n]) = n - 1
  <2>1. n - 1 \in 0..(size - 1)
    BY <1>1
  <2>2. PICK r \in rs : place(r) = n - 1
    BY <1>3, <2>1
  <2> QED BY <1>5, <2>2
<1>7. s \in Seq(rs) /\ DOMAIN s = 1..size
  BY <1>1, <1>5, <1>6, PlacesMakeSequence
<1>8. ASSUME NEW r \in rs PROVE \E n \in DOMAIN s : s[n] = r
  <2>1. place(r) + 1 \in 1..size /\ (place(r) + 1) - 1 = place(r)
    BY <1>1, <1>3
  <2>2. place(s[place(r) + 1]) = place(r) /\ s[place(r) + 1] \in rs
    BY <1>6, <2>1
  <2> QED BY <1>3, <1>7, <2>1, <2>2
<1>9. \A n, k \in DOMAIN s : s[n] = s[k] => n = k
  <2> TAKE n, k \in DOMAIN s
  <2> HAVE s[n] = s[k]
  <2>1. n - 1 = k - 1 /\ n \in Int /\ k \in Int
    BY <1>6, <1>7
  <2> QED BY <2>1
<1>10. \A n, k \in DOMAIN s : n < k => ~repairLess(s[k], s[n])
  <2> TAKE n, k \in DOMAIN s
  <2> HAVE n < k
  <2>1. place(s[n]) = n - 1 /\ place(s[k]) = k - 1 /\ n \in Int /\ k \in Int /\ s[n] \in rs /\ s[k] \in rs
    BY <1>6, <1>7
  <2>2. ~(place(s[k]) < place(s[n]))
    BY <2>1
  <2> QED BY <1>4, <2>1, <2>2
<1> QED BY <1>7, <1>8, <1>9, <1>10 DEF s

\* A task is that of its finding, and names paths that have a place.
LEMMA TasksHold ==
    ASSUME NEW a, IsAssessment(a)
    PROVE  /\ IsFiniteSet(TasksOf(a)) /\ Numbers(a.tree.order)
           /\ \A t \in TasksOf(a) :
                /\ t.finding \in ToBlock(a) /\ t.finding \in a.findings /\ t = TaskOf(a, t.finding)
                /\ t.finding.id \in Int /\ t.finding.severity \in Int /\ t.finding.goal \in Nat
                /\ t.kind \in {"code_change", "needs_owner_decision"}
                /\ t.files = filesFor(a.tree, t.finding) /\ t.constraints = constraintsFor(a.public, t.finding)
                /\ t.files \subseteq DOMAIN a.tree.order /\ t.finding.sites \subseteq DOMAIN a.tree.order
           /\ \A t, u \in TasksOf(a) : t.finding.id = u.finding.id => t = u
<1>1. IsFiniteSet(ToBlock(a)) /\ ToBlock(a) \subseteq a.findings
  BY FS_Subset DEF IsAssessment, ToBlock
<1>2. IsFiniteSet(TasksOf(a))
  <2> DEFINE g == [f \in ToBlock(a) |-> TaskOf(a, f)]
  <2>1. g = [f \in ToBlock(a) |-> g[f]] /\ {g[f] : f \in ToBlock(a)} = TasksOf(a)
    BY DEF TasksOf
  <2> HIDE DEF g
  <2> QED BY <1>1, <2>1, ImageIsFinite
<1>3. \A f : /\ TaskOf(a, f).finding = f /\ TaskOf(a, f).files = filesFor(a.tree, f)
             /\ TaskOf(a, f).constraints = constraintsFor(a.public, f)
             /\ TaskOf(a, f).kind \in {"code_change", "needs_owner_decision"}
  BY DEF TaskOf, repairKind
<1>4. ASSUME NEW t \in TasksOf(a)
      PROVE  /\ t.finding \in ToBlock(a) /\ t.finding \in a.findings /\ t = TaskOf(a, t.finding)
             /\ t.kind \in {"code_change", "needs_owner_decision"}
             /\ t.files = filesFor(a.tree, t.finding) /\ t.constraints = constraintsFor(a.public, t.finding)
  <2>1. PICK f \in ToBlock(a) : t = TaskOf(a, f)
    BY DEF TasksOf
  <2> QED BY <1>1, <1>3, <2>1
<1>5. \A f \in a.findings : /\ f.id \in Int /\ f.severity \in Int /\ f.goal \in Nat
                            /\ filesFor(a.tree, f) \subseteq DOMAIN a.tree.order /\ f.sites \subseteq DOMAIN a.tree.order
  BY DEF IsAssessment
<1>6. \A f, g \in a.findings : f.id = g.id => f = g
  BY DEF IsAssessment
<1>7. Numbers(a.tree.order)
  BY DEF IsAssessment, Numbers
<1>8. \A t, u \in TasksOf(a) : t.finding.id = u.finding.id => t = u
  BY <1>4, <1>6
<1> QED BY <1>2, <1>4, <1>5, <1>7, <1>8

\* Tasks of one dependency are tasks of one dependency, in either order and at any remove.
LEMMA SameRepairHolds ==
    /\ \A t : SameRepair(t, t)
    /\ \A t, u : SameRepair(t, u) => SameRepair(u, t)
    /\ \A t, u, v : SameRepair(t, u) /\ SameRepair(u, v) => SameRepair(t, v)
<1>1. \A t, u : SameRepair(t, u) => SameRepair(u, t)
  BY DEF SameRepair
<1>2. \A t, u, v : SameRepair(t, u) /\ SameRepair(u, v) => SameRepair(t, v)
  BY DEF SameRepair
<1> QED BY <1>1, <1>2 DEF SameRepair

\* Origins that are not all of before are merged to one that is not.
LEMMA MergedIsNotOld ==
    ASSUME NEW os, IsFiniteSet(os), NEW o \in os, o # "pre_existing"
    PROVE  mergeOrigins(os) # "pre_existing"
<1>1. CASE Cardinality(os) = 1
  <2>1. os = {o}
    BY <1>1, FS_Singleton
  <2> QED BY <1>1, <2>1 DEF mergeOrigins
<1>2. CASE Cardinality(os) # 1
  BY <1>2 DEF mergeOrigins
<1> QED BY <1>1, <1>2

\* What a repair is.
Repair(a) ==
    [ids : SUBSET Int, kind : {"code_change", "needs_owner_decision"}, inScope : BOOLEAN, severity : Int, goal : Nat,
     at : Nat, edit : Seq(DOMAIN a.tree.order), constraints : Nat,
     atOmitted : Nat, editOmitted : Nat, constraintsOmitted : Nat]

\* The tasks of a finite set have finitely many values of a kind.
LEMMA OfTasksFinite ==
    ASSUME NEW ts, IsFiniteSet(ts)
    PROVE  /\ IsFiniteSet({t.finding.id : t \in ts}) /\ IsFiniteSet({t.finding.severity : t \in ts})
           /\ IsFiniteSet({t.finding.origin : t \in ts}) /\ IsFiniteSet({t.constraints : t \in ts})
<1> DEFINE i == [t \in ts |-> t.finding.id]
           s == [t \in ts |-> t.finding.severity]
           o == [t \in ts |-> t.finding.origin]
           c == [t \in ts |-> t.constraints]
<1>1. /\ i = [t \in ts |-> i[t]] /\ {i[t] : t \in ts} = {t.finding.id : t \in ts}
      /\ s = [t \in ts |-> s[t]] /\ {s[t] : t \in ts} = {t.finding.severity : t \in ts}
      /\ o = [t \in ts |-> o[t]] /\ {o[t] : t \in ts} = {t.finding.origin : t \in ts}
      /\ c = [t \in ts |-> c[t]] /\ {c[t] : t \in ts} = {t.constraints : t \in ts}
  OBVIOUS
<1> HIDE DEF i, s, o, c
<1>2. IsFiniteSet({i[t] : t \in ts}) /\ IsFiniteSet({s[t] : t \in ts})
  BY <1>1, ImageIsFinite
<1>3. IsFiniteSet({o[t] : t \in ts}) /\ IsFiniteSet({c[t] : t \in ts})
  BY <1>1, ImageIsFinite
<1> QED BY <1>1, <1>2, <1>3

\* A finding has finitely many constraints.
LEMMA ConstraintsFinite ==
    ASSUME NEW public, NEW f
    PROVE  IsFiniteSet(constraintsFor(public, f))
<1>1. IsFiniteSet({<<"rule", f.rule>>}) /\ IsFiniteSet({<<"public", f.toModule>>}) /\ IsFiniteSet({})
  BY FS_Singleton, FS_EmptySet
<1>2. IsFiniteSet(IF f.rule \notin ForbidsTarget /\ f.toModule \in public THEN {<<"public", f.toModule>>} ELSE {})
  BY <1>1
<1> QED BY <1>1, <1>2, FS_Union DEF constraintsFor

\* The repair of any tasks of an assessment is one, names their findings, lists the files to
\* edit, and is of this change where any of them may be.
LEMMA RepairIsWhole ==
    ASSUME NEW a, IsAssessment(a), NEW ts \in SUBSET TasksOf(a), ts # {}
    PROVE  /\ buildRepair(a.tree, ts) \in Repair(a)
           /\ buildRepair(a.tree, ts).ids = {t.finding.id : t \in ts}
           /\ IsFiniteSet(buildRepair(a.tree, ts).ids)
           /\ buildRepair(a.tree, ts).edit = InOrder(a.tree.order, editFiles(a.tree, ts))
           /\ editFiles(a.tree, ts) \subseteq DOMAIN a.tree.order
           /\ \A t \in ts : t.finding.origin # "pre_existing" => buildRepair(a.tree, ts).inScope
           /\ buildRepair(a.tree, ts).atOmitted = 0 /\ buildRepair(a.tree, ts).editOmitted = 0
           /\ buildRepair(a.tree, ts).constraintsOmitted = 0
<1> DEFINE order == a.tree.order
           code == {t \in ts : t.kind = "code_change"}
           of == IF code # {} THEN code ELSE ts
           first == CHOOSE t \in of : \A u \in of : t.finding.id <= u.finding.id
           worst == CHOOSE s \in {t.finding.severity : t \in ts} : \A t \in ts : t.finding.severity <= s
           ids == {t.finding.id : t \in ts}
           at == UNION {t.finding.sites : t \in ts}
           kept == UNION {t.constraints : t \in ts}
           r == buildRepair(a.tree, ts)
<1>1. IsFiniteSet(ts) /\ Numbers(order) /\ \A t \in ts : t \in TasksOf(a)
  BY TasksHold, FS_Subset
<1>2. \A t \in ts : /\ t.finding.id \in Int /\ t.finding.severity \in Int /\ t.finding.goal \in Nat
                    /\ t.files \subseteq DOMAIN order /\ t.finding.sites \subseteq DOMAIN order
                    /\ t.constraints = constraintsFor(a.public, t.finding)
  BY <1>1, TasksHold
<1>3. /\ IsFiniteSet(ids) /\ IsFiniteSet({t.finding.severity : t \in ts})
      /\ IsFiniteSet({t.finding.origin : t \in ts}) /\ IsFiniteSet({t.constraints : t \in ts})
  BY <1>1, OfTasksFinite
<1>4. first \in ts /\ first.finding.goal \in Nat
  <2>1. of \subseteq ts /\ of # {} /\ IsFiniteSet(of)
    BY <1>1, FS_Subset
  <2> HIDE DEF of
  <2>2. IsFiniteSet({t.finding.id : t \in of}) /\ {t.finding.id : t \in of} \in SUBSET Int /\ {t.finding.id : t \in of} # {}
    BY <1>2, <2>1, OfTasksFinite
  <2>3. PICK i \in {t.finding.id : t \in of} : \A j \in {t.finding.id : t \in of} : i <= j
    BY <2>2, LeastAndGreatest
  <2>4. \E t \in of : \A u \in of : t.finding.id <= u.finding.id
    BY <2>3
  <2>5. first \in of
    BY <2>4
  <2> QED BY <1>2, <2>1, <2>5
<1>5. worst \in Int
  <2>1. {t.finding.severity : t \in ts} \in SUBSET Int /\ {t.finding.severity : t \in ts} # {}
    BY <1>2
  <2>2. PICK m \in {t.finding.severity : t \in ts} : \A k \in {t.finding.severity : t \in ts} : k <= m
    BY <1>3, <2>1, LeastAndGreatest
  <2>3. \E s \in {t.finding.severity : t \in ts} : \A t \in ts : t.finding.severity <= s
    BY <2>2
  <2>4. worst \in {t.finding.severity : t \in ts}
    BY <2>3
  <2> QED BY <2>1, <2>4
<1>6. Cardinality(at) \in Nat
  <2>1. at \in SUBSET DOMAIN order
    BY <1>2
  <2> QED BY <1>1, <2>1, FS_Subset, FS_CardinalityType DEF Numbers
<1>7. Cardinality(kept) \in Nat
  <2>1. \A c \in {t.constraints : t \in ts} : IsFiniteSet(c)
    BY <1>2, ConstraintsFinite
  <2>2. IsFiniteSet(kept)
    BY <1>3, <2>1, FS_UNION
  <2> QED BY <2>2, FS_CardinalityType
<1>8. editFiles(a.tree, ts) \in SUBSET DOMAIN order
  BY <1>2 DEF editFiles
<1>9. InOrder(order, editFiles(a.tree, ts)) \in Seq(DOMAIN order)
  <2>1. InOrder(order, editFiles(a.tree, ts)) \in Seq(editFiles(a.tree, ts))
    BY <1>1, <1>8, InOrderHolds
  <2> QED BY <1>8, <2>1
<1>10. ids \in SUBSET Int
  BY <1>2
<1>11. r = [ids |-> ids, kind |-> IF code # {} THEN "code_change" ELSE "needs_owner_decision",
            inScope |-> OriginOf(ts) # "pre_existing", severity |-> worst, goal |-> first.finding.goal,
            at |-> Cardinality(at), edit |-> InOrder(order, editFiles(a.tree, ts)), constraints |-> Cardinality(kept),
            atOmitted |-> 0, editOmitted |-> 0, constraintsOmitted |-> 0]
  BY DEF buildRepair
<1> HIDE DEF ids, code, worst, first, at, kept, r
<1>12. r \in Repair(a)
  BY <1>4, <1>5, <1>6, <1>7, <1>9, <1>10, <1>11 DEF Repair
<1>13. r.ids = ids /\ r.edit = InOrder(order, editFiles(a.tree, ts)) /\ r.inScope = (OriginOf(ts) # "pre_existing")
        /\ r.atOmitted = 0 /\ r.editOmitted = 0 /\ r.constraintsOmitted = 0
  BY <1>11
<1>14. \A t \in ts : t.finding.origin # "pre_existing" => OriginOf(ts) # "pre_existing"
  BY <1>3, MergedIsNotOld DEF OriginOf
<1> QED BY <1>3, <1>8, <1>12, <1>13, <1>14 DEF r, ids

\* The repairs of an assessment: each of some tasks, none of a finding of another, and
\* every finding that blocks in one.
LEMMA RepairsHold ==
    ASSUME NEW a, IsAssessment(a)
    PROVE  /\ AreRepairs(buildRepairs(a, TasksOf(a))) /\ buildRepairs(a, TasksOf(a)) \subseteq Repair(a)
           /\ \A r \in buildRepairs(a, TasksOf(a)) : \E ts \in SUBSET TasksOf(a) : ts # {} /\ r = buildRepair(a.tree, ts)
           /\ \A t \in TasksOf(a) : \E r \in buildRepairs(a, TasksOf(a)) : t.finding.id \in r.ids
<1> DEFINE T == TasksOf(a)
           R == buildRepairs(a, T)
           like(t) == {u \in T : SameRepair(t, u)}
           of(t) == buildRepair(a.tree, like(t))
<1>1. \A t \in T : like(t) \in SUBSET T /\ t \in like(t)
  BY SameRepairHolds
<1>2. \A r : r \in R <=> \E t \in T : r = of(t)
  BY DEF buildRepairs
<1>3. \A t, u \in T : SameRepair(t, u) => like(t) = like(u)
  BY SameRepairHolds
<1>4. \A t \in T : \A u : u \in like(t) <=> u \in T /\ SameRepair(t, u)
  OBVIOUS
<1> HIDE DEF R, like
<1>5. \A t \in T : /\ of(t) \in Repair(a) /\ of(t).ids = {u.finding.id : u \in like(t)} /\ IsFiniteSet(of(t).ids)
  BY <1>1, RepairIsWhole
<1>6. \A t \in T : t.finding.id \in of(t).ids
  BY <1>1, <1>5
<1>7. \A t, u \in T : of(t).ids \cap of(u).ids # {} => of(t) = of(u)
  <2> TAKE t, u \in T
  <2> HAVE of(t).ids \cap of(u).ids # {}
  <2>1. PICK v \in like(t), w \in like(u) : v.finding.id = w.finding.id
    BY <1>5
  <2>2. v = w /\ v \in T
    BY <1>1, <2>1, TasksHold
  <2>3. SameRepair(t, v) /\ SameRepair(u, v)
    BY <1>4, <2>1, <2>2
  <2>4. SameRepair(t, u)
    BY <2>3, SameRepairHolds
  <2> QED BY <1>3, <2>4
<1>8. IsFiniteSet(R)
  <2> DEFINE g == [t \in T |-> of(t)]
  <2>1. g = [t \in T |-> g[t]] /\ {g[t] : t \in T} = R
    BY <1>2
  <2>2. IsFiniteSet(T)
    BY TasksHold
  <2> HIDE DEF g, T
  <2> QED BY <2>1, <2>2, ImageIsFinite
<1>9. R \subseteq Repair(a)
  BY <1>2, <1>5
<1>10. \A r \in R : /\ r.inScope \in BOOLEAN /\ r.kind \in {"code_change", "needs_owner_decision"} /\ r.severity \in Int
                    /\ r.ids \subseteq Int
  BY <1>9 DEF Repair
<1>11. \A r \in R : IsFiniteSet(r.ids) /\ r.ids # {}
  BY <1>2, <1>5, <1>6
<1>12. \A r, s \in R : r # s => r.ids \cap s.ids = {}
  BY <1>2, <1>7
<1>13. AreRepairs(R)
  BY <1>8, <1>10, <1>11, <1>12 DEF AreRepairs
<1>14. \A r \in R : \E ts \in SUBSET T : ts # {} /\ r = buildRepair(a.tree, ts)
  <2> TAKE r \in R
  <2>1. PICK t \in T : r = of(t)
    BY <1>2
  <2>2. like(t) \in SUBSET T /\ like(t) # {}
    BY <1>1
  <2> QED BY <2>1, <2>2
<1>15. \A t \in T : \E r \in R : t.finding.id \in r.ids
  BY <1>2, <1>6
<1> QED BY <1>9, <1>13, <1>14, <1>15 DEF R

\* What a result is.
Rule == [id : Nat, why : {"uncovered", "dead_selector", "unmeasured", "lost"}, text : Nat]
Item == [why : {"dead_selector", "unmeasured", "lost", "uncovered", "coupling_gate", "existing_violation", "blocked_without_finding"},
         text : Nat]
Cuts == [blockers : Nat, rules : Nat, attention : Nat]
Result(a) ==
    [blockers : Seq(Repair(a)), existing : SUBSET Int, rules : Seq(Rule), gaps : {a.gaps}, attention : Seq(Item),
     under : Nat, underOmitted : Nat, status : {"pass", "fail", "unknown"},
     next : {"none", "repair", "ask_owner", "restore_evidence"}, notices : SUBSET Int, omitted : Cuts,
     truncated : BOOLEAN, advisories : Nat]

\* What an owner should look at is a list.
LEMMA AttentionIsList ==
    ASSUME NEW a, IsAssessment(a), NEW existing, NEW status
    PROVE  attentionOf(a, existing, status) \in Seq(Item)
<1> DEFINE K == {n \in DOMAIN a.rules : a.rules[n].why \in NotMine}
           notMine == ItemsAt(a.rules, K)
           listed == [n \in DOMAIN notMine |-> [why |-> notMine[n].why, text |-> notMine[n].text]]
           seam == IF a.seamReason THEN <<[why |-> "coupling_gate", text |-> TextLimit]>> ELSE <<>>
           old == IF existing # {} THEN <<[why |-> "existing_violation", text |-> 1]>> ELSE <<>>
           blocked == IF a.blocked /\ status = "pass" /\ existing = {} THEN <<[why |-> "blocked_without_finding", text |-> 1]>> ELSE <<>>
<1>1. notMine \in Seq(Rule)
  <2>1. a.rules \in Seq(Rule) /\ K \in SUBSET DOMAIN a.rules
    BY DEF IsAssessment, Rule
  <2> HIDE DEF K
  <2> QED BY <2>1, KeptHolds
<1>2. listed \in Seq(Item)
  <2> HIDE DEF notMine
  <2>1. DOMAIN notMine = 1..Len(notMine) /\ Len(notMine) \in Nat
    BY <1>1
  <2>2. \A n \in 1..Len(notMine) : listed[n] \in Item
    <3> TAKE n \in 1..Len(notMine)
    <3>1. notMine[n] \in Rule
      BY <1>1
    <3>2. notMine[n].why \in {"uncovered", "dead_selector", "unmeasured", "lost"} /\ notMine[n].text \in Nat
      BY <3>1 DEF Rule
    <3>3. listed[n] = [why |-> notMine[n].why, text |-> notMine[n].text]
      BY <2>1
    <3> HIDE DEF listed
    <3> QED BY <3>2, <3>3 DEF Item
  <2>3. listed = [n \in 1..Len(notMine) |-> listed[n]]
    BY <2>1
  <2> HIDE DEF listed
  <2> QED BY <2>1, <2>2, <2>3, PlacesMakeSequence
<1>3. TextLimit \in Nat
  BY AgentResultAssumption
<1>4. seam \in Seq(Item) /\ old \in Seq(Item) /\ blocked \in Seq(Item)
  <2>1. [why |-> "coupling_gate", text |-> TextLimit] \in Item
    BY <1>3 DEF Item
  <2>2. [why |-> "existing_violation", text |-> 1] \in Item /\ [why |-> "blocked_without_finding", text |-> 1] \in Item
    BY DEF Item
  <2>3. \A x \in Item : <<x>> \in Seq(Item)
    OBVIOUS
  <2>4. <<>> \in Seq(Item)
    OBVIOUS
  <2> QED BY <2>1, <2>2, <2>3, <2>4
<1>5. attentionOf(a, existing, status) = listed \o seam \o old \o blocked
  BY DEF attentionOf
<1> HIDE DEF listed, seam, old, blocked
<1> QED BY <1>2, <1>4, <1>5

Judgements == {<<"fail", "repair">>, <<"fail", "ask_owner">>, <<"unknown", "restore_evidence">>, <<"unknown", "ask_owner">>,
             <<"pass", "none">>}

\* A failure has a blocker, a repair to make is one of code, and a pass has nothing against it.
LEMMA JudgeHolds ==
    ASSUME NEW blockers, NEW gaps, NEW rules, NEW scope
    PROVE  LET v == scopedVerdict(scope, judge(blockers, gaps, rules)) IN
           /\ v \in Judgements /\ judge(blockers, gaps, rules) \in Judgements
           /\ v[1] = "fail" \/ v[2] = "repair" => v = judge(blockers, gaps, rules)
           /\ v[1] = "fail" => blockers # <<>> \/ \E n \in DOMAIN blockers : blockers[n].kind = "code_change"
           /\ v[2] = "repair" => \E n \in DOMAIN blockers : blockers[n].kind = "code_change"
           /\ v[1] = "pass" => blockers = <<>> /\ rules = <<>> /\ scope \notin {"unresolved", "policy_changed", "policy_stale"}
<1> DEFINE j == judge(blockers, gaps, rules)
           v == scopedVerdict(scope, j)
<1>1. /\ j \in Judgements
      /\ j[1] = "fail" => blockers # <<>> \/ \E n \in DOMAIN blockers : blockers[n].kind = "code_change"
      /\ j[2] = "repair" => \E n \in DOMAIN blockers : blockers[n].kind = "code_change"
      /\ j[1] = "pass" => blockers = <<>> /\ rules = <<>>
  BY DEF judge, Judgements
<1> HIDE DEF j
<1>2. v \in {j, <<"unknown", "restore_evidence">>, <<"unknown", "ask_owner">>}
  BY DEF scopedVerdict
<1>3. v[1] = "pass" => v = j /\ scope \notin {"unresolved", "policy_changed", "policy_stale"}
  BY DEF scopedVerdict
<1> HIDE DEF v
<1>4. v \in Judgements /\ (v[1] = "fail" \/ v[2] = "repair" => v = j)
  BY <1>1, <1>2 DEF Judgements
<1> QED BY <1>1, <1>3, <1>4 DEF v, j

\* In a list of repairs of this change that has one of code, the first is one of code.
LEMMA CodeGoesFirst ==
    ASSUME NEW rs, AreRepairs(rs), \A r \in rs : r.inScope,
           NEW n \in DOMAIN Ranked(rs), Ranked(rs)[n].kind = "code_change"
    PROVE  1 \in DOMAIN Ranked(rs) /\ Ranked(rs)[1].kind = "code_change"
<1> DEFINE s == Ranked(rs)
<1>1. s \in Seq(rs) /\ \A k, l \in DOMAIN s : k < l => ~repairLess(s[l], s[k])
  BY RankedHolds
<1> HIDE DEF s
<1>2. n \in DOMAIN s /\ s[n].kind = "code_change"
  BY DEF s
<1>3. 1 \in DOMAIN s /\ n \in Nat /\ (n = 1 \/ 1 < n)
  BY <1>1, <1>2
<1>4. s[1] \in rs /\ s[n] \in rs
  BY <1>1, <1>2, <1>3
<1>5. s[1].kind = "code_change"
  <2> SUFFICES ASSUME s[1].kind # "code_change" PROVE FALSE
    OBVIOUS
  <2>1. 1 < n
    BY <1>2, <1>3
  <2>2. ~repairLess(s[n], s[1])
    BY <1>1, <1>2, <1>3, <2>1
  <2>3. s[1].inScope = s[n].inScope
    BY <1>4 DEF AreRepairs
  <2> QED BY <1>2, <2>2, <2>3 DEF repairLess
<1> QED BY <1>3, <1>5 DEF s

\* A blocker list as it is assembled.
BlockersOf(a) == Ranked(buildRepairs(a, TasksOf(a)) \ {r \in buildRepairs(a, TasksOf(a)) : ~r.inScope})
UnreadRules(a) == ItemsAt(a.rules, {n \in DOMAIN a.rules : a.rules[n].why \notin NotMine})
OldRepairs(a) == {r \in buildRepairs(a, TasksOf(a)) : ~r.inScope}
VerdictFor(a) == scopedVerdict(a.scope, judge(BlockersOf(a), a.gaps, UnreadRules(a)))

\* A result is assembled from its parts.
LEMMA ResultParts ==
    ASSUME NEW a
    PROVE  BuildResult(a, TasksOf(a)) =
             [blockers |-> BlockersOf(a), existing |-> UNION {r.ids : r \in OldRepairs(a)},
              rules |-> UnreadRules(a), gaps |-> a.gaps,
              attention |-> attentionOf(a, OldRepairs(a), judge(BlockersOf(a), a.gaps, UnreadRules(a))[1]),
              under |-> a.under, underOmitted |-> 0,
              status |-> VerdictFor(a)[1], next |-> VerdictFor(a)[2], notices |-> uncoveredChangeNotice(a, UnreadRules(a)),
              omitted |-> [blockers |-> 0, rules |-> 0, attention |-> 0], truncated |-> FALSE,
              advisories |-> Cardinality({f \in a.findings : ~f.gate /\ IsActive(f)})]
BY DEF BuildResult, BlockersOf, UnreadRules, OldRepairs, VerdictFor

\* The blockers are the repairs of this change, each once, and what the rest names is old.
LEMMA BlockersHold ==
    ASSUME NEW a, IsAssessment(a)
    PROVE  /\ BlockersOf(a) \in Seq(Repair(a))
           /\ \A n \in DOMAIN BlockersOf(a) :
                /\ BlockersOf(a)[n] \in buildRepairs(a, TasksOf(a)) /\ BlockersOf(a)[n].inScope
           /\ \A r \in buildRepairs(a, TasksOf(a)) : r.inScope => \E n \in DOMAIN BlockersOf(a) : BlockersOf(a)[n] = r
           /\ \A n, k \in DOMAIN BlockersOf(a) : n # k => BlockersOf(a)[n].ids \cap BlockersOf(a)[k].ids = {}
           /\ \A n \in DOMAIN BlockersOf(a) : BlockersOf(a)[n].kind = "code_change" =>
                1 \in DOMAIN BlockersOf(a) /\ BlockersOf(a)[1].kind = "code_change"
<1> DEFINE R == buildRepairs(a, TasksOf(a))
           I == R \ {r \in R : ~r.inScope}
           s == Ranked(I)
<1>1. AreRepairs(R) /\ R \subseteq Repair(a)
  BY RepairsHold
<1>2. I \subseteq R /\ \A r \in R : r \in I <=> r.inScope
  OBVIOUS
<1>3. BlockersOf(a) = s
  BY DEF BlockersOf
<1> HIDE DEF R, I
<1>4. AreRepairs(I) /\ \A r \in I : r.inScope
  <2>1. IsFiniteSet(I)
    BY <1>1, <1>2, FS_Subset DEF AreRepairs
  <2> QED BY <1>1, <1>2, <2>1 DEF AreRepairs
<1>5. /\ s \in Seq(I) /\ \A r \in I : \E n \in DOMAIN s : s[n] = r
      /\ \A n, k \in DOMAIN s : s[n] = s[k] => n = k
  BY <1>4, RankedHolds
<1>6. \A n \in DOMAIN s : s[n].kind = "code_change" => 1 \in DOMAIN s /\ s[1].kind = "code_change"
  BY <1>4, CodeGoesFirst
<1> HIDE DEF s
<1>7. \A n \in DOMAIN s : s[n] \in I
  BY <1>5
<1>8. s \in Seq(Repair(a))
  BY <1>1, <1>2, <1>5
<1>9. \A n, k \in DOMAIN s : n # k => s[n].ids \cap s[k].ids = {}
  BY <1>4, <1>5, <1>7 DEF AreRepairs
<1>10. \A n \in DOMAIN s : s[n] \in R /\ s[n].inScope
  BY <1>2, <1>4, <1>7
<1>11. \A r \in R : r.inScope => \E n \in DOMAIN s : s[n] = r
  BY <1>2, <1>5
<1> QED BY <1>3, <1>6, <1>8, <1>9, <1>10, <1>11 DEF R

\* A result as it is assembled is one, of which nothing is left out yet.
LEMMA ResultIsWhole ==
    ASSUME NEW a, IsAssessment(a)
    PROVE  LET full == BuildResult(a, TasksOf(a)) IN
           /\ full.blockers = BlockersOf(a) /\ full.existing = UNION {r.ids : r \in OldRepairs(a)}
           /\ full.status = VerdictFor(a)[1] /\ full.notices = uncoveredChangeNotice(a, UnreadRules(a))
           /\ full \in Result(a) /\ full.truncated = FALSE /\ full.underOmitted = 0
           /\ full.omitted.blockers = 0 /\ full.omitted.rules = 0 /\ full.omitted.attention = 0
           /\ \A n \in DOMAIN full.blockers :
                full.blockers[n].atOmitted = 0 /\ full.blockers[n].editOmitted = 0 /\ full.blockers[n].constraintsOmitted = 0
           /\ full.status = "fail" => full.blockers # <<>>
           /\ full.next = "repair" => full.blockers # <<>> /\ full.blockers[1].kind = "code_change"
<1> DEFINE full == BuildResult(a, TasksOf(a))
           old == UNION {r.ids : r \in OldRepairs(a)}
           seen == attentionOf(a, OldRepairs(a), judge(BlockersOf(a), a.gaps, UnreadRules(a))[1])
           notices == uncoveredChangeNotice(a, UnreadRules(a))
           advice == Cardinality({f \in a.findings : ~f.gate /\ IsActive(f)})
           zero == [blockers |-> 0, rules |-> 0, attention |-> 0]
           v == VerdictFor(a)
<1>1. full = [blockers |-> BlockersOf(a), existing |-> old, rules |-> UnreadRules(a), gaps |-> a.gaps, attention |-> seen,
              under |-> a.under, underOmitted |-> 0, status |-> v[1], next |-> v[2], notices |-> notices,
              omitted |-> zero, truncated |-> FALSE, advisories |-> advice]
  BY ResultParts
<1>2. BlockersOf(a) \in Seq(Repair(a))
  BY BlockersHold
<1>3. old \in SUBSET Int
  <2>1. \A r \in OldRepairs(a) : r.ids \subseteq Int
    BY RepairsHold DEF OldRepairs, AreRepairs
  <2> QED BY <2>1
<1>4. UnreadRules(a) \in Seq(Rule)
  <2>1. a.rules \in Seq(Rule)
    BY DEF IsAssessment, Rule
  <2> QED BY <2>1, KeptHolds DEF UnreadRules
<1>5. seen \in Seq(Item)
  BY AttentionIsList
<1>6. a.under \in Nat
  BY DEF IsAssessment
<1>7. notices \in SUBSET Int
  <2>1. \A f \in a.findings : f.id \in Int
    BY DEF IsAssessment
  <2> QED BY <2>1 DEF uncoveredChangeNotice
<1>8. advice \in Nat
  <2>1. IsFiniteSet({f \in a.findings : ~f.gate /\ IsActive(f)})
    BY FS_Subset DEF IsAssessment
  <2> QED BY <2>1, FS_CardinalityType
<1>9. zero \in Cuts /\ zero.blockers = 0 /\ zero.rules = 0 /\ zero.attention = 0
  BY DEF Cuts
<1>10. v \in Judgements
  BY JudgeHolds DEF VerdictFor
<1>11. v[1] \in {"pass", "fail", "unknown"} /\ v[2] \in {"none", "repair", "ask_owner", "restore_evidence"}
  <2> HIDE DEF v
  <2> QED BY <1>10 DEF Judgements
<1>12. v[2] = "repair" => BlockersOf(a) # <<>> /\ BlockersOf(a)[1].kind = "code_change"
  <2> HAVE v[2] = "repair"
  <2>1. PICK n \in DOMAIN BlockersOf(a) : BlockersOf(a)[n].kind = "code_change"
    BY JudgeHolds DEF VerdictFor
  <2>2. 1 \in DOMAIN BlockersOf(a) /\ BlockersOf(a)[1].kind = "code_change"
    BY <2>1, BlockersHold
  <2> QED BY <1>2, <2>2
<1>13. v[1] = "fail" => BlockersOf(a) # <<>>
  <2> HAVE v[1] = "fail"
  <2>1. BlockersOf(a) # <<>> \/ \E n \in DOMAIN BlockersOf(a) : BlockersOf(a)[n].kind = "code_change"
    BY JudgeHolds DEF VerdictFor
  <2> QED BY <1>2, <2>1
<1>14. \A n \in DOMAIN BlockersOf(a) :
         BlockersOf(a)[n].atOmitted = 0 /\ BlockersOf(a)[n].editOmitted = 0 /\ BlockersOf(a)[n].constraintsOmitted = 0
  <2> TAKE n \in DOMAIN BlockersOf(a)
  <2>1. PICK ts \in SUBSET TasksOf(a) : ts # {} /\ BlockersOf(a)[n] = buildRepair(a.tree, ts)
    BY BlockersHold, RepairsHold
  <2>2. /\ buildRepair(a.tree, ts).atOmitted = 0 /\ buildRepair(a.tree, ts).editOmitted = 0
        /\ buildRepair(a.tree, ts).constraintsOmitted = 0
    BY <2>1, RepairIsWhole
  <2> QED BY <2>1, <2>2
<1> HIDE DEF old, seen, notices, advice, zero, v, full
<1>15. full \in Result(a)
  BY <1>1, <1>2, <1>3, <1>4, <1>5, <1>6, <1>7, <1>8, <1>9, <1>11 DEF Result
<1>16. /\ full.existing = old /\ full.notices = notices /\ full.blockers = BlockersOf(a) /\ full.status = v[1] /\ full.next = v[2] /\ full.truncated = FALSE
       /\ full.underOmitted = 0 /\ full.omitted = zero
  BY <1>1
<1> QED BY <1>9, <1>12, <1>13, <1>14, <1>15, <1>16 DEF full, old, notices, v

\* Each finding that blocks is told once, by what it is to the change.
LEMMA FindingsAreTold ==
    ASSUME NEW a, IsAssessment(a)
    PROVE  EveryFindingIsTold(a, BuildResult(a, TasksOf(a)))
<1> DEFINE full == BuildResult(a, TasksOf(a))
           R == buildRepairs(a, TasksOf(a))
           B == BlockersOf(a)
<1>1. /\ full.blockers = B /\ full.existing = UNION {r.ids : r \in OldRepairs(a)}
      /\ full.status = VerdictFor(a)[1] /\ full.notices = uncoveredChangeNotice(a, UnreadRules(a))
  BY ResultIsWhole
<1>2. /\ \A n \in DOMAIN B : B[n] \in R /\ B[n].inScope
      /\ \A r \in R : r.inScope => \E n \in DOMAIN B : B[n] = r
      /\ \A n, k \in DOMAIN B : n # k => B[n].ids \cap B[k].ids = {}
  BY BlockersHold
<1>3. \A r, s \in R : r # s => r.ids \cap s.ids = {}
  BY RepairsHold DEF AreRepairs
<1>4. \A r : r \in OldRepairs(a) <=> r \in R /\ ~r.inScope
  BY DEF OldRepairs
<1>5. \A f \in ToBlock(a) : TaskOf(a, f) \in TasksOf(a) /\ TaskOf(a, f).finding = f /\ f \in a.findings
  BY DEF TasksOf, TaskOf, ToBlock
<1>6. \A f \in ToBlock(a) : \E r \in R : f.id \in r.ids
  <2> TAKE f \in ToBlock(a)
  <2>1. PICK r \in R : TaskOf(a, f).finding.id \in r.ids
    BY <1>5, RepairsHold
  <2> QED BY <1>5, <2>1
<1>7. \A r \in R : \A i \in r.ids : \E f \in ToBlock(a) : f.id = i
  <2> TAKE r \in R
  <2>1. PICK ts \in SUBSET TasksOf(a) : ts # {} /\ r = buildRepair(a.tree, ts)
    BY RepairsHold
  <2>2. r.ids = {t.finding.id : t \in ts}
    BY <2>1, RepairIsWhole
  <2> QED BY <2>2, TasksHold
<1>8. \A f \in ToBlock(a) : f.origin # "pre_existing" => \A r \in R : f.id \in r.ids => r.inScope
  <2> TAKE f \in ToBlock(a)
  <2> HAVE f.origin # "pre_existing"
  <2> TAKE r \in R
  <2> HAVE f.id \in r.ids
  <2>1. PICK ts \in SUBSET TasksOf(a) : ts # {} /\ r = buildRepair(a.tree, ts)
    BY RepairsHold
  <2>2. /\ r.ids = {t.finding.id : t \in ts}
        /\ \A t \in ts : t.finding.origin # "pre_existing" => r.inScope
    BY <2>1, RepairIsWhole
  <2>3. PICK t \in ts : t.finding.id = f.id
    BY <2>2
  <2>4. t = TaskOf(a, f)
    BY <1>5, <2>3, TasksHold
  <2> QED BY <1>5, <2>2, <2>4, <2>3
<1> HIDE DEF full, R, B
<1>9. {f.id : f \in ToBlock(a)} = full.existing \cup UNION {full.blockers[n].ids : n \in DOMAIN full.blockers}
  <2>1. ASSUME NEW f \in ToBlock(a)
        PROVE  f.id \in full.existing \cup UNION {full.blockers[n].ids : n \in DOMAIN full.blockers}
    BY <1>1, <1>2, <1>4, <1>6
  <2>2. ASSUME NEW i \in full.existing \cup UNION {full.blockers[n].ids : n \in DOMAIN full.blockers}
        PROVE  i \in {f.id : f \in ToBlock(a)}
    <3>1. PICK r \in R : i \in r.ids
      BY <1>1, <1>2, <1>4
    <3> QED BY <1>7, <3>1
  <2> QED BY <2>1, <2>2
<1>10. \A n \in DOMAIN full.blockers :
         /\ full.blockers[n].ids \cap full.existing = {}
         /\ \A k \in DOMAIN full.blockers \ {n} : full.blockers[n].ids \cap full.blockers[k].ids = {}
  <2> TAKE n \in DOMAIN full.blockers
  <2>1. \A r \in OldRepairs(a) : r \in R /\ r # B[n] /\ B[n] \in R
    BY <1>1, <1>2, <1>4
  <2>2. \A r \in OldRepairs(a) : B[n].ids \cap r.ids = {}
    BY <1>3, <2>1
  <2> QED BY <1>1, <1>2, <2>2
<1>11. \A f \in ToBlock(a) : f.origin # "pre_existing" => f.id \notin full.existing
  BY <1>1, <1>4, <1>8
<1>12. full.status = "pass" =>
         /\ a.scope = "none" /\ \A f \in ToBlock(a) : f.origin = "pre_existing"
         /\ \A f \in a.findings : f.rule = "uncovered_change" /\ f.status # "fixed" => f.id \in full.notices
  <2> HAVE full.status = "pass"
  <2>1. B = <<>> /\ UnreadRules(a) = <<>> /\ a.scope \notin {"unresolved", "policy_changed", "policy_stale"}
    BY <1>1, JudgeHolds DEF VerdictFor, B
  <2>2. a.scope = "none"
    BY <2>1 DEF IsAssessment
  <2>3. \A f \in ToBlock(a) : f.origin = "pre_existing"
    BY <1>2, <1>6, <1>8, <2>1
  <2>4. full.notices = {f.id : f \in {g \in a.findings : g.rule = "uncovered_change" /\ g.status # "fixed"}}
    BY <1>1, <2>1 DEF uncoveredChangeNotice
  <2> QED BY <2>2, <2>3, <2>4
<1> QED BY <1>9, <1>10, <1>11, <1>12 DEF EveryFindingIsTold, full

\* What a name resolves to is in the tree when that is known, and never outside of it; and
\* a path that is in the tree is what it resolves to.
LEMMA PathsResolve ==
    ASSUME NEW tree
    PROVE  /\ \A node : \A p \in ResolvedTo(tree, node) : ~escapesScanRoot(p) /\ (tree.known => OnTree(tree, p))
           /\ \A p : OnTree(tree, p) => p \in ResolvedPath(tree, p)
<1>1. \A p : OnTree(tree, p) => ~escapesScanRoot(p)
  BY DEF OnTree
<1>2. ASSUME NEW node, NEW p \in ResolvedTo(tree, node)
      PROVE  ~escapesScanRoot(p) /\ (tree.known => OnTree(tree, p))
  <2>1. CASE ~tree.known
    <3>1. p = node.at /\ ~escapesScanRoot(node.at)
      BY <1>2, <2>1 DEF ResolvedTo
    <3> QED BY <2>1, <3>1
  <2>2. CASE tree.known
    <3>1. OnTree(tree, p)
      BY <1>2, <2>2 DEF ResolvedTo
    <3> QED BY <1>1, <3>1
  <2> QED BY <2>1, <2>2
<1>3. ASSUME NEW p, OnTree(tree, p) PROVE p \in ResolvedPath(tree, p)
  <2> DEFINE node == [as |-> "path", at |-> p]
  <2>1. node.as = "path" /\ node.at = p
    OBVIOUS
  <2>2. IsNode(node) /\ ~escapesScanRoot(node.at)
    BY <1>1, <1>3, <2>1 DEF IsNode
  <2> HIDE DEF node
  <2>3. TriesOf(tree, node) = <<p>>
    BY <2>1 DEF TriesOf
  <2>4. ResolvedPath(tree, p) = ResolvedTo(tree, node)
    BY DEF ResolvedPath, node
  <2>5. CASE ~tree.known
    BY <2>1, <2>2, <2>4, <2>5 DEF ResolvedTo
  <2>6. CASE tree.known
    <3> DEFINE tries == <<p>>
               there == {n \in DOMAIN tries : OnTree(tree, tries[n])}
    <3>1. ResolvedTo(tree, node) = {tries[n] : n \in {k \in there : \A l \in there : k <= l}}
      BY <2>2, <2>3, <2>6 DEF ResolvedTo
    <3>2. there = {1} /\ tries[1] = p
      BY <1>3
    <3> HIDE DEF there, tries
    <3> QED BY <2>4, <3>1, <3>2
  <2> QED BY <2>5, <2>6
<1> QED BY <1>2, <1>3

\* The files of a task are those its names resolve to, its import sites in the tree among them.
LEMMA FilesHold ==
    ASSUME NEW tree, NEW f
    PROVE  /\ \A p \in filesFor(tree, f) : ~escapesScanRoot(p) /\ (tree.known => OnTree(tree, p))
           /\ \A p \in f.sites : OnTree(tree, p) => p \in filesFor(tree, f)
<1>1. ASSUME NEW p \in filesFor(tree, f) PROVE \E node : p \in ResolvedTo(tree, node)
  <2>1. \/ p \in siteFiles(tree, f) \/ p \in endFiles(tree, f) \/ p \in seamFiles(tree, f)
        \/ p \in rootFiles(tree, f)
    BY <1>1 DEF filesFor
  <2>2. ASSUME NEW q, p \in ResolvedPath(tree, q) PROVE \E node : p \in ResolvedTo(tree, node)
    BY <2>2 DEF ResolvedPath
  <2>3. p \in siteFiles(tree, f) => \E q : p \in ResolvedPath(tree, q)
    BY DEF siteFiles
  <2>4. p \in seamFiles(tree, f) => \E q : p \in ResolvedPath(tree, q)
    BY DEF seamFiles
  <2>5. p \in rootFiles(tree, f) => \E q : p \in ResolvedPath(tree, q)
    BY DEF rootFiles
  <2>6. p \in endFiles(tree, f) => \E node : p \in ResolvedTo(tree, node)
    BY DEF endFiles
  <2> QED BY <2>1, <2>2, <2>3, <2>4, <2>5, <2>6
<1>2. ASSUME NEW p \in f.sites, OnTree(tree, p) PROVE p \in filesFor(tree, f)
  <2>1. p \in ResolvedPath(tree, p)
    BY <1>2, PathsResolve
  <2> QED BY <2>1 DEF filesFor, siteFiles
<1> QED BY <1>1, <1>2, PathsResolve

\* A file to open is there, and every import site in the tree is to be edited.
LEMMA FilesAreHeld ==
    ASSUME NEW a, IsAssessment(a)
    PROVE  FilesAreThere(a, TasksOf(a), BuildResult(a, TasksOf(a)))
<1> DEFINE full == BuildResult(a, TasksOf(a))
           B == BlockersOf(a)
<1>1. full.blockers = B
  BY ResultIsWhole
<1> HIDE DEF full, B
<1>2. ASSUME NEW d \in AdvisoryTasks(a)
      PROVE  Cardinality(d.files) <= AdvisoryCap /\ \A t \in TasksOf(a) : d.id # t.finding.id
  <2>1. PICK f \in a.findings :
          /\ ~f.gate /\ d.id = f.id
          /\ d.files = {p \in namedFiles(f) : Cardinality(NamesBefore(a.tree.order, namedFiles(f), p)) < AdvisoryCap}
    BY <1>2 DEF AdvisoryTasks
  <2>2. namedFiles(f) \in SUBSET DOMAIN a.tree.order /\ Numbers(a.tree.order) /\ AdvisoryCap \in Nat
    BY AgentResultAssumption, TasksHold DEF IsAssessment
  <2>3. Cardinality(d.files) <= AdvisoryCap
    BY <2>1, <2>2, CapIsKeptFirst
  <2>4. \A t \in TasksOf(a) : t.finding.gate /\ t.finding \in a.findings
    BY TasksHold DEF ToBlock
  <2>5. \A t \in TasksOf(a) : d.id # t.finding.id
    BY <2>1, <2>4 DEF IsAssessment
  <2> QED BY <2>3, <2>5
<1>3. ASSUME NEW t \in TasksOf(a)
      PROVE  /\ a.tree.known => \A p \in t.files : OnTree(a.tree, p)
             /\ \A p \in t.files : ~escapesScanRoot(p)
             /\ \A p \in t.finding.sites : OnTree(a.tree, p) => p \in t.files
  BY TasksHold, FilesHold
<1>4. ASSUME NEW t \in TasksOf(a), NEW n \in DOMAIN B, t.finding.id \in B[n].ids,
             NEW p \in t.finding.sites, OnTree(a.tree, p)
      PROVE  \E k \in DOMAIN B[n].edit : B[n].edit[k] = p
  <2>1. B[n] \in buildRepairs(a, TasksOf(a))
    BY BlockersHold DEF B
  <2>2. PICK ts \in SUBSET TasksOf(a) : ts # {} /\ B[n] = buildRepair(a.tree, ts)
    BY <2>1, RepairsHold
  <2>3. /\ B[n].ids = {u.finding.id : u \in ts} /\ B[n].edit = InOrder(a.tree.order, editFiles(a.tree, ts))
        /\ editFiles(a.tree, ts) \in SUBSET DOMAIN a.tree.order
    BY <2>2, RepairIsWhole
  <2>4. t \in ts
    BY <1>4, <2>2, <2>3, TasksHold
  <2>5. p \in t.files
    BY <1>3, <1>4
  <2>6. p \in editFiles(a.tree, ts)
    BY <1>4, <2>4, <2>5 DEF editFiles
  <2>7. Numbers(a.tree.order)
    BY TasksHold
  <2>8. \A q \in editFiles(a.tree, ts) : \E k \in DOMAIN InOrder(a.tree.order, editFiles(a.tree, ts)) : InOrder(a.tree.order, editFiles(a.tree, ts))[k] = q
    BY <2>3, <2>7, InOrderHolds
  <2> QED BY <2>3, <2>6, <2>8
<1> QED BY <1>1, <1>2, <1>3, <1>4 DEF FilesAreThere, full

-----------------------------------------------------------------------------
(* Cuts *)

\* A repair that lost entries still counts them.
SameRepairCut(c, r) ==
    /\ c.ids = r.ids /\ c.kind = r.kind
    /\ c.at + c.atOmitted = r.at + r.atOmitted
    /\ Len(c.edit) + c.editOmitted = Len(r.edit) + r.editOmitted
    /\ c.constraints + c.constraintsOmitted = r.constraints + r.constraintsOmitted

\* A capped list and what was cut off make up the whole.
LEMMA CapHoldsList ==
    ASSUME NEW n \in Nat, NEW limit \in Nat
    PROVE  capList(n, limit) \in Nat /\ CutOff(n, limit) \in Nat /\ capList(n, limit) + CutOff(n, limit) = n
           /\ capList(n, limit) <= n /\ cutRunes(n, limit) \in Nat
BY DEF capList, CutOff, cutRunes

\* The first of a sequence are a sequence, as long as asked.
LEMMA PrefixHolds ==
    ASSUME NEW S, NEW s \in Seq(S), NEW m \in 0..Len(s)
    PROVE  SubSeq(s, 1, m) \in Seq(S) /\ Len(SubSeq(s, 1, m)) = m /\ \A n \in 1..m : SubSeq(s, 1, m)[n] = s[n]
OBVIOUS

\* A bounded repair is one, that counts what it lost.
LEMMA BoundRepairHolds ==
    ASSUME NEW a, NEW r \in Repair(a), NEW text \in Nat, NEW list \in Nat
    PROVE  boundRepair(r, text, list) \in Repair(a) /\ SameRepairCut(boundRepair(r, text, list), r)
<1> DEFINE c == boundRepair(r, text, list)
           P == DOMAIN a.tree.order
<1>1. /\ r.goal \in Nat /\ r.at \in Nat /\ r.edit \in Seq(P) /\ r.constraints \in Nat
      /\ r.atOmitted \in Nat /\ r.editOmitted \in Nat /\ r.constraintsOmitted \in Nat /\ Len(r.edit) \in Nat
  BY DEF Repair
<1>2. CASE list = 0
  <2>1. c = [r EXCEPT !.goal = cutRunes(r.goal, text)]
    BY <1>2 DEF boundRepair
  <2>2. cutRunes(r.goal, text) \in Nat
    BY <1>1, CapHoldsList
  <2>3. c \in Repair(a)
    BY <2>1, <2>2 DEF Repair
  <2>4. /\ c.ids = r.ids /\ c.kind = r.kind /\ c.at = r.at /\ c.atOmitted = r.atOmitted /\ c.edit = r.edit
        /\ c.editOmitted = r.editOmitted /\ c.constraints = r.constraints /\ c.constraintsOmitted = r.constraintsOmitted
    BY <2>1 DEF Repair
  <2> QED BY <2>3, <2>4 DEF SameRepairCut
<1>3. CASE list # 0
  <2> DEFINE goal == cutRunes(r.goal, text)
             at == capList(r.at, list)
             atCut == r.atOmitted + CutOff(r.at, list)
             edit == SubSeq(r.edit, 1, capList(Len(r.edit), list))
             editCut == r.editOmitted + CutOff(Len(r.edit), list)
             kept == capList(r.constraints, list)
             keptCut == r.constraintsOmitted + CutOff(r.constraints, list)
  <2>1. c = [r EXCEPT !.goal = goal, !.at = at, !.atOmitted = atCut, !.edit = edit, !.editOmitted = editCut,
                      !.constraints = kept, !.constraintsOmitted = keptCut]
    BY <1>3 DEF boundRepair
  <2>2. goal \in Nat /\ at \in Nat /\ atCut \in Nat /\ at + atCut = r.at + r.atOmitted
    BY <1>1 DEF capList, CutOff, cutRunes
  <2>3. kept \in Nat /\ keptCut \in Nat /\ kept + keptCut = r.constraints + r.constraintsOmitted
    BY <1>1 DEF capList, CutOff, cutRunes
  <2>4. edit \in Seq(P) /\ Len(edit) = capList(Len(r.edit), list)
    <3>1. capList(Len(r.edit), list) \in 0..Len(r.edit)
      BY <1>1 DEF capList, CutOff, cutRunes
    <3> HIDE DEF P
    <3> QED BY <1>1, <3>1, PrefixHolds
  <2> HIDE DEF edit
  <2>5. editCut \in Nat /\ Len(edit) + editCut = Len(r.edit) + r.editOmitted
    <3> DEFINE l == Len(r.edit)
    <3>1. l \in Nat /\ r.editOmitted \in Nat
      BY <1>1
    <3> HIDE DEF l
    <3>2. CutOff(l, list) \in Nat /\ capList(l, list) \in Nat /\ capList(l, list) + CutOff(l, list) = l
      BY <3>1, CapHoldsList
    <3>3. editCut = r.editOmitted + CutOff(l, list) /\ Len(edit) = capList(l, list) /\ Len(r.edit) = l
      BY <2>4 DEF l
    <3> HIDE DEF editCut
    <3> QED BY <3>1, <3>2, <3>3
  <2> HIDE DEF goal, at, atCut, edit, editCut, kept, keptCut, c
  <2>6. c \in Repair(a)
    BY <2>1, <2>2, <2>3, <2>4, <2>5 DEF Repair
  <2>7. /\ c.ids = r.ids /\ c.kind = r.kind /\ c.at = at /\ c.atOmitted = atCut /\ c.edit = edit
        /\ c.editOmitted = editCut /\ c.constraints = kept /\ c.constraintsOmitted = keptCut
    BY <2>1 DEF Repair
  <2> QED BY <2>2, <2>3, <2>5, <2>6, <2>7 DEF SameRepairCut, c
<1> QED BY <1>2, <1>3

\* Texts cut are the same items.
LEMMA BoundTextsHold ==
    ASSUME NEW text \in Nat
    PROVE  /\ \A s \in Seq(Rule) : boundTexts(s, text) \in Seq(Rule) /\ Len(boundTexts(s, text)) = Len(s)
           /\ \A s \in Seq(Item) : boundTexts(s, text) \in Seq(Item) /\ Len(boundTexts(s, text)) = Len(s)
<1>1. \A x \in Rule : [x EXCEPT !.text = cutRunes(@, text)] \in Rule
  BY CapHoldsList DEF Rule
<1>2. \A x \in Item : [x EXCEPT !.text = cutRunes(@, text)] \in Item
  BY CapHoldsList DEF Item
<1>3. ASSUME NEW S, \A x \in S : [x EXCEPT !.text = cutRunes(@, text)] \in S, NEW s \in Seq(S)
      PROVE  boundTexts(s, text) \in Seq(S) /\ Len(boundTexts(s, text)) = Len(s)
  <2> DEFINE b == boundTexts(s, text)
  <2>1. DOMAIN s = 1..Len(s) /\ Len(s) \in Nat /\ \A n \in 1..Len(s) : s[n] \in S
    OBVIOUS
  <2>2. b = [n \in 1..Len(s) |-> b[n]] /\ \A n \in 1..Len(s) : b[n] = [s[n] EXCEPT !.text = cutRunes(@, text)]
    BY <2>1 DEF boundTexts
  <2> HIDE DEF b
  <2>3. \A n \in 1..Len(s) : b[n] \in S
    BY <1>3, <2>1, <2>2
  <2>4. b \in Seq(S) /\ Len(b) = Len(s)
    BY <2>1, <2>2, <2>3, PlacesMakeSequence
  <2> QED BY <2>4 DEF b
<1> QED BY <1>1, <1>2, <1>3

\* What a result leaves out of the full one is counted, and nothing else differs that an
\* agent acts on.
Counted(r, full) ==
    /\ Len(r.blockers) + r.omitted.blockers = Len(full.blockers)
    /\ Len(r.rules) + r.omitted.rules = Len(full.rules)
    /\ Len(r.attention) + r.omitted.attention = Len(full.attention)
    /\ r.under + r.underOmitted = full.under
    /\ r.status = full.status /\ r.next = full.next
    /\ \A n \in DOMAIN r.blockers : SameRepairCut(r.blockers[n], full.blockers[n])
    /\ full.blockers # <<>> => r.blockers # <<>>

\* The same result, bounded: every list as long, and marked when it differs.
LEMMA BoundHolds ==
    ASSUME NEW a, NEW r \in Result(a), NEW text \in Nat, NEW list \in Nat
    PROVE  LET b == bound(r, text, list) IN
           /\ b \in Result(a)
           /\ Len(b.blockers) = Len(r.blockers) /\ Len(b.rules) = Len(r.rules) /\ Len(b.attention) = Len(r.attention)
           /\ \A n \in DOMAIN r.blockers : SameRepairCut(b.blockers[n], r.blockers[n])
           /\ b.omitted = r.omitted /\ b.under = r.under /\ b.underOmitted = r.underOmitted
           /\ b.status = r.status /\ b.next = r.next
           /\ b # r => b.truncated
<1> DEFINE b == bound(r, text, list)
           blockers == [n \in DOMAIN r.blockers |-> boundRepair(r.blockers[n], text, list)]
           rules == boundTexts(r.rules, text)
           attention == boundTexts(r.attention, text)
           c == [r EXCEPT !.blockers = blockers, !.rules = rules, !.attention = attention]
           mark == r.truncated \/ c # r
<1>1. /\ r.blockers \in Seq(Repair(a)) /\ r.rules \in Seq(Rule) /\ r.attention \in Seq(Item) /\ r.truncated \in BOOLEAN
  BY DEF Result
<1>2. /\ blockers \in Seq(Repair(a)) /\ Len(blockers) = Len(r.blockers)
      /\ \A n \in DOMAIN r.blockers : SameRepairCut(blockers[n], r.blockers[n])
  <2>1. DOMAIN r.blockers = 1..Len(r.blockers) /\ Len(r.blockers) \in Nat /\ \A n \in DOMAIN r.blockers : r.blockers[n] \in Repair(a)
    BY <1>1
  <2>2. \A n \in DOMAIN r.blockers : blockers[n] \in Repair(a) /\ SameRepairCut(blockers[n], r.blockers[n])
    BY <2>1, BoundRepairHolds
  <2>3. blockers = [n \in 1..Len(r.blockers) |-> blockers[n]]
    BY <2>1
  <2> HIDE DEF blockers
  <2> QED BY <2>1, <2>2, <2>3, PlacesMakeSequence
<1>3. /\ rules \in Seq(Rule) /\ Len(rules) = Len(r.rules)
      /\ attention \in Seq(Item) /\ Len(attention) = Len(r.attention)
  BY <1>1, BoundTextsHold
<1>4. b = [c EXCEPT !.truncated = mark]
  BY <1>1 DEF bound, Result
<1>5. c \in Result(a)
  <2> HIDE DEF blockers, rules, attention
  <2> QED BY <1>2, <1>3 DEF Result
<1>6. /\ c.blockers = blockers /\ c.rules = rules /\ c.attention = attention
      /\ c.omitted = r.omitted /\ c.under = r.under /\ c.underOmitted = r.underOmitted /\ c.status = r.status /\ c.next = r.next
      /\ c.truncated = r.truncated
  <2> HIDE DEF blockers, rules, attention
  <2> QED BY DEF Result
<1>7. mark \in BOOLEAN
  BY <1>1
<1> HIDE DEF c, blockers, rules, attention
<1>8. b \in Result(a) /\ b.truncated = mark
  <2> HIDE DEF mark, b
  <2> QED BY <1>4, <1>5, <1>7 DEF Result
<1>9. /\ b.blockers = c.blockers /\ b.rules = c.rules /\ b.attention = c.attention
      /\ b.omitted = c.omitted /\ b.under = c.under /\ b.underOmitted = c.underOmitted /\ b.status = c.status /\ b.next = c.next
  <2> HIDE DEF mark, b
  <2> QED BY <1>4, <1>5 DEF Result
<1>10. b # r => b.truncated
  <2> SUFFICES ASSUME ~b.truncated PROVE b = r
    OBVIOUS
  <2>1. ~mark
    BY <1>8
  <2>2. c = r /\ c.truncated = FALSE /\ mark = FALSE
    BY <1>1, <1>6, <2>1
  <2> HIDE DEF mark, b
  <2>3. b = [c EXCEPT !.truncated = FALSE]
    BY <1>4, <2>2
  <2>4. [c EXCEPT !.truncated = FALSE] = c
    BY <1>5, <2>2 DEF Result
  <2> QED BY <2>2, <2>3, <2>4
<1> HIDE DEF b
<1> QED BY <1>2, <1>3, <1>6, <1>8, <1>9, <1>10 DEF b

\* Nothing is left out of the full result.
LEMMA FullIsCounted ==
    ASSUME NEW a, IsAssessment(a)
    PROVE  Counted(BuildResult(a, TasksOf(a)), BuildResult(a, TasksOf(a)))
<1> DEFINE full == BuildResult(a, TasksOf(a))
<1>1. /\ full \in Result(a) /\ full.underOmitted = 0
      /\ full.omitted.blockers = 0 /\ full.omitted.rules = 0 /\ full.omitted.attention = 0
  BY ResultIsWhole
<1> HIDE DEF full
<1>2. /\ full.blockers \in Seq(Repair(a)) /\ full.rules \in Seq(Rule) /\ full.attention \in Seq(Item) /\ full.under \in Nat
  BY <1>1 DEF Result
<1> QED BY <1>1, <1>2 DEF Counted, SameRepairCut, full

\* A bounded result counts what it leaves out.
LEMMA BoundIsCounted ==
    ASSUME NEW a, NEW full \in Result(a), NEW r \in Result(a), Counted(r, full), NEW text \in Nat, NEW list \in Nat
    PROVE  Counted(bound(r, text, list), full)
<1> DEFINE b == bound(r, text, list)
<1>1. /\ b \in Result(a)
      /\ Len(b.blockers) = Len(r.blockers) /\ Len(b.rules) = Len(r.rules) /\ Len(b.attention) = Len(r.attention)
      /\ \A n \in DOMAIN r.blockers : SameRepairCut(b.blockers[n], r.blockers[n])
      /\ b.omitted = r.omitted /\ b.under = r.under /\ b.underOmitted = r.underOmitted
      /\ b.status = r.status /\ b.next = r.next
  BY BoundHolds
<1> HIDE DEF b
<1>2. r.blockers \in Seq(Repair(a)) /\ b.blockers \in Seq(Repair(a))
  BY <1>1 DEF Result
<1>3. DOMAIN b.blockers = DOMAIN r.blockers
  BY <1>1, <1>2
<1>4. \A n \in DOMAIN b.blockers : SameRepairCut(b.blockers[n], full.blockers[n])
  <2> TAKE n \in DOMAIN b.blockers
  <2>1. SameRepairCut(b.blockers[n], r.blockers[n]) /\ SameRepairCut(r.blockers[n], full.blockers[n])
    BY <1>1, <1>3 DEF Counted
  <2> QED BY <2>1 DEF SameRepairCut
<1>5. r.blockers # <<>> => b.blockers # <<>>
  BY <1>1, <1>2
<1> QED BY <1>1, <1>4, <1>5 DEF Counted, b

\* One that moves from a list to a count leaves the sum.
LEMMA OneMoves == \A x, y \in Nat : (x - 1) + (y + 1) = x + y /\ y + 1 \in Nat /\ (x > 1 => x - 1 \in Nat)
OBVIOUS

\* An entry that goes is counted, and the first repair never goes.
LEMMA DropIsCounted ==
    ASSUME NEW a, NEW full \in Result(a), NEW r \in Result(a), Counted(r, full), CanDrop(r)
    PROVE  DropLast(r) \in Result(a) /\ Counted(DropLast(r), full) /\ DropLast(r).truncated = r.truncated
<1>1. /\ r.blockers \in Seq(Repair(a)) /\ r.rules \in Seq(Rule) /\ r.attention \in Seq(Item)
      /\ r.under \in Nat /\ r.underOmitted \in Nat /\ r.omitted \in Cuts
  BY DEF Result
<1>2. /\ r.omitted.blockers \in Nat /\ r.omitted.rules \in Nat /\ r.omitted.attention \in Nat
      /\ Len(r.blockers) \in Nat /\ Len(r.rules) \in Nat /\ Len(r.attention) \in Nat
  BY <1>1 DEF Cuts
<1>3. ASSUME NEW S, NEW s \in Seq(S), s # <<>>
      PROVE  Front(s) \in Seq(S) /\ Len(Front(s)) = Len(s) - 1 /\ \A n \in DOMAIN Front(s) : n \in DOMAIN s /\ Front(s)[n] = s[n]
  <2>1. Len(s) - 1 \in 0..Len(s)
    BY <1>3
  <2>2. Front(s) \in Seq(S) /\ Len(Front(s)) = Len(s) - 1 /\ \A n \in 1..(Len(s) - 1) : Front(s)[n] = s[n]
    BY <2>1, PrefixHolds DEF Front
  <2>3. DOMAIN Front(s) = 1..(Len(s) - 1) /\ DOMAIN s = 1..Len(s)
    BY <1>3, <2>2
  <2> QED BY <1>3, <2>2, <2>3
<1>4. CASE Len(r.blockers) > 1
  <2> DEFINE front == Front(r.blockers)
             cuts == [r.omitted EXCEPT !.blockers = @ + 1]
             d == DropLast(r)
  <2>1. d = [r EXCEPT !.blockers = front, !.omitted = cuts]
    BY <1>4 DEF DropLast
  <2>2. r.blockers # <<>>
    BY <1>1, <1>4
  <2>3. front \in Seq(Repair(a)) /\ Len(front) = Len(r.blockers) - 1
        /\ \A n \in DOMAIN front : n \in DOMAIN r.blockers /\ front[n] = r.blockers[n]
    BY <1>1, <1>3, <2>2
  <2>4. cuts \in Cuts /\ cuts.blockers = r.omitted.blockers + 1 /\ cuts.rules = r.omitted.rules /\ cuts.attention = r.omitted.attention
    BY <1>1, <1>2 DEF Cuts
  <2> HIDE DEF front, cuts, d
  <2>5. d \in Result(a)
    BY <2>1, <2>3, <2>4 DEF Result
  <2>6. /\ d.blockers = front /\ d.omitted = cuts /\ d.rules = r.rules /\ d.attention = r.attention /\ d.under = r.under
        /\ d.underOmitted = r.underOmitted /\ d.status = r.status /\ d.next = r.next /\ d.truncated = r.truncated
    BY <2>1 DEF Result
  <2>7. front # <<>>
    BY <1>2, <1>4, <2>3
  <2>8. Len(d.blockers) + d.omitted.blockers = Len(full.blockers)
    <3>1. Len(r.blockers) + r.omitted.blockers = Len(full.blockers)
      BY DEF Counted
    <3>2. (Len(r.blockers) - 1) + (r.omitted.blockers + 1) = Len(r.blockers) + r.omitted.blockers
      BY <1>2, OneMoves
    <3> QED BY <2>3, <2>4, <2>6, <3>1, <3>2
  <2>9. \A n \in DOMAIN d.blockers : SameRepairCut(d.blockers[n], full.blockers[n])
    BY <2>3, <2>6 DEF Counted
  <2> QED BY <2>4, <2>5, <2>6, <2>7, <2>8, <2>9 DEF Counted, d
<1>5. CASE ~(Len(r.blockers) > 1) /\ r.under > 1
  <2> DEFINE less == r.under - 1
             more == r.underOmitted + 1
             d == DropLast(r)
  <2>1. d = [r EXCEPT !.under = less, !.underOmitted = more]
    BY <1>5 DEF DropLast
  <2>2. less \in Nat /\ more \in Nat /\ less + more = r.under + r.underOmitted
    BY <1>1, <1>5, OneMoves
  <2> HIDE DEF less, more, d
  <2>3. d \in Result(a)
    BY <2>1, <2>2 DEF Result
  <2>4. /\ d.under = less /\ d.underOmitted = more /\ d.blockers = r.blockers /\ d.omitted = r.omitted /\ d.rules = r.rules
        /\ d.attention = r.attention /\ d.status = r.status /\ d.next = r.next /\ d.truncated = r.truncated
    BY <2>1 DEF Result
  <2> QED BY <2>2, <2>3, <2>4 DEF Counted, d
<1>6. CASE ~(Len(r.blockers) > 1) /\ ~(r.under > 1) /\ r.rules # <<>>
  <2> DEFINE front == Front(r.rules)
             cuts == [r.omitted EXCEPT !.rules = @ + 1]
             d == DropLast(r)
  <2>1. d = [r EXCEPT !.rules = front, !.omitted = cuts]
    BY <1>6 DEF DropLast
  <2>2. front \in Seq(Rule) /\ Len(front) = Len(r.rules) - 1
    BY <1>1, <1>3, <1>6
  <2>3. cuts \in Cuts /\ cuts.blockers = r.omitted.blockers /\ cuts.rules = r.omitted.rules + 1 /\ cuts.attention = r.omitted.attention
    BY <1>1, <1>2 DEF Cuts
  <2> HIDE DEF front, cuts, d
  <2>4. d \in Result(a)
    BY <2>1, <2>2, <2>3 DEF Result
  <2>5. /\ d.rules = front /\ d.omitted = cuts /\ d.blockers = r.blockers /\ d.attention = r.attention /\ d.under = r.under
        /\ d.underOmitted = r.underOmitted /\ d.status = r.status /\ d.next = r.next /\ d.truncated = r.truncated
    BY <2>1 DEF Result
  <2>6. Len(d.rules) + d.omitted.rules = Len(full.rules)
    <3>1. Len(r.rules) + r.omitted.rules = Len(full.rules)
      BY DEF Counted
    <3>2. (Len(r.rules) - 1) + (r.omitted.rules + 1) = Len(r.rules) + r.omitted.rules
      BY <1>2, OneMoves
    <3> QED BY <2>2, <2>3, <2>5, <3>1, <3>2
  <2> QED BY <2>3, <2>4, <2>5, <2>6 DEF Counted, d
<1>7. CASE ~(Len(r.blockers) > 1) /\ ~(r.under > 1) /\ r.rules = <<>>
  <2> DEFINE front == Front(r.attention)
             cuts == [r.omitted EXCEPT !.attention = @ + 1]
             d == DropLast(r)
  <2>0. r.attention # <<>>
    BY <1>7 DEF CanDrop
  <2>1. d = [r EXCEPT !.attention = front, !.omitted = cuts]
    BY <1>7 DEF DropLast
  <2>2. front \in Seq(Item) /\ Len(front) = Len(r.attention) - 1
    BY <1>1, <1>3, <2>0
  <2>3. cuts \in Cuts /\ cuts.blockers = r.omitted.blockers /\ cuts.rules = r.omitted.rules /\ cuts.attention = r.omitted.attention + 1
    BY <1>1, <1>2 DEF Cuts
  <2> HIDE DEF front, cuts, d
  <2>4. d \in Result(a)
    BY <2>1, <2>2, <2>3 DEF Result
  <2>5. /\ d.attention = front /\ d.omitted = cuts /\ d.blockers = r.blockers /\ d.rules = r.rules /\ d.under = r.under
        /\ d.underOmitted = r.underOmitted /\ d.status = r.status /\ d.next = r.next /\ d.truncated = r.truncated
    BY <2>1 DEF Result
  <2>6. Len(d.attention) + d.omitted.attention = Len(full.attention)
    <3>1. Len(r.attention) + r.omitted.attention = Len(full.attention)
      BY DEF Counted
    <3>2. (Len(r.attention) - 1) + (r.omitted.attention + 1) = Len(r.attention) + r.omitted.attention
      BY <1>2, OneMoves
    <3> QED BY <2>2, <2>3, <2>5, <3>1, <3>2
  <2> QED BY <2>3, <2>4, <2>5, <2>6 DEF Counted, d
<1> QED BY <1>4, <1>5, <1>6, <1>7

\* While a result is cut, it counts what it left out of the one that was assembled, and
\* says that it was cut.
DigestInv ==
    /\ DOMAIN digest = {"pc", "tasks", "result", "full"}
    /\ digest.pc \in {"tasks", "result", "fit", "done"}
    /\ assessment # NoResult => IsAssessment(assessment)
    /\ digest.pc # "tasks" => assessment # NoResult /\ digest.tasks = TasksOf(assessment)
    /\ digest.pc \in {"fit", "done"} =>
         /\ digest.full = BuildResult(assessment, TasksOf(assessment))
         /\ digest.result \in Result(assessment) /\ Counted(digest.result, digest.full)
    /\ digest.pc = "fit" => digest.result.truncated
    /\ digest.pc = "done" =>
         /\ digest.result # digest.full => digest.result.truncated
         /\ ResultSize(digest.result) <= ByteBudget \/ ~CanDrop(digest.result)

\* Nothing is told before the first step.
LEMMA DigestStarts == ResultInit => DigestInv
BY DEF ResultInit, DigestInv

\* The tasks are those of the assessment.
LEMMA TasksAreBuilt ==
    ASSUME DigestInv, BuildTasks
    PROVE  DigestInv'
<1>1. /\ digest.pc = "tasks" /\ assessment # NoResult /\ assessment' = assessment
      /\ digest' = [digest EXCEPT !.pc = "result", !.tasks = TasksOf(assessment)]
  BY DEF BuildTasks
<1>2. DOMAIN digest = {"pc", "tasks", "result", "full"}
  BY DEF DigestInv
<1>3. DOMAIN digest' = {"pc", "tasks", "result", "full"} /\ digest'.pc = "result" /\ digest'.tasks = TasksOf(assessment)
  BY <1>1, <1>2
<1>4. IsAssessment(assessment)
  BY <1>1 DEF DigestInv
<1> QED BY <1>1, <1>3, <1>4 DEF DigestInv

\* What is assembled is whole, and what is bounded at once counts its cuts.
LEMMA ResultIsAssembled ==
    ASSUME DigestInv, AssembleResult
    PROVE  DigestInv'
<1> DEFINE a == assessment
           r == BuildResult(a, TasksOf(a))
           cut == bound(r, TextLimit, 0)
           tight == bound(cut, TightLimit, TightList)
           fits == ResultSize(cut) <= ByteBudget
           pc == IF fits THEN "done" ELSE "fit"
           result == IF fits THEN cut ELSE [tight EXCEPT !.truncated = TRUE]
<1>1. digest.pc = "result" /\ assessment' = assessment /\ a # NoResult /\ digest.tasks = TasksOf(a) /\ IsAssessment(a)
      /\ DOMAIN digest = {"pc", "tasks", "result", "full"}
  BY DEF DigestInv, AssembleResult
<1>2. digest' = [digest EXCEPT !.full = r, !.pc = pc, !.result = result]
  BY <1>1 DEF AssembleResult
<1>3. TextLimit \in Nat /\ TightLimit \in Nat /\ TightList \in Nat
  BY AgentResultAssumption
<1>4. r \in Result(a) /\ Counted(r, r)
  BY <1>1, ResultIsWhole, FullIsCounted
<1> HIDE DEF r
<1>5. cut \in Result(a) /\ Counted(cut, r) /\ (cut # r => cut.truncated)
  BY <1>3, <1>4, BoundHolds, BoundIsCounted
<1> HIDE DEF cut
<1>6. tight \in Result(a) /\ Counted(tight, r)
  BY <1>3, <1>4, <1>5, BoundHolds, BoundIsCounted
<1> HIDE DEF tight
<1>7. [tight EXCEPT !.truncated = TRUE] \in Result(a) /\ Counted([tight EXCEPT !.truncated = TRUE], r)
      /\ [tight EXCEPT !.truncated = TRUE].truncated
  <2> DEFINE m == [tight EXCEPT !.truncated = TRUE]
  <2>1. m \in Result(a)
    BY <1>6 DEF Result
  <2>2. /\ m.blockers = tight.blockers /\ m.rules = tight.rules /\ m.attention = tight.attention /\ m.under = tight.under
        /\ m.underOmitted = tight.underOmitted /\ m.omitted = tight.omitted /\ m.status = tight.status /\ m.next = tight.next
        /\ m.truncated
    BY <1>6 DEF Result
  <2> HIDE DEF m
  <2> QED BY <1>6, <2>1, <2>2 DEF Counted, m
<1>8. /\ pc \in {"fit", "done"} /\ result \in Result(a) /\ Counted(result, r)
      /\ (pc = "fit" => result.truncated)
      /\ (pc = "done" => (result # r => result.truncated) /\ ResultSize(result) <= ByteBudget)
  BY <1>5, <1>7
<1> HIDE DEF pc, result
<1>9. /\ DOMAIN digest' = {"pc", "tasks", "result", "full"} /\ digest'.pc = pc /\ digest'.result = result /\ digest'.full = r
      /\ digest'.tasks = digest.tasks
  BY <1>1, <1>2
<1> QED BY <1>1, <1>8, <1>9 DEF DigestInv, r

\* A step of the fit drops one entry, or ends where the budget is kept or nothing may go.
LEMMA BudgetIsFitted ==
    ASSUME DigestInv, FitBudget
    PROVE  DigestInv'
<1> DEFINE a == assessment
           r == digest.result
<1>1. /\ digest.pc = "fit" /\ assessment' = assessment /\ a # NoResult /\ digest.tasks = TasksOf(a) /\ IsAssessment(a)
      /\ DOMAIN digest = {"pc", "tasks", "result", "full"}
      /\ digest.full = BuildResult(a, TasksOf(a)) /\ r \in Result(a) /\ Counted(r, digest.full) /\ r.truncated
  BY DEF DigestInv, FitBudget
<1>2. digest.full \in Result(a)
  BY <1>1, ResultIsWhole
<1>3. CASE ResultSize(r) <= ByteBudget \/ ~CanDrop(r)
  <2>1. digest' = [digest EXCEPT !.pc = "done"]
    BY <1>3 DEF FitBudget
  <2>2. /\ DOMAIN digest' = {"pc", "tasks", "result", "full"} /\ digest'.pc = "done" /\ digest'.result = r
        /\ digest'.full = digest.full /\ digest'.tasks = digest.tasks
    BY <1>1, <2>1
  <2> QED BY <1>1, <1>3, <2>2 DEF DigestInv
<1>4. CASE ~(ResultSize(r) <= ByteBudget \/ ~CanDrop(r))
  <2>1. digest' = [digest EXCEPT !.result = DropLast(r)]
    BY <1>4 DEF FitBudget
  <2>2. /\ DOMAIN digest' = {"pc", "tasks", "result", "full"} /\ digest'.pc = "fit" /\ digest'.result = DropLast(r)
        /\ digest'.full = digest.full /\ digest'.tasks = digest.tasks
    BY <1>1, <2>1
  <2>3. DropLast(r) \in Result(a) /\ Counted(DropLast(r), digest.full) /\ DropLast(r).truncated
    BY <1>1, <1>2, <1>4, DropIsCounted
  <2> QED BY <1>1, <2>2, <2>3 DEF DigestInv
<1> QED BY <1>3, <1>4

\* Every step keeps it.
LEMMA DigestSteps == DigestInv /\ [ResultNext]_resultVars => DigestInv'
<1>1. ASSUME DigestInv, NEW a \in Assessments, assessment = NoResult, Assess(a) PROVE DigestInv'
  <2>1. assessment' = a /\ digest' = digest /\ digest.pc = "tasks" /\ IsAssessment(a)
    BY <1>1, AgentResultAssumption DEF DigestInv, Assess
  <2> QED BY <1>1, <2>1 DEF DigestInv
<1>2. ASSUME DigestInv, UNCHANGED resultVars PROVE DigestInv'
  BY <1>2 DEF DigestInv, resultVars
<1> QED BY <1>1, <1>2, TasksAreBuilt, ResultIsAssembled, BudgetIsFitted DEF ResultNext

\* What a finished result tells follows.
LEMMA HonestFollows == DigestInv => ResultIsHonest
<1> SUFFICES ASSUME DigestInv, digest.pc = "done"
             PROVE  /\ EveryFindingIsTold(assessment, digest.full) /\ CutsAreCounted(digest.result, digest.full)
                    /\ FormsAgree(assessment, digest.result, digest.full) /\ FilesAreThere(assessment, digest.tasks, digest.full)
  BY DEF ResultIsHonest
<1> DEFINE a == assessment
           r == digest.result
           full == digest.full
<1>1. /\ IsAssessment(a) /\ digest.tasks = TasksOf(a) /\ full = BuildResult(a, TasksOf(a))
      /\ r \in Result(a) /\ Counted(r, full) /\ (r # full => r.truncated)
      /\ ResultSize(r) <= ByteBudget \/ ~CanDrop(r)
  BY DEF DigestInv
<1>2. /\ full \in Result(a)
      /\ \A n \in DOMAIN full.blockers :
           full.blockers[n].atOmitted = 0 /\ full.blockers[n].editOmitted = 0 /\ full.blockers[n].constraintsOmitted = 0
      /\ full.status = "fail" => full.blockers # <<>>
      /\ full.next = "repair" => full.blockers # <<>> /\ full.blockers[1].kind = "code_change"
  <2> DEFINE w == BuildResult(a, TasksOf(a))
  <2>1. /\ w \in Result(a)
        /\ \A n \in DOMAIN w.blockers :
             w.blockers[n].atOmitted = 0 /\ w.blockers[n].editOmitted = 0 /\ w.blockers[n].constraintsOmitted = 0
        /\ w.status = "fail" => w.blockers # <<>>
        /\ w.next = "repair" => w.blockers # <<>> /\ w.blockers[1].kind = "code_change"
    BY <1>1, ResultIsWhole
  <2>2. full = w
    BY <1>1
  <2> HIDE DEF w, full
  <2> QED BY <2>1, <2>2
<1>3. EveryFindingIsTold(a, full) /\ FilesAreThere(a, digest.tasks, full)
  BY <1>1, FindingsAreTold, FilesAreHeld
<1> HIDE DEF a, r, full
<1>4. /\ r.blockers \in Seq(Repair(a)) /\ full.blockers \in Seq(Repair(a)) /\ r.rules \in Seq(Rule) /\ r.attention \in Seq(Item)
      /\ r.under \in Nat /\ r.gaps = a.gaps /\ full.gaps = a.gaps /\ r.omitted \in Cuts
  BY <1>1, <1>2 DEF Result
<1>5. CutsAreCounted(r, full)
  <2>1. /\ Len(r.blockers) + r.omitted.blockers = Len(full.blockers)
        /\ Len(r.rules) + r.omitted.rules = Len(full.rules)
        /\ Len(r.attention) + r.omitted.attention = Len(full.attention)
        /\ r.under + r.underOmitted = full.under /\ r.gaps = full.gaps
        /\ r.status = full.status /\ r.next = full.next
    BY <1>1, <1>4 DEF Counted
  <2>2. \A n \in DOMAIN r.blockers : n \in DOMAIN full.blockers
    BY <1>4, <2>1 DEF Cuts
  <2>3. ASSUME NEW n \in DOMAIN r.blockers
        PROVE  LET c == r.blockers[n]  b == full.blockers[n] IN
               /\ c.ids = b.ids /\ c.at + c.atOmitted = b.at /\ Len(c.edit) + c.editOmitted = Len(b.edit)
               /\ c.constraints + c.constraintsOmitted = b.constraints
    <3>1. SameRepairCut(r.blockers[n], full.blockers[n]) /\ n \in DOMAIN full.blockers
      BY <1>1, <2>2 DEF Counted
    <3>2. full.blockers[n] \in Repair(a)
      BY <1>4, <3>1
    <3>3. full.blockers[n].at \in Nat /\ Len(full.blockers[n].edit) \in Nat /\ full.blockers[n].constraints \in Nat
      <4>1. full.blockers[n].at \in Nat /\ full.blockers[n].constraints \in Nat /\ full.blockers[n].edit \in Seq(DOMAIN a.tree.order)
        BY <3>2 DEF Repair
      <4> QED BY <4>1
    <3>4. full.blockers[n].atOmitted = 0 /\ full.blockers[n].editOmitted = 0 /\ full.blockers[n].constraintsOmitted = 0
      BY <1>2, <3>1
    <3> QED BY <3>1, <3>3, <3>4 DEF SameRepairCut
  <2>4. r.status = "fail" => r.blockers # <<>>
    BY <1>1, <1>2 DEF Counted
  <2>5. r.next = "repair" => r.blockers[1].kind = "code_change"
    <3> HAVE r.next = "repair"
    <3>1. r.blockers # <<>> /\ full.blockers[1].kind = "code_change"
      BY <1>1, <1>2 DEF Counted
    <3>2. 1 \in DOMAIN r.blockers
      BY <1>4, <3>1
    <3> QED BY <1>1, <3>1, <3>2 DEF Counted, SameRepairCut
  <2>6. ~CanDrop(r) => Len(r.blockers) <= 1 /\ r.rules = <<>> /\ r.attention = <<>> /\ r.under <= 1
    BY <1>4 DEF CanDrop
  <2> QED BY <1>1, <2>1, <2>3, <2>4, <2>5, <2>6 DEF CutsAreCounted
<1>6. FormsAgree(a, r, full)
  <2>1. TextLimit \in Nat /\ TightLimit \in Nat /\ TightList \in Nat /\ 0 \in Nat
    BY AgentResultAssumption
  <2>2. /\ AsText(full) \in Result(a) /\ Len(AsText(full).blockers) = Len(full.blockers) /\ Len(AsText(full).rules) = Len(full.rules)
    BY <1>2, <2>1, BoundHolds DEF AsText
  <2>3. /\ AsBrief(full) \in Result(a) /\ Len(AsBrief(full).blockers) = Len(full.blockers) /\ Len(AsBrief(full).rules) = Len(full.rules)
    BY <1>2, <2>1, BoundHolds DEF AsBrief
  <2>4. AsText(full).gaps = a.gaps /\ AsBrief(full).gaps = a.gaps
    BY <2>2, <2>3 DEF Result
  <2>5. Len(r.blockers) + r.omitted.blockers = Len(full.blockers) /\ Len(r.rules) + r.omitted.rules = Len(full.rules)
    BY <1>1 DEF Counted
  <2>6. Totals(a, AsText(full)) = Totals(a, AsBrief(full))
    BY <2>2, <2>3, <2>4 DEF Totals
  <2>7. Totals(a, AsText(full)).new = Len(AsText(full).blockers)
        /\ Totals(a, AsText(full)).unknown = Len(AsText(full).rules) + Cardinality(AsText(full).gaps)
    BY DEF Totals
  <2> QED BY <1>4, <2>2, <2>4, <2>5, <2>6, <2>7 DEF FormsAgree
<1> QED BY <1>3, <1>5, <1>6 DEF a, r, full

\* Whatever an assessment found, of any size and order, and whatever the budget: every
\* finding that blocks is told once, a cut is counted and changes neither judgement nor first
\* repair, the three forms agree, and every file named is one the tree has.
THEOREM ResultsAreHonest == ResultSpec => []ResultIsHonest
BY DigestStarts, DigestSteps, HonestFollows, PTL DEF ResultSpec
-----------------------------------------------------------------------------
(* Hooks that an install merges into a file (HookInstall) *)

\* The place among the numbers K of one of them.
Rank(K, k) == Cardinality({j \in K : j < k}) + 1

\* Finitely many numbers are ranked in their order, and no rank is left out.
LEMMA RanksHold ==
    ASSUME NEW K, IsFiniteSet(K)
    PROVE  K \subseteq Int =>
           /\ Cardinality(K) \in Nat
           /\ \A k \in K : Rank(K, k) \in 1..Cardinality(K)
           /\ \A n \in 1..Cardinality(K) : \E k \in K : Rank(K, k) = n
           /\ \A j, k \in K : (j < k <=> Rank(K, j) < Rank(K, k)) /\ (Rank(K, j) = Rank(K, k) => j = k)
<1>0. \A M : IsStrictOrder(M, K) => \A n \in 0..(Cardinality(K) - 1) : \E k \in K : Cardinality(Preceding(M, K, k)) = n
  BY PlacesAreTaken
<1> HAVE K \subseteq Int
<1> DEFINE Low(k) == {j \in K : j < k}
           L == {e \in K \X K : e[1] < e[2]}
<1>1. Cardinality(K) \in Nat
  BY FS_CardinalityType
<1>2. \A j, k \in K : <<j, k>> \in L <=> j < k
  OBVIOUS
<1> HIDE DEF L
<1>3. IsStrictOrder(L, K)
  BY <1>2 DEF IsStrictOrder
<1>4. \A k \in K : Low(k) = Preceding(L, K, k)
  BY <1>2 DEF Preceding
<1> HIDE DEF Low
<1>5. PICK M : IsStrictOrder(M, K) /\ \A k \in K : Low(k) = Preceding(M, K, k) /\ \A j \in K : j < k <=> <<j, k>> \in M
  BY <1>2, <1>3, <1>4
<1>6. /\ \A k \in K : Cardinality(Low(k)) \in 0..(Cardinality(K) - 1)
      /\ \A j, k \in K : Cardinality(Low(j)) = Cardinality(Low(k)) => j = k
      /\ \A n \in 0..(Cardinality(K) - 1) : \E k \in K : Cardinality(Low(k)) = n
      /\ \A j, k \in K : j < k => Cardinality(Low(j)) < Cardinality(Low(k))
  <2>1. /\ \A k \in K : Cardinality(Preceding(M, K, k)) \in 0..(Cardinality(K) - 1)
        /\ \A j, k \in K : Cardinality(Preceding(M, K, j)) = Cardinality(Preceding(M, K, k)) => j = k
    BY <1>5, PlacesAreTaken
  <2>2. \A n \in 0..(Cardinality(K) - 1) : \E k \in K : Cardinality(Preceding(M, K, k)) = n
    BY <1>0, <1>5
  <2>3. \A j, k \in K : j < k => Cardinality(Preceding(M, K, j)) < Cardinality(Preceding(M, K, k))
    BY <1>5, PlaceGrows
  <2> QED BY <1>5, <2>1, <2>2, <2>3
<1>7. \A k \in K : Rank(K, k) = Cardinality(Low(k)) + 1
  BY DEF Rank, Low
<1>8. \A k \in K : Rank(K, k) \in 1..Cardinality(K)
  BY <1>1, <1>6, <1>7
<1>9. \A n \in 1..Cardinality(K) : \E k \in K : Rank(K, k) = n
  <2> TAKE n \in 1..Cardinality(K)
  <2>1. n - 1 \in 0..(Cardinality(K) - 1)
    BY <1>1
  <2>2. PICK k \in K : Cardinality(Low(k)) = n - 1
    BY <1>6, <2>1
  <2> QED BY <1>7, <2>2
<1>10. \A j, k \in K : (j < k <=> Rank(K, j) < Rank(K, k)) /\ (Rank(K, j) = Rank(K, k) => j = k)
  <2> TAKE j, k \in K
  <2>1. j \in Int /\ k \in Int /\ Cardinality(Low(j)) \in Int /\ Cardinality(Low(k)) \in Int
    BY <1>6
  <2> QED BY <1>6, <1>7, <2>1
<1> QED BY <1>1, <1>8, <1>9, <1>10

\* The items at some places are those items, each at the rank of its place.
LEMMA ItemsAtHolds ==
    ASSUME NEW U, NEW items \in Seq(U), NEW K \in SUBSET DOMAIN items
    PROVE  /\ ItemsAt(items, K) \in Seq(U) /\ DOMAIN ItemsAt(items, K) = 1..Cardinality(K)
           /\ Cardinality(K) \in Nat /\ IsFiniteSet(K) /\ K \subseteq Int
           /\ \A k \in K : Rank(K, k) \in DOMAIN ItemsAt(items, K) /\ ItemsAt(items, K)[Rank(K, k)] = items[k]
           /\ \A n \in DOMAIN ItemsAt(items, K) : \E k \in K : Rank(K, k) = n
<1> DEFINE s == ItemsAt(items, K)
           At(n) == CHOOSE k \in K : Cardinality({j \in K : j < k}) = n - 1
<1>0. DOMAIN items = 1..Len(items) /\ Len(items) \in Nat
  OBVIOUS
<1>1. IsFiniteSet(K) /\ K \subseteq Int
  <2>1. IsFiniteSet(1..Len(items))
    BY <1>0, FS_Interval
  <2> QED BY <1>0, <2>1, FS_Subset
<1>2. /\ Cardinality(K) \in Nat
      /\ \A k \in K : Rank(K, k) \in 1..Cardinality(K)
      /\ \A n \in 1..Cardinality(K) : \E k \in K : Rank(K, k) = n
      /\ \A j, k \in K : Rank(K, j) = Rank(K, k) => j = k
  BY <1>1, RanksHold
<1>3. \A k \in K : Cardinality({j \in K : j < k}) \in Int
  <2> TAKE k \in K
  <2>1. IsFiniteSet({j \in K : j < k})
    BY <1>1, FS_Subset
  <2> QED BY <2>1, FS_CardinalityType
<1>4. ASSUME NEW n \in 1..Cardinality(K) PROVE At(n) \in K /\ Rank(K, At(n)) = n
  <2>1. PICK k \in K : Rank(K, k) = n
    BY <1>2
  <2>2. Cardinality({j \in K : j < k}) = n - 1
    BY <1>3, <2>1 DEF Rank
  <2>3. At(n) \in K /\ Cardinality({j \in K : j < At(n)}) = n - 1
    BY <2>2
  <2> HIDE DEF At
  <2> QED BY <2>3 DEF Rank
<1>5. s = [n \in 1..Cardinality(K) |-> items[At(n)]]
  BY DEF ItemsAt
<1> HIDE DEF At, s
<1>6. \A n \in 1..Cardinality(K) : s[n] \in U
  BY <1>0, <1>4, <1>5
<1>7. s = [n \in 1..Cardinality(K) |-> s[n]]
  BY <1>5
<1>8. s \in Seq(U) /\ DOMAIN s = 1..Cardinality(K)
  BY <1>2, <1>6, <1>7, PlacesMakeSequence
<1>9. \A k \in K : s[Rank(K, k)] = items[k]
  <2> TAKE k \in K
  <2>1. At(Rank(K, k)) = k
    BY <1>2, <1>4
  <2> QED BY <1>2, <1>5, <2>1
<1> QED BY <1>1, <1>2, <1>8, <1>9 DEF s

\* All items are the list.
LEMMA AllItems ==
    ASSUME NEW U, NEW items \in Seq(U)
    PROVE  /\ \A k \in DOMAIN items : Rank(DOMAIN items, k) = k
           /\ ItemsAt(items, DOMAIN items) = items
<1> DEFINE K == DOMAIN items
           s == ItemsAt(items, K)
<1>0. K = 1..Len(items) /\ Len(items) \in Nat
  OBVIOUS
<1>1. \A k \in K : Rank(K, k) = k
  <2> TAKE k \in K
  <2>1. {j \in K : j < k} = 1..(k - 1) /\ k \in Nat \ {0}
    BY <1>0
  <2>2. 1 \in Int /\ k - 1 \in Int /\ (1 > k - 1 => k - 1 = 0) /\ (k - 1) - 1 + 1 = k - 1 /\ (k - 1) + 1 = k
    BY <2>1
  <2>3. Cardinality(1..(k - 1)) = IF 1 > k - 1 THEN 0 ELSE (k - 1) - 1 + 1
    BY <2>2, FS_Interval
  <2>4. Cardinality(1..(k - 1)) = k - 1
    BY <2>2, <2>3
  <2> QED BY <2>1, <2>2, <2>4 DEF Rank
<1>2. /\ s \in Seq(U) /\ DOMAIN s = 1..Cardinality(K)
      /\ \A k \in K : Rank(K, k) \in DOMAIN s /\ s[Rank(K, k)] = items[k]
  BY ItemsAtHolds
<1>3. Cardinality(K) = Len(items)
  BY <1>0, FS_Interval
<1> HIDE DEF s
<1>4. Len(s) = Len(items) /\ \A k \in 1..Len(items) : s[k] = items[k]
  BY <1>0, <1>1, <1>2, <1>3
<1>5. s = items
  BY <1>2, <1>4, SeqEqual
<1> QED BY <1>1, <1>5 DEF s

HookEntries == Entries \cup InstalledEntries

\* Who an entry is by; what archfit installs is by archfit.
LEMMA EntriesAreBy ==
    /\ \A x \in HookEntries : x.by \in OwnHooks \cup {"ours", "legacy"} /\ (x.by = "ours" => x \in InstalledEntries)
    /\ \A x \in InstalledEntries : x.by = "ours"
    /\ \A o \in OwnHooks : o # "ours" /\ o # "legacy"
<1>1. \A o \in OwnHooks : o # "ours" /\ o # "legacy"
  BY InstallAssumption
<1>2. \A x \in Entries : x.by \in OwnHooks \cup {"legacy"}
  BY DEF Entries
<1>3. \A x \in InstalledEntries : x.by = "ours"
  BY DEF InstalledEntries, Ours
<1> QED BY <1>1, <1>2, <1>3 DEF HookEntries

\* A group is a matcher and entries; one that is not an object has none.
LEMMA GroupsAre ==
    ASSUME NEW g \in HookGroups
    PROVE  /\ g = [matcher |-> g.matcher, hooks |-> g.hooks] /\ g.hooks \in Seq(HookEntries)
           /\ DOMAIN g.hooks = 1..Len(g.hooks) /\ Len(g.hooks) \in Nat
           /\ g.matcher \in {"own", "archfit", OddGroup}
           /\ g.matcher = OddGroup => DOMAIN g.hooks = {}
           /\ \A hooks \in Seq(HookEntries) : g.matcher # OddGroup => [g EXCEPT !.hooks = hooks] \in HookGroups
<1>1. CASE g \in [matcher : {"own", "archfit"}, hooks : Seq(HookEntries)]
  BY <1>1, InstallAssumption DEF HookGroups, HookEntries
<1>2. CASE g \in {[matcher |-> OddGroup, hooks |-> <<>>]}
  <2>1. g = [matcher |-> OddGroup, hooks |-> <<>>]
    BY <1>2
  <2>2. g.matcher = OddGroup /\ g.hooks = <<>>
    BY <2>1
  <2>3. <<>> \in Seq(HookEntries) /\ DOMAIN <<>> = {} /\ Len(<<>>) = 0 /\ 1..0 = {}
    OBVIOUS
  <2> QED BY <2>1, <2>2, <2>3
<1> QED BY <1>1, <1>2 DEF HookGroups, HookEntries

\* What stays of a group is intact, keeps its matcher, and each entry that stays has its rank.
LEMMA RemainsHolds ==
    ASSUME NEW g \in HookGroups, NEW want
    PROVE  /\ Remains(g, want) \in HookGroups /\ Remains(g, want).matcher = g.matcher /\ Intact(Remains(g, want), want)
           /\ Staying(g, want) \in SUBSET DOMAIN g.hooks /\ IsFiniteSet(Staying(g, want)) /\ Staying(g, want) \subseteq Int
           /\ \A k \in Staying(g, want) :
                /\ Rank(Staying(g, want), k) \in DOMAIN Remains(g, want).hooks
                /\ Remains(g, want).hooks[Rank(Staying(g, want), k)] = g.hooks[k]
           /\ \A n \in DOMAIN Remains(g, want).hooks : \E k \in Staying(g, want) : Rank(Staying(g, want), k) = n
<1> DEFINE S == Staying(g, want)
           r == Remains(g, want)
           t == ItemsAt(g.hooks, S)
<1>0. /\ g.hooks \in Seq(HookEntries) /\ DOMAIN g.hooks = 1..Len(g.hooks) /\ Len(g.hooks) \in Nat
      /\ g.matcher = OddGroup => DOMAIN g.hooks = {}
      /\ \A hooks \in Seq(HookEntries) : g.matcher # OddGroup => [g EXCEPT !.hooks = hooks] \in HookGroups
      /\ g = [matcher |-> g.matcher, hooks |-> g.hooks]
  BY GroupsAre
<1>1. S \in SUBSET DOMAIN g.hooks
  BY DEF Staying
<1>2. /\ t \in Seq(HookEntries) /\ IsFiniteSet(S) /\ S \subseteq Int
      /\ \A k \in S : Rank(S, k) \in DOMAIN t /\ t[Rank(S, k)] = g.hooks[k]
      /\ \A n \in DOMAIN t : \E k \in S : Rank(S, k) = n
  BY <1>0, <1>1, ItemsAtHolds
<1>3. CASE Intact(g, want)
  <2>1. r = g /\ S = DOMAIN g.hooks
    BY <1>0, <1>1, <1>3 DEF Remains, Intact
  <2>2. \A k \in DOMAIN g.hooks : Rank(DOMAIN g.hooks, k) = k
    BY <1>0, AllItems
  <2>3. /\ \A k \in S : Rank(S, k) \in DOMAIN r.hooks /\ r.hooks[Rank(S, k)] = g.hooks[k]
        /\ \A n \in DOMAIN r.hooks : \E k \in S : Rank(S, k) = n
    <3> HIDE DEF S, r
    <3> QED BY <2>1, <2>2
  <2> HIDE DEF S, r
  <2>4. r \in HookGroups /\ r.matcher = g.matcher /\ Intact(r, want)
    BY <1>3, <2>1
  <2> QED BY <1>1, <1>2, <2>3, <2>4 DEF S, r
<1>4. CASE ~Intact(g, want)
  <2>1. r = [g EXCEPT !.hooks = t] /\ g.matcher # OddGroup
    BY <1>4 DEF Remains, Intact
  <2>2. r.hooks = t /\ r.matcher = g.matcher
    BY <1>0, <2>1
  <2>3. r \in HookGroups
    BY <1>0, <1>2, <2>1
  <2>4. \A n \in DOMAIN t : t[n].by # "legacy" /\ (want # NoHook => t[n].by # "ours")
    <3> TAKE n \in DOMAIN t
    <3>1. PICK k \in S : Rank(S, k) = n
      BY <1>2
    <3>2. t[n] = g.hooks[k]
      BY <1>2, <3>1
    <3> QED BY <3>2 DEF Staying
  <2> HIDE DEF r, t
  <2>5. Intact(r, want)
    BY <2>2, <2>4 DEF Intact, Staying
  <2> QED BY <1>1, <1>2, <2>2, <2>3, <2>5 DEF r
<1> QED BY <1>3, <1>4

\* archfit's group is one, is not intact where archfit's hooks are wanted, and leaves nothing.
LEMMA OwnGroupHolds ==
    ASSUME NEW want \in HookEvents, NEW config \in HookConfigs
    PROVE  LET g == archfitGroup(want, config) IN
           /\ g \in HookGroups /\ g.matcher = "archfit" /\ g.hooks = <<Ours(RunFor(want), config)>>
           /\ Len(g.hooks) = 1 /\ g.hooks[1] = Ours(RunFor(want), config) /\ g.hooks[1].by = "ours"
           /\ ~Intact(g, want) /\ Staying(g, want) = {} /\ HoldsOurs(g, want)
<1> DEFINE g == archfitGroup(want, config)
           x == Ours(RunFor(want), config)
<1>1. x \in InstalledEntries /\ x \in HookEntries /\ x.by = "ours"
  BY EntriesAreBy DEF InstalledEntries, HookEntries
<1>2. g = [matcher |-> "archfit", hooks |-> <<x>>]
  BY DEF archfitGroup
<1> HIDE DEF g, x
<1>3. g \in HookGroups
  BY <1>1, <1>2 DEF HookGroups, HookEntries
<1>4. g.matcher = "archfit" /\ g.hooks = <<x>> /\ DOMAIN g.hooks = {1} /\ g.hooks[1] = x /\ Len(g.hooks) = 1
  BY <1>2
<1>5. want # NoHook
  BY SentinelAssumption
<1>6. Staying(g, want) = {} /\ HoldsOurs(g, want)
  BY <1>1, <1>4, <1>5 DEF Staying, HoldsOurs
<1>7. ~Intact(g, want)
  BY <1>4, <1>6, InstallAssumption DEF Intact
<1> QED BY <1>1, <1>3, <1>4, <1>6, <1>7 DEF g, x

\* The places of the groups that a merge keeps, and whether it adds one.
KeptPlaces(groups, want) == (DOMAIN groups \ Emptied(groups, want)) \cup Replaced(groups, want)
Adds(groups, want) == want # NoHook /\ Replaced(groups, want) = {}
Becomes(groups, want, config, g) ==
    IF g \in Replaced(groups, want) THEN archfitGroup(want, config) ELSE Remains(groups[g], want)

\* Only an emptied group is replaced, one at most, and the first that held archfit's hook.
LEMMA ReplacedHolds ==
    ASSUME NEW groups \in Seq(HookGroups), NEW want
    PROVE  /\ Replaced(groups, want) \subseteq Emptied(groups, want) /\ Emptied(groups, want) \subseteq DOMAIN groups
           /\ \A j, k \in Replaced(groups, want) : j = k
           /\ Replaced(groups, want) # {} => want # NoHook
           /\ \A g \in Emptied(groups, want) : HoldsOurs(groups[g], want) => Replaced(groups, want) # {}
<1> DEFINE ours == {g \in Emptied(groups, want) : HoldsOurs(groups[g], want)}
<1>1. Emptied(groups, want) \subseteq DOMAIN groups /\ DOMAIN groups = 1..Len(groups) /\ Len(groups) \in Nat
  BY DEF Emptied
<1>2. Replaced(groups, want) = {g \in ours : \A j \in ours : g <= j}
  BY DEF Replaced
<1>3. Replaced(groups, want) \subseteq Emptied(groups, want)
  BY <1>2
<1>4. \A j, k \in Replaced(groups, want) : j = k
  BY <1>1, <1>2
<1>5. Replaced(groups, want) # {} => want # NoHook
  BY <1>2 DEF HoldsOurs
<1>6. ASSUME NEW g \in Emptied(groups, want), HoldsOurs(groups[g], want)
      PROVE  Replaced(groups, want) # {}
  <2>1. ours # {} /\ ours \subseteq 1..Len(groups)
    BY <1>1, <1>6
  <2>2. IsFiniteSet(1..Len(groups))
    BY <1>1, FS_Interval
  <2>3. IsFiniteSet(ours) /\ ours \subseteq Int
    BY <1>1, <2>1, <2>2, FS_Subset
  <2> HIDE DEF ours
  <2>4. \E k \in ours : \A j \in ours : k <= j
    BY <2>1, <2>3, LeastAndGreatest
  <2> QED BY <1>2, <2>4
<1> QED BY <1>1, <1>3, <1>4, <1>5, <1>6

\* The kept groups are merged in their order, and a group of archfit's is added where none is replaced.
LEMMA MergeHolds ==
    ASSUME NEW groups \in Seq(HookGroups), NEW want \in HookEvents \cup {NoHook}, NEW config \in HookConfigs
    PROVE  LET K == KeptPlaces(groups, want)
               out == mergeEvent(groups, want, config)
           IN  /\ out \in Seq(HookGroups) /\ K \in SUBSET DOMAIN groups /\ IsFiniteSet(K) /\ K \subseteq Int
               /\ Cardinality(K) \in Nat
               /\ \A g \in K : Rank(K, g) \in DOMAIN out /\ out[Rank(K, g)] = Becomes(groups, want, config, g)
               /\ \A n \in DOMAIN out :
                    \/ \E g \in K : Rank(K, g) = n
                    \/ Adds(groups, want) /\ n = Cardinality(K) + 1 /\ out[n] = archfitGroup(want, config)
               /\ Len(out) = Cardinality(K) + (IF Adds(groups, want) THEN 1 ELSE 0)
               /\ Adds(groups, want) => out[Cardinality(K) + 1] = archfitGroup(want, config)
<1> DEFINE K == KeptPlaces(groups, want)
           first == Replaced(groups, want)
           own == archfitGroup(want, config)
           each == [g \in DOMAIN groups |-> IF g \in first THEN own ELSE Remains(groups[g], want)]
           merged == ItemsAt(each, K)
           out == mergeEvent(groups, want, config)
<1>0. DOMAIN groups = 1..Len(groups) /\ Len(groups) \in Nat /\ \A g \in DOMAIN groups : groups[g] \in HookGroups
  OBVIOUS
<1>1. /\ first \subseteq Emptied(groups, want) /\ Emptied(groups, want) \subseteq DOMAIN groups
      /\ first # {} => want # NoHook
  BY ReplacedHolds
<1>2. want # NoHook => own \in HookGroups
  BY OwnGroupHolds
<1>3. \A g \in DOMAIN groups : Remains(groups[g], want) \in HookGroups
  BY <1>0, RemainsHolds
<1>4. out = IF want = NoHook \/ first # {} THEN merged ELSE Append(merged, own)
  BY DEF mergeEvent, KeptPlaces
<1> HIDE DEF first, own, out
<1>5. \A g \in DOMAIN groups : each[g] \in HookGroups /\ each[g] = IF g \in first THEN own ELSE Remains(groups[g], want)
  BY <1>1, <1>2, <1>3
<1>6. each = [g \in 1..Len(groups) |-> each[g]]
  BY <1>0
<1> HIDE DEF each
<1>7. each \in Seq(HookGroups) /\ DOMAIN each = DOMAIN groups
  BY <1>0, <1>5, <1>6, PlacesMakeSequence
<1>8. K \in SUBSET DOMAIN each
  BY <1>1, <1>7 DEF KeptPlaces, first
<1> HIDE DEF K
<1>9. /\ merged \in Seq(HookGroups) /\ DOMAIN merged = 1..Cardinality(K)
      /\ Cardinality(K) \in Nat /\ IsFiniteSet(K) /\ K \subseteq Int
      /\ \A k \in K : Rank(K, k) \in DOMAIN merged /\ merged[Rank(K, k)] = each[k]
      /\ \A n \in DOMAIN merged : \E k \in K : Rank(K, k) = n
  BY <1>7, <1>8, ItemsAtHolds
<1> HIDE DEF merged
<1>10. \A g \in K : each[g] = Becomes(groups, want, config, g)
  BY <1>5, <1>7, <1>8 DEF Becomes, first, own
<1>11. Adds(groups, want) <=> want # NoHook /\ first = {}
  BY DEF Adds, first
<1>12. CASE Adds(groups, want)
  <2>1. out = Append(merged, own) /\ own \in HookGroups
    BY <1>2, <1>4, <1>11, <1>12
  <2>2. /\ out \in Seq(HookGroups) /\ DOMAIN out = 1..(Cardinality(K) + 1) /\ Len(out) = Cardinality(K) + 1
        /\ out[Cardinality(K) + 1] = own /\ \A n \in DOMAIN merged : out[n] = merged[n] /\ n \in DOMAIN out
    BY <1>9, <2>1
  <2>3. \A n \in DOMAIN out : n \in DOMAIN merged \/ n = Cardinality(K) + 1
    BY <1>9, <2>2
  <2>4. \A g \in K : Rank(K, g) \in DOMAIN out /\ out[Rank(K, g)] = Becomes(groups, want, config, g)
    BY <1>9, <1>10, <2>2
  <2> QED BY <1>7, <1>8, <1>9, <1>12, <2>2, <2>3, <2>4 DEF K, out, own
<1>13. CASE ~Adds(groups, want)
  <2>1. out = merged
    BY <1>4, <1>11, <1>13
  <2>2. Len(out) = Cardinality(K)
    BY <1>9, <2>1
  <2>3. \A g \in K : Rank(K, g) \in DOMAIN out /\ out[Rank(K, g)] = Becomes(groups, want, config, g)
    BY <1>9, <1>10, <2>1
  <2> QED BY <1>7, <1>8, <1>9, <1>13, <2>1, <2>2, <2>3 DEF K, out, own
<1> QED BY <1>12, <1>13

\* After a merge each group is intact, but for the one of archfit's, where it is wanted.
LEMMA MergedGroups ==
    ASSUME NEW groups \in Seq(HookGroups), NEW want \in HookEvents \cup {NoHook}, NEW config \in HookConfigs
    PROVE  LET out == mergeEvent(groups, want, config) IN
           /\ want = NoHook => \A n \in DOMAIN out : Intact(out[n], want)
           /\ want # NoHook => \E n \in DOMAIN out :
                out[n] = archfitGroup(want, config) /\ \A m \in DOMAIN out \ {n} : Intact(out[m], want)
<1> DEFINE K == KeptPlaces(groups, want)
           first == Replaced(groups, want)
           own == archfitGroup(want, config)
           out == mergeEvent(groups, want, config)
<1>0. \A g \in DOMAIN groups : groups[g] \in HookGroups
  OBVIOUS
<1>1. /\ K \in SUBSET DOMAIN groups /\ IsFiniteSet(K) /\ K \subseteq Int /\ Cardinality(K) \in Nat
      /\ \A g \in K : Rank(K, g) \in DOMAIN out /\ out[Rank(K, g)] = Becomes(groups, want, config, g)
      /\ \A n \in DOMAIN out :
           \/ \E g \in K : Rank(K, g) = n
           \/ Adds(groups, want) /\ n = Cardinality(K) + 1 /\ out[n] = own
      /\ Adds(groups, want) => out[Cardinality(K) + 1] = own
  BY MergeHolds
<1>2. Len(out) = Cardinality(K) + (IF Adds(groups, want) THEN 1 ELSE 0) /\ out \in Seq(HookGroups)
  BY MergeHolds
<1>3. first \subseteq K /\ (\A j, k \in first : j = k) /\ (first # {} => want # NoHook)
  BY ReplacedHolds DEF KeptPlaces
<1>4. \A g \in K : Becomes(groups, want, config, g) = IF g \in first THEN own ELSE Remains(groups[g], want)
  BY DEF Becomes
<1>5. Adds(groups, want) <=> want # NoHook /\ first = {}
  BY DEF Adds
<1> HIDE DEF K, first, own, out
<1>6. \A g \in K \ first : Intact(out[Rank(K, g)], want)
  <2> TAKE g \in K \ first
  <2>1. groups[g] \in HookGroups /\ out[Rank(K, g)] = Remains(groups[g], want)
    BY <1>0, <1>1, <1>4
  <2> QED BY <2>1, RemainsHolds
<1>7. CASE want = NoHook
  <2>1. \A n \in DOMAIN out : Intact(out[n], want)
    BY <1>1, <1>3, <1>5, <1>6, <1>7
  <2> QED BY <1>7, <2>1 DEF out
<1>8. CASE Adds(groups, want)
  <2> DEFINE n == Cardinality(K) + 1
  <2>1. n \in DOMAIN out /\ out[n] = own
    BY <1>1, <1>2, <1>8
  <2>2. \A m \in DOMAIN out \ {n} : Intact(out[m], want)
    BY <1>1, <1>5, <1>6, <1>8
  <2> HIDE DEF n
  <2> QED BY <1>5, <1>8, <2>1, <2>2 DEF out, own
<1>9. CASE want # NoHook /\ ~Adds(groups, want)
  <2>1. PICK g \in K : g \in first
    BY <1>3, <1>5, <1>9
  <2>2. Rank(K, g) \in DOMAIN out /\ out[Rank(K, g)] = own
    BY <1>1, <1>4, <2>1
  <2>3. \A m \in DOMAIN out \ {Rank(K, g)} : Intact(out[m], want)
    BY <1>1, <1>3, <1>6, <1>9, <2>1
  <2> QED BY <1>9, <2>2, <2>3 DEF out, own
<1> QED BY <1>7, <1>8, <1>9

\* Groups that are intact, but for one of archfit's where it is wanted, are merged to themselves.
LEMMA IntactStays ==
    ASSUME NEW out \in Seq(HookGroups), NEW want \in HookEvents \cup {NoHook}, NEW config \in HookConfigs,
           want = NoHook => \A n \in DOMAIN out : Intact(out[n], want),
           want # NoHook => \E n \in DOMAIN out :
             out[n] = archfitGroup(want, config) /\ \A m \in DOMAIN out \ {n} : Intact(out[m], want)
    PROVE  mergeEvent(out, want, config) = out
<1> DEFINE first == Replaced(out, want)
           own == archfitGroup(want, config)
           each == [g \in DOMAIN out |-> IF g \in first THEN own ELSE Remains(out[g], want)]
           K == (DOMAIN out \ Emptied(out, want)) \cup first
<1>1. mergeEvent(out, want, config) = IF want = NoHook \/ first # {} THEN ItemsAt(each, K) ELSE Append(ItemsAt(each, K), own)
  BY DEF mergeEvent
<1>2. /\ first \subseteq Emptied(out, want) /\ Emptied(out, want) \subseteq DOMAIN out
      /\ first # {} => want # NoHook
      /\ \A g \in Emptied(out, want) : HoldsOurs(out[g], want) => first # {}
  BY ReplacedHolds
<1>3. CASE want = NoHook
  <2>1. Emptied(out, want) = {} /\ first = {}
    BY <1>2, <1>3 DEF Emptied
  <2>2. \A g \in DOMAIN out : Remains(out[g], want) = out[g]
    BY <1>3 DEF Remains
  <2>3. K = DOMAIN out /\ each = [g \in DOMAIN out |-> out[g]]
    BY <2>1, <2>2
  <2>4. each = out
    BY <2>3
  <2> HIDE DEF each, K
  <2> QED BY <1>1, <1>3, <2>3, <2>4, AllItems
<1>4. CASE want # NoHook
  <2>1. PICK n \in DOMAIN out : out[n] = own /\ \A m \in DOMAIN out \ {n} : Intact(out[m], want)
    BY <1>4
  <2>2. ~Intact(own, want) /\ Staying(own, want) = {} /\ HoldsOurs(own, want)
    BY <1>4, OwnGroupHolds
  <2> HIDE DEF own
  <2>3. Emptied(out, want) = {n}
    BY <2>1, <2>2 DEF Emptied
  <2>4. first = {n}
    BY <1>2, <2>1, <2>2, <2>3
  <2>5. K = DOMAIN out
    BY <2>3, <2>4
  <2>6. \A g \in DOMAIN out : each[g] = out[g]
    BY <2>1, <2>4 DEF Remains
  <2>7. each = out
    BY <2>6
  <2> HIDE DEF each, K, first
  <2> QED BY <1>1, <2>4, <2>5, <2>7, AllItems
<1> QED BY <1>3, <1>4

\* The hook an install wants in an event, if any.
WantOf(harness, event) == IF event \in Wanted(harness) THEN event ELSE NoHook

\* A hook file maps some events to their groups.
LEMMA HookFilesAre ==
    /\ \A file : IsHookFile(file) <=>
         /\ DOMAIN file \subseteq HookEvents /\ file = [e \in DOMAIN file |-> file[e]]
         /\ \A e \in DOMAIN file : file[e] \in Seq(HookGroups)
    /\ \A file : IsHookFile(file) => file # NoHooks /\ file # Garbage
    /\ IsHookFile(<<>>) /\ DOMAIN <<>> = {}
<1>1. ASSUME NEW file, IsHookFile(file)
      PROVE  /\ DOMAIN file \subseteq HookEvents /\ file = [e \in DOMAIN file |-> file[e]]
             /\ \A e \in DOMAIN file : file[e] \in Seq(HookGroups)
  <2>1. PICK events \in SUBSET HookEvents : file \in [events -> Seq(HookGroups)]
    BY <1>1 DEF IsHookFile
  <2> QED BY <2>1
<1>2. ASSUME NEW file, DOMAIN file \subseteq HookEvents, file = [e \in DOMAIN file |-> file[e]],
             \A e \in DOMAIN file : file[e] \in Seq(HookGroups)
      PROVE  IsHookFile(file)
  <2>1. file \in [DOMAIN file -> Seq(HookGroups)]
    BY <1>2
  <2> QED BY <1>2, <2>1 DEF IsHookFile
<1>3. DOMAIN <<>> = {} /\ <<>> = [e \in {} |-> <<>>[e]]
  OBVIOUS
<1>4. IsHookFile(<<>>)
  BY <1>2, <1>3
<1>5. \A file : IsHookFile(file) => file # NoHooks /\ file # Garbage
  BY SentinelAssumption
<1> QED BY <1>1, <1>2, <1>3, <1>4, <1>5

\* The groups of an event are a list, and an event that no one hooks stays so.
LEMMA GroupsOfHold ==
    ASSUME NEW file, IsHookFile(file), NEW e \in HookEvents
    PROVE  GroupsOf(file, e) \in Seq(HookGroups)
BY HookFilesAre DEF GroupsOf
LEMMA NothingMerges ==
    ASSUME NEW config \in HookConfigs
    PROVE  mergeEvent(<<>>, NoHook, config) = <<>>
<1>1. <<>> \in Seq(HookGroups) /\ DOMAIN <<>> = {}
  OBVIOUS
<1> QED BY <1>1, IntactStays

\* An install merges each event with the hook it wants there; what it merged, it leaves as it is.
LEMMA ConfigMerges ==
    ASSUME NEW file, IsHookFile(file), NEW h \in Harnesses, NEW c \in HookConfigs
    PROVE  LET merged == mergeHookConfig(file, h, c) IN
           /\ IsHookFile(merged)
           /\ \A e \in HookEvents : GroupsOf(merged, e) = mergeEvent(GroupsOf(file, e), WantOf(h, e), c)
           /\ Wanted(h) \subseteq DOMAIN merged /\ Wanted(h) \subseteq HookEvents
           /\ mergeHookConfig(merged, h, c) = merged
<1> DEFINE new(e) == mergeEvent(GroupsOf(file, e), IF e \in Wanted(h) THEN e ELSE NoHook, c)
           gone == {e \in DOMAIN file : file[e] # <<>> /\ new(e) = <<>>}
           merged == mergeHookConfig(file, h, c)
           D == (DOMAIN file \ gone) \cup Wanted(h)
<1>1. Wanted(h) \subseteq HookEvents
  BY DEF Wanted
<1>2. /\ DOMAIN file \subseteq HookEvents /\ file # NoHooks
      /\ \A e \in HookEvents : GroupsOf(file, e) \in Seq(HookGroups) /\ WantOf(h, e) \in HookEvents \cup {NoHook}
  BY HookFilesAre, GroupsOfHold DEF WantOf
<1>3. merged = [e \in D |-> new(e)]
  BY <1>2 DEF mergeHookConfig
<1>4. \A e \in HookEvents : new(e) = mergeEvent(GroupsOf(file, e), WantOf(h, e), c)
  BY DEF WantOf
<1>5. \A e \in HookEvents : new(e) \in Seq(HookGroups)
  BY <1>2, <1>4, MergeHolds
<1>6. \A e \in HookEvents \ (DOMAIN file \cup Wanted(h)) : new(e) = <<>>
  BY NothingMerges DEF GroupsOf
<1>7. D \subseteq HookEvents /\ \A e \in HookEvents \ D : e \notin DOMAIN file \cup Wanted(h) \/ new(e) = <<>>
  BY <1>1, <1>2
<1> HIDE DEF new, gone, merged, D
<1>8. DOMAIN merged = D /\ \A e \in D : merged[e] = new(e)
  BY <1>3
<1>9. IsHookFile(merged)
  BY <1>3, <1>5, <1>7, <1>8, HookFilesAre
<1>10. \A e \in HookEvents : GroupsOf(merged, e) = new(e)
  BY <1>6, <1>7, <1>8 DEF GroupsOf
<1>11. \A e \in HookEvents : mergeEvent(new(e), WantOf(h, e), c) = new(e)
  <2> TAKE e \in HookEvents
  <2> DEFINE groups == GroupsOf(file, e)
             want == WantOf(h, e)
  <2>1. groups \in Seq(HookGroups) /\ want \in HookEvents \cup {NoHook} /\ new(e) = mergeEvent(groups, want, c) /\ new(e) \in Seq(HookGroups)
    BY <1>2, <1>4, <1>5
  <2> HIDE DEF groups, want
  <2>2. /\ want = NoHook => \A n \in DOMAIN new(e) : Intact(new(e)[n], want)
        /\ want # NoHook => \E n \in DOMAIN new(e) :
             new(e)[n] = archfitGroup(want, c) /\ \A m \in DOMAIN new(e) \ {n} : Intact(new(e)[m], want)
    BY <2>1, MergedGroups
  <2>3. mergeEvent(new(e), want, c) = new(e)
    BY <2>1, <2>2, IntactStays
  <2> QED BY <2>3 DEF want
<1>12. mergeHookConfig(merged, h, c) = merged
  <2> DEFINE again(e) == mergeEvent(GroupsOf(merged, e), IF e \in Wanted(h) THEN e ELSE NoHook, c)
             lost == {e \in DOMAIN merged : merged[e] # <<>> /\ again(e) = <<>>}
  <2>1. merged # NoHooks
    BY <1>9, HookFilesAre
  <2>2. mergeHookConfig(merged, h, c) = [e \in (DOMAIN merged \ lost) \cup Wanted(h) |-> again(e)]
    BY <2>1 DEF mergeHookConfig
  <2>3. \A e \in HookEvents : again(e) = new(e)
    BY <1>10, <1>11 DEF WantOf
  <2> HIDE DEF again
  <2>4. lost = {}
    BY <1>7, <1>8, <2>3
  <2>5. Wanted(h) \subseteq D
    BY DEF D
  <2>6. (DOMAIN merged \ lost) \cup Wanted(h) = D
    BY <1>8, <2>4, <2>5
  <2> HIDE DEF lost
  <2>7. mergeHookConfig(merged, h, c) = [e \in D |-> again(e)]
    BY <2>2, <2>6
  <2>8. [e \in D |-> again(e)] = [e \in D |-> new(e)]
    BY <1>7, <2>3
  <2> QED BY <1>3, <2>7, <2>8
<1>13. Wanted(h) \subseteq DOMAIN merged
  BY <1>8 DEF D
<1>14. \A e \in HookEvents : GroupsOf(merged, e) = mergeEvent(GroupsOf(file, e), WantOf(h, e), c)
  BY <1>4, <1>10
<1> QED BY <1>1, <1>9, <1>12, <1>13, <1>14 DEF merged

\* A one-to-one map that carries an order of S into one of T.
Carries(f, S, L, T, M) ==
    /\ f \in [S -> T]
    /\ \A x, y \in S : f[x] = f[y] => x = y
    /\ \A z \in T : \E x \in S : f[x] = z
    /\ \A x, y \in S : <<x, y>> \in L <=> <<f[x], f[y]>> \in M

\* Orders that a one-to-one map carries into each other have the same places.
LEMMA SamePlaces ==
    ASSUME NEW S, IsFiniteSet(S), NEW T, NEW L, NEW M, NEW f, Carries(f, S, L, T, M)
    PROVE  /\ IsFiniteSet(T) /\ Cardinality(T) = Cardinality(S)
           /\ \A x \in S : Cardinality(Preceding(M, T, f[x])) = Cardinality(Preceding(L, S, x))
<1>0. /\ f \in [S -> T]
      /\ \A x, y \in S : f[x] = f[y] => x = y
      /\ \A z \in T : \E x \in S : f[x] = z
      /\ \A x, y \in S : <<x, y>> \in L <=> <<f[x], f[y]>> \in M
  BY DEF Carries
<1>1. f \in Bijection(S, T)
  BY <1>0 DEF Bijection, Injection, IsInjective, Surjection
<1>2. IsFiniteSet(T) /\ Cardinality(T) = Cardinality(S)
  BY <1>1, FS_Bijection DEF ExistsBijection
<1>3. ASSUME NEW x \in S
      PROVE  Cardinality(Preceding(M, T, f[x])) = Cardinality(Preceding(L, S, x))
  <2> DEFINE A == Preceding(L, S, x)
             B == Preceding(M, T, f[x])
             g == [y \in A |-> f[y]]
  <2>1. A \subseteq S /\ B \subseteq T /\ IsFiniteSet(A)
    BY FS_Subset DEF Preceding
  <2>2. \A y \in S : y \in A <=> f[y] \in B
    BY <1>0 DEF Preceding
  <2> HIDE DEF A, B
  <2>3. g \in [A -> B]
    BY <1>0, <2>1, <2>2
  <2>4. \A y, z \in A : g[y] = g[z] => y = z
    BY <1>0, <2>1
  <2>5. \A z \in B : \E y \in A : g[y] = z
    <3> TAKE z \in B
    <3>1. PICK y \in S : f[y] = z
      BY <1>0, <2>1
    <3> QED BY <2>2, <3>1
  <2>6. g \in Bijection(A, B)
    BY <2>3, <2>4, <2>5 DEF Bijection, Injection, IsInjective, Surjection
  <2>7. Cardinality(B) = Cardinality(A)
    BY <2>1, <2>6, FS_Bijection DEF ExistsBijection
  <2> QED BY <2>7 DEF A, B
<1> QED BY <1>2, <1>3

\* A position is an event, a group's place and an entry's, of which there are finitely many.
LEMMA PositionsAre ==
    ASSUME NEW file, IsHookFile(file)
    PROVE  /\ \A e \in HookEvents : \A g, k :
                <<e, g, k>> \in Positions(file) <=> g \in DOMAIN GroupsOf(file, e) /\ k \in DOMAIN GroupsOf(file, e)[g].hooks
           /\ \A p \in Positions(file) :
                /\ p = <<p[1], p[2], p[3]>> /\ p[1] \in HookEvents /\ p[1] \in DOMAIN file
                /\ p[2] \in Int /\ p[3] \in Int
                /\ p[2] \in DOMAIN GroupsOf(file, p[1]) /\ p[3] \in DOMAIN GroupsOf(file, p[1])[p[2]].hooks
                /\ GroupsOf(file, p[1])[p[2]] \in HookGroups
                /\ file[p[1]] = GroupsOf(file, p[1])
                /\ EntryAt(file, p) = GroupsOf(file, p[1])[p[2]].hooks[p[3]]
                /\ EntryAt(file, p) \in HookEntries
           /\ IsFiniteSet(Positions(file))
<1>1. DOMAIN file \subseteq HookEvents /\ \A e \in DOMAIN file : file[e] \in Seq(HookGroups)
  BY HookFilesAre
<1>2. ASSUME NEW e \in DOMAIN file
      PROVE  /\ GroupsOf(file, e) = file[e] /\ DOMAIN file[e] = 1..Len(file[e]) /\ Len(file[e]) \in Nat
             /\ \A g \in DOMAIN file[e] : file[e][g] \in HookGroups
  BY <1>1 DEF GroupsOf
<1>3. \A g \in HookGroups : /\ DOMAIN g.hooks = 1..Len(g.hooks) /\ Len(g.hooks) \in Nat
                            /\ \A k \in DOMAIN g.hooks : g.hooks[k] \in HookEntries
  <2> TAKE g \in HookGroups
  <2>1. g.hooks \in Seq(HookEntries)
    BY GroupsAre
  <2> HIDE DEF HookEntries
  <2> QED BY <2>1
<1>4. \A p : p \in Positions(file) <=>
        \E e \in DOMAIN file : \E g \in DOMAIN file[e] : \E k \in DOMAIN file[e][g].hooks : p = <<e, g, k>>
  BY DEF Positions
<1>5. \A e \in HookEvents : e \notin DOMAIN file => DOMAIN GroupsOf(file, e) = {}
  BY DEF GroupsOf
<1>6. \A e \in HookEvents : \A g, k :
        <<e, g, k>> \in Positions(file) <=> g \in DOMAIN GroupsOf(file, e) /\ k \in DOMAIN GroupsOf(file, e)[g].hooks
  BY <1>1, <1>2, <1>4, <1>5
<1>7. ASSUME NEW p \in Positions(file)
      PROVE  /\ p = <<p[1], p[2], p[3]>> /\ p[1] \in HookEvents /\ p[1] \in DOMAIN file
             /\ p[2] \in Int /\ p[3] \in Int
             /\ p[2] \in DOMAIN GroupsOf(file, p[1]) /\ p[3] \in DOMAIN GroupsOf(file, p[1])[p[2]].hooks
             /\ GroupsOf(file, p[1])[p[2]] \in HookGroups
             /\ file[p[1]] = GroupsOf(file, p[1])
             /\ EntryAt(file, p) = GroupsOf(file, p[1])[p[2]].hooks[p[3]]
             /\ EntryAt(file, p) \in HookEntries
  <2>0. PICK e \in DOMAIN file : \E g \in DOMAIN file[e] : \E k \in DOMAIN file[e][g].hooks : p = <<e, g, k>>
    BY <1>4
  <2>1. PICK g \in DOMAIN file[e] : \E k \in DOMAIN file[e][g].hooks : p = <<e, g, k>>
    BY <2>0
  <2>2. PICK k \in DOMAIN file[e][g].hooks : p = <<e, g, k>>
    BY <2>1
  <2>3. p[1] = e /\ p[2] = g /\ p[3] = k
    BY <2>2
  <2>4. file[e][g] \in HookGroups /\ file[e][g].hooks[k] \in HookEntries /\ g \in Int /\ k \in Int
    BY <1>2, <1>3
  <2>5. EntryAt(file, p) = file[e][g].hooks[k]
    BY <2>3 DEF EntryAt
  <2> QED BY <1>1, <1>2, <2>2, <2>3, <2>4, <2>5
<1>8. IsFiniteSet(Positions(file))
  <2> DEFINE In(e, g) == {<<e, g, k>> : k \in DOMAIN file[e][g].hooks}
             Of(e) == {In(e, g) : g \in DOMAIN file[e]}
             All == {UNION Of(e) : e \in DOMAIN file}
  <2>1. ASSUME NEW e \in DOMAIN file, NEW g \in DOMAIN file[e] PROVE IsFiniteSet(In(e, g))
    <3> DEFINE at == [k \in DOMAIN file[e][g].hooks |-> <<e, g, k>>]
    <3>0. /\ DOMAIN file[e][g].hooks = 1..Len(file[e][g].hooks)
          /\ 1 \in Int /\ Len(file[e][g].hooks) \in Int
      BY <1>2, <1>3
    <3>1. IsFiniteSet(DOMAIN file[e][g].hooks)
      BY <3>0, FS_Interval
    <3>2. at = [k \in DOMAIN file[e][g].hooks |-> at[k]]
      OBVIOUS
    <3>3. In(e, g) = {at[k] : k \in DOMAIN file[e][g].hooks}
      OBVIOUS
    <3> HIDE DEF at, In
    <3> QED BY <3>1, <3>2, <3>3, ImageIsFinite
  <2>2. ASSUME NEW e \in DOMAIN file PROVE IsFiniteSet(UNION Of(e))
    <3> DEFINE at == [g \in DOMAIN file[e] |-> In(e, g)]
    <3>1. IsFiniteSet(DOMAIN file[e])
      BY <1>2, FS_Interval
    <3>2. at = [g \in DOMAIN file[e] |-> at[g]] /\ Of(e) = {at[g] : g \in DOMAIN file[e]}
      OBVIOUS
    <3>3. \A T \in Of(e) : IsFiniteSet(T)
      BY <2>1
    <3> HIDE DEF at, Of
    <3>4. IsFiniteSet(Of(e))
      BY <3>1, <3>2, ImageIsFinite
    <3> QED BY <3>3, <3>4, FS_UNION
  <2>3. IsFiniteSet(DOMAIN file)
    <3>1. IsFiniteSet(HookEvents)
      <4>1. /\ IsFiniteSet({"SessionStart"}) /\ IsFiniteSet({"PostToolUse"})
            /\ IsFiniteSet({"Stop"}) /\ IsFiniteSet({"SubagentStop"})
        BY FS_Singleton
      <4>2. HookEvents = ({"SessionStart"} \cup {"PostToolUse"}) \cup ({"Stop"} \cup {"SubagentStop"})
        BY DEF HookEvents
      <4>3. IsFiniteSet({"SessionStart"} \cup {"PostToolUse"}) /\ IsFiniteSet({"Stop"} \cup {"SubagentStop"})
        BY <4>1, FS_Union
      <4> QED BY <4>2, <4>3, FS_Union
    <3> QED BY <1>1, <3>1, FS_Subset
  <2>4. IsFiniteSet(All)
    <3> DEFINE at == [e \in DOMAIN file |-> UNION Of(e)]
    <3>1. at = [e \in DOMAIN file |-> at[e]] /\ All = {at[e] : e \in DOMAIN file}
      OBVIOUS
    <3> HIDE DEF at, All
    <3> QED BY <2>3, <3>1, ImageIsFinite
  <2>5. \A T \in All : IsFiniteSet(T)
    BY <2>2
  <2>6. Positions(file) = UNION All
    BY DEF Positions
  <2> HIDE DEF All
  <2> QED BY <2>4, <2>5, <2>6, FS_UNION
<1> QED BY <1>6, <1>7, <1>8

\* Where a merge moves an entry that stays.
MovesTo(file, h, p) ==
    LET groups == GroupsOf(file, p[1])
        want == WantOf(h, p[1])
    IN  <<p[1], Rank(KeptPlaces(groups, want), p[2]), Rank(Staying(groups[p[2]], want), p[3])>>

\* The places of a person's hooks in an event are those that precede, in order.
LEMMA PersonsOrder ==
    ASSUME NEW file, IsHookFile(file), NEW e \in HookEvents
    PROVE  LET S == PersonsPlaces(file, e)
               L == {x \in S \X S : Precedes(x[1], x[2])}
           IN  /\ IsFiniteSet(S) /\ IsStrictOrder(L, S)
               /\ \A p, q \in S : <<p, q>> \in L <=> Precedes(p, q)
               /\ \A p \in S : {q \in S : Precedes(q, p)} = Preceding(L, S, p)
<1> DEFINE S == PersonsPlaces(file, e)
           L == {x \in S \X S : Precedes(x[1], x[2])}
<1>1. S \subseteq Positions(file) /\ \A p \in S : p[1] = e
  BY DEF PersonsPlaces
<1>2. IsFiniteSet(S)
  BY <1>1, PositionsAre, FS_Subset
<1>3. \A p \in S : p = <<e, p[2], p[3]>> /\ p[2] \in Int /\ p[3] \in Int
  BY <1>1, PositionsAre
<1> HIDE DEF S
<1>4. \A p, q \in S : <<p, q>> \in L <=> Precedes(p, q)
  OBVIOUS
<1> HIDE DEF L
<1>5. IsStrictOrder(L, S)
  <2>1. \A x \in S : <<x, x>> \notin L
    BY <1>3, <1>4 DEF Precedes
  <2>2. \A x, y, z \in S : <<x, y>> \in L /\ <<y, z>> \in L => <<x, z>> \in L
    BY <1>3, <1>4 DEF Precedes
  <2>3. ASSUME NEW x \in S, NEW y \in S, x # y PROVE <<x, y>> \in L \/ <<y, x>> \in L
    <3>1. x[2] # y[2] \/ x[3] # y[3]
      BY <1>3, <2>3
    <3> QED BY <1>3, <1>4, <3>1 DEF Precedes
  <2> QED BY <2>1, <2>2, <2>3 DEF IsStrictOrder
<1>6. \A p \in S : {q \in S : Precedes(q, p)} = Preceding(L, S, p)
  BY <1>4 DEF Preceding
<1> QED BY <1>2, <1>4, <1>5, <1>6 DEF S, L

\* A hook of a person stays in a group that is kept, and is the same one where it is moved.
LEMMA PersonsMove ==
    ASSUME NEW file, IsHookFile(file), NEW h \in Harnesses, NEW c \in HookConfigs, NEW e \in HookEvents,
           NEW p \in PersonsPlaces(file, e)
    PROVE  LET merged == mergeHookConfig(file, h, c)
               q == MovesTo(file, h, p)
               groups == GroupsOf(file, e)
               want == WantOf(h, e)
           IN  /\ p[2] \in KeptPlaces(groups, want) /\ p[3] \in Staying(groups[p[2]], want)
               /\ q \in PersonsPlaces(merged, e)
               /\ EntryAt(merged, q) = EntryAt(file, p) /\ merged[q[1]][q[2]].matcher = file[p[1]][p[2]].matcher
<1> DEFINE merged == mergeHookConfig(file, h, c)
           q == MovesTo(file, h, p)
           groups == GroupsOf(file, e)
           want == WantOf(h, e)
           K == KeptPlaces(groups, want)
           g == p[2]
           k == p[3]
           St == Staying(groups[g], want)
           out == GroupsOf(merged, e)
<1>1. p \in Positions(file) /\ p[1] = e /\ EntryAt(file, p).by \in OwnHooks
  BY DEF PersonsPlaces
<1>2. /\ g \in DOMAIN groups /\ k \in DOMAIN groups[g].hooks /\ groups[g] \in HookGroups
      /\ file[p[1]] = groups /\ EntryAt(file, p) = groups[g].hooks[k]
  BY <1>1, PositionsAre
<1>3. groups \in Seq(HookGroups) /\ want \in HookEvents \cup {NoHook}
  BY GroupsOfHold DEF WantOf
<1>4. k \in St
  BY <1>1, <1>2, EntriesAreBy DEF Staying
<1>5. g \in K /\ g \notin Replaced(groups, want)
  <2>1. g \notin Emptied(groups, want)
    BY <1>4 DEF Emptied
  <2> QED BY <1>2, <1>3, <2>1, ReplacedHolds DEF KeptPlaces
<1>6. IsHookFile(merged) /\ out = mergeEvent(groups, want, c)
  BY ConfigMerges
<1> HIDE DEF groups, want, out, merged
<1>7. Rank(K, g) \in DOMAIN out /\ out[Rank(K, g)] = Remains(groups[g], want)
  <2>1. Rank(K, g) \in DOMAIN out /\ out[Rank(K, g)] = Becomes(groups, want, c, g)
    BY <1>3, <1>5, <1>6, MergeHolds
  <2> QED BY <1>5, <2>1 DEF Becomes
<1>8. /\ Rank(St, k) \in DOMAIN Remains(groups[g], want).hooks
      /\ Remains(groups[g], want).hooks[Rank(St, k)] = groups[g].hooks[k]
      /\ Remains(groups[g], want).matcher = groups[g].matcher
  BY <1>2, <1>4, RemainsHolds
<1>9. q = <<e, Rank(K, g), Rank(St, k)>>
  BY <1>1 DEF MovesTo, groups, want
<1> HIDE DEF q, K, St
<1>10. q \in Positions(merged)
  BY <1>6, <1>7, <1>8, <1>9, PositionsAre DEF out
<1>11. q[1] = e /\ q[2] = Rank(K, g) /\ q[3] = Rank(St, k)
  BY <1>9
<1>12. EntryAt(merged, q) = out[q[2]].hooks[q[3]] /\ merged[q[1]] = out
  BY <1>6, <1>10, <1>11, PositionsAre DEF out
<1>13. EntryAt(merged, q) = EntryAt(file, p)
  BY <1>2, <1>7, <1>8, <1>11, <1>12
<1>14. merged[q[1]][q[2]].matcher = file[p[1]][p[2]].matcher
  BY <1>2, <1>7, <1>8, <1>11, <1>12
<1>15. q \in PersonsPlaces(merged, e)
  BY <1>1, <1>10, <1>11, <1>13 DEF PersonsPlaces
<1> QED BY <1>4, <1>5, <1>13, <1>14, <1>15 DEF q, merged, K, St, groups, want

\* Where a person's hooks stay, they stay in order, and each hook of a person was there before.
LEMMA PersonsKeepOrder ==
    ASSUME NEW file, IsHookFile(file), NEW h \in Harnesses, NEW c \in HookConfigs, NEW e \in HookEvents
    PROVE  LET merged == mergeHookConfig(file, h, c) IN
           /\ \A p, q \in PersonsPlaces(file, e) :
                /\ Precedes(p, q) <=> Precedes(MovesTo(file, h, p), MovesTo(file, h, q))
                /\ MovesTo(file, h, p) = MovesTo(file, h, q) => p = q
           /\ \A q \in PersonsPlaces(merged, e) : \E p \in PersonsPlaces(file, e) : MovesTo(file, h, p) = q
<1> DEFINE merged == mergeHookConfig(file, h, c)
           groups == GroupsOf(file, e)
           want == WantOf(h, e)
           K == KeptPlaces(groups, want)
           St(g) == Staying(groups[g], want)
           out == GroupsOf(merged, e)
           S == PersonsPlaces(file, e)
           to(p) == MovesTo(file, h, p)
<1>1. groups \in Seq(HookGroups) /\ want \in HookEvents \cup {NoHook} /\ \A g \in DOMAIN groups : groups[g] \in HookGroups
  BY GroupsOfHold DEF WantOf
<1>2. IsHookFile(merged) /\ out = mergeEvent(groups, want, c)
  BY ConfigMerges
<1>3. \A p \in S : p \in Positions(file) /\ p[1] = e /\ EntryAt(file, p).by \in OwnHooks
  BY DEF PersonsPlaces
<1>4. \A p \in S : /\ p = <<e, p[2], p[3]>> /\ p[2] \in Int /\ p[3] \in Int
                   /\ p[2] \in DOMAIN groups /\ p[2] \in K /\ p[3] \in St(p[2])
                   /\ to(p) = <<e, Rank(K, p[2]), Rank(St(p[2]), p[3])>>
  <2> TAKE p \in S
  <2>1. p = <<e, p[2], p[3]>> /\ p[2] \in Int /\ p[3] \in Int /\ p[2] \in DOMAIN groups
    BY <1>3, PositionsAre
  <2>2. p[2] \in K /\ p[3] \in St(p[2])
    BY PersonsMove
  <2>3. to(p) = <<e, Rank(K, p[2]), Rank(St(p[2]), p[3])>>
    BY <1>3 DEF MovesTo
  <2> QED BY <2>1, <2>2, <2>3
<1>5. /\ IsFiniteSet(K) /\ K \subseteq Int /\ K \subseteq DOMAIN groups /\ Cardinality(K) \in Nat
      /\ \A g \in K : Rank(K, g) \in DOMAIN out /\ out[Rank(K, g)] = Becomes(groups, want, c, g)
      /\ \A n \in DOMAIN out : (\E g \in K : Rank(K, g) = n) \/ (Adds(groups, want) /\ out[n] = archfitGroup(want, c))
  BY <1>1, <1>2, MergeHolds
<1>6. \A j, k \in K : (j < k <=> Rank(K, j) < Rank(K, k)) /\ (Rank(K, j) = Rank(K, k) => j = k)
  BY <1>5, RanksHold
<1>7. \A g \in DOMAIN groups : IsFiniteSet(St(g)) /\ St(g) \subseteq Int
  BY <1>1, RemainsHolds
<1>8. \A g \in DOMAIN groups : \A j, k \in St(g) :
         (j < k <=> Rank(St(g), j) < Rank(St(g), k)) /\ (Rank(St(g), j) = Rank(St(g), k) => j = k)
  BY <1>7, RanksHold
<1>9. \A p \in S : Rank(K, p[2]) \in Int
  <2>1. out \in Seq(HookGroups)
    BY <1>1, <1>2, MergeHolds
  <2> QED BY <1>4, <1>5, <2>1
<1>10. \A p, q \in S : p[2] = q[2] <=> Rank(K, p[2]) = Rank(K, q[2])
  BY <1>4, <1>6
<1>11. ASSUME NEW p \in S, NEW q \in S
       PROVE  (Precedes(p, q) <=> Precedes(to(p), to(q))) /\ (to(p) = to(q) => p = q)
  <2>1. /\ to(p)[2] = Rank(K, p[2]) /\ to(p)[3] = Rank(St(p[2]), p[3])
        /\ to(q)[2] = Rank(K, q[2]) /\ to(q)[3] = Rank(St(q[2]), q[3])
    BY <1>4
  <2>2. /\ p[2] < q[2] <=> to(p)[2] < to(q)[2]
        /\ p[2] = q[2] <=> to(p)[2] = to(q)[2]
    BY <1>4, <1>6, <1>10, <2>1
  <2>3. p[2] = q[2] => (p[3] < q[3] <=> to(p)[3] < to(q)[3]) /\ (to(p)[3] = to(q)[3] => p[3] = q[3])
    BY <1>4, <1>8, <2>1
  <2>4. p = <<e, p[2], p[3]>> /\ q = <<e, q[2], q[3]>>
    BY <1>4
  <2> HIDE DEF to
  <2> QED BY <2>2, <2>3, <2>4 DEF Precedes
<1>12. ASSUME NEW q \in PersonsPlaces(merged, e)
       PROVE  \E p \in S : to(p) = q
  <2> DEFINE n == q[2]
             m == q[3]
  <2>1. q \in Positions(merged) /\ q[1] = e /\ EntryAt(merged, q).by \in OwnHooks
    BY DEF PersonsPlaces
  <2>2. /\ q = <<e, n, m>> /\ n \in DOMAIN out /\ m \in DOMAIN out[n].hooks
        /\ EntryAt(merged, q) = out[n].hooks[m]
    BY <1>2, <2>1, PositionsAre
  <2>3. want \in HookEvents => out[n] # archfitGroup(want, c)
    <3> SUFFICES ASSUME want \in HookEvents, out[n] = archfitGroup(want, c) PROVE FALSE
      OBVIOUS
    <3>1. out[n].hooks = <<Ours(RunFor(want), c)>> /\ out[n].hooks[1].by = "ours"
      BY OwnGroupHolds
    <3>2. DOMAIN out[n].hooks = {1}
      BY <3>1
    <3> HIDE DEF out, n, m
    <3> QED BY <2>1, <2>2, <3>1, <3>2, EntriesAreBy
  <2>4. PICK g \in K : Rank(K, g) = n
    <3>1. Adds(groups, want) => want \in HookEvents
      BY <1>1 DEF Adds
    <3> HIDE DEF out, n, want, K
    <3> QED BY <1>5, <2>2, <2>3, <3>1
  <2>5. g \in DOMAIN groups /\ groups[g] \in HookGroups /\ out[n] = Becomes(groups, want, c, g)
    BY <1>1, <1>5, <2>4
  <2>6. Replaced(groups, want) # {} => want \in HookEvents
    BY <1>1, ReplacedHolds
  <2> HIDE DEF n, m, out, groups, want, K
  <2>7. out[n] = Remains(groups[g], want)
    BY <2>3, <2>5, <2>6 DEF Becomes
  <2>8. PICK k \in St(g) : Rank(St(g), k) = m /\ out[n].hooks[m] = groups[g].hooks[k] /\ k \in DOMAIN groups[g].hooks
    BY <2>2, <2>5, <2>7, RemainsHolds
  <2> DEFINE p == <<e, g, k>>
  <2>9. p \in Positions(file)
    BY <2>5, <2>8, PositionsAre DEF groups
  <2>10. p[1] = e /\ p[2] = g /\ p[3] = k
    OBVIOUS
  <2> HIDE DEF p
  <2>11. EntryAt(file, p) = groups[g].hooks[k]
    BY <2>9, <2>10, PositionsAre DEF groups
  <2>12. p \in S
    BY <2>1, <2>2, <2>8, <2>9, <2>10, <2>11 DEF PersonsPlaces
  <2>13. to(p) = q
    BY <1>4, <2>2, <2>4, <2>8, <2>10, <2>12
  <2> QED BY <2>12, <2>13
<1> QED BY <1>11, <1>12

\* An install keeps every hook of a person, in order and under its matcher.
LEMMA PersonsStay ==
    ASSUME NEW file, IsHookFile(file), NEW h \in Harnesses, NEW c \in HookConfigs, NEW e \in HookEvents
    PROVE  PersonsIn(mergeHookConfig(file, h, c), e) = PersonsIn(file, e)
<1> DEFINE merged == mergeHookConfig(file, h, c)
           S == PersonsPlaces(file, e)
           T == PersonsPlaces(merged, e)
           L == {x \in S \X S : Precedes(x[1], x[2])}
           M == {x \in T \X T : Precedes(x[1], x[2])}
           f == [p \in S |-> MovesTo(file, h, p)]
           At(n) == CHOOSE p \in S : Cardinality({q \in S : Precedes(q, p)}) = n - 1
           To(n) == CHOOSE p \in T : Cardinality({q \in T : Precedes(q, p)}) = n - 1
           old(p) == <<file[p[1]][p[2]].matcher, EntryAt(file, p)>>
           new(p) == <<merged[p[1]][p[2]].matcher, EntryAt(merged, p)>>
<1>1. IsHookFile(merged)
  BY ConfigMerges
<1>2. /\ IsFiniteSet(S) /\ IsStrictOrder(L, S)
      /\ \A p, q \in S : <<p, q>> \in L <=> Precedes(p, q)
      /\ \A p \in S : {q \in S : Precedes(q, p)} = Preceding(L, S, p)
  BY PersonsOrder
<1>3. /\ IsFiniteSet(T) /\ IsStrictOrder(M, T)
      /\ \A p, q \in T : <<p, q>> \in M <=> Precedes(p, q)
      /\ \A p \in T : {q \in T : Precedes(q, p)} = Preceding(M, T, p)
  BY <1>1, PersonsOrder
<1>4. \A p \in S : f[p] \in T /\ new(f[p]) = old(p)
  BY PersonsMove
<1>5. /\ \A p, q \in S : (Precedes(p, q) <=> Precedes(f[p], f[q])) /\ (f[p] = f[q] => p = q)
      /\ \A q \in T : \E p \in S : f[p] = q
  BY PersonsKeepOrder
<1>6. f \in [S -> T]
  BY <1>4
<1>7. PersonsIn(merged, e) = [n \in 1..Cardinality(T) |-> new(To(n))]
  BY DEF PersonsIn
<1>8. PersonsIn(file, e) = [n \in 1..Cardinality(S) |-> old(At(n))]
  BY DEF PersonsIn
<1> HIDE DEF merged, S, T, L, M, f, old, new
<1>9. \A p, q \in S : <<p, q>> \in L <=> <<f[p], f[q]>> \in M
  BY <1>2, <1>3, <1>4, <1>5
<1>10. /\ Cardinality(T) = Cardinality(S)
       /\ \A p \in S : Cardinality(Preceding(M, T, f[p])) = Cardinality(Preceding(L, S, p))
  <2>1. Carries(f, S, L, T, M)
    BY <1>5, <1>6, <1>9 DEF Carries
  <2> QED BY <1>2, <2>1, SamePlaces
<1>11. /\ \A n \in 0..(Cardinality(S) - 1) : \E p \in S : Cardinality(Preceding(L, S, p)) = n
       /\ \A p, q \in S : Cardinality(Preceding(L, S, p)) = Cardinality(Preceding(L, S, q)) => p = q
  BY <1>2, PlacesAreTaken
<1>12. /\ \A p, q \in T : Cardinality(Preceding(M, T, p)) = Cardinality(Preceding(M, T, q)) => p = q
  BY <1>3, PlacesAreTaken
<1>13. Cardinality(S) \in Nat
  BY <1>2, FS_CardinalityType
<1>14. ASSUME NEW n \in 1..Cardinality(S) PROVE new(To(n)) = old(At(n))
  <2>1. n - 1 \in 0..(Cardinality(S) - 1)
    BY <1>13
  <2>2. \E p \in S : Cardinality({q \in S : Precedes(q, p)}) = n - 1
    BY <1>2, <1>11, <2>1
  <2>3. At(n) \in S /\ Cardinality({q \in S : Precedes(q, At(n))}) = n - 1
    BY <2>2
  <2> DEFINE p == At(n)
  <2> HIDE DEF At
  <2>4. p \in S /\ Cardinality(Preceding(L, S, p)) = n - 1
    BY <1>2, <2>3
  <2> HIDE DEF p
  <2>5. f[p] \in T /\ Cardinality(Preceding(M, T, f[p])) = n - 1
    BY <1>4, <1>10, <2>4
  <2>6. \E t \in T : Cardinality({q \in T : Precedes(q, t)}) = n - 1
    BY <1>3, <2>5
  <2>7. To(n) \in T /\ Cardinality({q \in T : Precedes(q, To(n))}) = n - 1
    BY <2>6
  <2> HIDE DEF To
  <2>8. To(n) = f[p]
    BY <1>3, <1>12, <2>5, <2>7
  <2>9. new(f[p]) = old(p)
    BY <1>4, <2>4
  <2> QED BY <2>8, <2>9 DEF p
<1> HIDE DEF At, To
<1>15. [n \in 1..Cardinality(T) |-> new(To(n))] = [n \in 1..Cardinality(S) |-> old(At(n))]
  BY <1>10, <1>14
<1> QED BY <1>7, <1>8, <1>15 DEF merged

\* An intact group holds nothing of the removed command, nor, where archfit's hook is wanted, of archfit.
LEMMA IntactHolds ==
    ASSUME NEW g \in HookGroups, NEW want, Intact(g, want), NEW k \in DOMAIN g.hooks
    PROVE  g.hooks[k].by # "legacy" /\ (want # NoHook => g.hooks[k].by # "ours")
<1>1. g.matcher # OddGroup
  BY GroupsAre
<1>2. k \in Staying(g, want)
  BY <1>1 DEF Intact
<1> QED BY <1>2 DEF Staying

\* After an install one hook of archfit stands in each event it wants, and none of the removed command.
LEMMA OneOfOurs ==
    ASSUME NEW file, IsHookFile(file), NEW h \in Harnesses, NEW c \in HookConfigs
    PROVE  LET merged == mergeHookConfig(file, h, c) IN
           /\ \A e \in Wanted(h) : \E p \in Positions(merged) :
                OursIn(merged, e) = {p} /\ EntryAt(merged, p) = Ours(RunFor(e), c)
           /\ \A p \in Positions(merged) : EntryAt(merged, p).by # "legacy"
<1> DEFINE merged == mergeHookConfig(file, h, c)
           out(e) == GroupsOf(merged, e)
           Own(e) == archfitGroup(e, c)
<1>1. /\ IsHookFile(merged) /\ Wanted(h) \subseteq HookEvents
      /\ \A e \in HookEvents : out(e) = mergeEvent(GroupsOf(file, e), WantOf(h, e), c)
  BY ConfigMerges
<1> HIDE DEF merged
<1>2. ASSUME NEW e \in HookEvents
      PROVE  /\ WantOf(h, e) = NoHook => \A n \in DOMAIN out(e) : Intact(out(e)[n], WantOf(h, e))
             /\ WantOf(h, e) # NoHook => WantOf(h, e) = e /\ \E n \in DOMAIN out(e) :
                  out(e)[n] = Own(e) /\ \A m \in DOMAIN out(e) \ {n} : Intact(out(e)[m], WantOf(h, e))
             /\ \A n \in DOMAIN out(e) : out(e)[n] \in HookGroups
             /\ e \in Wanted(h) => WantOf(h, e) = e /\ WantOf(h, e) # NoHook
  <2> DEFINE groups == GroupsOf(file, e)
             want == WantOf(h, e)
  <2>1. groups \in Seq(HookGroups) /\ want \in HookEvents \cup {NoHook} /\ (want # NoHook => want = e)
    BY GroupsOfHold DEF WantOf
  <2>2. out(e) = mergeEvent(groups, want, c)
    BY <1>1
  <2>3. e \in Wanted(h) => want = e /\ want # NoHook
    BY SentinelAssumption DEF WantOf
  <2> HIDE DEF groups, want, out, Own
  <2>4. /\ want = NoHook => \A n \in DOMAIN out(e) : Intact(out(e)[n], want)
        /\ want # NoHook => \E n \in DOMAIN out(e) :
             out(e)[n] = archfitGroup(want, c) /\ \A m \in DOMAIN out(e) \ {n} : Intact(out(e)[m], want)
    BY <2>1, <2>2, MergedGroups
  <2>5. out(e) \in Seq(HookGroups)
    BY <1>1, GroupsOfHold DEF out
  <2>6. \A n \in DOMAIN out(e) : out(e)[n] \in HookGroups
    BY <2>5
  <2> QED BY <2>1, <2>3, <2>4, <2>6 DEF want, Own
<1>3. ASSUME NEW e \in HookEvents
      PROVE  /\ DOMAIN Own(e).hooks = {1} /\ Own(e).hooks[1] = Ours(RunFor(e), c) /\ Own(e).hooks[1].by = "ours"
  <2>1. Own(e).hooks = <<Ours(RunFor(e), c)>> /\ Own(e).hooks[1] = Ours(RunFor(e), c) /\ Own(e).hooks[1].by = "ours"
    BY OwnGroupHolds
  <2>2. DOMAIN Own(e).hooks = {1}
    BY <2>1
  <2> QED BY <2>1, <2>2
<1>4. \A p \in Positions(merged) :
        /\ p = <<p[1], p[2], p[3]>> /\ p[1] \in HookEvents /\ p[2] \in DOMAIN out(p[1])
        /\ p[3] \in DOMAIN out(p[1])[p[2]].hooks /\ EntryAt(merged, p) = out(p[1])[p[2]].hooks[p[3]]
  BY <1>1, PositionsAre
<1>5. \A e \in HookEvents : \A g, k : <<e, g, k>> \in Positions(merged) <=> g \in DOMAIN out(e) /\ k \in DOMAIN out(e)[g].hooks
  BY <1>1, PositionsAre
<1> HIDE DEF out, Own
<1>6. ASSUME NEW p \in Positions(merged)
      PROVE  EntryAt(merged, p).by # "legacy"
  <2> DEFINE e == p[1]
             g == out(e)[p[2]]
  <2>1. e \in HookEvents /\ p[2] \in DOMAIN out(e) /\ p[3] \in DOMAIN g.hooks /\ EntryAt(merged, p) = g.hooks[p[3]]
    BY <1>4
  <2>2. g \in HookGroups
    BY <1>2, <2>1
  <2>3. Intact(g, WantOf(h, e)) \/ g = Own(e)
    BY <1>2, <2>1
  <2> HIDE DEF g, e
  <2>4. CASE Intact(g, WantOf(h, e))
    BY <2>1, <2>2, <2>4, IntactHolds
  <2>5. CASE g = Own(e)
    BY <1>3, <2>1, <2>5
  <2> QED BY <2>3, <2>4, <2>5
<1>7. ASSUME NEW e \in Wanted(h)
      PROVE  \E p \in Positions(merged) : OursIn(merged, e) = {p} /\ EntryAt(merged, p) = Ours(RunFor(e), c)
  <2>0. e \in HookEvents /\ WantOf(h, e) # NoHook
    BY <1>1, <1>2
  <2>1. PICK n \in DOMAIN out(e) : out(e)[n] = Own(e) /\ \A m \in DOMAIN out(e) \ {n} : Intact(out(e)[m], WantOf(h, e))
    BY <1>2, <2>0
  <2> DEFINE p == <<e, n, 1>>
  <2>2. p \in Positions(merged) /\ p[1] = e /\ p[2] = n /\ p[3] = 1
    BY <1>3, <1>5, <2>0, <2>1
  <2> HIDE DEF p
  <2>3. EntryAt(merged, p) = Ours(RunFor(e), c) /\ EntryAt(merged, p).by = "ours"
    BY <1>3, <1>4, <2>0, <2>1, <2>2
  <2>4. ASSUME NEW q \in OursIn(merged, e) PROVE q = p
    <3>1. q \in Positions(merged) /\ q[1] = e /\ EntryAt(merged, q).by = "ours"
      BY DEF OursIn
    <3>2. /\ q = <<e, q[2], q[3]>> /\ q[2] \in DOMAIN out(e) /\ q[3] \in DOMAIN out(e)[q[2]].hooks
          /\ EntryAt(merged, q) = out(e)[q[2]].hooks[q[3]]
      BY <1>4, <3>1
    <3>3. out(e)[q[2]] \in HookGroups
      BY <1>2, <2>0, <3>2
    <3>4. ~Intact(out(e)[q[2]], WantOf(h, e))
      BY <2>0, <3>1, <3>2, <3>3, IntactHolds
    <3>5. q[2] = n
      BY <2>1, <3>2, <3>4
    <3>6. q[3] = 1
      BY <1>3, <2>0, <2>1, <3>2, <3>5
    <3> QED BY <3>2, <3>5, <3>6 DEF p
  <2>5. OursIn(merged, e) = {p}
    BY <2>2, <2>3, <2>4 DEF OursIn
  <2> QED BY <2>2, <2>3, <2>5
<1> QED BY <1>6, <1>7 DEF merged

\* Where archfit's hook stands alone, an install leaves each hook at its position.
LEMMA TidyStays ==
    ASSUME NEW file, IsHookFile(file), Tidy(file), NEW h \in Harnesses, NEW c \in HookConfigs, NEW p \in Positions(file)
    PROVE  LET merged == mergeHookConfig(file, h, c) IN
           p \in Positions(merged) /\ EntryAt(merged, p).by = EntryAt(file, p).by
<1> DEFINE merged == mergeHookConfig(file, h, c)
           e == p[1]
           groups == GroupsOf(file, e)
           want == WantOf(h, e)
           out == GroupsOf(merged, e)
           E == Emptied(groups, want)
           R == Replaced(groups, want)
           K == KeptPlaces(groups, want)
<1>1. /\ p = <<e, p[2], p[3]>> /\ e \in HookEvents /\ e \in DOMAIN file /\ file[e] = groups
      /\ p[2] \in DOMAIN groups /\ p[3] \in DOMAIN groups[p[2]].hooks
      /\ EntryAt(file, p) = groups[p[2]].hooks[p[3]]
  BY PositionsAre
<1>2. groups \in Seq(HookGroups) /\ want \in HookEvents \cup {NoHook}
  BY <1>1, GroupsOfHold DEF WantOf
<1>3. IsHookFile(merged) /\ out = mergeEvent(groups, want, c)
  BY <1>1, ConfigMerges
<1>4. /\ \A x, y \in OursIn(file, e) : x = y
      /\ \A g \in DOMAIN groups : \A k \in DOMAIN groups[g].hooks :
           groups[g].hooks[k].by # "legacy" /\ (groups[g].hooks[k].by = "ours" => Len(groups[g].hooks) = 1)
  BY <1>1 DEF Tidy
<1>5. \A g, k : <<e, g, k>> \in Positions(file) <=> g \in DOMAIN groups /\ k \in DOMAIN groups[g].hooks
  BY <1>1, PositionsAre
<1>6. ASSUME NEW g \in DOMAIN groups, NEW k \in DOMAIN groups[g].hooks, groups[g].hooks[k].by = "ours"
      PROVE  <<e, g, k>> \in OursIn(file, e)
  <2> DEFINE q == <<e, g, k>>
  <2>1. q \in Positions(file) /\ q[1] = e /\ q[2] = g /\ q[3] = k
    BY <1>5
  <2> HIDE DEF q
  <2>2. EntryAt(file, q) = groups[g].hooks[k]
    BY <1>1, <2>1, PositionsAre
  <2> QED BY <1>6, <2>1, <2>2 DEF OursIn, q
<1>7. \A g \in DOMAIN groups : groups[g] \in HookGroups
  BY <1>2
<1>8. ASSUME NEW g \in DOMAIN groups, ~Intact(groups[g], want)
      PROVE  /\ want # NoHook /\ g \in E /\ HoldsOurs(groups[g], want)
             /\ \A k \in DOMAIN groups[g].hooks : k = 1 /\ groups[g].hooks[k].by = "ours"
             /\ <<e, g, 1>> \in OursIn(file, e)
  <2>1. groups[g] \in HookGroups /\ DOMAIN groups[g].hooks = 1..Len(groups[g].hooks)
    BY <1>7, GroupsAre
  <2>2. PICK k \in DOMAIN groups[g].hooks : k \notin Staying(groups[g], want)
    BY <1>8 DEF Intact, Staying
  <2>3. want # NoHook /\ groups[g].hooks[k].by = "ours"
    BY <1>4, <2>2 DEF Staying
  <2>4. Len(groups[g].hooks) = 1
    BY <1>4, <2>3
  <2>5. DOMAIN groups[g].hooks = {1} /\ k = 1
    BY <2>1, <2>2, <2>4
  <2>6. Staying(groups[g], want) = {}
    BY <2>2, <2>5 DEF Staying
  <2>7. g \in E /\ HoldsOurs(groups[g], want)
    BY <1>8, <2>3, <2>6 DEF Emptied, HoldsOurs
  <2>8. <<e, g, 1>> \in OursIn(file, e)
    BY <1>6, <2>3, <2>5
  <2> QED BY <2>3, <2>5, <2>7, <2>8
<1> HIDE DEF groups, want, out, merged, e, K, E, R
<1>9. \A g, j \in DOMAIN groups : ~Intact(groups[g], want) /\ ~Intact(groups[j], want) => g = j
  <2> TAKE g, j \in DOMAIN groups
  <2> HAVE ~Intact(groups[g], want) /\ ~Intact(groups[j], want)
  <2>1. <<e, g, 1>> = <<e, j, 1>>
    BY <1>4, <1>8
  <2> QED BY <2>1
<1>10. \A g \in E : g \in DOMAIN groups /\ ~Intact(groups[g], want)
  BY DEF E, Emptied
<1>11. /\ R \subseteq E /\ \A g \in E : HoldsOurs(groups[g], want) => R # {}
  BY <1>2, ReplacedHolds DEF E, R
<1>12. \A g \in DOMAIN groups : g \in R <=> ~Intact(groups[g], want)
  <2> TAKE g \in DOMAIN groups
  <2>1. ASSUME ~Intact(groups[g], want) PROVE g \in R
    <3>1. g \in E /\ HoldsOurs(groups[g], want)
      BY <1>8, <2>1
    <3>2. PICK j \in R : TRUE
      BY <1>11, <3>1
    <3>3. j = g
      BY <1>9, <1>10, <1>11, <2>1, <3>2
    <3> QED BY <3>3
  <2> QED BY <1>10, <1>11, <2>1
<1>13. K = DOMAIN groups
  <2>1. K = (DOMAIN groups \ E) \cup R
    BY DEF K, E, R, KeptPlaces
  <2> QED BY <1>10, <1>11, <1>12, <2>1
<1>14. \A g \in DOMAIN groups : Rank(K, g) = g
  BY <1>2, <1>13, AllItems
<1>15. \A g \in DOMAIN groups : g \in DOMAIN out /\ out[g] = Becomes(groups, want, c, g)
  BY <1>2, <1>3, <1>13, <1>14, MergeHolds DEF K
<1>16. p[3] \in DOMAIN out[p[2]].hooks /\ out[p[2]].hooks[p[3]].by = groups[p[2]].hooks[p[3]].by
  <2>1. CASE Intact(groups[p[2]], want)
    <3>1. out[p[2]] = groups[p[2]]
      BY <1>1, <1>12, <1>15, <2>1 DEF Becomes, Remains, R
    <3> QED BY <1>1, <3>1
  <2>2. CASE ~Intact(groups[p[2]], want)
    <3>1. want # NoHook /\ p[3] = 1 /\ groups[p[2]].hooks[p[3]].by = "ours"
      BY <1>1, <1>8, <2>2
    <3>2. out[p[2]] = archfitGroup(want, c)
      BY <1>1, <1>12, <1>15, <2>2 DEF Becomes, R
    <3>3. want \in HookEvents
      BY <1>2, <3>1
    <3>4. out[p[2]].hooks = <<Ours(RunFor(want), c)>> /\ out[p[2]].hooks[1].by = "ours"
      BY <3>2, <3>3, OwnGroupHolds
    <3>5. 1 \in DOMAIN out[p[2]].hooks
      BY <3>4
    <3> QED BY <3>1, <3>4, <3>5
  <2> QED BY <2>1, <2>2
<1>17. p \in Positions(merged)
  <2>1. <<e, p[2], p[3]>> \in Positions(merged)
    BY <1>1, <1>3, <1>15, <1>16, PositionsAre DEF out
  <2> QED BY <1>1, <2>1
<1>18. EntryAt(merged, p) = out[p[2]].hooks[p[3]]
  BY <1>3, <1>17, PositionsAre DEF out, e
<1> QED BY <1>1, <1>16, <1>17, <1>18 DEF merged

\* In a typed state an install keeps what is a person's and leaves one hook of archfit.
LEMMA TypedMerges ==
    ASSUME InstallTypeOK
    PROVE  MergeIsSafe
<1> SUFFICES ASSUME NEW h \in Harnesses, NEW c \in HookConfigs, hookfiles[h] # Garbage
             PROVE  \A file \in {IF hookfiles[h] = NoHooks THEN <<>> ELSE hookfiles[h]} :
               \A merged \in {mergeHookConfig(file, h, c)} :
                 /\ mergeHookConfig(merged, h, c) = merged
                 /\ \A e \in HookEvents : PersonsIn(merged, e) = PersonsIn(file, e)
                 /\ \A e \in Wanted(h) : \E p \in Positions(merged) :
                      OursIn(merged, e) = {p} /\ EntryAt(merged, p) = Ours(RunFor(e), c)
                 /\ \A p \in Positions(merged) : EntryAt(merged, p).by # "legacy"
                 /\ Tidy(file) =>
                      \A p \in Positions(file) :
                        /\ p \in Positions(merged)
                        /\ EntryAt(merged, p).by = EntryAt(file, p).by
  BY DEF MergeIsSafe
<1> TAKE file \in {IF hookfiles[h] = NoHooks THEN <<>> ELSE hookfiles[h]}
<1>1. IsHookFile(file)
  <2>1. IsHookFile(<<>>)
    BY HookFilesAre
  <2>2. hookfiles[h] = NoHooks \/ IsHookFile(hookfiles[h])
    BY DEF InstallTypeOK
  <2> QED BY <2>1, <2>2
<1> TAKE merged \in {mergeHookConfig(file, h, c)}
<1>2. merged = mergeHookConfig(file, h, c)
  OBVIOUS
<1> HIDE DEF Tidy
<1>3. mergeHookConfig(merged, h, c) = merged
  BY <1>1, <1>2, ConfigMerges
<1>4. \A e \in HookEvents : PersonsIn(merged, e) = PersonsIn(file, e)
  BY <1>1, <1>2, PersonsStay
<1>5. /\ \A e \in Wanted(h) : \E p \in Positions(merged) :
           OursIn(merged, e) = {p} /\ EntryAt(merged, p) = Ours(RunFor(e), c)
      /\ \A p \in Positions(merged) : EntryAt(merged, p).by # "legacy"
  BY <1>1, <1>2, OneOfOurs
<1>6. Tidy(file) => \A p \in Positions(file) : p \in Positions(merged) /\ EntryAt(merged, p).by = EntryAt(file, p).by
  BY <1>1, <1>2, TidyStays
<1> QED BY <1>3, <1>4, <1>5, <1>6

\* In a typed state doctor is right about a file that an install would leave.
LEMMA TypedDoctor ==
    ASSUME InstallTypeOK
    PROVE  DoctorIsRight
<1> SUFFICES ASSUME NEW h \in Harnesses, hookfiles[h] \notin {NoHooks, Garbage}, ~Unreadable(hookfiles[h]),
                    NEW c \in HookConfigs, mergeHookConfig(hookfiles[h], h, c) = hookfiles[h],
                    NEW e \in Wanted(h)
             PROVE  /\ HarnessRuns(h, e) => harnessStatusOf(h, e) = "active"
                    /\ harnessStatusOf(h, e) = "active" =>
                         \/ HarnessRuns(h, e)
                         \/ h = "codex" /\ \E p \in OursIn(hookfiles[h], e) : trusted[p] # EntryAt(hookfiles[h], p)
  BY DEF DoctorIsRight
<1> DEFINE file == hookfiles[h]
           cmd == RunFor(e)
           found == installedHooks(file, e, cmd)
           S == {p \in Positions(file) : p[1] = e /\ EntryAt(file, p).by = "ours" /\ EntryAt(file, p).run = cmd}
<1>1. IsHookFile(file)
  BY DEF InstallTypeOK
<1>2. PICK p \in Positions(file) : OursIn(file, e) = {p} /\ EntryAt(file, p) = Ours(cmd, c)
  BY <1>1, OneOfOurs
<1>3. EntryAt(file, p).by = "ours" /\ EntryAt(file, p).run = cmd /\ p[1] = e
  BY <1>2 DEF Ours, OursIn
<1>4. S = {p}
  BY <1>2, <1>3 DEF OursIn
<1>5. found = {x \in S : \A q \in S \ {x} : Precedes(x, q)}
  BY DEF installedHooks
<1> HIDE DEF S, cmd
<1>6. found = {p}
  BY <1>4, <1>5
<1>7. harnessStatusOf(h, e) =
        IF h = "claude" THEN IF claudeHooksDisabledBy THEN "disabled" ELSE "active"
        ELSE IF found \subseteq DOMAIN trusted THEN "active" ELSE "not trusted"
  <2>1. found # {} /\ ~Unreadable(file) /\ file \notin {NoHooks, Garbage}
    BY <1>6
  <2> QED BY <2>1 DEF harnessStatusOf, cmd
<1>8. HarnessRuns(h, e) <=>
        IF h = "claude" THEN ~claudeHooksDisabledBy ELSE p \in DOMAIN trusted /\ trusted[p] = EntryAt(file, p)
  BY <1>2 DEF HarnessRuns
<1> HIDE DEF found
<1>9. h = "claude" \/ h = "codex"
  BY DEF Harnesses
<1>10. CASE h = "claude"
  BY <1>7, <1>8, <1>10
<1>11. CASE h = "codex"
  BY <1>2, <1>6, <1>7, <1>8, <1>11
<1> QED BY <1>9, <1>10, <1>11

\* A person leaves lists of groups in a file.
LEMMA EditsKeepType ==
    ASSUME InstallTypeOK, NEW h \in Harnesses, NEW e \in HookEvents,
           NEW groups \in Seq(HookGroups), SetGroups(h, e, groups), hookfiles[h] # Garbage
    PROVE  InstallTypeOK'
<1> DEFINE file == hookfiles[h]
           rest == IF file = NoHooks THEN <<>> ELSE file
           new == [x \in DOMAIN rest \cup {e} |-> IF x = e THEN groups ELSE rest[x]]
<1>1. IsHookFile(rest)
  BY HookFilesAre DEF InstallTypeOK
<1>2. /\ DOMAIN rest \subseteq HookEvents /\ \A x \in DOMAIN rest : rest[x] \in Seq(HookGroups)
  BY <1>1, HookFilesAre
<1>3. /\ hookfiles' = [hookfiles EXCEPT ![h] = new] /\ UNCHANGED <<installing, trusted, disables>>
      /\ hookEdits < MaxHookEdits /\ hookEdits' = hookEdits + 1
  BY DEF SetGroups, PersonEdits
<1> HIDE DEF rest
<1>4. /\ DOMAIN new \subseteq HookEvents /\ new = [x \in DOMAIN new |-> new[x]]
      /\ \A x \in DOMAIN new : new[x] \in Seq(HookGroups)
  BY <1>2
<1> HIDE DEF new
<1>5. IsHookFile(new)
  BY <1>4, HookFilesAre
<1>6. DOMAIN hookfiles' = Harnesses /\ \A x \in Harnesses : hookfiles'[x] \in {NoHooks, Garbage} \/ IsHookFile(hookfiles'[x])
  BY <1>3, <1>5 DEF InstallTypeOK
<1>7. hookEdits' \in 0..MaxHookEdits
  BY <1>3, InstallAssumption DEF InstallTypeOK
<1> QED BY <1>3, <1>6, <1>7 DEF InstallTypeOK

\* The groups of an event in a typed state are a list.
LEMMA GroupsInHold ==
    ASSUME InstallTypeOK, NEW h \in Harnesses, NEW e \in HookEvents, hookfiles[h] # Garbage
    PROVE  GroupsIn(h, e) \in Seq(HookGroups)
<1>1. <<>> \in Seq(HookGroups)
  OBVIOUS
<1> QED BY <1>1, GroupsOfHold DEF GroupsIn, InstallTypeOK

\* The lists that a person may leave: a group more, a hook more in one, or a group less.
LEMMA EditedGroups ==
    ASSUME NEW groups \in Seq(HookGroups)
    PROVE  /\ \A x \in HookGroups : Append(groups, x) \in Seq(HookGroups) /\ <<x>> \o groups \in Seq(HookGroups)
           /\ \A g \in DOMAIN groups : RemoveAt(groups, g) \in Seq(HookGroups) /\ groups[g] \in HookGroups
           /\ \A g \in DOMAIN groups : \A x \in Entries : groups[g].matcher # OddGroup =>
                /\ [groups EXCEPT ![g].hooks = Append(@, x)] \in Seq(HookGroups)
                /\ [groups EXCEPT ![g].hooks = <<x>> \o @] \in Seq(HookGroups)
<1>1. \A x \in HookGroups : Append(groups, x) \in Seq(HookGroups) /\ <<x>> \o groups \in Seq(HookGroups)
  <2> TAKE x \in HookGroups
  <2>1. <<x>> \in Seq(HookGroups)
    OBVIOUS
  <2> HIDE DEF HookGroups
  <2> QED BY <2>1
<1>2. \A g \in DOMAIN groups : RemoveAt(groups, g) \in Seq(HookGroups) /\ groups[g] \in HookGroups
  <2> TAKE g \in DOMAIN groups
  <2> HIDE DEF HookGroups
  <2>1. g \in Int /\ Len(groups) \in Int /\ g \in 1..Len(groups)
    OBVIOUS
  <2>2. SubSeq(groups, 1, g - 1) \in Seq(HookGroups) /\ SubSeq(groups, g + 1, Len(groups)) \in Seq(HookGroups)
    BY <2>1
  <2> QED BY <2>1, <2>2 DEF RemoveAt
<1>3. ASSUME NEW g \in DOMAIN groups, NEW x \in Entries, groups[g].matcher # OddGroup
      PROVE  /\ [groups EXCEPT ![g].hooks = Append(@, x)] \in Seq(HookGroups)
             /\ [groups EXCEPT ![g].hooks = <<x>> \o @] \in Seq(HookGroups)
  <2> DEFINE hooks == groups[g].hooks
  <2>1. /\ hooks \in Seq(HookEntries)
        /\ \A more \in Seq(HookEntries) : [groups[g] EXCEPT !.hooks = more] \in HookGroups
    BY <1>2, <1>3, GroupsAre
  <2>2. x \in HookEntries
    BY DEF HookEntries
  <2>3. <<x>> \in Seq(HookEntries)
    BY <2>2
  <2> HIDE DEF HookEntries
  <2>4. Append(hooks, x) \in Seq(HookEntries) /\ <<x>> \o hooks \in Seq(HookEntries)
    BY <2>1, <2>2, <2>3
  <2>5. \A y \in HookGroups : [groups EXCEPT ![g] = y] \in Seq(HookGroups)
    <3> HIDE DEF HookGroups
    <3> QED OBVIOUS
  <2>6. /\ [groups EXCEPT ![g].hooks = Append(@, x)] = [groups EXCEPT ![g] = [groups[g] EXCEPT !.hooks = Append(hooks, x)]]
        /\ [groups EXCEPT ![g].hooks = <<x>> \o @] = [groups EXCEPT ![g] = [groups[g] EXCEPT !.hooks = <<x>> \o hooks]]
    OBVIOUS
  <2> HIDE DEF hooks
  <2> QED BY <2>1, <2>4, <2>5, <2>6
<1> QED BY <1>1, <1>2, <1>3

\* What a person or an install may do to a typed state leaves one.
LEMMA InstallStepTyped ==
    ASSUME InstallTypeOK, [InstallNext]_installVars
    PROVE  InstallTypeOK'
<1>0. {"Stop", "SubagentStop"} \subseteq HookEvents
  BY DEF HookEvents
<1>1. ASSUME NEW i \in Installers, NEW h \in Harnesses, NEW c \in HookConfigs, Begin(i, h, c) PROVE InstallTypeOK'
  <2> DEFINE job == [harness |-> h, config |-> c, read |-> hookfiles[h]]
  <2>1. installing' = [installing EXCEPT ![i] = job] /\ UNCHANGED <<hookfiles, trusted, disables, hookEdits>>
    BY <1>1 DEF Begin
  <2>2. job.harness \in Harnesses /\ job.config \in HookConfigs /\ (job.read = NoHooks \/ IsHookFile(job.read))
    BY <1>1 DEF Begin, InstallTypeOK
  <2> HIDE DEF job
  <2> QED BY <2>1, <2>2 DEF InstallTypeOK
<1>2. ASSUME NEW i \in Installers, installHarnessHooks(i) PROVE InstallTypeOK'
  <2> DEFINE job == installing[i]
             new == mergeHookConfig(job.read, job.harness, job.config)
             present == IF job.read = NoHooks THEN <<>> ELSE job.read
  <2>1. /\ hookfiles' = [hookfiles EXCEPT ![job.harness] = new] /\ installing' = [installing EXCEPT ![i] = NoHook]
        /\ UNCHANGED <<trusted, disables, hookEdits>>
    BY <1>2 DEF installHarnessHooks
  <2>2. job.harness \in Harnesses /\ job.config \in HookConfigs /\ (job.read = NoHooks \/ IsHookFile(job.read))
    BY <1>2 DEF installHarnessHooks, InstallTypeOK
  <2>3. IsHookFile(present)
    BY <2>2, HookFilesAre
  <2>4. IsHookFile(mergeHookConfig(present, job.harness, job.config))
    BY <2>2, <2>3, ConfigMerges
  <2>5. new = mergeHookConfig(present, job.harness, job.config)
    <3>1. <<>> # NoHooks
      BY HookFilesAre
    <3> QED BY <3>1 DEF mergeHookConfig
  <2> HIDE DEF new, present
  <2> QED BY <2>1, <2>2, <2>4, <2>5 DEF InstallTypeOK
<1>3. ASSUME NEW h \in Harnesses, NEW e \in HookEvents, NEW x \in Entries, AddGroup(h, e, x) PROVE InstallTypeOK'
  <2> DEFINE group == [matcher |-> "own", hooks |-> <<x>>]
             groups == GroupsIn(h, e)
  <2>1. hookfiles[h] # Garbage /\ (SetGroups(h, e, Append(groups, group)) \/ SetGroups(h, e, <<group>> \o groups))
    BY <1>3 DEF AddGroup
  <2>2. group \in HookGroups
    BY DEF HookGroups
  <2>3. groups \in Seq(HookGroups)
    BY <2>1, GroupsInHold
  <2> HIDE DEF group, groups
  <2>4. Append(groups, group) \in Seq(HookGroups) /\ <<group>> \o groups \in Seq(HookGroups)
    BY <2>2, <2>3, EditedGroups
  <2> QED BY <2>1, <2>4, EditsKeepType
<1>4. ASSUME NEW h \in Harnesses, NEW e \in HookEvents, NEW x \in Entries, JoinGroup(h, e, x) PROVE InstallTypeOK'
  <2> DEFINE groups == GroupsIn(h, e)
  <2>1. hookfiles[h] # Garbage /\ groups \in Seq(HookGroups)
    BY <1>4, GroupsInHold DEF JoinGroup
  <2>2. PICK g \in DOMAIN groups :
          /\ groups[g].matcher # OddGroup
          /\ \/ SetGroups(h, e, [groups EXCEPT ![g].hooks = Append(@, x)])
             \/ SetGroups(h, e, [groups EXCEPT ![g].hooks = <<x>> \o @])
    BY <1>4 DEF JoinGroup
  <2> HIDE DEF groups
  <2>3. /\ [groups EXCEPT ![g].hooks = Append(@, x)] \in Seq(HookGroups)
        /\ [groups EXCEPT ![g].hooks = <<x>> \o @] \in Seq(HookGroups)
    BY <2>1, <2>2, EditedGroups
  <2> QED BY <2>1, <2>2, <2>3, EditsKeepType
<1>5. ASSUME NEW h \in Harnesses, NEW e \in HookEvents, RemoveGroup(h, e) \/ CopyGroup(h, e) \/ OddGroupIn(h, e)
      PROVE  InstallTypeOK'
  <2> DEFINE groups == GroupsIn(h, e)
             odd == [matcher |-> OddGroup, hooks |-> <<>>]
  <2>1. hookfiles[h] # Garbage /\ groups \in Seq(HookGroups) /\ odd \in HookGroups
    BY <1>5, GroupsInHold DEF RemoveGroup, CopyGroup, OddGroupIn, HookGroups
  <2>2. \/ \E g \in DOMAIN groups : SetGroups(h, e, RemoveAt(groups, g)) \/ SetGroups(h, e, Append(groups, groups[g]))
        \/ SetGroups(h, e, Append(groups, odd))
    BY <1>5 DEF RemoveGroup, CopyGroup, OddGroupIn
  <2> HIDE DEF groups, odd
  <2>3. /\ \A g \in DOMAIN groups : RemoveAt(groups, g) \in Seq(HookGroups) /\ Append(groups, groups[g]) \in Seq(HookGroups)
        /\ Append(groups, odd) \in Seq(HookGroups)
    BY <2>1, EditedGroups
  <2> QED BY <2>1, <2>2, <2>3, EditsKeepType
<1>6. ASSUME NEW h \in Harnesses, Break(h) PROVE InstallTypeOK'
  BY <1>6, InstallAssumption DEF Break, PersonEdits, InstallTypeOK
<1>7. ASSUME NEW place \in DOMAIN disables, NEW v \in {"on", "off"}, Disable(place, v) PROVE InstallTypeOK'
  BY <1>7, InstallAssumption DEF Disable, PersonEdits, InstallTypeOK
<1>8. ASSUME TrustFile PROVE InstallTypeOK'
  BY <1>8, InstallAssumption DEF TrustFile, PersonEdits, InstallTypeOK
<1>9. ASSUME UNCHANGED installVars PROVE InstallTypeOK'
  BY <1>9 DEF installVars, InstallTypeOK
<1>10. CASE InstallNext
  <2>1. CASE \E i \in Installers : (\E h \in Harnesses, c \in HookConfigs : Begin(i, h, c)) \/ installHarnessHooks(i)
    BY <1>1, <1>2, <2>1
  <2>2. CASE \E h \in Harnesses, e \in {"Stop", "SubagentStop"} :
               \/ \E x \in Entries : AddGroup(h, e, x) \/ JoinGroup(h, e, x)
               \/ RemoveGroup(h, e) \/ CopyGroup(h, e) \/ OddGroupIn(h, e)
    BY <1>0, <1>3, <1>4, <1>5, <2>2
  <2>3. CASE \E h \in Harnesses : Break(h)
    BY <1>6, <2>3
  <2>4. CASE \E place \in DOMAIN disables, v \in {"on", "off"} : Disable(place, v)
    BY <1>7, <2>4
  <2> QED BY <1>8, <1>10, <2>1, <2>2, <2>3, <2>4 DEF InstallNext
<1> QED BY <1>9, <1>10

\* Hook files hold events, groups and entries, and an installer what it has read (HookInstall).
THEOREM InstallTyped == InstallSpec => []InstallTypeOK
<1>1. InstallInit => InstallTypeOK
  BY InstallAssumption DEF InstallInit, InstallTypeOK
<1>2. InstallTypeOK /\ [InstallNext]_installVars => InstallTypeOK'
  BY InstallStepTyped
<1> QED BY <1>1, <1>2, PTL DEF InstallSpec

\* Whatever groups and hooks a person leaves in a file, an install keeps them and their order,
\* leaves one hook of archfit in each event it wants and changes nothing when repeated, and
\* doctor is right about a file as an install leaves it (mergeHookConfig, harnessStatusOf).
THEOREM HooksInstalled == InstallSpec => []HooksAreInstalled
<1>1. InstallTypeOK => HooksAreInstalled
  BY TypedMerges, TypedDoctor DEF HooksAreInstalled
<1> QED BY <1>1, InstallTyped, PTL
=============================================================================
