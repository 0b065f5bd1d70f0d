------------------------------- MODULE Ratchets -------------------------------
(***************************************************************************)
(* The stored reference of a repository and what is measured against it: the *)
(* metric ratchets and the seam gate.  Code, analyzers, policy and engine    *)
(* change; an owner captures a baseline or re-anchors the stored one; a      *)
(* check compares what it measures with what is stored, and is a function of *)
(* the state.                                                                *)
(*                                                                         *)
(* A relation is a dependency edge with what classification says of it; one  *)
(* that is `far` crosses the boundary of two modules of the repository.      *)
(* A value is a fraction <<n, d>>, and counts are over 1.                    *)
(***************************************************************************)
EXTENDS Digraph

CONSTANTS
    Relations,  \* the dependency edges there may be
    Scans,      \* what the analyzers read: files seen of files applicable
    Policies,
    MaxTurns,   \* bound: changes to code, analyzers, policy, engine and waivers
    NoReference, Unmeasured

Metrics == {"encapsulation", "unbalanced_edge", "cycle", "coverage", "blast_radius"}

\* Every metric but blast_radius, which is reported and never gates.
RatchetNames == Metrics \ {"blast_radius"}
HigherIsWorse == {"unbalanced_edge", "cycle", "blast_radius"}

Relation(r) ==
    /\ r.strength \in {"contract", "intrusive", "functional"}
    /\ r.volatility \in {"high", "low", "unknown"}
    /\ {r.far, r.ruled} \subseteq BOOLEAN

ASSUME RatchetsAssumption ==
    /\ \A r \in Relations : Relation(r)
    /\ IsFiniteSet(Relations)
    /\ \A s \in Scans : s.seen \in Nat /\ s.applicable \in Nat /\ s.seen <= s.applicable
    /\ \A p \in Policies :
         /\ p.off \subseteq Metrics /\ p.maxNew \in Nat /\ p.maxSeams \in Nat
         /\ p.gate \in [RatchetNames -> {"", "off", "warn", "fail"}]
         /\ p.seamMode \in {"warn", "fail"} /\ p.seams \subseteq Relations
         /\ \A q \in Policies : p.classes = q.classes => p.seams = q.seams
    /\ MaxTurns \in Nat /\ Unmeasured \notin Nat \X Nat

VARIABLES
    relations,  \* the edges there are
    scan,
    policy,
    versions,   \* of each metric, in the engine that runs
    waivers,    \* what the finding of an edge is that no baseline accepted
    excuses,    \* and the finding of a metric: "new", "waived" or "expired"
    reference,  \* the baseline file
    captured,   \* (history) what the last capture measured, and its seams
    held,       \* (history) the metrics no re-anchor, policy or engine changed since
    turns

ratchetVars == <<relations, scan, policy, versions, waivers, excuses, reference, captured, held, turns>>

-----------------------------------------------------------------------------
(* The metrics *)

Less(a, b) == a[1] * b[2] < b[1] * a[2]
Number(S) == <<Cardinality(S), 1>>

Far(strength) == {r \in relations : r.far /\ r.strength = strength}

\* No intrusive edge leaves nothing to measure.
Encapsulation ==
    IF Far("intrusive") = {} THEN Unmeasured
    ELSE <<Cardinality(Far("contract")), Cardinality(Far("contract") \cup Far("intrusive"))>>

\* The status of the finding of an edge; an edge no rule reports has none.
EdgeStatus(r, accepted) ==
    IF ~r.ruled THEN "" ELSE IF r \in accepted THEN "baseline" ELSE waivers[r]

UnbalancedEdge(accepted) ==
    LET candidates == Far("intrusive")
    IN  IF candidates # {} /\ \A r \in candidates : r.volatility = "unknown" THEN Unmeasured
        ELSE Number({r \in candidates : r.volatility = "high" /\ EdgeStatus(r, accepted) \in {"new", ""}})

Pairs == {<<r.from, r.to>> : r \in relations}

Cycle == Number(Components(Pairs))

Coverage == IF scan.applicable = 0 THEN Unmeasured ELSE <<scan.seen, scan.applicable>>

\* Modules that three tenths of the others depend on, transitively.
Dependents(m) ==
    {x \in NodesOf(Pairs) \ {m} : \A X \in Closed(Pairs) : x \in X => m \in X}
BlastRadius ==
    LET n == Cardinality(NodesOf(Pairs))
    IN  IF n < 2 THEN Unmeasured
        ELSE Number({m \in NodesOf(Pairs) : Cardinality(Dependents(m)) * 10 >= 3 * (n - 1)})

Value(m, accepted) ==
    IF m \in policy.off THEN Unmeasured
    ELSE CASE m = "encapsulation" -> Encapsulation
           [] m = "unbalanced_edge" -> UnbalancedEdge(accepted)
           [] m = "cycle" -> Cycle
           [] m = "coverage" -> Coverage
           [] m = "blast_radius" -> BlastRadius

\* What a baseline stores; a metric that is not measured is not stored.
Measured(accepted) ==
    [m \in {k \in Metrics : Value(k, accepted) # Unmeasured} |->
       [value |-> Value(m, accepted), version |-> versions[m]]]

-----------------------------------------------------------------------------
(* A check *)

Accepted == IF reference = NoReference THEN {} ELSE reference.accepted

\* The fingerprints of a run: the policy that classifies, and what is switched off.
Fingerprints == <<policy.classes, policy.off>>
Comparable == reference # NoReference /\ reference.prints = Fingerprints

\* Only a value of the same version, in a reference that compares, is compared.
HasDelta(m) ==
    /\ Comparable /\ m \in DOMAIN reference.metrics
    /\ reference.metrics[m].version = versions[m]

MetricGate(m) == IF policy.gate[m] = "" THEN "fail" ELSE policy.gate[m]

Breach(m) ==
    LET now == Value(m, Accepted)
        before == reference.metrics[m].value
    IN  /\ MetricGate(m) # "off" /\ now # Unmeasured /\ HasDelta(m)
        /\ IF m \in HigherIsWorse
           THEN now[1] - before[1] > policy.maxNew
           ELSE Less(now, before)

\* A breach is a finding under no baseline: only a waiver takes it off.
MetricBlocks(m) == Breach(m) /\ MetricGate(m) = "fail" /\ excuses[m] # "waived"

RuleBlocks ==
    \E r \in relations : EdgeStatus(r, Accepted) \in {"new", "expired"}

\* The edges whose seam the policy classifies as a distributed monolith.
Seams == relations \cap policy.seams
NewSeams == Seams \ reference.seams
SeamGateBlocks ==
    /\ Comparable /\ policy.seamMode = "fail"
    /\ Cardinality(NewSeams) > policy.maxSeams

Fails == RuleBlocks \/ SeamGateBlocks \/ \E m \in RatchetNames : MetricBlocks(m)

\* Ratchets that gate and cannot be evaluated leave the check without a judgement.
Unevaluated ==
    /\ reference # NoReference /\ ~Comparable
    /\ \E m \in RatchetNames \cap DOMAIN reference.metrics :
         m \notin policy.off /\ MetricGate(m) = "fail"

Passes == ~Fails /\ ~Unevaluated

-----------------------------------------------------------------------------
(* Capture and re-anchor: a run that starts from no baseline *)

Unwaived == {r \in relations : EdgeStatus(r, {}) = "new"}
RuledEdges == {r \in relations : r.ruled}

CaptureBaseline ==
    /\ reference' = [accepted |-> Unwaived, metrics |-> Measured({}), seams |-> Seams,
                     prints |-> Fingerprints]
    /\ captured' = [metrics |-> [m \in Metrics |-> Value(m, {})], seams |-> Seams]
    /\ held' = Metrics \ policy.off
    /\ UNCHANGED <<relations, scan, policy, versions, waivers, excuses, turns>>

\* What the report of a re-anchor says of the metrics that are on.
Stored(m) == m \in DOMAIN reference.metrics /\ m \notin policy.off
UnmeasuredMetrics == {m \in Metrics : Stored(m) /\ Value(m, {}) = Unmeasured}
WorsenedMetrics ==
    {m \in Metrics \ UnmeasuredMetrics :
      /\ Stored(m) /\ reference.metrics[m].version = versions[m]
      /\ IF m \in HigherIsWorse THEN Less(reference.metrics[m].value, Value(m, {}))
         ELSE Less(Value(m, {}), reference.metrics[m].value)}

\* Waived findings that were accepted stay so; a seam that qualifies only now stays new.
KeptSeamsAll == Seams
KeptSeams == Seams \cap reference.seams
Reanchor ==
    /\ reference # NoReference
    /\ reference' = [accepted |-> RuledEdges \cap reference.accepted, metrics |-> Measured({}),
                     seams |-> KeptSeams, prints |-> Fingerprints]
    /\ held' = (held \ policy.off) \ (UnmeasuredMetrics \cup WorsenedMetrics)
    /\ UNCHANGED <<relations, scan, policy, versions, waivers, excuses, captured, turns>>

-----------------------------------------------------------------------------
(* What happens between *)

RatchetsInit ==
    /\ relations = {} /\ scan \in Scans /\ policy \in Policies
    /\ versions = [m \in Metrics |-> 1]
    /\ waivers = [r \in Relations |-> "new"] /\ excuses = [m \in RatchetNames |-> "new"]
    /\ reference = NoReference
    /\ captured = [metrics |-> [m \in Metrics |-> Unmeasured], seams |-> {}]
    /\ held = {} /\ turns = 0

Turn == turns < MaxTurns /\ turns' = turns + 1

Write(r) ==
    /\ Turn
    /\ relations' = IF r \in relations THEN relations \ {r} ELSE relations \cup {r}
    /\ UNCHANGED <<scan, policy, versions, waivers, excuses, reference, captured, held>>

Rescan(s) ==
    /\ Turn /\ s # scan /\ scan' = s
    /\ UNCHANGED <<relations, policy, versions, waivers, excuses, reference, captured, held>>

Configure(p) ==
    /\ Turn /\ p # policy /\ policy' = p
    /\ UNCHANGED <<relations, scan, versions, waivers, excuses, reference, captured, held>>

\* An engine that measures a metric in another way.
Upgrade(m) ==
    /\ Turn /\ versions' = [versions EXCEPT ![m] = @ + 1]
    /\ held' = held \ {m}
    /\ UNCHANGED <<relations, scan, policy, waivers, excuses, reference, captured>>

\* A waiver is written, expires, and is removed.
Steps == {<<"new", "waived">>, <<"waived", "expired">>, <<"waived", "new">>, <<"expired", "new">>}
Waive(r, status) ==
    /\ Turn /\ r.ruled /\ <<waivers[r], status>> \in Steps
    /\ waivers' = [waivers EXCEPT ![r] = status]
    /\ UNCHANGED <<relations, scan, policy, versions, excuses, reference, captured, held>>
Excuse(m, status) ==
    /\ Turn /\ <<excuses[m], status>> \in Steps
    /\ excuses' = [excuses EXCEPT ![m] = status]
    /\ UNCHANGED <<relations, scan, policy, versions, waivers, reference, captured, held>>

RatchetsNext ==
    \/ CaptureBaseline \/ Reanchor
    \/ \E r \in Relations : Write(r)
    \/ \E s \in Scans : Rescan(s)
    \/ \E p \in Policies : Configure(p)
    \/ \E m \in Metrics : Upgrade(m)
    \/ \E status \in {"new", "waived", "expired"} :
         \/ \E r \in Relations : Waive(r, status)
         \/ \E m \in RatchetNames : Excuse(m, status)

RatchetsSpec == RatchetsInit /\ [][RatchetsNext]_ratchetVars

-----------------------------------------------------------------------------
(* Properties *)

\* Every variable has its type; what a reference stores was measured.
Fraction(v) == v[1] \in Nat /\ v[2] \in Nat \ {0}
RatchetsTypeOK ==
    /\ relations \subseteq Relations /\ scan \in Scans /\ policy \in Policies
    /\ versions \in [Metrics -> Nat]
    /\ waivers \in [Relations -> {"new", "waived", "expired"}]
    /\ excuses \in [RatchetNames -> {"new", "waived", "expired"}]
    /\ reference # NoReference =>
         /\ reference.accepted \subseteq Relations
         /\ DOMAIN reference.metrics \subseteq Metrics
         /\ \A m \in DOMAIN reference.metrics : Fraction(reference.metrics[m].value)
         /\ reference.seams \subseteq Relations
    /\ captured.seams \subseteq Relations
    /\ held \subseteq Metrics /\ turns \in 0..MaxTurns

\* No re-anchor lets a ratchet slip (reanchor, metricBreach, EvaluateSeamGate).  When a
\* check passes with its gates on, the seams the last capture did not have are no more
\* than the policy allows; and a metric is no worse than at that capture, unless a
\* re-anchor listed it as worse or no longer measured, it was switched off, or an engine
\* measured it otherwise.  unbalanced_edge is left out: a check does not count the
\* accepted edges that a capture counted.
NoSlip(m) ==
    LET now == Value(m, Accepted)
        then == captured.metrics[m]
    IN  Unmeasured \in {now, then} \/
        IF m \in HigherIsWorse THEN now[1] - then[1] <= policy.maxNew ELSE ~Less(now, then)
Gating(m) == m \notin policy.off /\ MetricGate(m) = "fail" /\ excuses[m] # "waived"
RatchetsHold ==
    Comparable /\ Passes =>
      /\ policy.seamMode = "fail" => Cardinality(Seams \ captured.seams) <= policy.maxSeams
      /\ \A m \in held \cap (RatchetNames \ {"unbalanced_edge"}) : Gating(m) => NoSlip(m)
=============================================================================
