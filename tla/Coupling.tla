-------------------------------- MODULE Coupling --------------------------------
(***************************************************************************)
(* How a dependency becomes a judgement: the strength of an edge from globs, *)
(* labels and hints, the cascade of volatility over strong edges, the balance *)
(* score, and the seam, one record for all edges of an ordered module pair,   *)
(* with the fact it reports.  A step is a turn of a loop, over edges in any   *)
(* order: nothing reported may depend on it.                                *)
(*                                                                         *)
(* The end of an edge is a module, an external system of the config, or       *)
(* Nowhere.  The glob of an edge is what its target matches, its hints what   *)
(* the extractor saw.                                                       *)
(***************************************************************************)
EXTENDS Scoring, FiniteSets

CONSTANTS
    Parts,    \* the declared modules
    Systems,  \* the configs and graphs to consider
    Nowhere, NoSystem, NoFact

PartDef(d) ==
    /\ d.volatility \in Volatilities \ {"unknown"}
    /\ d.declared \in BOOLEAN /\ d.public \in BOOLEAN /\ d.cohesive \in BOOLEAN
    /\ {"owner", "unit"} \subseteq DOMAIN d

GraphEdge(e, s) ==
    /\ e.id \in Nat
    /\ {e.from, e.to} \subseteq Parts \cup DOMAIN s.vendors \cup {Nowhere}
    /\ e.glob \in {"public", "internal", "silent"}
    /\ e.hint \in Strengths /\ e.model \in BOOLEAN

\* What an edge or a copy between two modules may come to.
SeamFacts ==
    [id : Nat \cup {NoFact}, strength : Strengths, distance : Boundaries, volatility : Volatilities, balance : 0..10]

ASSUME CouplingAssumption ==
    /\ IsFiniteSet(Parts) /\ Nowhere \notin Parts /\ NoSystem \notin Systems /\ NoFact \notin SeamFacts
    /\ \A s \in Systems :
         /\ DOMAIN s.defs = Parts /\ \A m \in Parts : PartDef(s.defs[m])
         /\ \A e \in s.edges : GraphEdge(e, s)
         /\ \A x, y \in s.edges : x.id = y.id => x = y
         /\ DOMAIN s.approved \subseteq Parts \X Parts /\ DOMAIN s.judged \subseteq Parts \X Parts
         /\ \A p \in DOMAIN s.approved : s.approved[p] \in Strengths
         /\ \A p \in DOMAIN s.judged : s.judged[p].strength \in Strengths
         /\ s.clones \subseteq {{m, n} : m, n \in Parts}

VARIABLES
    system,     \* the config and the graph that are classified
    effective,  \* the volatility of each module, raised by the cascade
    todo,       \* edges not yet in a seam
    seams,      \* by ordered pair of modules, what was accumulated
    unattached  \* clone pairs not yet attached to a seam

couplingVars == <<system, effective, todo, seams, unattached>>

Pair(e) == <<e.from, e.to>>
Owned(e) == {e.from, e.to} \subseteq Parts

-----------------------------------------------------------------------------
(* Strength *)

\* A public glob of any module wins over every internal one.
ByGlob(e) ==
    CASE e.glob = "public" -> "contract" [] e.glob = "internal" -> "intrusive" [] OTHER -> "unknown"

\* A label a person approved decides what the globs do not call intrusive.
Pinned(e) == ByGlob(e) # "intrusive" /\ Pair(e) \in DOMAIN system.approved

\* Evidence of the extractor lowers a contract nobody approved, or fills the unknown.
Unjudged(e) ==
    CASE Pinned(e) -> system.approved[Pair(e)]
      [] ~Pinned(e) /\ ByGlob(e) = "contract" ->
           IF e.hint = "intrusive" THEN "intrusive" ELSE IF e.model THEN "model" ELSE "contract"
      [] ~Pinned(e) /\ ByGlob(e) = "intrusive" -> "intrusive"
      [] OTHER -> e.hint

\* An approved answer of a model speaks last, where all else is silent.
Judged(e) == Unjudged(e) = "unknown" /\ Pair(e) \in DOMAIN system.judged
Strength(e) == IF Judged(e) THEN system.judged[Pair(e)].strength ELSE Unjudged(e)
Doubtful(e) == Judged(e) /\ ~system.judged[Pair(e)].high

-----------------------------------------------------------------------------
(* Distance and volatility *)

ModuleDistance(m, n) ==
    LET Differ(field) == "" \notin {system.defs[m][field], system.defs[n][field]}
                         /\ system.defs[m][field] # system.defs[n][field]
    IN  IF Differ("unit") THEN "deploy unit" ELSE IF Differ("owner") THEN "owner" ELSE "module"

Distance(e) ==
    IF e.to \in DOMAIN system.vendors THEN "external"
    ELSE IF ~Owned(e) THEN "unknown"
    ELSE IF e.from = e.to THEN "same" ELSE ModuleDistance(e.from, e.to)

EffectiveOf(m) == IF m \in Parts THEN effective[m] ELSE "unknown"

\* Shared functionality changes with either end.
Volatility(e) ==
    CASE Distance(e) = "external" -> system.vendors[e.to]
      [] Distance(e) \notin {"external", "unknown"} /\ Strength(e) \in {"functional", "symmetric"} ->
           Worse(EffectiveOf(e.to), EffectiveOf(e.from))
      [] OTHER -> EffectiveOf(e.to)

-----------------------------------------------------------------------------
(* Score *)

EdgeFact(e) == Fact(e.id, Strength(e), Distance(e), Volatility(e))
CloneFact(m, n) ==
    Fact(NoFact, "symmetric", ModuleDistance(m, n), Worse(effective[m], effective[n]))

-----------------------------------------------------------------------------
(* The cascade *)

ClonePair(m, n) == {m, n} \in system.clones

\* Deliberate strong integration; a copy is an accident and carries nothing.
CascadeEdgesAll == {e \in system.edges : Strength(e) \in Strong /\ Owned(e) /\ e.from # e.to}
CascadeEdges ==
    {e \in system.edges :
       Strength(e) \in Strong /\ Owned(e) /\ e.from # e.to /\ ~ClonePair(e.from, e.to)}

CouplingInit ==
    /\ system = NoSystem
    /\ effective = <<>> /\ seams = <<>>
    /\ todo = {} /\ unattached = {}

Observe(s) ==
    /\ system = NoSystem
    /\ system' = s
    /\ effective' = [m \in Parts |-> s.defs[m].volatility]
    /\ todo' = s.edges
    /\ unattached' = s.clones
    /\ UNCHANGED seams

Raisable(e) == effective[e.to] = "high" /\ effective[e.from] # "high"

Raise(e) ==
    /\ system.cascade /\ e \in CascadeEdges /\ Raisable(e)
    /\ effective' = [effective EXCEPT ![e.from] = "high"]
    /\ UNCHANGED <<system, todo, seams, unattached>>

Raised == system # NoSystem /\ (system.cascade => \A e \in CascadeEdges : ~Raisable(e))

-----------------------------------------------------------------------------
(* Seams *)

SeamEdge(e) == Owned(e) /\ Distance(e) \in Boundaries

NewSeam ==
    [edges |-> 0, scored |-> 0, abstained |-> 0, doubtful |-> FALSE, severity |-> "none",
     worst |-> NoFact, qualWorst |-> NoFact, worstClone |-> NoFact]

\* The lower balance, then the stronger, then the farther, then the first by name.
LowerEdge(f, g) ==
    CASE f.balance # g.balance -> f.balance < g.balance
      [] f.balance = g.balance /\ f.strength # g.strength ->
           StrengthValue(f.strength) > StrengthValue(g.strength)
      [] f.balance = g.balance /\ f.strength = g.strength -> f.id < g.id
Keep(f, g) == IF g = NoFact \/ LowerEdge(f, g) THEN f ELSE g

WorseBand(b, balance) == IF BandRank(Band(balance)) > BandRank(b) THEN Band(balance) ELSE b

Accumulated(a, e, f) ==
    [a EXCEPT
       !.edges = @ + 1,
       !.doubtful = @ \/ Doubtful(e),
       !.severity = WorseBand(@, f.balance),
       !.scored = IF f.balance > 0 THEN @ + 1 ELSE @,
       !.abstained = IF f.balance > 0 THEN @ ELSE @ + 1,
       !.worst = IF f.balance > 0 THEN Keep(f, @) ELSE @,
       !.qualWorst = IF Qualifies(f, system.defs[e.from].cohesive) THEN Keep(f, @) ELSE @]

SeamSoFar(p) == IF p \in DOMAIN seams THEN seams[p] ELSE NewSeam
With(p, a) == [q \in DOMAIN seams \cup {p} |-> IF q = p THEN a ELSE seams[q]]

Add(e) ==
    /\ Raised /\ e \in todo
    /\ todo' = todo \ {e}
    /\ seams' = IF SeamEdge(e) THEN With(Pair(e), Accumulated(SeamSoFar(Pair(e)), e, EdgeFact(e)))
                ELSE seams
    /\ UNCHANGED <<system, effective, unattached>>

\* A pair some label speaks of, in either direction, is no longer reported as a copy.
LabelledPair(m, n) == {<<m, n>>, <<n, m>>} \cap (DOMAIN system.approved \cup DOMAIN system.judged) # {}

\* The clone outranks an edge at an equal balance when it is the stronger.
AddClone(a, f) ==
    [a EXCEPT
       !.scored = @ + 1,
       !.severity = WorseBand(@, f.balance),
       !.worstClone =
          IF \/ a.worst = NoFact
             \/ f.balance < a.worst.balance
             \/ f.balance = a.worst.balance /\ StrengthValue(f.strength) > StrengthValue(a.worst.strength)
          THEN f ELSE @]

\* With edges both ways the pair goes to the seam whose ID, a hash, sorts first.
Attach(m, n) ==
    /\ Raised /\ todo = {} /\ {m, n} \in unattached
    /\ unattached' = unattached \ {{m, n}}
    /\ \/ /\ system.scoreClones /\ ~LabelledPair(m, n) /\ <<m, n>> \in DOMAIN seams
          /\ seams' = With(<<m, n>>, AddClone(seams[<<m, n>>], CloneFact(m, n)))
       \/ /\ ~system.scoreClones \/ LabelledPair(m, n) \/ {<<m, n>>, <<n, m>>} \cap DOMAIN seams = {}
          /\ UNCHANGED seams
    /\ UNCHANGED <<system, effective, todo>>

CouplingNext ==
    \/ system = NoSystem /\ \E s \in Systems : Observe(s)
    \/ system # NoSystem /\ \E e \in system.edges : Raise(e) \/ Add(e)
    \/ \E m, n \in Parts : m # n /\ Attach(m, n)

CouplingSpec == CouplingInit /\ [][CouplingNext]_couplingVars

-----------------------------------------------------------------------------
(* What a seam reports *)

DrivingWorst(a) == IF a.worstClone # NoFact THEN a.worstClone ELSE a.worst
Driving(a) ==
    IF a.qualWorst # NoFact THEN a.qualWorst
    ELSE IF a.worstClone # NoFact THEN a.worstClone ELSE a.worst

\* What a seam leaves open.
Unsaid == ""

Quadrant(a) ==
    LET f == IF a.worstClone # NoFact THEN a.worstClone ELSE a.worst
        strong == StrengthValue(f.strength) > 5
        far == DistanceValue(f.distance) > 5
    IN  CASE f = NoFact -> Unsaid
          [] f # NoFact /\ strong -> IF far THEN "tight" ELSE "cohesive"
          [] OTHER -> IF far THEN "loose" ELSE "low_cohesion"

\* The move that clears the seam, or why none is needed.
Hypothesis(p, a) ==
    LET f == Driving(a)
        clone == f # NoFact /\ f = a.worstClone
        public == system.defs[p[2]].public
        cohesive == system.defs[p[1]].cohesive
    IN  CASE f = NoFact -> Unsaid
          [] f # NoFact /\ Band(f.balance) \in {"none", "low"} ->
               IF f.strength \in Strong THEN "accept_low_volatility" ELSE "balanced"
          [] OTHER ->
               CASE cohesive /\ ~clone /\ f.strength # "intrusive" -> "expected_by_role"
                 [] ~(cohesive /\ ~clone /\ f.strength # "intrusive") ->
                      IF f.volatility \in {"undeclared", "unknown"} THEN "declare_volatility"
                      ELSE IF f.strength = "intrusive" \/ (~clone /\ public /\ f.strength \in {"functional", "model"})
                      THEN "introduce_contract"
                      ELSE IF f.strength \in {"functional", "symmetric", "model"} THEN "move_functionality" ELSE Unsaid

\* Where a volatility comes from; the cascade wins the display.
Provenance(m) ==
    CASE effective[m] = "high" /\ system.defs[m].volatility # "high" -> "cascade"
      [] effective[m] = system.defs[m].volatility /\ effective[m] = "undeclared" -> "undeclared"
      [] OTHER -> IF system.defs[m].declared THEN "declared" ELSE "inherited"
SeamProvenance(p) ==
    IF Provenance(p[2]) = "undeclared" THEN Provenance(p[1]) ELSE Provenance(p[2])

Confidence(a) ==
    CASE a.scored = 0 -> "unrated"
      [] a.scored > 0 /\ a.abstained > a.scored -> "low"
      [] a.scored > 0 /\ a.abstained \in 1..a.scored -> "medium"
      [] a.scored > 0 /\ a.abstained = 0 -> IF a.doubtful THEN "medium" ELSE "high"

-----------------------------------------------------------------------------
(* Properties *)

\* Every variable has its type; every edge of a seam is scored or abstained.
CouplingTypeOK ==
    /\ system = NoSystem \/ system \in Systems
    /\ system = NoSystem => effective = <<>> /\ todo = {} /\ unattached = {}
    /\ system # NoSystem =>
         /\ effective \in [Parts -> Volatilities]
         /\ todo \subseteq system.edges /\ unattached \subseteq system.clones
    /\ DOMAIN seams \subseteq Parts \X Parts
    /\ \A p \in DOMAIN seams :
         /\ p[1] # p[2]
         /\ seams[p].edges <= seams[p].scored + seams[p].abstained
         /\ Confidence(seams[p]) \in {"unrated", "low", "medium", "high"}

\* The cascade reaches the modules that a chain of deliberate strong edges leads to a
\* volatile module, whatever order the edges come in, and no other: nothing is raised by
\* a copy, and the others keep what is declared (computeEffectiveVolatility).
LedTo(F) == {m \in Parts : \A X \in F : m \in X}
HoldsVolatile(s, E) ==
    {X \in SUBSET Parts :
       /\ \A m \in Parts : s.defs[m].volatility = "high" => m \in X
       /\ \A e \in E : e.to \in X => e.from \in X}
CascadeIsExact ==
    Raised =>
      LET E == {e \in system.edges :
                  /\ system.cascade /\ Strength(e) \in Strong /\ Owned(e)
                  /\ e.from # e.to /\ {e.from, e.to} \notin system.clones}
          volatile == LedTo(HoldsVolatile(system, E))
      IN  \A m \in Parts :
            effective[m] = IF m \in volatile THEN "high" ELSE system.defs[m].volatility

\* The facts behind a seam, and those that make it a distributed monolith.
EdgesOf(p) == {EdgeFact(e) : e \in {x \in system.edges : Pair(x) = p}}
ScoredOf(p) == {f \in EdgesOf(p) : f.balance > 0}
QualifyingOf(p) == {f \in EdgesOf(p) : Qualifies(f, system.defs[p[1]].cohesive)}

\* A finished seam tells one fact, whatever order its edges came in: its strength,
\* volatility, severity, quadrant and move fit a worst fact of the pair, a qualifying one
\* exactly when one exists, whose volatility is never a guess; and the move it proposes
\* would clear it (applyDrivingFact, keepWorst, BalancingHypothesis).
Cleared(move, f) ==
    CASE move = "introduce_contract" -> Balance("contract", f.distance, f.volatility) > 6
      [] move = "move_functionality" -> Balance(f.strength, "same", f.volatility) > 6
      [] OTHER -> move # Unsaid
TellsOneFact(p) ==
    LET f == Driving(seams[p])
        facts == (ScoredOf(p) \cup {seams[p].worstClone}) \ {NoFact}
        among == IF QualifyingOf(p) # {} THEN QualifyingOf(p) ELSE facts
    IN  /\ (f = NoFact) = (facts = {})
        /\ f # NoFact =>
             /\ f \in among /\ \A g \in among : f.balance <= g.balance
             /\ seams[p].severity = Band(f.balance)
             /\ Quadrant(seams[p]) = IF f.strength \in Strong THEN "tight" ELSE "loose"
             /\ Cleared(Hypothesis(p, seams[p]), f)
        /\ QualifyingOf(p) # {} => SeamProvenance(p) # "undeclared"
SeamTellsOneFact ==
    Raised /\ todo = {} /\ unattached = {} => \A p \in DOMAIN seams : TellsOneFact(p)

\* The two results a reader acts on: how volatility spreads, and what a seam says.
CouplingIsExact == CascadeIsExact /\ SeamTellsOneFact
=============================================================================
