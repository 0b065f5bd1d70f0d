-------------------------------- MODULE Scoring ---------------------------------
(***************************************************************************)
(* The balance score of one dependency: how strong it is, how far it reaches  *)
(* and how often its target changes.                                         *)
(***************************************************************************)
EXTENDS Integers

Strengths == {"unknown", "contract", "model", "functional", "symmetric", "intrusive"}
Strong == {"functional", "symmetric", "intrusive"}
Volatilities == {"frozen", "low", "medium", "high", "undeclared", "unknown"}

Boundaries == {"module", "owner", "deploy unit"}

\* High is worse than no declaration when two ends are compared (classify).
Rank(v) ==
    CASE v = "frozen" -> 1 [] v = "low" -> 2 [] v = "medium" -> 3 [] v = "high" -> 5 [] OTHER -> 4
Worse(v, w) == IF Rank(w) > Rank(v) THEN w ELSE v

StrengthValue(s) ==
    CASE s = "contract" -> 1 [] s = "model" -> 3 [] s = "functional" -> 8
      [] s = "symmetric" -> 9 [] s = "intrusive" -> 10 [] s = "unknown" -> 0
DistanceValue(d) ==
    CASE d = "same" -> 2 [] d \in Boundaries -> 9 [] d = "external" -> 10 [] d = "unknown" -> 0
VolatilityValue(v) ==
    CASE v = "frozen" -> 1 [] v = "low" -> 3 [] v = "medium" -> 6 [] OTHER -> 10

Abs(n) == IF n < 0 THEN -n ELSE n
Greater(a, b) == IF a > b THEN a ELSE b

\* From 1, out of balance, to 10; 0 is not scored.
Balance(s, d, v) ==
    IF 0 \in {StrengthValue(s), DistanceValue(d)} THEN 0
    ELSE Greater(Abs(StrengthValue(s) - DistanceValue(d)), 10 - VolatilityValue(v)) + 1

Band(balance) ==
    CASE balance = 0 -> "none"
      [] balance \in 1..2 -> "critical" [] balance \in 3..4 -> "high" [] balance \in 5..6 -> "medium"
      [] balance \in 7..8 -> "low" [] balance > 8 -> "none"
BandRank(b) == CASE b = "none" -> 0 [] b = "low" -> 1 [] b = "medium" -> 2 [] b = "high" -> 3 [] b = "critical" -> 4

Fact(id, s, d, v) ==
    [id |-> id, strength |-> s, distance |-> d, volatility |-> v, balance |-> Balance(s, d, v)]

\* The edge rule behind a distributed monolith.
Qualifies(f, cohesive) ==
    /\ f.balance > 0 /\ f.distance \in Boundaries /\ f.volatility = "high"
    /\ f.strength = "intrusive" \/ (f.strength \in {"functional", "symmetric"} /\ ~cohesive)
=============================================================================
