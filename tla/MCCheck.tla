------------------------------ MODULE MCCheck ------------------------------
(* Instances of Check for TLC. *)
EXTENDS Check

CONSTANTS v1, v2, v3, e1, e2, cycle, layer, other, ts, py, rust

\* v2 and v3 are one import that breaks two rules; v1 is another import that
\* breaks the same rule as v2.
MCEdgeOf == [v \in Violations |-> IF v = v1 THEN e1 ELSE e2]
MCRuleOf == [v \in Violations |-> IF v = v3 THEN layer ELSE cycle]

\* The rule `other` is about a second language, whose producer must run.
MCToolOf == [r \in Rules |-> IF r = other THEN py ELSE ts]
MCGateOf == [t \in Tools |-> IF t = py THEN "fail" ELSE "unset"]
=============================================================================
