---------------------------- MODULE MCFactCache ----------------------------
(* Instances of FactCache for TLC. *)
EXTENDS FactCache, TLC

CONSTANTS a, b, u, one, two

Of(A) == [n \in Source |-> IF n = a THEN A ELSE {}]

\* a requires b, or compiles against source outside of the workspace.
MCWorkspaces == {[requires |-> Of({x}), imports |-> Of({x})] : x \in {b, u}}

\* What a compiles against changes, and a itself does not.
MCTrees == {[n \in Source |-> IF n \in X THEN two ELSE one] : X \in {{}, {b, u}}}

Symmetric == Permutations(Runs) \cup Permutations(Temps)
=============================================================================
