------------------------------- MODULE Digraph -------------------------------
(* Directed graphs as sets of ordered pairs, and their strongly connected    *)
(* components, by what separates nodes.  The components of the program are   *)
(* computed by the steps of Cycles.                                          *)
EXTENDS Integers, FiniteSets

NodesOf(E) == {e[1] : e \in E} \cup {e[2] : e \in E}

\* The edges that can be on a cycle: another leads to them, and another goes on.
Inner(E) ==
    {e \in E : \E x, y \in E : x[2] = e[1] /\ y[1] = e[2]}

\* The sets of nodes no edge leaves; the largest is all nodes.
Closed(E) == {X \in SUBSET NodesOf(E) : \A e \in E : e[1] \in X => e[2] \in X}

\* The nodes no closed set separates from a reach a, and a reaches them.
Unseparated(K, a) == {b \in UNION K : \A X \in K : a \in X <=> b \in X}

\* The components of two nodes or more.  (F and K are bound, so that TLC computes
\* each once.)
Components(E) ==
    {S \in UNION {{Unseparated(K, a) : a \in UNION K} : K \in {Closed(F) : F \in {Inner(E)}}} :
       Cardinality(S) > 1}
=============================================================================
