-------------------------------- MODULE Cycles --------------------------------
(***************************************************************************)
(* The search for dependency cycles that the rules cycle and module_cycle    *)
(* share (stronglyConnected): a depth-first walk from every node in name     *)
(* order, which takes a component off the stack when it is complete.  One    *)
(* step is one turn of a loop; the calls of strongConnect are a sequence.    *)
(***************************************************************************)
EXTENDS Digraph, Sequences

CONSTANTS
    NodeNames, \* the nodes in name order, without duplicates
    Digraphs   \* the dependencies to consider

ASSUME CyclesAssumption ==
    /\ NodeNames \in Seq({NodeNames[i] : i \in DOMAIN NodeNames})
    /\ \A E \in Digraphs : NodesOf(E) \subseteq {NodeNames[i] : i \in DOMAIN NodeNames}

NoDigraph == {}

VARIABLES
    digraph, \* the edges
    index,   \* when each node was visited
    lowlink,
    stack,
    calls,   \* the open calls of strongConnect: the node, the targets left
    sccs     \* the components found

cyclesVars == <<digraph, index, lowlink, stack, calls, sccs>>

Seen == DOMAIN index
OnStack(v) == \E i \in DOMAIN stack : stack[i] = v
Top == calls[Len(calls)]
Targets(v) == {e[2] : e \in {x \in digraph : x[1] = v}}
Extend(f, v, n) == [x \in DOMAIN f \cup {v} |-> IF x = v THEN n ELSE f[x]]
Least(a, b) == IF a < b THEN a ELSE b

CyclesInit ==
    /\ digraph = NoDigraph
    /\ index = <<>> /\ lowlink = <<>> /\ stack = <<>> /\ calls = <<>>
    /\ sccs = {}

\* The adjacency of the dependency edges.
Adjacency(E) ==
    /\ digraph = NoDigraph
    /\ digraph' = E
    /\ UNCHANGED <<index, lowlink, stack, calls, sccs>>

\* strongConnect(v) begins, with the targets of v still to look at.
Call(v, frames) ==
    /\ index' = Extend(index, v, Cardinality(Seen))
    /\ lowlink' = Extend(lowlink, v, Cardinality(Seen))
    /\ stack' = Append(stack, v)
    /\ calls' = Append(frames, [node |-> v, left |-> Targets(v)])

\* With no call open the walk goes on at the first node not visited.
Root(i) ==
    /\ digraph # NoDigraph /\ calls = <<>>
    /\ i \in DOMAIN NodeNames /\ NodeNames[i] \in NodesOf(digraph) \ Seen
    /\ \A j \in 1..(i - 1) : NodeNames[j] \notin NodesOf(digraph) \ Seen
    /\ Call(NodeNames[i], calls)
    /\ UNCHANGED <<digraph, sccs>>

Rest(w) == [calls EXCEPT ![Len(calls)].left = @ \ {w}]

\* A target not seen before is visited first.
Descend(w) ==
    /\ calls # <<>> /\ w \in Top.left \ Seen
    /\ Call(w, Rest(w))
    /\ UNCHANGED <<digraph, sccs>>

\* A target seen before counts only when it is still on the stack.
LookBackAnywhere(w) ==
    /\ calls # <<>> /\ w \in Top.left \cap Seen
    /\ calls' = Rest(w)
    /\ lowlink' = [lowlink EXCEPT ![Top.node] = Least(@, index[w])]
    /\ UNCHANGED <<digraph, index, stack, sccs>>
LookBack(w) ==
    /\ calls # <<>> /\ w \in Top.left \cap Seen
    /\ calls' = Rest(w)
    /\ lowlink' = IF OnStack(w) THEN [lowlink EXCEPT ![Top.node] = Least(@, index[w])]
                  ELSE lowlink
    /\ UNCHANGED <<digraph, index, stack, sccs>>

\* The call ends: the root of a component takes it off the stack, and the caller
\* learns how far up the walk came.
EndCall ==
    LET v == Top.node
        from == CHOOSE i \in DOMAIN stack : stack[i] = v
        scc == {stack[i] : i \in from..Len(stack)}
        caller == Len(calls) - 1
    IN  /\ calls # <<>> /\ Top.left = {}
        /\ IF lowlink[v] = index[v]
           THEN /\ stack' = SubSeq(stack, 1, from - 1)
                /\ sccs' = IF Cardinality(scc) > 1 THEN sccs \cup {scc} ELSE sccs
           ELSE UNCHANGED <<stack, sccs>>
        /\ calls' = SubSeq(calls, 1, caller)
        /\ lowlink' = IF caller = 0 THEN lowlink
                      ELSE [lowlink EXCEPT ![calls[caller].node] = Least(@, lowlink[v])]
        /\ UNCHANGED <<digraph, index>>

CyclesNext ==
    \/ digraph = NoDigraph /\ \E E \in Digraphs : Adjacency(E)
    \/ \E i \in DOMAIN NodeNames : Root(i)
    \/ calls # <<>> /\ \E w \in Top.left : Descend(w) \/ LookBack(w)
    \/ EndCall

CyclesSpec == CyclesInit /\ [][CyclesNext]_cyclesVars

Searched == digraph # NoDigraph /\ calls = <<>> /\ NodesOf(digraph) \subseteq Seen

-----------------------------------------------------------------------------
(* Properties *)

\* Every variable has its type; the stack and the calls hold visited nodes, once.
CyclesTypeOK ==
    /\ digraph = NoDigraph \/ digraph \in Digraphs
    /\ Seen \subseteq {NodeNames[i] : i \in DOMAIN NodeNames}
    /\ DOMAIN lowlink = Seen
    /\ \A v \in Seen : index[v] \in 0..(Cardinality(Seen) - 1) /\ lowlink[v] \in 0..index[v]
    /\ \A i \in DOMAIN stack : stack[i] \in Seen /\ \A j \in 1..(i - 1) : stack[j] # stack[i]
    /\ \A i \in DOMAIN calls : calls[i].node \in Seen /\ OnStack(calls[i].node)
    /\ UNION sccs \subseteq Seen

\* The walk finds the strongly connected components of two nodes or more, all of them
\* and whole, in whatever order the targets come: no gated cycle passes silently
\* (stronglyConnected).
CyclesAreComponents ==
    /\ \A S \in sccs : S \in Components(digraph)
    /\ Searched => sccs = Components(digraph)
=============================================================================
