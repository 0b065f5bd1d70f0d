---------------------------- MODULE GraphProofs ----------------------------
(***************************************************************************)
(* Over the graph of dependencies: the search for cycles finds the strongly *)
(* connected components of two nodes or more, all of them and whole, of     *)
(* every graph; and for every config and tree the findings of the rules are *)
(* stable when code is removed, moves inside its module, or is lost to the  *)
(* source walk; and for every pair of configs, an edit that takes a finding *)
(* away is called a loosening.                                              *)
(*                                                                          *)
(* The search.  The stack is a row of segments, one for each open call: the *)
(* nodes stacked since the call and before the next one.  A call leads to   *)
(* all that was stacked after it, and all of its segment leads back to it.  *)
(* lowlink is the index of a stacked node that the call leads to, and no    *)
(* explored edge from its segment to the stack goes further up.  So a call  *)
(* that ends with its own index has a segment no edge leaves but to nodes   *)
(* already taken off, which none of them leads back from: a component.      *)
(*                                                                          *)
(* The rules.  Less code has fewer edges, and each rule reports no more of  *)
(* fewer, but for cycles, which only get smaller.  A file that moves inside *)
(* its module, or loses its class, leaves an edge that stands for each      *)
(* there was: between the same modules, and counted if the other was.       *)
(*                                                                          *)
(* The configs.  A candidate that does not loosen sorts places alike, reads *)
(* at least the files the config in force does, and its allowlists admit no *)
(* more; each rule of the one has its like in the other, its gate no lower  *)
(* and its cap no higher.  So each rule reports what it did, or a cycle     *)
(* around it.  And an analyzer that lost a file has a row that is not       *)
(* called comparable.                                                       *)
(*                                                                          *)
(* The couplings.  What the cascade raises lies in every set that holds the *)
(* volatile modules and is closed against the edges that carry, and no seam *)
(* is made before it has ended.  A seam keeps the lowest of the facts added *)
(* so far, so its end does not depend on their order.                       *)
(***************************************************************************)
EXTENDS Cycles, Rules, PolicyChange, Coupling, FiniteSetTheorems, SequenceTheorems, TLAPS

-----------------------------------------------------------------------------
(* Components of a graph, by what leads to what.                            *)

\* No closed set has a and lacks b.
Leads(E, a, b) == \A X \in Closed(E) : a \in X => b \in X

\* The nodes that a leads to and that lead to a.
Class(E, a) == {b \in NodesOf(E) : Leads(E, a, b) /\ Leads(E, b, a)}

LEMMA LeadsOn ==
    ASSUME NEW E
    PROVE  /\ \A a : Leads(E, a, a)
           /\ \A a, b, c : Leads(E, a, b) /\ Leads(E, b, c) => Leads(E, a, c)
           /\ \A e \in E : Leads(E, e[1], e[2])
    BY DEF Leads, Closed

LEMMA InnerNodes ==
    ASSUME NEW E, NEW a \in NodesOf(Inner(E))
    PROVE  /\ a \in NodesOf(E)
           /\ \E e \in E : e[1] = a
           /\ \E e \in E : e[2] = a
    BY DEF Inner, NodesOf

\* Two nodes that lead to each other are on inner edges.
LEMMA BothAreInner ==
    ASSUME NEW E, NEW a \in NodesOf(E), NEW b \in NodesOf(E), a # b,
           Leads(E, a, b), Leads(E, b, a)
    PROVE  a \in NodesOf(Inner(E))
<1> DEFINE Ends == {c \in NodesOf(E) : \A e \in E : e[1] # c}
<1>1. \E e \in E : e[1] = b
  <2>1. CASE \A e \in E : e[1] # b
    <3>1. {b} \in Closed(E)
        BY <2>1 DEF Closed
    <3> QED
        BY <3>1 DEF Leads
  <2> QED
    BY <2>1
<1>2. \E e \in E : e[2] = a
  <2>1. CASE \A e \in E : e[2] # a
    <3>1. NodesOf(E) \ {a} \in Closed(E)
        BY <2>1 DEF Closed, NodesOf
    <3> QED
        BY <3>1 DEF Leads
  <2> QED
    BY <2>1
<1>3. \E e \in E : e[1] = a /\ \E y \in E : y[1] = e[2]
  <2>1. CASE \A e \in E : e[1] = a => \A y \in E : y[1] # e[2]
    <3>1. {a} \cup Ends \in Closed(E)
      <4>1. \A e \in E : e[2] \in NodesOf(E)
        BY DEF NodesOf
      <4> QED
        BY <2>1, <4>1 DEF Closed
    <3>2. b \in {a} \cup Ends
        BY <3>1 DEF Leads
    <3> QED
        BY <1>1, <3>2
  <2> QED
    BY <2>1
<1>4. \E e \in Inner(E) : e[1] = a
    BY <1>2, <1>3 DEF Inner
<1> QED
    BY <1>4 DEF NodesOf

\* Among inner nodes, the inner edges separate what all edges separate.
LEMMA InnerLeads ==
    ASSUME NEW E, NEW a \in NodesOf(Inner(E)), NEW b \in NodesOf(Inner(E))
    PROVE  Leads(Inner(E), a, b) <=> Leads(E, a, b)
<1> DEFINE F == Inner(E)
           Ends == {c \in NodesOf(E) : \A e \in E : e[1] # c}
<1>1. F \subseteq E /\ NodesOf(F) \subseteq NodesOf(E)
    BY DEF Inner, NodesOf
<1>2. ASSUME Leads(F, a, b), NEW X \in Closed(E), a \in X
      PROVE  b \in X
  <2>1. X \cap NodesOf(F) \in Closed(F)
    BY <1>1 DEF Closed, NodesOf
  <2> QED
    BY <1>2, <2>1 DEF Leads
<1>3. ASSUME Leads(E, a, b), NEW X \in Closed(F), a \in X
      PROVE  b \in X
  <2>1. X \subseteq NodesOf(F)
    BY DEF Closed
  <2>2. X \cup Ends \in SUBSET NodesOf(E)
    BY <1>1, <2>1
  <2>3. ASSUME NEW e \in E, e[1] \in X \cup Ends
        PROVE  e[2] \in X \cup Ends
    <3>1. e[1] \in X
        BY <2>3
    <3>2. \E x \in E : x[2] = e[1]
        BY <2>1, <3>1, InnerNodes
    <3>3. e[2] \in NodesOf(E)
        BY DEF NodesOf
    <3>4. CASE \E y \in E : y[1] = e[2]
      <4>1. e \in F
        BY <3>2, <3>4 DEF Inner
      <4> QED
        BY <3>1, <4>1 DEF Closed
    <3> QED
        BY <3>3, <3>4
  <2>4. X \cup Ends \in Closed(E)
    BY <2>2, <2>3 DEF Closed
  <2>5. b \in X \cup Ends
    BY <1>3, <2>4 DEF Leads
  <2>6. b \notin Ends
    BY InnerNodes
  <2> QED
    BY <2>5, <2>6
<1> QED
    BY <1>2, <1>3 DEF Leads

LEMMA ManyInClass ==
    ASSUME NEW S, NEW a \in S, Cardinality(S) > 1
    PROVE  \E b \in S : b # a
<1>1. CASE S = {a}
  <2>1. Cardinality(S) = 1
    BY <1>1, FS_Singleton
  <2> QED
    BY <2>1
<1> QED
    BY <1>1

\* What the inner edges leave unseparated is a class of the graph, if it is of two
\* nodes or more; and such a class is what they leave unseparated.
LEMMA UnseparatedIsClass ==
    ASSUME NEW E, NEW a, NEW b, a # b,
           \/ a \in NodesOf(Inner(E)) /\ b \in Unseparated(Closed(Inner(E)), a)
           \/ a \in NodesOf(E) /\ b \in Class(E, a)
    PROVE  /\ a \in NodesOf(Inner(E)) /\ a \in NodesOf(E)
           /\ Unseparated(Closed(Inner(E)), a) = Class(E, a)
<1> DEFINE F == Inner(E)
           N == NodesOf(F)
<1>1. UNION Closed(F) = N
  <2>1. N \in Closed(F)
    BY DEF Closed, NodesOf
  <2> QED
    BY <2>1 DEF Closed
<1>2. \A c : c \in Unseparated(Closed(F), a) <=> c \in N /\ Leads(F, a, c) /\ Leads(F, c, a)
    BY <1>1 DEF Unseparated, Leads
<1>3. \A c : c \in Class(E, a) <=> c \in NodesOf(E) /\ Leads(E, a, c) /\ Leads(E, c, a)
    BY DEF Class
<1>4. N \subseteq NodesOf(E)
    BY InnerNodes
<1>5. a \in N
    BY <1>3, BothAreInner
<1>6. \A c \in N : (Leads(F, a, c) <=> Leads(E, a, c)) /\ (Leads(F, c, a) <=> Leads(E, c, a))
    BY <1>5, InnerLeads
<1>7. \A c \in Class(E, a) : c \in N
  <2> SUFFICES ASSUME NEW c \in Class(E, a), c # a PROVE c \in N
    BY <1>5
  <2> QED
    BY <1>3, <1>4, <1>5, BothAreInner
<1>8. \A c : c \in Unseparated(Closed(F), a) <=> c \in Class(E, a)
    BY <1>2, <1>3, <1>4, <1>6, <1>7
<1> QED
    BY <1>4, <1>5, <1>8

LEMMA ComponentsAreClasses ==
    ASSUME NEW E
    PROVE  \A S : S \in Components(E) <=>
             Cardinality(S) > 1 /\ \E a \in NodesOf(E) : S = Class(E, a)
<1> DEFINE K == Closed(Inner(E))
<1>1. UNION K = NodesOf(Inner(E))
  <2>1. NodesOf(Inner(E)) \in K
    BY DEF Closed, NodesOf
  <2> QED
    BY <2>1 DEF Closed
<1>2. \A S : S \in Components(E) <=>
        Cardinality(S) > 1 /\ \E a \in NodesOf(Inner(E)) : S = Unseparated(K, a)
  <2> HIDE DEF K
  <2>1. Components(E) =
          {S \in UNION {{Unseparated(L, a) : a \in UNION L} : L \in {K}} : Cardinality(S) > 1}
    BY DEF Components, K
  <2> QED
    BY <1>1, <2>1
<1>3. \A a \in NodesOf(Inner(E)) : a \in Unseparated(K, a)
    BY <1>1 DEF Unseparated
<1>4. \A a \in NodesOf(E) : a \in Class(E, a)
    BY LeadsOn DEF Class
<1>5. ASSUME NEW S, Cardinality(S) > 1, NEW a \in NodesOf(Inner(E)), S = Unseparated(K, a)
      PROVE  a \in NodesOf(E) /\ S = Class(E, a)
    BY <1>3, <1>5, ManyInClass, UnseparatedIsClass
<1>6. ASSUME NEW S, Cardinality(S) > 1, NEW a \in NodesOf(E), S = Class(E, a)
      PROVE  a \in NodesOf(Inner(E)) /\ S = Unseparated(K, a)
    BY <1>4, <1>6, ManyInClass, UnseparatedIsClass
<1> QED
    BY <1>2, <1>5, <1>6

-----------------------------------------------------------------------------
(* The invariant.                                                           *)

Stacked == {stack[i] : i \in DOMAIN stack}
Done == Seen \ Stacked

\* A frame of calls.
Frames == [node : NodesOf(digraph), left : SUBSET NodesOf(digraph)]
CallNode(k) == calls[k].node

\* Stacked before the call after the k-th.
VisitedBefore(u, k) == k = Len(calls) \/ index[u] < index[CallNode(k + 1)]

\* A target of u that its open call has still to look at.
Left(u, t) == \E k \in DOMAIN calls : CallNode(k) = u /\ t \in calls[k].left

Typed ==
    /\ digraph = NoDigraph \/ digraph \in Digraphs
    /\ digraph = NoDigraph => index = <<>> /\ calls = <<>> /\ sccs = {}
    /\ Seen \subseteq NodesOf(digraph) /\ DOMAIN lowlink = Seen
    /\ \A u \in Seen :
         index[u] \in Nat /\ index[u] < Cardinality(Seen) /\ lowlink[u] \in Nat /\ lowlink[u] <= index[u]
    /\ stack \in Seq(Seen)
    /\ calls \in Seq(Frames)
    /\ \A k \in DOMAIN calls : CallNode(k) \in Stacked /\ calls[k].left \subseteq Targets(CallNode(k))

\* Nodes are stacked, and calls opened, in the order of their index.
Ordered ==
    /\ \A i, j \in DOMAIN stack : i < j => index[stack[i]] < index[stack[j]]
    /\ \A i, j \in DOMAIN calls : i < j => index[CallNode(i)] < index[CallNode(j)]
    /\ \A u \in Stacked : calls # <<>> /\ index[u] >= index[CallNode(1)]

\* A call leads to all stacked after it, and what was stacked before the next leads to it.
Linked ==
    \A k \in DOMAIN calls : \A u \in Stacked :
      /\ index[u] >= index[CallNode(k)] => Leads(digraph, CallNode(k), u)
      /\ VisitedBefore(u, k) => Leads(digraph, u, CallNode(k))

\* What a call came to that is stacked.
Reached ==
    \A k \in DOMAIN calls :
      \E u \in Stacked : index[u] = lowlink[CallNode(k)] /\ Leads(digraph, CallNode(k), u)

\* Where the edges lead that were looked at.
Explored ==
    \A e \in digraph : e[1] \in Stacked /\ ~Left(e[1], e[2]) =>
      /\ e[2] \in Seen
      /\ e[2] \in Stacked => \A k \in DOMAIN calls :
           index[e[1]] >= index[CallNode(k)] /\ VisitedBefore(e[1], k) => index[e[2]] >= lowlink[CallNode(k)]

\* What was taken off the stack: no edge leaves it, and its components are found.
Taken ==
    /\ \A e \in digraph : e[1] \in Done => e[2] \in Done
    /\ \A a \in Done : Cardinality(Class(digraph, a)) > 1 => Class(digraph, a) \in sccs
    /\ sccs \subseteq Components(digraph)

CyclesInv == Typed /\ Ordered /\ Linked /\ Reached /\ Explored /\ Taken

-----------------------------------------------------------------------------
(* A call begins.                                                           *)

LEMMA NamesFinite == IsFiniteSet({NodeNames[i] : i \in DOMAIN NodeNames})
<1> DEFINE T == {NodeNames[i] : i \in DOMAIN NodeNames}
<1>1. Len(NodeNames) \in Nat /\ DOMAIN NodeNames = 1..Len(NodeNames)
    BY CyclesAssumption, LenProperties
<1>2. IsFiniteSet(DOMAIN NodeNames)
    BY <1>1, FS_Interval
<1>3. [i \in DOMAIN NodeNames |-> NodeNames[i]] \in Surjection(DOMAIN NodeNames, T)
    BY DEF Surjection
<1> QED
    BY <1>2, <1>3, FS_Surjection

LEMMA SeenFinite == ASSUME Typed PROVE IsFiniteSet(Seen) /\ Cardinality(Seen) \in Nat
<1>1. Seen \subseteq {NodeNames[i] : i \in DOMAIN NodeNames}
  <2>1. CASE digraph = NoDigraph
    BY <2>1 DEF Typed, NoDigraph, NodesOf
  <2>2. CASE digraph \in Digraphs
    BY <2>2, CyclesAssumption DEF Typed
  <2> QED
    BY <2>1, <2>2 DEF Typed
<1> QED
    BY <1>1, NamesFinite, FS_Subset, FS_CardinalityType

\* What the typing says of the two sequences.
LEMMA Rows ==
    ASSUME Typed
    PROVE  /\ Len(stack) \in Nat /\ DOMAIN stack = 1..Len(stack) /\ Stacked \subseteq Seen
           /\ Len(calls) \in Nat /\ DOMAIN calls = 1..Len(calls)
           /\ calls # <<>> => Len(calls) \in DOMAIN calls
           /\ \A k \in DOMAIN calls : CallNode(k) \in Stacked /\ calls[k] \in Frames
           /\ \A k \in DOMAIN calls : \A t \in calls[k].left :
                \E e \in digraph : e[1] = CallNode(k) /\ e[2] = t
<1>1. Len(stack) \in Nat /\ DOMAIN stack = 1..Len(stack) /\ \A i \in DOMAIN stack : stack[i] \in Seen
    BY LenProperties DEF Typed
<1>2. /\ Len(calls) \in Nat /\ DOMAIN calls = 1..Len(calls)
      /\ \A k \in DOMAIN calls : calls[k] \in Frames
      /\ calls # <<>> => Len(calls) \in DOMAIN calls
    BY LenProperties, EmptySeq DEF Typed
<1>3. \A k \in DOMAIN calls : CallNode(k) \in Stacked /\ calls[k].left \subseteq Targets(CallNode(k))
    BY DEF Typed
<1> QED
    BY <1>1, <1>2, <1>3 DEF Stacked, Targets

\* A call that begins: what it does to the variables.
LEMMA Begins ==
    ASSUME Typed, NEW v \in NodesOf(digraph) \ Seen, NEW frames \in Seq(Frames),
           Len(frames) = Len(calls), \A k \in DOMAIN calls : frames[k].node = CallNode(k),
           Call(v, frames), digraph' = digraph
    PROVE  LET n == Cardinality(Seen)
           IN  /\ Seen' = Seen \cup {v} /\ n \in Nat /\ Cardinality(Seen') = n + 1
               /\ DOMAIN lowlink' = Seen'
               /\ \A u \in Seen : index'[u] = index[u] /\ lowlink'[u] = lowlink[u]
               /\ index'[v] = n /\ lowlink'[v] = n
               /\ stack' \in Seq(Seen') /\ Stacked' = Stacked \cup {v}
               /\ DOMAIN stack' = 1..(Len(stack) + 1)
               /\ \A i \in DOMAIN stack : stack'[i] = stack[i]
               /\ stack'[Len(stack) + 1] = v
               /\ calls' \in Seq(Frames) /\ Len(calls') = Len(calls) + 1
               /\ DOMAIN calls' = 1..(Len(calls) + 1)
               /\ \A k \in DOMAIN calls : calls'[k] = frames[k] /\ CallNode(k)' = CallNode(k)
               /\ calls'[Len(calls) + 1] = [node |-> v, left |-> Targets(v)]
               /\ calls'[Len(calls) + 1].node = v
<1> DEFINE n == Cardinality(Seen)
           top == [node |-> v, left |-> Targets(v)]
<1>1. /\ index' = Extend(index, v, n) /\ lowlink' = Extend(lowlink, v, n)
      /\ stack' = Append(stack, v) /\ calls' = Append(frames, top)
    BY DEF Call
<1>2. /\ Seen' = Seen \cup {v} /\ DOMAIN lowlink' = Seen'
      /\ \A u \in Seen : index'[u] = index[u] /\ lowlink'[u] = lowlink[u]
      /\ index'[v] = n /\ lowlink'[v] = n
  <2> HIDE DEF n
  <2> QED
    BY <1>1 DEF Extend, Typed, Seen
<1>3. n \in Nat /\ Cardinality(Seen \cup {v}) = n + 1
    BY SeenFinite, FS_AddElement
<1>4. Cardinality(Seen') = n + 1
  <2>1. Cardinality(Seen') = Cardinality(Seen \cup {v})
    BY <1>2, Zenon
  <2> QED
    BY <1>3, <2>1
<1>5. /\ stack' \in Seq(Seen') /\ DOMAIN stack' = 1..(Len(stack) + 1)
      /\ \A i \in DOMAIN stack : stack'[i] = stack[i]
      /\ stack'[Len(stack) + 1] = v
      /\ Stacked' = Stacked \cup {v}
  <2>1. stack \in Seq(Seen') /\ v \in Seen'
    BY <1>2, SeqMonotonic DEF Typed
  <2>2. Len(stack) \in Nat /\ DOMAIN stack = 1..Len(stack)
    BY Rows
  <2>3. /\ stack' \in Seq(Seen') /\ DOMAIN stack' = 1..(Len(stack) + 1)
        /\ \A i \in DOMAIN stack : stack'[i] = stack[i]
        /\ stack'[Len(stack) + 1] = v
    BY <1>1, <2>1, <2>2
  <2> QED
    BY <2>2, <2>3 DEF Stacked
<1>6. top \in Frames
    BY DEF Frames, Targets, NodesOf
<1>7. Len(calls) \in Nat /\ DOMAIN calls = 1..Len(calls)
    BY Rows
<1>8. /\ calls' \in Seq(Frames) /\ Len(calls') = Len(calls) + 1
      /\ DOMAIN calls' = 1..(Len(calls) + 1)
      /\ \A k \in DOMAIN calls : calls'[k] = frames[k]
      /\ calls'[Len(calls) + 1] = top
  <2> HIDE DEF top
  <2> QED
    BY <1>1, <1>6, <1>7
<1>9. (\A k \in DOMAIN calls : CallNode(k)' = CallNode(k)) /\ calls'[Len(calls) + 1].node = v
  <2>1. calls'[Len(calls) + 1].node = v
    BY <1>8
  <2>2. \A k \in DOMAIN calls : calls'[k].node = calls[k].node
    BY <1>8 DEF CallNode
  <2> QED
    BY <2>1, <2>2 DEF CallNode
<1> QED
    BY <1>2, <1>3, <1>4, <1>5, <1>8, <1>9

LEMMA CallKeeps ==
    ASSUME CyclesInv, NEW v \in NodesOf(digraph) \ Seen, NEW frames \in Seq(Frames),
           Len(frames) = Len(calls),
           \A k \in DOMAIN calls :
             /\ frames[k].node = CallNode(k) /\ frames[k].left \subseteq calls[k].left
             /\ \A t \in calls[k].left \ frames[k].left : k = Len(calls) /\ t = v,
           calls # <<>> => \E e \in digraph : e[1] = CallNode(Len(calls)) /\ e[2] = v,
           Call(v, frames), digraph # NoDigraph, digraph' = digraph, sccs' = sccs
    PROVE  CyclesInv'
<1> DEFINE n == Cardinality(Seen)
           m == Len(calls) + 1
<1>a. Typed /\ Ordered /\ Linked /\ Reached /\ Explored /\ Taken
    BY DEF CyclesInv
<1>1. /\ Seen' = Seen \cup {v} /\ n \in Nat /\ Cardinality(Seen') = n + 1
      /\ DOMAIN lowlink' = Seen'
      /\ \A u \in Seen : index'[u] = index[u] /\ lowlink'[u] = lowlink[u]
      /\ index'[v] = n /\ lowlink'[v] = n
      /\ stack' \in Seq(Seen') /\ Stacked' = Stacked \cup {v}
    BY <1>a, Begins
<1>2. /\ DOMAIN stack' = 1..(Len(stack) + 1)
      /\ \A i \in DOMAIN stack : stack'[i] = stack[i]
      /\ stack'[Len(stack) + 1] = v
    BY <1>a, Begins
<1>3. /\ calls' \in Seq(Frames) /\ Len(calls') = m
      /\ DOMAIN calls' = 1..m
      /\ \A k \in DOMAIN calls : calls'[k] = frames[k] /\ CallNode(k)' = CallNode(k)
      /\ calls'[m] = [node |-> v, left |-> Targets(v)]
      /\ calls'[m].node = v
    BY <1>a, Begins
<1>4. /\ Len(stack) \in Nat /\ DOMAIN stack = 1..Len(stack) /\ Stacked \subseteq Seen
      /\ Len(calls) \in Nat /\ DOMAIN calls = 1..Len(calls)
      /\ calls # <<>> => Len(calls) \in DOMAIN calls
      /\ \A k \in DOMAIN calls : CallNode(k) \in Stacked /\ CallNode(k) \in Seen
    BY <1>a, Rows
<1>5. \A u \in Seen : /\ index[u] \in Nat /\ index[u] < n
                      /\ lowlink[u] \in Nat /\ lowlink[u] <= index[u]
    BY <1>a DEF Typed
<1>6. Len(calls) = 0 => calls = <<>>
    BY <1>a, EmptySeq DEF Typed
<1>7. v \notin Stacked
    BY <1>4
<1> HIDE DEF n
<1>8. \A k \in 1..m : CallNode(k)' \in Seen' /\ index'[CallNode(k)'] \in Nat /\ index'[CallNode(k)'] <= n
  <2> SUFFICES ASSUME NEW k \in 1..m
               PROVE  CallNode(k)' \in Seen' /\ index'[CallNode(k)'] \in Nat /\ index'[CallNode(k)'] <= n
    OBVIOUS
  <2>1. CASE k \in DOMAIN calls
    BY <2>1, <1>1, <1>3, <1>4, <1>5
  <2>2. CASE k = m
    BY <2>2, <1>1, <1>3 DEF CallNode
  <2> QED
    BY <2>1, <2>2, <1>4
\* What was stacked before the next call was so before; the new node is in no segment but
\* its own.
<1>9. \A k \in DOMAIN calls : \A u \in Seen : VisitedBefore(u, k)' => VisitedBefore(u, k)
  <2> SUFFICES ASSUME NEW k \in DOMAIN calls, NEW u \in Seen, VisitedBefore(u, k)', k # Len(calls)
               PROVE  index[u] < index[CallNode(k + 1)]
    BY DEF VisitedBefore
  <2>1. k + 1 \in DOMAIN calls /\ k # m
    BY <1>4
  <2>2. index'[u] < index'[CallNode(k + 1)']
    BY <2>1, <1>3 DEF VisitedBefore
  <2> QED
    BY <2>1, <2>2, <1>1, <1>3, <1>4
<1>10. \A k \in DOMAIN calls : ~VisitedBefore(v, k)'
  <2> SUFFICES ASSUME NEW k \in DOMAIN calls PROVE ~VisitedBefore(v, k)'
    OBVIOUS
  <2>1. k + 1 \in 1..m /\ k # m
    BY <1>4
  <2>2. ~(index'[v] < index'[CallNode(k + 1)'])
    BY <2>1, <1>1, <1>8
  <2> QED
    BY <2>1, <2>2, <1>3 DEF VisitedBefore
\* The targets left: of the caller one less, of the new node all.
<1>11. \A u \in Seen : \A t : Left(u, t) /\ ~Left(u, t)' => t = v
  <2> SUFFICES ASSUME NEW u \in Seen, NEW t, NEW k \in DOMAIN calls, CallNode(k) = u,
                      t \in calls[k].left, t # v
               PROVE  Left(u, t)'
    BY DEF Left
  <2>1. k \in DOMAIN calls' /\ CallNode(k)' = u /\ calls'[k] = frames[k] /\ t \in frames[k].left
    BY <1>3, <1>4
  <2> QED
    BY <2>1 DEF Left
<1>12. \A e \in digraph : e[1] = v => Left(v, e[2])'
  <2>1. \A e \in digraph : e[1] = v => e[2] \in Targets(v)
    BY DEF Targets
  <2>2. m \in DOMAIN calls' /\ calls'[m].node = v /\ calls'[m].left = Targets(v)
    BY <1>3, <1>4
  <2> QED
    BY <2>1, <2>2 DEF Left, CallNode
<1>13. \A k \in DOMAIN calls : Leads(digraph, CallNode(k), v)
  <2> SUFFICES ASSUME NEW k \in DOMAIN calls PROVE Leads(digraph, CallNode(k), v)
    OBVIOUS
  <2> DEFINE top == Len(calls)
  <2>1. top \in DOMAIN calls /\ calls # <<>> /\ CallNode(top) \in Stacked
    BY <1>4
  <2>2. index[CallNode(top)] >= index[CallNode(k)]
    BY <1>a, <1>4, <1>5, <2>1 DEF Ordered
  <2>3. Leads(digraph, CallNode(k), CallNode(top))
    BY <1>a, <2>1, <2>2 DEF Linked
  <2>4. PICK e \in digraph : e[1] = CallNode(top) /\ e[2] = v
    BY <2>1
  <2>5. Leads(digraph, CallNode(top), v)
    BY <2>4, LeadsOn DEF CallNode
  <2> QED
    BY <2>3, <2>5, LeadsOn
<1>14. Typed'
  <2>1. digraph' \in Digraphs /\ digraph' # NoDigraph /\ Seen' \subseteq NodesOf(digraph')
    BY <1>a, <1>1 DEF Typed
  <2>2. \A u \in Seen' : /\ index'[u] \in Nat /\ index'[u] < Cardinality(Seen')
                         /\ lowlink'[u] \in Nat /\ lowlink'[u] <= index'[u]
    BY <1>1, <1>5
  <2>3. calls' \in Seq(Frames')
    BY <1>3 DEF Frames
  <2>4. ASSUME NEW k \in DOMAIN calls'
        PROVE  CallNode(k)' \in Stacked' /\ calls'[k].left \subseteq Targets(CallNode(k))'
    <3>1. CASE k \in DOMAIN calls
      <4>1. calls[k].left \subseteq Targets(CallNode(k)) /\ frames[k].left \subseteq calls[k].left
        BY <1>a, <3>1 DEF Typed
      <4>2. Targets(CallNode(k))' = Targets(CallNode(k))
        BY <3>1, <1>3 DEF Targets
      <4> QED
        BY <3>1, <4>1, <4>2, <1>1, <1>3, <1>4
    <3>2. CASE k = m
      <4>1. Targets(CallNode(k))' = Targets(v)
        BY <3>2, <1>3 DEF Targets, CallNode
      <4> QED
        BY <3>2, <4>1, <1>1, <1>3 DEF CallNode
    <3> QED
      BY <3>1, <3>2, <1>3, <1>4
  <2> QED
    BY <2>1, <2>2, <2>3, <2>4, <1>1 DEF Typed
<1>15. Ordered'
  <2>1. ASSUME NEW i \in DOMAIN stack', NEW j \in DOMAIN stack', i < j
        PROVE  index'[stack'[i]] < index'[stack'[j]]
    <3>1. i \in DOMAIN stack /\ stack'[i] = stack[i] /\ stack[i] \in Seen
      BY <2>1, <1>2, <1>4 DEF Stacked
    <3>2. CASE j \in DOMAIN stack
      <4>1. stack'[j] = stack[j] /\ stack[j] \in Seen
        BY <3>2, <1>2, <1>4 DEF Stacked
      <4> QED
        BY <2>1, <3>1, <3>2, <4>1, <1>a, <1>1 DEF Ordered
    <3>3. CASE j = Len(stack) + 1
      BY <3>1, <3>3, <1>1, <1>2, <1>5
    <3> QED
      BY <3>2, <3>3, <1>2, <1>4
  <2>2. ASSUME NEW i \in DOMAIN calls', NEW j \in DOMAIN calls', i < j
        PROVE  index'[CallNode(i)'] < index'[CallNode(j)']
    <3>1. i \in DOMAIN calls /\ CallNode(i)' = CallNode(i) /\ CallNode(i) \in Seen
      BY <2>2, <1>3, <1>4
    <3>2. CASE j \in DOMAIN calls
      BY <2>2, <3>1, <3>2, <1>a, <1>1, <1>3, <1>4 DEF Ordered
    <3>3. CASE j = m
      BY <3>1, <3>3, <1>1, <1>3, <1>5 DEF CallNode
    <3> QED
      BY <3>2, <3>3, <1>3, <1>4
  <2>3. ASSUME NEW u \in Stacked'
        PROVE  calls' # <<>> /\ index'[u] >= index'[CallNode(1)']
    <3>1. calls' # <<>>
      BY <1>3, <1>4
    <3>2. CASE calls = <<>>
      <4>1. Stacked = {} /\ m = 1
        BY <3>2, <1>a DEF Ordered
      <4> QED
        BY <3>1, <4>1, <1>1, <1>3 DEF CallNode
    <3>3. CASE calls # <<>>
      <4>1. 1 \in DOMAIN calls /\ CallNode(1)' = CallNode(1)
        BY <3>3, <1>3, <1>4
      <4>2. CASE u \in Stacked
        BY <3>1, <4>1, <4>2, <1>a, <1>1, <1>4 DEF Ordered
      <4>3. CASE u = v
        BY <3>1, <4>1, <4>3, <1>1, <1>4, <1>5
      <4> QED
        BY <4>2, <4>3, <1>1
    <3> QED
      BY <3>2, <3>3
  <2> QED
    BY <2>1, <2>2, <2>3 DEF Ordered
<1>16. Linked'
  <2> SUFFICES ASSUME NEW k \in DOMAIN calls', NEW u \in Stacked'
               PROVE  /\ index'[u] >= index'[CallNode(k)'] => Leads(digraph, CallNode(k)', u)
                      /\ VisitedBefore(u, k)' => Leads(digraph, u, CallNode(k)')
    BY DEF Linked
  <2>1. CASE k \in DOMAIN calls /\ u \in Stacked
    BY <2>1, <1>a, <1>1, <1>3, <1>4, <1>9 DEF Linked
  <2>2. CASE k \in DOMAIN calls /\ u = v
    BY <2>2, <1>3, <1>10, <1>13
  <2>3. CASE k = m /\ u = v
    BY <2>3, <1>3, LeadsOn DEF CallNode
  <2>4. CASE k = m /\ u \in Stacked
    <3>1. ~(index'[u] >= index'[CallNode(k)'])
      BY <2>4, <1>1, <1>3, <1>4, <1>5 DEF CallNode
    <3>2. Len(calls) \in DOMAIN calls
      BY <2>4, <1>a, <1>4 DEF Ordered
    <3>3. Leads(digraph, u, CallNode(Len(calls)))
      BY <2>4, <3>2, <1>a DEF Linked, VisitedBefore
    <3>4. Leads(digraph, u, v)
      BY <3>2, <3>3, <1>13, LeadsOn
    <3> QED
      BY <2>4, <3>1, <3>4, <1>3 DEF CallNode
  <2> QED
    BY <2>1, <2>2, <2>3, <2>4, <1>1, <1>3, <1>4
<1>17. Reached'
  <2> SUFFICES ASSUME NEW k \in DOMAIN calls'
               PROVE  \E u \in Stacked' : index'[u] = lowlink'[CallNode(k)'] /\ Leads(digraph, CallNode(k)', u)
    BY DEF Reached
  <2>1. CASE k \in DOMAIN calls
    <3>1. PICK u \in Stacked : index[u] = lowlink[CallNode(k)] /\ Leads(digraph, CallNode(k), u)
      BY <2>1, <1>a DEF Reached
    <3> QED
      BY <2>1, <3>1, <1>1, <1>3, <1>4
  <2>2. CASE k = m
    <3>1. CallNode(k)' = v
      BY <2>2, <1>3 DEF CallNode
    <3>2. v \in Stacked' /\ index'[v] = lowlink'[v] /\ Leads(digraph, v, v)
      BY <1>1, LeadsOn
    <3> QED
      BY <3>1, <3>2
  <2> QED
    BY <2>1, <2>2, <1>3, <1>4
<1>18. Explored'
  <2> SUFFICES ASSUME NEW e \in digraph, e[1] \in Stacked', ~Left(e[1], e[2])'
               PROVE  /\ e[2] \in Seen'
                      /\ e[2] \in Stacked' => \A k \in DOMAIN calls' :
                           index'[e[1]] >= index'[CallNode(k)'] /\ VisitedBefore(e[1], k)' =>
                             index'[e[2]] >= lowlink'[CallNode(k)']
    BY DEF Explored
  <2>1. e[1] \in Stacked /\ e[1] \in Seen
    BY <1>1, <1>4, <1>12
  <2>2. ASSUME NEW k \in DOMAIN calls', index'[e[1]] >= index'[CallNode(k)'], VisitedBefore(e[1], k)'
        PROVE  k \in DOMAIN calls /\ index[e[1]] >= index[CallNode(k)] /\ VisitedBefore(e[1], k)
    <3>1. k # m
      BY <2>1, <2>2, <1>1, <1>3, <1>5 DEF CallNode
    <3>2. k \in DOMAIN calls
      BY <3>1, <1>3, <1>4
    <3> QED
      BY <2>1, <2>2, <3>2, <1>1, <1>3, <1>4, <1>9
  <2>3. CASE e[2] = v
    <3>1. ASSUME NEW k \in DOMAIN calls PROVE index'[v] >= lowlink'[CallNode(k)']
      <4>1. CallNode(k) \in Seen /\ CallNode(k)' = CallNode(k)
        BY <1>3, <1>4
      <4>2. lowlink'[CallNode(k)] = lowlink[CallNode(k)] /\ lowlink[CallNode(k)] \in Nat
            /\ lowlink[CallNode(k)] < n
        BY <4>1, <1>1, <1>5
      <4> QED
        BY <4>1, <4>2, <1>1
    <3>2. e[2] \in Seen' /\ \A k \in DOMAIN calls : index'[e[2]] >= lowlink'[CallNode(k)']
      BY <2>3, <3>1, <1>1
    <3> QED
      BY <2>2, <3>2
  <2>4. CASE e[2] # v
    <3>1. ~Left(e[1], e[2])
      BY <2>1, <2>4, <1>11
    <3>2. /\ e[2] \in Seen
          /\ e[2] \in Stacked => \A k \in DOMAIN calls :
               index[e[1]] >= index[CallNode(k)] /\ VisitedBefore(e[1], k) => index[e[2]] >= lowlink[CallNode(k)]
      BY <2>1, <3>1, <1>a DEF Explored
    <3> QED
      <4>1. e[2] \in Seen' /\ (e[2] \in Stacked' => e[2] \in Stacked)
        BY <2>4, <3>2, <1>1
      <4>2. ASSUME NEW k \in DOMAIN calls', e[2] \in Stacked',
                   index'[e[1]] >= index'[CallNode(k)'], VisitedBefore(e[1], k)'
            PROVE  index'[e[2]] >= lowlink'[CallNode(k)']
        <5>1. index[e[2]] >= lowlink[CallNode(k)] /\ k \in DOMAIN calls
          BY <2>2, <3>2, <4>1, <4>2
        <5> QED
          BY <3>2, <5>1, <1>1, <1>3, <1>4
      <4> QED
        BY <4>1, <4>2
  <2> QED
    BY <2>3, <2>4
<1>19. Taken'
  <2>1. Done' = Done
    BY <1>1, <1>7 DEF Done
  <2> QED
    BY <2>1, <1>a DEF Taken
<1> QED
    BY <1>14, <1>15, <1>16, <1>17, <1>18, <1>19 DEF CyclesInv

LEMMA RootKeeps == ASSUME CyclesInv, NEW i \in DOMAIN NodeNames, Root(i) PROVE CyclesInv'
<1>1. /\ calls \in Seq(Frames) /\ NodeNames[i] \in NodesOf(digraph) \ Seen /\ calls = <<>>
      /\ Call(NodeNames[i], calls) /\ digraph # NoDigraph /\ digraph' = digraph /\ sccs' = sccs
    BY DEF Root, CyclesInv, Typed
<1>2. \A k \in DOMAIN calls :
        /\ calls[k].node = CallNode(k) /\ calls[k].left \subseteq calls[k].left
        /\ \A t \in calls[k].left \ calls[k].left : k = Len(calls) /\ t = NodeNames[i]
    BY DEF CallNode
<1> QED
    BY <1>1, <1>2, CallKeeps

\* A frame whose call has looked at a target.
LEMMA Rested ==
    ASSUME Typed, calls # <<>>, NEW w \in Top.left
    PROVE  /\ Rest(w) \in Seq(Frames) /\ Len(Rest(w)) = Len(calls) /\ DOMAIN Rest(w) = DOMAIN calls
           /\ \A k \in DOMAIN calls :
                /\ Rest(w)[k].node = CallNode(k) /\ Rest(w)[k].left \subseteq calls[k].left
                /\ \A t \in calls[k].left \ Rest(w)[k].left : k = Len(calls) /\ t = w
           /\ digraph # NoDigraph
           /\ \E e \in digraph : e[1] = CallNode(Len(calls)) /\ e[2] = w
<1> DEFINE top == Len(calls)
           frame == [calls[top] EXCEPT !.left = @ \ {w}]
<1>1. /\ calls \in Seq(Frames) /\ top \in DOMAIN calls /\ DOMAIN calls = 1..top
      /\ calls[top] \in Frames /\ w \in calls[top].left
    BY Rows DEF Typed, Top
<1>2. frame \in Frames /\ frame.node = calls[top].node /\ frame.left = calls[top].left \ {w}
    BY <1>1 DEF Frames
<1>3. Rest(w) = [calls EXCEPT ![top] = frame]
    BY DEF Rest
<1> HIDE DEF frame
<1>4. /\ Rest(w) \in Seq(Frames) /\ Len(Rest(w)) = top /\ DOMAIN Rest(w) = DOMAIN calls
      /\ \A k \in DOMAIN calls : Rest(w)[k] = IF k = top THEN frame ELSE calls[k]
    BY <1>1, <1>2, <1>3, ExceptSeq
<1>5. digraph # NoDigraph
    BY DEF Typed
<1>6. \E e \in digraph : e[1] = CallNode(top) /\ e[2] = w
    BY <1>1, Rows
<1> QED
    BY <1>2, <1>4, <1>5, <1>6 DEF CallNode

LEMMA DescendKeeps ==
    ASSUME CyclesInv, NEW w \in Top.left, Descend(w) PROVE CyclesInv'
<1>1. /\ Typed /\ calls # <<>> /\ w \notin Seen /\ Call(w, Rest(w))
      /\ digraph' = digraph /\ sccs' = sccs
    BY DEF Descend, CyclesInv
<1>2. w \in NodesOf(digraph)
    BY <1>1, Rested DEF NodesOf
<1> QED
    BY <1>1, <1>2, Rested, CallKeeps

-----------------------------------------------------------------------------
(* A target is looked at, or the call ends.                                 *)

LEMMA LookBackKeeps ==
    ASSUME CyclesInv, NEW w \in Top.left, LookBack(w) PROVE CyclesInv'
<1> DEFINE top == Len(calls)
<1>a. Typed /\ Ordered /\ Linked /\ Reached /\ Explored /\ Taken
    BY DEF CyclesInv
<1>1. /\ calls # <<>> /\ w \in Seen /\ calls' = Rest(w)
      /\ UNCHANGED <<digraph, index, stack, sccs>>
      /\ lowlink' = IF OnStack(w) THEN [lowlink EXCEPT ![Top.node] = Least(@, index[w])]
                    ELSE lowlink
    BY DEF LookBack
<1>2. /\ calls' \in Seq(Frames) /\ Len(calls') = top /\ DOMAIN calls' = DOMAIN calls
      /\ \A k \in DOMAIN calls :
           /\ calls'[k].node = CallNode(k) /\ calls'[k].left \subseteq calls[k].left
           /\ \A t \in calls[k].left \ calls'[k].left : k = top /\ t = w
    BY <1>a, <1>1, Rested
<1>3. digraph # NoDigraph /\ \E e \in digraph : e[1] = CallNode(top) /\ e[2] = w
    BY <1>a, <1>1, Rested
<1>4. /\ top \in DOMAIN calls /\ top \in Nat /\ DOMAIN calls = 1..top /\ Stacked \subseteq Seen
      /\ \A k \in DOMAIN calls : CallNode(k) \in Stacked /\ CallNode(k) \in Seen
    BY <1>a, <1>1, Rows
<1>5. Seen' = Seen /\ Stacked' = Stacked /\ (OnStack(w) <=> w \in Stacked)
    BY <1>1 DEF Seen, Stacked, OnStack
<1>6. \A k \in DOMAIN calls : CallNode(k)' = CallNode(k)
    BY <1>2 DEF CallNode
<1>7. \A u \in Seen : index[u] \in Nat /\ lowlink[u] \in Nat /\ lowlink[u] <= index[u]
    BY <1>a DEF Typed
\* lowlink only falls, and for the call only to the index of w.
<1>8. /\ DOMAIN lowlink' = Seen
      /\ \A u \in Seen : lowlink'[u] \in Nat /\ lowlink'[u] <= lowlink[u]
      /\ \A u \in Seen : lowlink'[u] # lowlink[u] =>
           u = CallNode(top) /\ w \in Stacked /\ lowlink'[u] = index[w]
      /\ w \in Stacked => lowlink'[CallNode(top)] <= index[w]
  <2>1. Top.node = CallNode(top) /\ DOMAIN lowlink = Seen
    BY <1>a DEF Top, CallNode, Typed
  <2>2. CASE w \in Stacked
    <3>1. lowlink' = [lowlink EXCEPT ![CallNode(top)] = Least(lowlink[CallNode(top)], index[w])]
      BY <2>1, <2>2, <1>1, <1>5
    <3>2. Least(lowlink[CallNode(top)], index[w]) \in {lowlink[CallNode(top)], index[w]}
      BY DEF Least
    <3>3. /\ Least(lowlink[CallNode(top)], index[w]) <= lowlink[CallNode(top)]
          /\ Least(lowlink[CallNode(top)], index[w]) <= index[w]
      BY <1>1, <1>4, <1>7 DEF Least
    <3> QED
      BY <2>1, <2>2, <3>1, <3>2, <3>3, <1>1, <1>4, <1>7
  <2>3. CASE w \notin Stacked
    BY <2>1, <2>3, <1>1, <1>5, <1>7
  <2> QED
    BY <2>2, <2>3
<1>9. \A k \in DOMAIN calls : \A u : VisitedBefore(u, k)' <=> VisitedBefore(u, k)
  <2> SUFFICES ASSUME NEW k \in DOMAIN calls, NEW u PROVE VisitedBefore(u, k)' <=> VisitedBefore(u, k)
    OBVIOUS
  <2>1. index' = index /\ Len(calls') = Len(calls)
    BY <1>1, <1>2
  <2>2. k # Len(calls) => CallNode(k + 1)' = CallNode(k + 1)
    BY <1>4, <1>6
  <2> QED
    BY <2>1, <2>2 DEF VisitedBefore
<1>10. \A u, t : Left(u, t) /\ ~Left(u, t)' => u = CallNode(top) /\ t = w
  <2> SUFFICES ASSUME NEW u, NEW t, NEW k \in DOMAIN calls, CallNode(k) = u, t \in calls[k].left,
                      ~(u = CallNode(top) /\ t = w)
               PROVE  Left(u, t)'
    BY DEF Left
  <2>1. k \in DOMAIN calls' /\ CallNode(k)' = u /\ t \in calls'[k].left
    BY <1>2, <1>6
  <2> QED
    BY <2>1 DEF Left
<1>11. Typed'
  <2>1. digraph' \in Digraphs /\ digraph' # NoDigraph /\ Seen' \subseteq NodesOf(digraph')
    BY <1>a, <1>1, <1>3, <1>5 DEF Typed
  <2>2. Cardinality(Seen') = Cardinality(Seen)
    BY <1>5, Zenon
  <2>3. \A u \in Seen' : /\ index'[u] \in Nat /\ index'[u] < Cardinality(Seen')
                         /\ lowlink'[u] \in Nat /\ lowlink'[u] <= index'[u]
    <3>1. \A u \in Seen : index[u] < Cardinality(Seen)
      BY <1>a DEF Typed
    <3>2. index' = index
      BY <1>1
    <3> QED
      BY <2>2, <3>1, <3>2, <1>5, <1>7, <1>8
  <2>4. calls' \in Seq(Frames') /\ stack' \in Seq(Seen')
    BY <1>a, <1>1, <1>2, <1>5 DEF Frames, Typed
  <2>5. ASSUME NEW k \in DOMAIN calls'
        PROVE  CallNode(k)' \in Stacked' /\ calls'[k].left \subseteq Targets(CallNode(k))'
    <3>1. calls[k].left \subseteq Targets(CallNode(k)) /\ k \in DOMAIN calls
      BY <1>a, <1>2 DEF Typed
    <3>2. Targets(CallNode(k))' = Targets(CallNode(k))
      BY <3>1, <1>1, <1>6 DEF Targets
    <3> QED
      BY <3>1, <3>2, <1>2, <1>4, <1>5, <1>6
  <2> QED
    BY <2>1, <2>3, <2>4, <2>5, <1>5, <1>8 DEF Typed
<1>12. Ordered'
  <2>1. calls' # <<>> /\ 1 \in DOMAIN calls
    BY <1>1, <1>2, <1>4
  <2> QED
    BY <2>1, <1>a, <1>1, <1>2, <1>5, <1>6 DEF Ordered
<1>13. Linked'
    BY <1>a, <1>1, <1>2, <1>5, <1>6, <1>9 DEF Linked
<1>14. Reached'
  <2> SUFFICES ASSUME NEW k \in DOMAIN calls
               PROVE  \E u \in Stacked : index[u] = lowlink'[CallNode(k)] /\ Leads(digraph, CallNode(k), u)
    BY <1>1, <1>2, <1>5, <1>6 DEF Reached
  <2>1. CASE lowlink'[CallNode(k)] = lowlink[CallNode(k)]
    BY <2>1, <1>a DEF Reached
  <2>2. CASE lowlink'[CallNode(k)] # lowlink[CallNode(k)]
    <3>1. CallNode(k) = CallNode(top) /\ w \in Stacked /\ lowlink'[CallNode(k)] = index[w]
      BY <2>2, <1>4, <1>8
    <3>2. PICK e \in digraph : e[1] = CallNode(top) /\ e[2] = w
      BY <1>3
    <3>3. Leads(digraph, CallNode(top), w)
      BY <3>2, LeadsOn DEF CallNode
    <3> QED
      BY <3>1, <3>3
  <2> QED
    BY <2>1, <2>2
<1>15. Explored'
  <2> SUFFICES ASSUME NEW e \in digraph, e[1] \in Stacked, ~Left(e[1], e[2])'
               PROVE  /\ e[2] \in Seen
                      /\ e[2] \in Stacked => \A k \in DOMAIN calls :
                           index[e[1]] >= index[CallNode(k)] /\ VisitedBefore(e[1], k) =>
                             index[e[2]] >= lowlink'[CallNode(k)]
    BY <1>1, <1>2, <1>5, <1>6, <1>9 DEF Explored
  <2>1. CASE Left(e[1], e[2])
    <3>1. e[1] = CallNode(top) /\ e[2] = w
      BY <2>1, <1>10
    <3>2. ASSUME NEW k \in DOMAIN calls, index[e[1]] >= index[CallNode(k)], VisitedBefore(e[1], k)
          PROVE  k = top
      <4>1. CASE k # top
        <5>1. k + 1 \in DOMAIN calls /\ index[CallNode(top)] < index[CallNode(k + 1)]
          BY <3>1, <3>2, <4>1, <1>4 DEF VisitedBefore
        <5>2. k + 1 = top \/ index[CallNode(k + 1)] < index[CallNode(top)]
          BY <5>1, <1>a, <1>4 DEF Ordered
        <5> QED
          BY <5>1, <5>2, <1>4, <1>7
      <4> QED
        BY <4>1
    <3> QED
      BY <3>1, <3>2, <1>1, <1>8
  <2>2. CASE ~Left(e[1], e[2])
    <3>1. /\ e[2] \in Seen
          /\ e[2] \in Stacked => \A k \in DOMAIN calls :
               index[e[1]] >= index[CallNode(k)] /\ VisitedBefore(e[1], k) => index[e[2]] >= lowlink[CallNode(k)]
      BY <2>2, <1>a DEF Explored
    <3>2. ASSUME NEW k \in DOMAIN calls, e[2] \in Stacked, index[e[2]] >= lowlink[CallNode(k)]
          PROVE  index[e[2]] >= lowlink'[CallNode(k)]
      <4>1. index[e[2]] \in Nat /\ lowlink[CallNode(k)] \in Nat
        BY <3>2, <1>4, <1>7
      <4>2. lowlink'[CallNode(k)] \in Nat /\ lowlink'[CallNode(k)] <= lowlink[CallNode(k)]
        BY <1>4, <1>8
      <4> QED
        BY <3>2, <4>1, <4>2
    <3> QED
      BY <3>1, <3>2
  <2> QED
    BY <2>1, <2>2
<1>16. Taken'
  <2>1. Done' = Done
    BY <1>5 DEF Done
  <2> QED
    BY <2>1, <1>a, <1>1 DEF Taken
<1> QED
    BY <1>11, <1>12, <1>13, <1>14, <1>15, <1>16 DEF CyclesInv

\* The nodes stacked from a node on.
From(v) == {u \in Stacked : index[u] >= index[v]}

\* What the end of a call does, whether or not it takes a component.
LEMMA Ends ==
    ASSUME Typed, Ordered, EndCall
    PROVE  LET top == Len(calls)
               v == CallNode(Len(calls))
           IN  /\ calls # <<>> /\ top \in DOMAIN calls /\ calls[top].left = {}
               /\ v \in Stacked /\ v \in Seen
               /\ digraph' = digraph /\ index' = index /\ digraph # NoDigraph
               /\ calls' \in Seq(Frames) /\ Len(calls') = top - 1 /\ DOMAIN calls' = 1..(top - 1)
               /\ \A k \in 1..(top - 1) : calls'[k] = calls[k] /\ CallNode(k)' = CallNode(k)
               /\ \A k \in 1..(top - 1) : index[CallNode(k)] < index[v]
               /\ DOMAIN lowlink' = Seen
               /\ \A u \in Seen : lowlink'[u] \in Nat /\ lowlink'[u] <= lowlink[u]
               /\ \A u \in Seen : lowlink'[u] # lowlink[u] =>
                    top > 1 /\ u = CallNode(top - 1) /\ lowlink'[u] = lowlink[v]
               /\ top > 1 => lowlink'[CallNode(top - 1)] <= lowlink[v]
<1> DEFINE top == Len(calls)
           v == CallNode(Len(calls))
<1>1. /\ calls # <<>> /\ Top.left = {} /\ UNCHANGED <<digraph, index>>
      /\ calls' = SubSeq(calls, 1, top - 1)
      /\ lowlink' = IF top - 1 = 0 THEN lowlink
                    ELSE [lowlink EXCEPT ![calls[top - 1].node] = Least(@, lowlink[Top.node])]
    BY DEF EndCall
<1>2. /\ top \in DOMAIN calls /\ top \in Nat /\ DOMAIN calls = 1..top /\ Stacked \subseteq Seen
      /\ \A k \in DOMAIN calls : CallNode(k) \in Stacked /\ CallNode(k) \in Seen
      /\ calls \in Seq(Frames) /\ digraph # NoDigraph
    BY <1>1, Rows DEF Typed
<1>3. Top.node = v /\ calls[top].left = {}
    BY <1>1 DEF Top, CallNode
<1>4. \A k \in 1..(top - 1) : k \in DOMAIN calls /\ index[CallNode(k)] < index[v]
    BY <1>2 DEF Ordered
<1>5. /\ calls' \in Seq(Frames) /\ Len(calls') = top - 1 /\ DOMAIN calls' = 1..(top - 1)
      /\ \A k \in 1..(top - 1) : calls'[k] = calls[k]
  <2>1. top - 1 \in Int /\ \A i \in 1..(top - 1) : calls[i] \in Frames
    BY <1>2, <1>4
  <2>2. /\ calls' \in Seq(Frames) /\ Len(calls') = top - 1
        /\ \A k \in 1..(top - 1) : calls'[k] = calls[k]
    BY <1>1, <1>2, <2>1, SubSeqProperties
  <2> QED
    BY <2>2, LenProperties
<1>6. \A k \in 1..(top - 1) : CallNode(k)' = CallNode(k)
    BY <1>5 DEF CallNode
<1>7. \A u \in Seen : lowlink[u] \in Nat
    BY DEF Typed
<1>8. /\ DOMAIN lowlink' = Seen
      /\ \A u \in Seen : lowlink'[u] \in Nat /\ lowlink'[u] <= lowlink[u]
      /\ \A u \in Seen : lowlink'[u] # lowlink[u] =>
           top > 1 /\ u = CallNode(top - 1) /\ lowlink'[u] = lowlink[v]
      /\ top > 1 => lowlink'[CallNode(top - 1)] <= lowlink[v]
  <2>1. DOMAIN lowlink = Seen
    BY DEF Typed
  <2>2. CASE top = 1
    BY <2>1, <2>2, <1>1, <1>7
  <2>3. CASE top # 1
    <3> DEFINE c == CallNode(top - 1)
               least == Least(lowlink[c], lowlink[v])
    <3>1. lowlink' = [lowlink EXCEPT ![c] = least]
      BY <2>3, <1>1, <1>2, <1>3 DEF CallNode
    <3>2. c \in Seen /\ v \in Seen /\ top > 1
      BY <2>3, <1>2
    <3>3. least \in {lowlink[c], lowlink[v]} /\ least <= lowlink[c] /\ least <= lowlink[v]
      BY <3>2, <1>7 DEF Least
    <3> HIDE DEF c, least
    <3>4. lowlink'[c] <= lowlink[v]
      BY <3>1, <3>2, <3>3, <2>1
    <3>5. \A u \in Seen : lowlink'[u] = IF u = c THEN least ELSE lowlink[u]
      BY <3>1, <2>1
    <3>6. \A u \in Seen : lowlink'[u] \in Nat /\ lowlink'[u] <= lowlink[u]
      BY <3>2, <3>3, <3>5, <1>2, <1>7
    <3>7. DOMAIN lowlink' = Seen
      BY <3>1, <2>1
    <3> QED
      BY <3>2, <3>3, <3>4, <3>5, <3>6, <3>7 DEF c
  <2> QED
    BY <2>2, <2>3
<1> QED
    BY <1>1, <1>2, <1>3, <1>4, <1>5, <1>6, <1>8

\* The component is all stacked from its root on.
LEMMA Pops ==
    ASSUME Typed, Ordered, EndCall, lowlink[CallNode(Len(calls))] = index[CallNode(Len(calls))]
    PROVE  LET S == From(CallNode(Len(calls)))
           IN  /\ stack' \in Seq(Seen) /\ DOMAIN stack' \subseteq DOMAIN stack
               /\ \A i \in DOMAIN stack' : stack'[i] = stack[i]
               /\ Stacked' = Stacked \ S
               /\ sccs' = IF Cardinality(S) > 1 THEN sccs \cup {S} ELSE sccs
<1> DEFINE v == CallNode(Len(calls))
           from == CHOOSE i \in DOMAIN stack : stack[i] = v
           scc == {stack[i] : i \in from..Len(stack)}
<1>1. /\ stack' = SubSeq(stack, 1, from - 1)
      /\ sccs' = IF Cardinality(scc) > 1 THEN sccs \cup {scc} ELSE sccs
    BY DEF EndCall, Top, CallNode
<1>2. /\ Len(stack) \in Nat /\ DOMAIN stack = 1..Len(stack)
      /\ \A i \in DOMAIN stack : stack[i] \in Seen /\ index[stack[i]] \in Nat
    BY LenProperties DEF Typed
<1>3. v \in Stacked
    BY Ends
<1>4. from \in DOMAIN stack /\ stack[from] = v
    BY <1>3 DEF Stacked
<1> HIDE DEF from, v
<1>5. \A i \in DOMAIN stack : index[stack[i]] >= index[v] <=> i >= from
  <2> SUFFICES ASSUME NEW i \in DOMAIN stack PROVE index[stack[i]] >= index[v] <=> i >= from
    OBVIOUS
  <2>1. i < from => index[stack[i]] < index[v]
    BY <1>4 DEF Ordered
  <2>2. from < i => index[v] < index[stack[i]]
    BY <1>4 DEF Ordered
  <2> QED
    BY <2>1, <2>2, <1>2, <1>4
<1>6. /\ stack' \in Seq(Seen) /\ DOMAIN stack' = 1..(from - 1)
      /\ \A i \in 1..(from - 1) : stack'[i] = stack[i]
  <2>1. from - 1 \in Nat /\ \A i \in 1..(from - 1) : stack[i] \in Seen
    BY <1>2, <1>4
  <2>2. /\ stack' \in Seq(Seen) /\ Len(stack') = from - 1
        /\ \A i \in 1..(from - 1) : stack'[i] = stack[i]
    BY <1>1, <2>1, SubSeqProperties
  <2> QED
    BY <2>2, LenProperties
<1>7. scc = From(v)
  <2>1. from..Len(stack) = {i \in DOMAIN stack : i >= from}
    BY <1>2, <1>4
  <2> QED
    BY <1>5, <2>1 DEF From, Stacked
<1>8. Stacked' = Stacked \ From(v)
  <2>1. 1..(from - 1) = {i \in DOMAIN stack : ~(i >= from)}
    BY <1>2, <1>4
  <2>2. Stacked' = {stack[i] : i \in 1..(from - 1)}
    BY <1>6 DEF Stacked
  <2> QED
    BY <1>5, <2>1, <2>2 DEF From, Stacked
<1>9. DOMAIN stack' \subseteq DOMAIN stack
    BY <1>2, <1>4, <1>6
<1> QED
    BY <1>1, <1>6, <1>7, <1>8, <1>9 DEF v

\* A call that ends with its own index takes a component off the stack.
LEMMA SegmentIsClass ==
    ASSUME CyclesInv, NEW S, S = From(CallNode(Len(calls))), Len(calls) \in DOMAIN calls,
           calls[Len(calls)].left = {},
           lowlink[CallNode(Len(calls))] = index[CallNode(Len(calls))]
    PROVE  /\ \A e \in digraph : e[1] \in S => e[2] \in Done \cup S
           /\ \A a \in S : a \in NodesOf(digraph) /\ S = Class(digraph, a)
<1> DEFINE top == Len(calls)
           v == CallNode(top)
<1>a. Typed /\ Ordered /\ Linked /\ Reached /\ Explored /\ Taken
    BY DEF CyclesInv
<1>1. /\ Stacked \subseteq Seen /\ v \in Stacked /\ DOMAIN calls = 1..top /\ top \in Nat
      /\ \A k \in DOMAIN calls : CallNode(k) \in Seen
    BY <1>a, Rows
<1>2. \A u \in Seen : index[u] \in Nat /\ u \in NodesOf(digraph)
    BY <1>a DEF Typed
<1>3. S \subseteq Stacked /\ \A u \in Stacked : u \in S <=> index[u] >= index[v]
    BY DEF From
<1>4. ASSUME NEW e \in digraph, e[1] \in S
      PROVE  e[2] \in Done \cup S
  <2>1. ~Left(e[1], e[2])
    <3> SUFFICES ASSUME NEW k \in DOMAIN calls, CallNode(k) = e[1] PROVE e[2] \notin calls[k].left
      BY DEF Left
    <3>1. k # top => index[CallNode(k)] < index[v]
      BY <1>a, <1>1 DEF Ordered
    <3>2. index[e[1]] >= index[v]
      BY <1>3, <1>4
    <3>3. k = top
      BY <3>1, <3>2, <1>1, <1>2
    <3> QED
      BY <3>3
  <2>2. /\ e[2] \in Seen
        /\ e[2] \in Stacked => \A k \in DOMAIN calls :
             index[e[1]] >= index[CallNode(k)] /\ VisitedBefore(e[1], k) => index[e[2]] >= lowlink[CallNode(k)]
    BY <2>1, <1>a, <1>3, <1>4 DEF Explored
  <2>3. VisitedBefore(e[1], top)
    BY DEF VisitedBefore
  <2>4. e[2] \in Stacked => index[e[2]] >= index[v]
    BY <2>2, <2>3, <1>3, <1>4
  <2> QED
    BY <2>2, <2>4, <1>3 DEF Done
<1>5. \A u \in S : Leads(digraph, v, u) /\ Leads(digraph, u, v)
    BY <1>a, <1>3 DEF Linked, VisitedBefore
<1>6. ASSUME NEW a \in S, NEW b \in S
      PROVE  b \in Class(digraph, a)
  <2>1. Leads(digraph, a, b) /\ Leads(digraph, b, a)
    BY <1>5, LeadsOn
  <2> QED
    BY <2>1, <1>1, <1>2, <1>3 DEF Class
<1>7. Done \in Closed(digraph) /\ Done \cup S \in Closed(digraph)
    BY <1>a, <1>1, <1>2, <1>3, <1>4 DEF Closed, Done, Taken
<1>8. ASSUME NEW a \in S, NEW b \in Class(digraph, a)
      PROVE  b \in S
  <2>1. Leads(digraph, a, b) /\ Leads(digraph, b, a)
    BY <1>8 DEF Class
  <2>2. b \in Done \cup S
    BY <2>1, <1>7 DEF Leads
  <2>3. b \in Done => a \in Done
    BY <2>1, <1>7 DEF Leads
  <2> QED
    BY <2>2, <2>3, <1>3 DEF Done
<1>9. \A a \in S : S = Class(digraph, a)
    BY <1>6, <1>8
<1> QED
    BY <1>1, <1>2, <1>3, <1>4, <1>9

LEMMA EndCallKeeps == ASSUME CyclesInv, EndCall PROVE CyclesInv'
<1> DEFINE top == Len(calls)
           v == CallNode(Len(calls))
           caller == Len(calls) - 1
<1>a. Typed /\ Ordered /\ Linked /\ Reached /\ Explored /\ Taken
    BY DEF CyclesInv
<1>1. /\ calls # <<>> /\ top \in DOMAIN calls /\ calls[top].left = {}
      /\ v \in Stacked /\ v \in Seen
      /\ digraph' = digraph /\ index' = index /\ digraph # NoDigraph
    BY <1>a, Ends
<1>2. /\ calls' \in Seq(Frames) /\ Len(calls') = caller /\ DOMAIN calls' = 1..caller
      /\ \A k \in 1..caller : calls'[k] = calls[k] /\ CallNode(k)' = CallNode(k)
      /\ \A k \in 1..caller : index[CallNode(k)] < index[v]
    BY <1>a, Ends
<1>3. /\ DOMAIN lowlink' = Seen
      /\ \A u \in Seen : lowlink'[u] \in Nat /\ lowlink'[u] <= lowlink[u]
      /\ \A u \in Seen : lowlink'[u] # lowlink[u] =>
           top > 1 /\ u = CallNode(caller) /\ lowlink'[u] = lowlink[v]
      /\ top > 1 => lowlink'[CallNode(caller)] <= lowlink[v]
    BY <1>a, Ends
<1>4. /\ top \in Nat /\ DOMAIN calls = 1..top /\ Stacked \subseteq Seen
      /\ \A k \in DOMAIN calls : CallNode(k) \in Stacked /\ CallNode(k) \in Seen
    BY <1>a, Rows
<1>5. \A u \in Seen : index[u] \in Nat /\ lowlink[u] \in Nat /\ lowlink[u] <= index[u]
    BY <1>a DEF Typed
<1>6. \A k \in 1..caller : k \in DOMAIN calls /\ CallNode(k) \in Seen
    BY <1>4
\* The last call has no target left.
<1>7. \A u, t : Left(u, t) => Left(u, t)'
  <2> SUFFICES ASSUME NEW u, NEW t, NEW k \in DOMAIN calls, CallNode(k) = u, t \in calls[k].left
               PROVE  Left(u, t)'
    BY DEF Left
  <2>1. k \in 1..caller
    BY <1>1, <1>4
  <2>2. k \in DOMAIN calls' /\ CallNode(k)' = u /\ t \in calls'[k].left
    BY <2>1, <1>2
  <2> QED
    BY <2>2 DEF Left
\* The segment of the caller grows by the segment of the call.
<1>8. \A k \in 1..caller : \A u \in Stacked :
        VisitedBefore(u, k)' => VisitedBefore(u, k) \/ (k = caller /\ index[u] >= index[v])
  <2> SUFFICES ASSUME NEW k \in 1..caller, NEW u \in Stacked, VisitedBefore(u, k)'
               PROVE  VisitedBefore(u, k) \/ (k = caller /\ index[u] >= index[v])
    OBVIOUS
  <2>1. CASE k = caller
    BY <2>1, <1>1, <1>4, <1>5 DEF VisitedBefore
  <2>2. CASE k # caller
    <3>1. Len(calls) \in Nat
      BY <1>4
    <3>2. k + 1 \in 1..caller
      BY <2>2, <3>1
    <3> QED
      BY <2>2, <3>2, <1>1, <1>2 DEF VisitedBefore
  <2> QED
    BY <2>1, <2>2
\* What holds whether or not a component is taken.
<1>9. /\ digraph' \in Digraphs /\ digraph' # NoDigraph /\ Seen' = Seen
      /\ Seen' \subseteq NodesOf(digraph') /\ calls' \in Seq(Frames')
      /\ \A u \in Seen' : /\ index'[u] \in Nat /\ index'[u] < Cardinality(Seen')
                          /\ lowlink'[u] \in Nat /\ lowlink'[u] <= index'[u]
      /\ \A k \in DOMAIN calls' : calls'[k].left \subseteq Targets(CallNode(k))'
  <2>1. Seen' = Seen
    BY <1>1 DEF Seen
  <2>2. Cardinality(Seen') = Cardinality(Seen)
    BY <2>1, Zenon
  <2>3. \A u \in Seen : index[u] < Cardinality(Seen)
    BY <1>a DEF Typed
  <2>4. digraph' \in Digraphs /\ digraph' # NoDigraph /\ Seen' \subseteq NodesOf(digraph')
    BY <2>1, <1>a, <1>1 DEF Typed
  <2>5. calls' \in Seq(Frames')
    BY <1>1, <1>2 DEF Frames
  <2>6. \A k \in DOMAIN calls' : calls'[k].left \subseteq Targets(CallNode(k))'
    <3> SUFFICES ASSUME NEW k \in 1..caller PROVE calls'[k].left \subseteq Targets(CallNode(k))'
      BY <1>2
    <3>1. calls[k].left \subseteq Targets(CallNode(k))
      BY <1>a, <1>6 DEF Typed
    <3>2. Targets(CallNode(k))' = Targets(CallNode(k))
      BY <1>1, <1>2 DEF Targets
    <3> QED
      BY <3>1, <3>2, <1>2
  <2> QED
    BY <2>1, <2>2, <2>3, <2>4, <2>5, <2>6, <1>1, <1>3, <1>5
<1>10. CASE lowlink[v] = index[v]
  <2> DEFINE S == From(v)
  <2>1. /\ stack' \in Seq(Seen) /\ DOMAIN stack' \subseteq DOMAIN stack
        /\ \A i \in DOMAIN stack' : stack'[i] = stack[i]
        /\ Stacked' = Stacked \ S
        /\ sccs' = IF Cardinality(S) > 1 THEN sccs \cup {S} ELSE sccs
    BY <1>a, <1>10, Pops
  <2>2. \A u \in Stacked : u \in S <=> index[u] >= index[v]
    BY DEF From
  <2>3. Stacked' \subseteq Stacked /\ \A u \in Stacked : u \in Stacked' <=> index[u] < index[v]
    BY <2>1, <2>2, <1>1, <1>4, <1>5
  <2>4. \A k \in 1..caller : CallNode(k) \in Stacked'
    BY <2>3, <1>2, <1>4, <1>6
  <2>5. \A k \in 1..caller : lowlink'[CallNode(k)] = lowlink[CallNode(k)]
    <3> SUFFICES ASSUME NEW k \in 1..caller, lowlink'[CallNode(k)] = lowlink[v]
                 PROVE  lowlink'[CallNode(k)] = lowlink[CallNode(k)]
      BY <1>3, <1>6
    <3>1. index[CallNode(k)] < index[v] /\ CallNode(k) \in Seen
      BY <1>2, <1>6
    <3> QED
      BY <3>1, <1>1, <1>3, <1>5, <1>10
  <2>6. \A k \in 1..caller : \A u \in Stacked' : VisitedBefore(u, k)' => VisitedBefore(u, k)
    <3> SUFFICES ASSUME NEW k \in 1..caller, NEW u \in Stacked', VisitedBefore(u, k)' PROVE VisitedBefore(u, k)
      OBVIOUS
    <3>1. u \in Stacked /\ ~(index[u] >= index[v])
      BY <2>1, <2>2
    <3> QED
      BY <3>1, <1>8
  <2>7. Typed'
    BY <2>1, <2>4, <1>2, <1>3, <1>9 DEF Typed
  <2>8. Ordered'
    <3>1. \A i, j \in DOMAIN stack' : i < j => index'[stack'[i]] < index'[stack'[j]]
      BY <2>1, <1>a, <1>1 DEF Ordered
    <3>2. \A i, j \in DOMAIN calls' : i < j => index'[CallNode(i)'] < index'[CallNode(j)']
      BY <1>a, <1>1, <1>2, <1>6 DEF Ordered
    <3>3. \A u \in Stacked' : calls' # <<>> /\ index'[u] >= index'[CallNode(1)']
      <4> SUFFICES ASSUME NEW u \in Stacked' PROVE calls' # <<>> /\ index'[u] >= index'[CallNode(1)']
        OBVIOUS
      <4>1. index[u] >= index[CallNode(1)] /\ index[u] < index[v]
        BY <2>3, <1>a DEF Ordered
      <4>2. top # 1
        BY <4>1, <2>3, <1>1, <1>4, <1>5
      <4>3. 1 \in DOMAIN calls'
        BY <4>2, <1>2, <1>1, <1>4
      <4> QED
        BY <4>1, <4>3, <1>1, <1>2
    <3> QED
      BY <3>1, <3>2, <3>3 DEF Ordered
  <2>9. Linked'
    BY <2>3, <2>6, <1>a, <1>1, <1>2, <1>6 DEF Linked
  <2>10. Reached'
    <3> SUFFICES ASSUME NEW k \in 1..caller
                 PROVE  \E u \in Stacked' : index[u] = lowlink[CallNode(k)] /\ Leads(digraph, CallNode(k), u)
      BY <2>5, <1>1, <1>2 DEF Reached
    <3>1. PICK u \in Stacked : index[u] = lowlink[CallNode(k)] /\ Leads(digraph, CallNode(k), u)
      BY <1>a, <1>6 DEF Reached
    <3>2. index[u] < index[v]
      BY <3>1, <1>1, <1>2, <1>5, <1>6
    <3> QED
      BY <3>1, <3>2, <2>3
  <2>11. Explored'
    <3> SUFFICES ASSUME NEW e \in digraph, e[1] \in Stacked', ~Left(e[1], e[2])'
                 PROVE  /\ e[2] \in Seen
                        /\ e[2] \in Stacked' => \A k \in 1..caller :
                             index[e[1]] >= index[CallNode(k)] /\ VisitedBefore(e[1], k)' =>
                               index[e[2]] >= lowlink[CallNode(k)]
      BY <2>5, <1>1, <1>2, <1>9 DEF Explored
    <3>1. e[1] \in Stacked /\ ~Left(e[1], e[2])
      BY <2>3, <1>7
    <3>2. /\ e[2] \in Seen
          /\ e[2] \in Stacked => \A k \in DOMAIN calls :
               index[e[1]] >= index[CallNode(k)] /\ VisitedBefore(e[1], k) => index[e[2]] >= lowlink[CallNode(k)]
      BY <3>1, <1>a DEF Explored
    <3> QED
      BY <3>2, <2>3, <2>6, <1>6
  <2>12. Taken'
    <3>1. /\ \A e \in digraph : e[1] \in S => e[2] \in Done \cup S
          /\ \A a \in S : a \in NodesOf(digraph) /\ S = Class(digraph, a)
      BY <1>1, <1>10, SegmentIsClass
    <3>2. S \subseteq Stacked /\ v \in S
      BY <1>1, <1>5 DEF From
    <3> HIDE DEF S
    <3>3. Done' = Done \cup S
      BY <3>2, <2>1, <1>4, <1>9 DEF Done
    <3>4. \A e \in digraph' : e[1] \in Done' => e[2] \in Done'
      BY <3>1, <3>3, <1>a, <1>1 DEF Taken
    <3>5. sccs \subseteq sccs' /\ (Cardinality(S) > 1 => S \in sccs')
      BY <2>1
    <3>6. \A a \in Done' : Cardinality(Class(digraph', a)) > 1 => Class(digraph', a) \in sccs'
      <4> SUFFICES ASSUME NEW a \in Done', Cardinality(Class(digraph, a)) > 1
                   PROVE  Class(digraph, a) \in sccs'
        BY <1>1
      <4>1. CASE a \in Done
        BY <4>1, <3>5, <1>a DEF Taken
      <4>2. CASE a \in S
        <5>1. S = Class(digraph, a)
          BY <4>2, <3>1
        <5> QED
          BY <5>1, <3>5
      <4> QED
        BY <4>1, <4>2, <3>3
    <3>7. sccs' \subseteq Components(digraph')
      <4>1. Cardinality(S) > 1 => S \in Components(digraph)
        BY <3>1, <3>2, ComponentsAreClasses
      <4> QED
        BY <4>1, <2>1, <1>a, <1>1 DEF Taken
    <3> QED
      BY <3>4, <3>6, <3>7 DEF Taken
  <2> QED
    BY <2>7, <2>8, <2>9, <2>10, <2>11, <2>12 DEF CyclesInv
<1>11. CASE lowlink[v] # index[v]
  <2>1. stack' = stack /\ sccs' = sccs
    BY <1>11 DEF EndCall, Top, CallNode
  <2>2. Stacked' = Stacked
    BY <2>1 DEF Stacked
  <2>3. PICK w \in Stacked : index[w] = lowlink[v] /\ Leads(digraph, v, w)
    BY <1>a, <1>1 DEF Reached
  <2>4. index[w] < index[v]
    BY <2>3, <1>1, <1>5, <1>11
  <2>5. top > 1 /\ caller \in 1..caller
    <3>1. index[w] >= index[CallNode(1)]
      BY <2>3, <1>a DEF Ordered
    <3>2. top # 1
      BY <3>1, <2>4, <1>1, <1>4, <1>5
    <3> QED
      BY <3>2, <1>1, <1>4
  <2>6. Typed'
    <3>1. stack' \in Seq(Seen') /\ \A k \in DOMAIN calls' : CallNode(k)' \in Stacked'
      BY <2>1, <2>2, <1>a, <1>2, <1>4, <1>6, <1>9 DEF Typed
    <3> QED
      BY <3>1, <1>3, <1>9 DEF Typed
  <2>7. Ordered'
    <3>1. calls' # <<>> /\ 1 \in 1..caller
      BY <2>5, <1>2, <1>4
    <3>2. \A i, j \in DOMAIN stack' : i < j => index'[stack'[i]] < index'[stack'[j]]
      BY <2>1, <1>a, <1>1 DEF Ordered
    <3>3. \A i, j \in DOMAIN calls' : i < j => index'[CallNode(i)'] < index'[CallNode(j)']
      BY <1>a, <1>1, <1>2, <1>6 DEF Ordered
    <3>4. \A u \in Stacked' : calls' # <<>> /\ index'[u] >= index'[CallNode(1)']
      BY <3>1, <2>2, <1>a, <1>1, <1>2 DEF Ordered
    <3> QED
      BY <3>2, <3>3, <3>4 DEF Ordered
  <2>8. Linked'
    <3> SUFFICES ASSUME NEW k \in 1..caller, NEW u \in Stacked
                 PROVE  /\ index[u] >= index[CallNode(k)] => Leads(digraph, CallNode(k), u)
                        /\ VisitedBefore(u, k)' => Leads(digraph, u, CallNode(k))
      BY <2>2, <1>1, <1>2 DEF Linked
    <3>1. index[u] >= index[CallNode(k)] => Leads(digraph, CallNode(k), u)
      BY <1>a, <1>6 DEF Linked
    <3>2. VisitedBefore(u, k) => Leads(digraph, u, CallNode(k))
      BY <1>a, <1>6 DEF Linked
    <3>3. CASE k = caller /\ index[u] >= index[v]
      <4>1. Leads(digraph, u, v)
        BY <1>a, <1>1 DEF Linked, VisitedBefore
      <4>2. VisitedBefore(w, k)
        BY <3>3, <2>4, <1>4 DEF VisitedBefore
      <4>3. Leads(digraph, w, CallNode(k))
        BY <4>2, <1>a, <1>6 DEF Linked
      <4> QED
        BY <3>1, <4>1, <4>3, <2>3, LeadsOn
    <3> QED
      BY <3>1, <3>2, <3>3, <1>8
  <2>9. Reached'
    <3> SUFFICES ASSUME NEW k \in 1..caller
                 PROVE  \E u \in Stacked : index[u] = lowlink'[CallNode(k)] /\ Leads(digraph, CallNode(k), u)
      BY <2>2, <1>1, <1>2 DEF Reached
    <3>1. CASE lowlink'[CallNode(k)] = lowlink[CallNode(k)]
      BY <3>1, <1>a, <1>6 DEF Reached
    <3>2. CASE lowlink'[CallNode(k)] # lowlink[CallNode(k)]
      <4>1. lowlink'[CallNode(k)] = lowlink[v]
        BY <3>2, <1>3, <1>6
      <4>2. index[v] >= index[CallNode(k)]
        BY <1>1, <1>2, <1>5, <1>6
      <4>3. Leads(digraph, CallNode(k), v)
        BY <4>2, <1>a, <1>1, <1>6 DEF Linked
      <4> QED
        BY <4>1, <4>3, <2>3, LeadsOn
    <3> QED
      BY <3>1, <3>2
  <2>10. Explored'
    <3> SUFFICES ASSUME NEW e \in digraph, e[1] \in Stacked, ~Left(e[1], e[2])'
                 PROVE  /\ e[2] \in Seen
                        /\ e[2] \in Stacked => \A k \in 1..caller :
                             index[e[1]] >= index[CallNode(k)] /\ VisitedBefore(e[1], k)' =>
                               index[e[2]] >= lowlink'[CallNode(k)]
      BY <2>2, <1>1, <1>2, <1>9 DEF Explored
    <3>1. /\ e[2] \in Seen
          /\ e[2] \in Stacked => \A k \in DOMAIN calls :
               index[e[1]] >= index[CallNode(k)] /\ VisitedBefore(e[1], k) => index[e[2]] >= lowlink[CallNode(k)]
      BY <1>7, <1>a DEF Explored
    <3>2. ASSUME NEW k \in 1..caller, e[2] \in Stacked, index[e[1]] >= index[CallNode(k)], VisitedBefore(e[1], k)'
          PROVE  index[e[2]] >= lowlink'[CallNode(k)]
      <4>1. CASE VisitedBefore(e[1], k)
        <5>1. index[e[2]] >= lowlink[CallNode(k)]
          BY <3>1, <3>2, <4>1, <1>6
        <5>2. index[e[2]] \in Nat /\ lowlink[CallNode(k)] \in Nat
          BY <3>2, <1>4, <1>5, <1>6
        <5>3. lowlink'[CallNode(k)] \in Nat /\ lowlink'[CallNode(k)] <= lowlink[CallNode(k)]
          BY <1>3, <1>6
        <5> QED
          BY <5>1, <5>2, <5>3
      <4>2. CASE k = caller /\ index[e[1]] >= index[v]
        <5>1. index[e[2]] >= lowlink[v]
          BY <3>1, <3>2, <4>2, <1>1 DEF VisitedBefore
        <5>2. lowlink'[CallNode(k)] <= lowlink[v]
          BY <4>2, <2>5, <1>3
        <5>3. index[e[2]] \in Nat /\ lowlink[v] \in Nat /\ lowlink'[CallNode(k)] \in Nat
          BY <3>2, <1>1, <1>3, <1>4, <1>5, <1>6
        <5> HIDE DEF v
        <5> QED
          BY <5>1, <5>2, <5>3
      <4> QED
        BY <3>2, <4>1, <4>2, <1>8
    <3> QED
      BY <3>1, <3>2
  <2>11. Taken'
    <3>1. Done' = Done
      BY <2>2, <1>9 DEF Done
    <3> QED
      BY <3>1, <2>1, <1>a, <1>1 DEF Taken
  <2> QED
    BY <2>6, <2>7, <2>8, <2>9, <2>10, <2>11 DEF CyclesInv
<1> QED
    BY <1>10, <1>11

-----------------------------------------------------------------------------
(* The walk as a whole.                                                     *)

LEMMA CyclesStart == CyclesInit => CyclesInv
<1> SUFFICES ASSUME CyclesInit PROVE CyclesInv
    OBVIOUS
<1>1. /\ digraph = NoDigraph /\ index = <<>> /\ lowlink = <<>> /\ stack = <<>> /\ calls = <<>>
      /\ sccs = {}
    BY DEF CyclesInit
<1>2. Seen = {} /\ Stacked = {} /\ DOMAIN lowlink = {} /\ DOMAIN calls = {} /\ DOMAIN stack = {}
    BY <1>1 DEF Seen, Stacked
<1>3. stack \in Seq(Seen) /\ calls \in Seq(Frames)
    BY <1>1, EmptySeq
<1>4. Typed
    BY <1>1, <1>2, <1>3 DEF Typed
<1>5. Ordered /\ Linked /\ Reached /\ Explored /\ Taken
    BY <1>1, <1>2 DEF Ordered, Linked, Reached, Explored, Taken, Done
<1> QED
    BY <1>4, <1>5 DEF CyclesInv

LEMMA AdjacencyKeeps == ASSUME CyclesInv, NEW E \in Digraphs, Adjacency(E) PROVE CyclesInv'
<1>1. Typed /\ Ordered /\ digraph = NoDigraph /\ digraph' = E
    BY DEF Adjacency, CyclesInv
<1>2. index = <<>> /\ calls = <<>> /\ sccs = {}
    BY <1>1 DEF Typed
<1>3. index' = <<>> /\ calls' = <<>> /\ sccs' = {} /\ stack' = stack /\ lowlink' = lowlink
    BY <1>2 DEF Adjacency
<1>4. /\ Seen = {} /\ Stacked = {} /\ DOMAIN lowlink = {}
      /\ Seen' = {} /\ Stacked' = {} /\ DOMAIN lowlink' = {} /\ DOMAIN calls' = {}
    BY <1>1, <1>2, <1>3 DEF Seen, Stacked, Typed, Ordered
<1>5. DOMAIN stack' = {}
    BY <1>4 DEF Stacked
<1>6. stack' \in Seq(Seen') /\ calls' \in Seq(Frames')
    BY <1>1, <1>3, <1>4, EmptySeq DEF Typed
<1>7. Typed'
    BY <1>1, <1>3, <1>4, <1>6 DEF Typed
<1>8. Ordered' /\ Linked' /\ Reached' /\ Explored' /\ Taken'
    BY <1>3, <1>4, <1>5 DEF Ordered, Linked, Reached, Explored, Taken, Done
<1> QED
    BY <1>7, <1>8 DEF CyclesInv

LEMMA StutterKeeps == ASSUME CyclesInv, UNCHANGED cyclesVars PROVE CyclesInv'
    BY DEF cyclesVars, CyclesInv, Typed, Ordered, Linked, Reached, Explored, Taken, Done, Seen,
           Stacked, CallNode, VisitedBefore, Left, Targets, Frames

LEMMA CyclesSteps == CyclesInv /\ [CyclesNext]_cyclesVars => CyclesInv'
<1> SUFFICES ASSUME CyclesInv, [CyclesNext]_cyclesVars PROVE CyclesInv'
    OBVIOUS
<1>1. ASSUME NEW E \in Digraphs, Adjacency(E) PROVE CyclesInv'
    BY <1>1, AdjacencyKeeps
<1>2. ASSUME NEW i \in DOMAIN NodeNames, Root(i) PROVE CyclesInv'
    BY <1>2, RootKeeps
<1>3. ASSUME NEW w \in Top.left, Descend(w) PROVE CyclesInv'
    BY <1>3, DescendKeeps
<1>4. ASSUME NEW w \in Top.left, LookBack(w) PROVE CyclesInv'
    BY <1>4, LookBackKeeps
<1>5. CASE EndCall
    BY <1>5, EndCallKeeps
<1>6. CASE UNCHANGED cyclesVars
    BY <1>6, StutterKeeps
<1> QED
    BY <1>1, <1>2, <1>3, <1>4, <1>5, <1>6 DEF CyclesNext

LEMMA CyclesEnd == CyclesInv => CyclesAreComponents
<1> SUFFICES ASSUME CyclesInv PROVE CyclesAreComponents
    OBVIOUS
<1>1. Ordered /\ Taken /\ Typed
    BY DEF CyclesInv
<1>2. ASSUME Searched, NEW S \in Components(digraph) PROVE S \in sccs
  <2>1. PICK a \in NodesOf(digraph) : S = Class(digraph, a) /\ Cardinality(S) > 1
    BY ComponentsAreClasses
  <2>2. a \in Done
    BY <1>1, <1>2 DEF Searched, Ordered, Done
  <2> QED
    BY <2>1, <2>2, <1>1 DEF Taken
<1> QED
    BY <1>1, <1>2 DEF CyclesAreComponents, Taken

\* The cycles found are the strongly connected components of two nodes or more: all of
\* them, each whole, in whatever order the targets come (stronglyConnected).
THEOREM CyclesFound == CyclesSpec => []CyclesAreComponents
<1>1. CyclesSpec => []CyclesInv
    BY CyclesStart, CyclesSteps, PTL DEF CyclesSpec
<1> QED
    BY <1>1, CyclesEnd, PTL

-----------------------------------------------------------------------------
(* Rules: every config and tree, and every edit between two checks             *)

\* A component of a graph lies within one of a larger graph.
LEMMA ComponentsGrow ==
    ASSUME NEW E, NEW F, F \subseteq E, IsFiniteSet(NodesOf(E)), NEW S \in Components(F)
    PROVE  \E T \in Components(E) : S \subseteq T
<1>1. PICK a \in NodesOf(F) : S = Class(F, a) /\ Cardinality(S) > 1
    BY ComponentsAreClasses
<1>2. NodesOf(F) \subseteq NodesOf(E)
    BY DEF NodesOf
<1>3. \A x, y : x \in NodesOf(F) /\ Leads(F, x, y) => Leads(E, x, y)
    <2> SUFFICES ASSUME NEW x \in NodesOf(F), NEW y, Leads(F, x, y), NEW X \in Closed(E), x \in X
                 PROVE  y \in X
        BY DEF Leads
    <2>1. X \cap NodesOf(F) \in Closed(F)
        BY <1>2 DEF Closed, NodesOf
    <2> QED
        BY <2>1 DEF Leads
<1>4. S \subseteq Class(E, a) /\ a \in NodesOf(E)
    BY <1>1, <1>2, <1>3 DEF Class
<1>5. IsFiniteSet(Class(E, a))
    BY FS_Subset DEF Class
<1>6. Cardinality(S) <= Cardinality(Class(E, a)) /\ Cardinality(S) \in Nat /\ Cardinality(Class(E, a)) \in Nat
    BY <1>4, <1>5, FS_Subset, FS_CardinalityType
<1>7. Cardinality(Class(E, a)) > 1
    BY <1>1, <1>6
<1> QED
    BY <1>4, <1>7, ComponentsAreClasses

LEMMA PlacesFinite == IsFiniteSet(Places)
<1> DEFINE P == Packages \X (SourceFiles \cup {NoFile})
           g == [x \in P |-> [dir |-> x[1], file |-> x[2]]]
<1>1. IsFiniteSet(P)
    BY RulesAssumption, FS_AddElement, FS_Product
<1>2. g \in Surjection(P, Places)
    <2>1. \A x \in P : g[x] \in Places
        BY DEF Places
    <2>2. \A p \in Places : <<p.dir, p.file>> \in P /\ g[<<p.dir, p.file>>] = p
        BY DEF Places
    <2> QED
        BY <2>1, <2>2 DEF Surjection
<1> QED
    BY <1>1, <1>2, FS_Surjection

-----------------------------------------------------------------------------
(* Rules: the same config answers alike, and more edges give more findings   *)

\* What a place belongs to is up to the config.
LEMMA SameModules ==
    ASSUME code' = code
    PROVE  \A p : ModuleFor(p)' = ModuleFor(p)
<1>1. \A m, p : Ranks(m, p)' = Ranks(m, p)
    BY DEF Ranks
<1>2. \A p : AllRanks(p)' = AllRanks(p)
    BY <1>1 DEF AllRanks
<1>3. ASSUME NEW p
      PROVE  MostSpecific(p)' = MostSpecific(p)
    <2>1. AllRanks(p)' = AllRanks(p) /\ \A m : Ranks(m, p)' = Ranks(m, p)
        BY <1>1, <1>2
    <2> QED
        BY <2>1 DEF MostSpecific
<1>4. ASSUME NEW p
      PROVE  ModuleFor(p)' = ModuleFor(p)
    BY <1>2, <1>3 DEF ModuleFor
<1> QED
    BY <1>4

LEMMA SameOwners ==
    ASSUME code' = code
    PROVE  /\ \A p : DeclaredModule(p)' = DeclaredModule(p)
           /\ \A p : MatchesInternal(p)' = MatchesInternal(p)
           /\ \A p : LayerFor(p)' = LayerFor(p)
           /\ \A a, b : DeniedDependency(a, b)' = DeniedDependency(a, b)
<1>1. \A p : DeclaredModule(p)' = DeclaredModule(p)
    BY SameModules DEF DeclaredModule
<1>2. \A p : MatchesInternal(p)' = MatchesInternal(p)
    BY SameModules DEF MatchesInternal
<1>3. \A p : LayerFor(p)' = LayerFor(p)
    BY SameModules DEF LayerFor
<1>4. \A a, b : DeniedDependency(a, b)' = DeniedDependency(a, b)
    BY DEF DeniedDependency
<1> QED
    BY <1>1, <1>2, <1>3, <1>4

LEMMA SameEdgeRules ==
    ASSUME code' = code, NEW r, NEW E
    PROVE  /\ PublicAPIOnly(r, E)' = PublicAPIOnly(r, E)
           /\ ForbiddenLayerDirection(E)' = ForbiddenLayerDirection(E)
           /\ NewCrossModuleDependency(E)' = NewCrossModuleDependency(E)
           /\ ModuleDependencies(E)' = ModuleDependencies(E)
<1>1. \A e : SameModule(e)' = SameModule(e) /\ InternalTarget(e)' = InternalTarget(e)
    BY SameModules, SameOwners DEF SameModule, InternalTarget
<1>2. PublicAPIOnly(r, E)' = PublicAPIOnly(r, E)
    BY <1>1 DEF PublicAPIOnly
<1>3. ForbiddenLayerDirection(E)' = ForbiddenLayerDirection(E)
    <2>1. \A e : (LayerFor(e.from) > 0 /\ LayerFor(e.from) < LayerFor(e.to))'
                 = (LayerFor(e.from) > 0 /\ LayerFor(e.from) < LayerFor(e.to))
        BY SameOwners
    <2> QED
        BY <2>1 DEF ForbiddenLayerDirection
<1>4. NewCrossModuleDependency(E)' = NewCrossModuleDependency(E)
    BY SameModules DEF NewCrossModuleDependency
<1>5. ModuleDependencies(E)' = ModuleDependencies(E)
    BY SameOwners DEF ModuleDependencies
<1> QED
    BY <1>2, <1>3, <1>4, <1>5

\* More edges, more findings of each rule about edges.
LEMMA MoreEdges ==
    ASSUME NEW r, NEW E, NEW F, F \subseteq E
    PROVE  /\ ForbiddenByPath(r, F) \subseteq ForbiddenByPath(r, E)
           /\ ForbiddenByModule(r, F) \subseteq ForbiddenByModule(r, E)
           /\ PublicAPIOnly(r, F) \subseteq PublicAPIOnly(r, E)
           /\ ForbiddenLayerDirection(F) \subseteq ForbiddenLayerDirection(E)
           /\ NewCrossModuleDependency(F) \subseteq NewCrossModuleDependency(E)
           /\ ModuleDependencies(F) \subseteq ModuleDependencies(E)
           /\ ModuleEdges(F) \subseteq ModuleEdges(E)
           /\ {<<e.from, e.to>> : e \in DependencyEdges(F)} \subseteq {<<e.from, e.to>> : e \in DependencyEdges(E)}
           /\ ExternalPackages(F) \subseteq ExternalPackages(E)
<1>1. DependencyEdges(F) \subseteq DependencyEdges(E)
    BY DEF DependencyEdges
<1>2. ForbiddenByPath(r, F) \subseteq ForbiddenByPath(r, E)
    BY DEF ForbiddenByPath, ByEdge
<1>3. ForbiddenByModule(r, F) \subseteq ForbiddenByModule(r, E)
    BY <1>1 DEF ForbiddenByModule
<1>4. PublicAPIOnly(r, F) \subseteq PublicAPIOnly(r, E)
    BY <1>1 DEF PublicAPIOnly, ByEdge
<1>5. ForbiddenLayerDirection(F) \subseteq ForbiddenLayerDirection(E)
    BY DEF ForbiddenLayerDirection, ByEdge
<1>6. NewCrossModuleDependency(F) \subseteq NewCrossModuleDependency(E)
    BY DEF NewCrossModuleDependency, ByEdge
<1>7. ModuleDependencies(F) \subseteq ModuleDependencies(E)
    BY <1>1 DEF ModuleDependencies
<1>8. ModuleEdges(F) \subseteq ModuleEdges(E)
    BY <1>1 DEF ModuleEdges
<1>9. /\ {<<e.from, e.to>> : e \in DependencyEdges(F)} \subseteq {<<e.from, e.to>> : e \in DependencyEdges(E)}
      /\ ExternalPackages(F) \subseteq ExternalPackages(E)
    BY <1>1 DEF ExternalPackages
<1> QED
    BY <1>2, <1>3, <1>4, <1>5, <1>6, <1>7, <1>8, <1>9

\* The ends of an edge are places, its modules those g gives them.
EdgesPlaced(E, g) ==
    \A e \in E : /\ e.from \in Places /\ e.to \in Places
                 /\ e.fromModule = g[e.from] /\ e.toModule = g[e.to]

LEMMA CycleNodesFinite ==
    ASSUME NEW E, NEW g, EdgesPlaced(E, g)
    PROVE  /\ IsFiniteSet(NodesOf({<<e.from, e.to>> : e \in DependencyEdges(E)}))
           /\ IsFiniteSet(NodesOf(ModuleEdges(E)))
<1> DEFINE M == {g[p] : p \in Places}
<1>1. NodesOf({<<e.from, e.to>> : e \in DependencyEdges(E)}) \subseteq Places
    BY DEF NodesOf, DependencyEdges, EdgesPlaced
<1>2. NodesOf(ModuleEdges(E)) \subseteq M
    BY DEF NodesOf, ModuleEdges, DependencyEdges, EdgesPlaced
<1>3. IsFiniteSet(M)
    <2> DEFINE h == [p \in Places |-> g[p]]
    <2>1. h \in Surjection(Places, M)
        BY DEF Surjection
    <2> QED
        BY <2>1, PlacesFinite, FS_Surjection
<1> QED
    BY <1>1, <1>2, <1>3, PlacesFinite, FS_Subset

\* Of more edges, each cycle lies within one.
LEMMA ModuleCyclesGrow ==
    ASSUME NEW E, NEW F, ModuleEdges(F) \subseteq ModuleEdges(E), NEW g, EdgesPlaced(E, g),
           NEW k \in ModuleCycle(F)
    PROVE  \E l \in ModuleCycle(E) : k[1] \subseteq l[1] /\ k[2] = l[2]
<1>1. IsFiniteSet(NodesOf(ModuleEdges(E)))
    BY CycleNodesFinite
<1>2. PICK S \in Components(ModuleEdges(F)) : k = <<S, {}, "module_dependency">>
    BY DEF ModuleCycle
<1>3. PICK T \in Components(ModuleEdges(E)) : S \subseteq T
    BY <1>1, ComponentsGrow
<1>4. <<T, {}, "module_dependency">> \in ModuleCycle(E)
    BY DEF ModuleCycle
<1> QED
    BY <1>2, <1>3, <1>4

LEMMA CyclesGrow ==
    ASSUME NEW E, NEW F, F \subseteq E, NEW g, EdgesPlaced(E, g), NEW k \in CycleRule(F)
    PROVE  \E l \in CycleRule(E) : k[1] \subseteq l[1] /\ k[2] = l[2]
<1> DEFINE P(D) == {<<e.from, e.to>> : e \in DependencyEdges(D)}
<1>1. P(F) \subseteq P(E) /\ IsFiniteSet(NodesOf(P(E)))
    BY MoreEdges, CycleNodesFinite
<1>2. PICK S \in Components(P(F)) : k = <<S, {}, "imports">>
    BY DEF CycleRule
<1> HIDE DEF P
<1>3. PICK T \in Components(P(E)) : S \subseteq T
    BY <1>1, ComponentsGrow
<1>4. <<T, {}, "imports">> \in CycleRule(E)
    BY DEF CycleRule, P
<1> QED
    BY <1>2, <1>3, <1>4

-----------------------------------------------------------------------------
(* Rules: what holds between edits                                           *)

\* A tree is of one of the codebases or an edit of one, and its config was accepted.
RulesInv ==
    /\ code = NoCode => tree = <<>>
    /\ code # NoCode => code \in Codebases /\ \A r \in code.rules : ValidRule(r, code.rules)
    /\ SourceTree(tree)

FileWith(n, dir, class, uses, exports, leaks, matches) ==
    /\ SourceFile(n)
    /\ n.dir = dir /\ n.class = class /\ n.uses = uses
    /\ n.exports = exports /\ n.leaks = leaks /\ n.matches = matches
UsesOfPlaces(u) ==
    u = [t \in DOMAIN u |-> u[t]] /\ DOMAIN u \subseteq Places /\ \A t \in DOMAIN u : u[t] \in Uses

\* An edited file is a file, with the rest of it as it was.
LEMMA FileEdits ==
    ASSUME NEW r, SourceFile(r)
    PROVE  /\ \A u : UsesOfPlaces(u) =>
                FileWith([r EXCEPT !.uses = u], r.dir, r.class, u, r.exports, r.leaks, r.matches)
           /\ \A u : \A p \in Packages : UsesOfPlaces(u) =>
                FileWith([r EXCEPT !.dir = p, !.uses = u], p, r.class, u, r.exports, r.leaks, r.matches)
           /\ \A x \in SUBSET Exports :
                FileWith([r EXCEPT !.exports = x], r.dir, r.class, r.uses, x, r.leaks, r.matches)
           /\ \A x \in SUBSET Externals :
                FileWith([r EXCEPT !.leaks = x], r.dir, r.class, r.uses, r.exports, x, r.matches)
           /\ \A x \in SUBSET Patterns :
                FileWith([r EXCEPT !.matches = x], r.dir, r.class, r.uses, r.exports, r.leaks, x)
           /\ \A x \in Classes :
                FileWith([r EXCEPT !.class = x], r.dir, x, r.uses, r.exports, r.leaks, r.matches)
<1>0. /\ r = [dir |-> r.dir, class |-> r.class, uses |-> r.uses,
              exports |-> r.exports, leaks |-> r.leaks, matches |-> r.matches]
      /\ UsesOfPlaces(r.uses)
      /\ r.dir \in Packages /\ r.class \in Classes
      /\ r.exports \subseteq Exports /\ r.leaks \subseteq Externals /\ r.matches \subseteq Patterns
    BY DEF SourceFile, UsesOfPlaces
<1>w. ASSUME NEW d \in Packages, NEW c \in Classes, NEW u, UsesOfPlaces(u), NEW x \in SUBSET Exports,
             NEW l \in SUBSET Externals, NEW m \in SUBSET Patterns
      PROVE  FileWith([dir |-> d, class |-> c, uses |-> u, exports |-> x, leaks |-> l, matches |-> m],
                      d, c, u, x, l, m)
    <2> DEFINE n == [dir |-> d, class |-> c, uses |-> u, exports |-> x, leaks |-> l, matches |-> m]
    <2>1. n.dir = d /\ n.class = c /\ n.uses = u /\ n.exports = x /\ n.leaks = l /\ n.matches = m
        OBVIOUS
    <2>2. n = [dir |-> n.dir, class |-> n.class, uses |-> n.uses,
               exports |-> n.exports, leaks |-> n.leaks, matches |-> n.matches]
        BY <2>1
    <2> HIDE DEF n
    <2>3. [t \in DOMAIN n.uses |-> n.uses[t]] = n.uses
        BY <1>w, <2>1 DEF UsesOfPlaces
    <2>4. n = [dir |-> n.dir, class |-> n.class, uses |-> [t \in DOMAIN n.uses |-> n.uses[t]],
               exports |-> n.exports, leaks |-> n.leaks, matches |-> n.matches]
        BY <2>2, <2>3, Zenon
    <2>5. SourceFile(n)
        BY <1>w, <2>1, <2>4 DEF SourceFile, UsesOfPlaces
    <2>6. FileWith(n, d, c, u, x, l, m)
        BY <2>1, <2>5 DEF FileWith
    <2> QED
        BY <2>6 DEF n
<1> USE <1>0
<1>1. \A u : UsesOfPlaces(u) =>
        FileWith([r EXCEPT !.uses = u], r.dir, r.class, u, r.exports, r.leaks, r.matches)
    <2> SUFFICES ASSUME NEW u, UsesOfPlaces(u)
                 PROVE  FileWith([r EXCEPT !.uses = u], r.dir, r.class, u, r.exports, r.leaks, r.matches)
        OBVIOUS
    <2>1. [r EXCEPT !.uses = u] = [dir |-> r.dir, class |-> r.class, uses |-> u,
              exports |-> r.exports, leaks |-> r.leaks, matches |-> r.matches]
        OBVIOUS
    <2> QED
        BY <2>1, <1>w
<1>2. \A u : \A p \in Packages : UsesOfPlaces(u) =>
        FileWith([r EXCEPT !.dir = p, !.uses = u], p, r.class, u, r.exports, r.leaks, r.matches)
    <2> SUFFICES ASSUME NEW u, UsesOfPlaces(u), NEW p \in Packages
                 PROVE  FileWith([r EXCEPT !.dir = p, !.uses = u], p, r.class, u, r.exports, r.leaks, r.matches)
        OBVIOUS
    <2>1. PICK q : q = [r EXCEPT !.dir = p]
        OBVIOUS
    <2>2. q = [dir |-> p, class |-> r.class, uses |-> r.uses,
               exports |-> r.exports, leaks |-> r.leaks, matches |-> r.matches]
        BY <2>1
    <2>3. [r EXCEPT !.dir = p, !.uses = u] = [q EXCEPT !.uses = u]
        BY <2>1
    <2>4. [q EXCEPT !.uses = u] = [dir |-> p, class |-> r.class, uses |-> u,
              exports |-> r.exports, leaks |-> r.leaks, matches |-> r.matches]
        BY <2>2
    <2> QED
        BY <2>3, <2>4, <1>w
<1>3. \A x \in SUBSET Exports :
        FileWith([r EXCEPT !.exports = x], r.dir, r.class, r.uses, x, r.leaks, r.matches)
    <2> TAKE x \in SUBSET Exports
    <2>1. [r EXCEPT !.exports = x] = [dir |-> r.dir, class |-> r.class, uses |-> r.uses,
              exports |-> x, leaks |-> r.leaks, matches |-> r.matches]
        OBVIOUS
    <2> QED
        BY <2>1, <1>w
<1>4. \A x \in SUBSET Externals :
        FileWith([r EXCEPT !.leaks = x], r.dir, r.class, r.uses, r.exports, x, r.matches)
    <2> TAKE x \in SUBSET Externals
    <2>1. [r EXCEPT !.leaks = x] = [dir |-> r.dir, class |-> r.class, uses |-> r.uses,
              exports |-> r.exports, leaks |-> x, matches |-> r.matches]
        OBVIOUS
    <2> QED
        BY <2>1, <1>w
<1>5. \A x \in SUBSET Patterns :
        FileWith([r EXCEPT !.matches = x], r.dir, r.class, r.uses, r.exports, r.leaks, x)
    <2> TAKE x \in SUBSET Patterns
    <2>1. [r EXCEPT !.matches = x] = [dir |-> r.dir, class |-> r.class, uses |-> r.uses,
              exports |-> r.exports, leaks |-> r.leaks, matches |-> x]
        OBVIOUS
    <2> QED
        BY <2>1, <1>w
<1>6. \A x \in Classes :
        FileWith([r EXCEPT !.class = x], r.dir, x, r.uses, r.exports, r.leaks, r.matches)
    <2> TAKE x \in Classes
    <2>1. [r EXCEPT !.class = x] = [dir |-> r.dir, class |-> x, uses |-> r.uses,
              exports |-> r.exports, leaks |-> r.leaks, matches |-> r.matches]
        OBVIOUS
    <2> QED
        BY <2>1, <1>w
<1> QED
    BY <1>1, <1>2, <1>3, <1>4, <1>5, <1>6

\* With one file edited, a tree is a tree.
LEMMA TreeEdits ==
    ASSUME SourceTree(tree), NEW f \in DOMAIN tree, NEW new, SourceFile(new), new.dir = tree[f].dir,
           \A p \in DOMAIN new.uses : p.file = NoFile \/ (p.file \in DOMAIN tree /\ p.dir = tree[p.file].dir)
    PROVE  SourceTree(Rewritten(f, new))
    BY DEF SourceTree, Rewritten

-----------------------------------------------------------------------------
(* Rules: what a removal leaves                                              *)

\* What a removal leaves is a part of what there was.
Part(n, r) ==
    /\ n.dir = r.dir /\ n.class = r.class
    /\ DOMAIN n.uses \subseteq DOMAIN r.uses /\ \A t \in DOMAIN n.uses : n.uses[t] = r.uses[t]
    /\ n.exports \subseteq r.exports /\ n.leaks \subseteq r.leaks /\ n.matches \subseteq r.matches
Less ==
    /\ code' = code
    /\ DOMAIN tree' \subseteq DOMAIN tree
    /\ \A f \in DOMAIN tree' : Part(tree'[f], tree[f])

\* A file edited in place leaves the other files, and the places there are.
LEMMA InPlace ==
    ASSUME RulesInv, NEW f \in DOMAIN tree, NEW n, SourceFile(n), n.dir = tree[f].dir,
           \A p \in DOMAIN n.uses : p.file = NoFile \/ (p.file \in DOMAIN tree /\ p.dir = tree[p.file].dir),
           Change(Rewritten(f, n))
    PROVE  /\ RulesInv'
           /\ code' = code /\ DOMAIN tree' = DOMAIN tree /\ tree'[f] = n
           /\ \A g \in DOMAIN tree \ {f} : tree'[g] = tree[g]
<1>1. code' = code /\ code # NoCode /\ tree' = Rewritten(f, n)
    BY DEF Change
<1>2. SourceTree(tree) /\ code \in Codebases /\ \A r \in code.rules : ValidRule(r, code.rules)
    BY <1>1 DEF RulesInv
<1>3. SourceTree(Rewritten(f, n))
    BY <1>2, TreeEdits
<1>4. DOMAIN tree' = DOMAIN tree /\ tree'[f] = n /\ \A g \in DOMAIN tree \ {f} : tree'[g] = tree[g]
    BY <1>1, <1>2 DEF Rewritten, SourceTree
<1> QED
    BY <1>1, <1>2, <1>3, <1>4 DEF RulesInv

LEMMA PartIsLess ==
    ASSUME RulesInv, NEW f \in DOMAIN tree, NEW n, Change(Rewritten(f, n)), SourceFile(n), Part(n, tree[f])
    PROVE  Less /\ RulesInv'
<1>1. \A p \in DOMAIN n.uses : p.file = NoFile \/ (p.file \in DOMAIN tree /\ p.dir = tree[p.file].dir)
    BY DEF RulesInv, SourceTree, Part
<1>2. /\ RulesInv'
      /\ code' = code /\ DOMAIN tree' = DOMAIN tree /\ tree'[f] = n
      /\ \A g \in DOMAIN tree \ {f} : tree'[g] = tree[g]
    BY <1>1, InPlace DEF Part
<1> QED
    BY <1>2 DEF Less, Part

LEMMA UnexportIsLess ==
    ASSUME RulesInv, NEW f \in DOMAIN tree, Unexport(f)
    PROVE  Less /\ RulesInv'
<1>1. SourceFile(tree[f])
    BY DEF RulesInv, SourceTree
<1>2. tree[f].exports \subseteq Exports /\ tree[f].leaks \subseteq Externals /\ tree[f].matches \subseteq Patterns
    BY <1>1 DEF SourceFile
<1>3. CASE \E x \in tree[f].exports : Change(Rewritten(f, [tree[f] EXCEPT !.exports = @ \ {x}]))
    <2>1. PICK x \in tree[f].exports : Change(Rewritten(f, [tree[f] EXCEPT !.exports = tree[f].exports \ {x}]))
        BY <1>3
    <2>2. tree[f].exports \ {x} \in SUBSET Exports
        BY <1>2
    <2>3. PICK n : n = [tree[f] EXCEPT !.exports = tree[f].exports \ {x}]
        OBVIOUS
    <2>4. FileWith(n, tree[f].dir, tree[f].class, tree[f].uses, tree[f].exports \ {x}, tree[f].leaks, tree[f].matches)
        BY <1>1, <2>2, <2>3, FileEdits
    <2>5. SourceFile(n) /\ Part(n, tree[f])
        BY <2>4 DEF FileWith, Part
    <2> QED
        BY <2>1, <2>3, <2>5, PartIsLess
<1>4. CASE \E x \in tree[f].matches : Change(Rewritten(f, [tree[f] EXCEPT !.matches = @ \ {x}]))
    <2>1. PICK x \in tree[f].matches : Change(Rewritten(f, [tree[f] EXCEPT !.matches = tree[f].matches \ {x}]))
        BY <1>4
    <2>2. tree[f].matches \ {x} \in SUBSET Patterns
        BY <1>2
    <2>3. PICK n : n = [tree[f] EXCEPT !.matches = tree[f].matches \ {x}]
        OBVIOUS
    <2>4. FileWith(n, tree[f].dir, tree[f].class, tree[f].uses, tree[f].exports, tree[f].leaks, tree[f].matches \ {x})
        BY <1>1, <2>2, <2>3, FileEdits
    <2>5. SourceFile(n) /\ Part(n, tree[f])
        BY <2>4 DEF FileWith, Part
    <2> QED
        BY <2>1, <2>3, <2>5, PartIsLess
<1>5. CASE \E x \in tree[f].leaks : Change(Rewritten(f, [tree[f] EXCEPT !.leaks = @ \ {x}]))
    <2>1. PICK x \in tree[f].leaks : Change(Rewritten(f, [tree[f] EXCEPT !.leaks = tree[f].leaks \ {x}]))
        BY <1>5
    <2>2. tree[f].leaks \ {x} \in SUBSET Externals
        BY <1>2
    <2>3. PICK n : n = [tree[f] EXCEPT !.leaks = tree[f].leaks \ {x}]
        OBVIOUS
    <2>4. FileWith(n, tree[f].dir, tree[f].class, tree[f].uses, tree[f].exports, tree[f].leaks \ {x}, tree[f].matches)
        BY <1>1, <2>2, <2>3, FileEdits
    <2>5. SourceFile(n) /\ Part(n, tree[f])
        BY <2>4 DEF FileWith, Part
    <2> QED
        BY <2>1, <2>3, <2>5, PartIsLess
<1> QED
    BY <1>3, <1>4, <1>5 DEF Unexport

LEMMA DropIsLess ==
    ASSUME RulesInv, NEW f \in DOMAIN tree, NEW t \in DOMAIN tree[f].uses, Drop(f, t)
    PROVE  Less /\ RulesInv'
<1>1. SourceFile(tree[f])
    BY DEF RulesInv, SourceTree
<1>2. PICK u : u = [x \in DOMAIN tree[f].uses \ {t} |-> tree[f].uses[x]]
    OBVIOUS
<1>3. UsesOfPlaces(u) /\ DOMAIN u \subseteq DOMAIN tree[f].uses /\ \A x \in DOMAIN u : u[x] = tree[f].uses[x]
    BY <1>1, <1>2 DEF SourceFile, UsesOfPlaces
<1>4. PICK n : n = [tree[f] EXCEPT !.uses = u]
    OBVIOUS
<1>5. FileWith(n, tree[f].dir, tree[f].class, u, tree[f].exports, tree[f].leaks, tree[f].matches)
    BY <1>1, <1>3, <1>4, FileEdits
<1>6. SourceFile(n) /\ Part(n, tree[f])
    BY <1>3, <1>5 DEF FileWith, Part
<1>7. Change(Rewritten(f, n))
    BY <1>2, <1>4 DEF Drop
<1> QED
    BY <1>6, <1>7, PartIsLess

LEMMA DeleteIsLess ==
    ASSUME RulesInv, NEW f \in DOMAIN tree, Delete(f)
    PROVE  Less /\ RulesInv'
<1>1. /\ code' = code /\ code # NoCode /\ tree' = [g \in DOMAIN tree \ {f} |-> tree[g]]
      /\ \A g \in DOMAIN tree : Node(f) \notin DOMAIN tree[g].uses
    BY DEF Delete, Change
<1>2. SourceTree(tree) /\ code \in Codebases /\ \A r \in code.rules : ValidRule(r, code.rules)
    BY <1>1 DEF RulesInv
<1>3. DOMAIN tree' = DOMAIN tree \ {f} /\ \A g \in DOMAIN tree \ {f} : tree'[g] = tree[g]
    BY <1>1
<1>4. ASSUME NEW g \in DOMAIN tree \ {f}, NEW p \in DOMAIN tree[g].uses, p.file # NoFile
      PROVE  p.file \in DOMAIN tree' /\ p.dir = tree'[p.file].dir
    <2>1. p.file \in DOMAIN tree /\ p.dir = tree[p.file].dir /\ p \in Places
        BY <1>2, <1>4 DEF SourceTree, SourceFile
    <2>2. p = [dir |-> p.dir, file |-> p.file]
        BY <2>1 DEF Places
    <2>3. p.file # f
        BY <1>1, <2>1, <2>2 DEF Node
    <2> QED
        BY <1>3, <2>1, <2>3
<1>5. SourceTree(tree')
    <2>1. tree' = [g \in DOMAIN tree' |-> tree'[g]]
        BY <1>1
    <2>2. DOMAIN tree' \subseteq SourceFiles /\ \A g \in DOMAIN tree' : SourceFile(tree'[g])
        BY <1>2, <1>3 DEF SourceTree
    <2>3. \A g \in DOMAIN tree' : \A p \in DOMAIN tree'[g].uses :
            p.file = NoFile \/ (p.file \in DOMAIN tree' /\ p.dir = tree'[p.file].dir)
        BY <1>3, <1>4
    <2> QED
        BY <2>1, <2>2, <2>3 DEF SourceTree
<1>6. Less
    BY <1>1, <1>3 DEF Less, Part
<1> QED
    BY <1>1, <1>2, <1>5, <1>6 DEF RulesInv

-----------------------------------------------------------------------------
(* Rules: the findings of less                                               *)

\* The edges of a tree, one by one.
LEMMA EdgesAre ==
    /\ \A e : e \in Edges <=>
         \E f \in DOMAIN tree : \E t \in DOMAIN tree[f].uses :
           e = [from |-> Node(f), to |-> t, use |-> tree[f].uses[t], class |-> tree[f].class,
                fromModule |-> DeclaredModule(Node(f)), toModule |-> DeclaredModule(t)]
    BY DEF Edges

LEMMA EdgesThen ==
    \A e : e \in Edges' <=>
         \E f \in DOMAIN tree' : \E t \in DOMAIN tree'[f].uses :
           e = [from |-> Node(f)', to |-> t, use |-> tree'[f].uses[t], class |-> tree'[f].class,
                fromModule |-> DeclaredModule(Node(f))', toModule |-> DeclaredModule(t)']
    BY DEF Edges

\* The module of a file after a step, by the config before it.
LEMMA ModuleThen ==
    ASSUME code' = code, NEW f
    PROVE  /\ Node(f)' = [dir |-> tree'[f].dir, file |-> f]
           /\ DeclaredModule(Node(f))' = DeclaredModule([dir |-> tree'[f].dir, file |-> f])
<1>1. Node(f)' = [dir |-> tree'[f].dir, file |-> f]
    BY DEF Node
<1>2. PICK n : n = Node(f)'
    OBVIOUS
<1>3. DeclaredModule(Node(f))' = DeclaredModule(n)'
    BY <1>2
<1>4. DeclaredModule(n)' = DeclaredModule(n)
    BY SameOwners
<1> QED
    BY <1>1, <1>2, <1>3, <1>4

LEMMA EdgesArePlaced ==
    ASSUME SourceTree(tree)
    PROVE  EdgesPlaced(Edges, [p \in Places |-> DeclaredModule(p)])
<1> SUFFICES ASSUME NEW e \in Edges
             PROVE  /\ e.from \in Places /\ e.to \in Places
                    /\ e.fromModule = DeclaredModule(e.from) /\ e.toModule = DeclaredModule(e.to)
    BY DEF EdgesPlaced
<1>1. PICK f \in DOMAIN tree : \E t \in DOMAIN tree[f].uses :
        e = [from |-> Node(f), to |-> t, use |-> tree[f].uses[t], class |-> tree[f].class,
             fromModule |-> DeclaredModule(Node(f)), toModule |-> DeclaredModule(t)]
    BY EdgesAre
<1>2. Node(f) \in Places /\ DOMAIN tree[f].uses \subseteq Places
    BY DEF SourceTree, SourceFile, Node, Places
<1> QED
    BY <1>1, <1>2

LEMMA LessEdges ==
    ASSUME Less
    PROVE  Edges' \subseteq Edges
<1> SUFFICES ASSUME NEW e \in Edges'
             PROVE  e \in Edges
    OBVIOUS
<1>1. PICK f \in DOMAIN tree' : \E t \in DOMAIN tree'[f].uses :
        e = [from |-> Node(f)', to |-> t, use |-> tree'[f].uses[t], class |-> tree'[f].class,
             fromModule |-> DeclaredModule(Node(f))', toModule |-> DeclaredModule(t)']
    BY EdgesThen
<1>2. PICK t \in DOMAIN tree'[f].uses :
        e = [from |-> Node(f)', to |-> t, use |-> tree'[f].uses[t], class |-> tree'[f].class,
             fromModule |-> DeclaredModule(Node(f))', toModule |-> DeclaredModule(t)']
    BY <1>1
<1>3. f \in DOMAIN tree /\ Part(tree'[f], tree[f]) /\ code' = code
    BY DEF Less
<1>4. Node(f)' = Node(f) /\ DeclaredModule(Node(f))' = DeclaredModule(Node(f))
    BY <1>3, ModuleThen DEF Part, Node
<1>5. DeclaredModule(t)' = DeclaredModule(t)
    BY <1>3, SameOwners
<1>6. t \in DOMAIN tree[f].uses /\ tree'[f].uses[t] = tree[f].uses[t] /\ tree'[f].class = tree[f].class
    BY <1>3 DEF Part
<1> QED
    BY <1>2, <1>3, <1>4, <1>5, <1>6, EdgesAre

\* What the rules report, one by one.
LEMMA FindingsAre ==
    \A x : x \in Findings <=> \E r \in code.rules : Gate(r) # "off" /\ \E k \in RuleCheck(r, Edges) :
                                x = [rule |-> r, gates |-> Gate(r) # "warn", key |-> k]
    BY DEF Findings, Gated

LEMMA FindingsThen ==
    \A x : x \in Findings' <=> \E r \in code'.rules : Gate(r) # "off" /\ \E k \in RuleCheck(r, Edges)' :
                                 x = [rule |-> r, gates |-> Gate(r) # "warn", key |-> k]
    BY DEF Findings, Gated

\* What each type of rule checks.
LEMMA Checked ==
    ASSUME NEW r, NEW E
    PROVE  /\ r.type = "forbidden_dependency" => RuleCheck(r, E) =
                IF r.fromModules # {} \/ r.toModules # {} THEN ForbiddenByModule(r, E) ELSE ForbiddenByPath(r, E)
           /\ r.type \in {"public_api_only", "internal_api_access"} => RuleCheck(r, E) = PublicAPIOnly(r, E)
           /\ r.type = "forbidden_layer_direction" => RuleCheck(r, E) = ForbiddenLayerDirection(E)
           /\ r.type = "new_cross_module_dependency" => RuleCheck(r, E) = NewCrossModuleDependency(E)
           /\ r.type = "cycle" => RuleCheck(r, E) = CycleRule(E)
           /\ r.type = "module_cycle" => RuleCheck(r, E) = ModuleCycle(E)
           /\ r.type = "module_dependencies" => RuleCheck(r, E) = ModuleDependencies(E)
           /\ r.type = "public_api_max" => RuleCheck(r, E) = PublicAPIMax(r)
           /\ r.type = "public_api_change" => RuleCheck(r, E) = PublicAPIChange
           /\ r.type = "public_api_type_leak" => RuleCheck(r, E) = PublicAPITypeLeak(E)
           /\ r.type = "forbidden_pattern" => RuleCheck(r, E) = ForbiddenPattern(r)
    BY DEF RuleCheck, InternalAPIAccess

LEMMA CheckedThen ==
    ASSUME NEW r, NEW E
    PROVE  /\ r.type = "forbidden_dependency" => RuleCheck(r, E)' =
                IF r.fromModules # {} \/ r.toModules # {} THEN ForbiddenByModule(r, E) ELSE ForbiddenByPath(r, E)
           /\ r.type \in {"public_api_only", "internal_api_access"} => RuleCheck(r, E)' = PublicAPIOnly(r, E)'
           /\ r.type = "forbidden_layer_direction" => RuleCheck(r, E)' = ForbiddenLayerDirection(E)'
           /\ r.type = "new_cross_module_dependency" => RuleCheck(r, E)' = NewCrossModuleDependency(E)'
           /\ r.type = "cycle" => RuleCheck(r, E)' = CycleRule(E)
           /\ r.type = "module_cycle" => RuleCheck(r, E)' = ModuleCycle(E)
           /\ r.type = "module_dependencies" => RuleCheck(r, E)' = ModuleDependencies(E)'
           /\ r.type = "public_api_max" => RuleCheck(r, E)' = PublicAPIMax(r)'
           /\ r.type = "public_api_change" => RuleCheck(r, E)' = PublicAPIChange'
           /\ r.type = "public_api_type_leak" => RuleCheck(r, E)' = PublicAPITypeLeak(E)'
           /\ r.type = "forbidden_pattern" => RuleCheck(r, E)' = ForbiddenPattern(r)'
    BY DEF RuleCheck, InternalAPIAccess

\* What a module declares is finite, and no more after a removal.
LEMMA LessDeclared ==
    ASSUME Less, SourceTree(tree), NEW m
    PROVE  /\ IsFiniteSet(DeclaredBy(m)) /\ DeclaredBy(m)' \subseteq DeclaredBy(m)
           /\ Cardinality(DeclaredBy(m))' \in Nat /\ Cardinality(DeclaredBy(m)) \in Nat
           /\ Cardinality(DeclaredBy(m))' <= Cardinality(DeclaredBy(m))
<1>1. DeclaredBy(m) \subseteq SourceFiles \X Exports
    BY DEF DeclaredBy, SourceTree
<1>2. IsFiniteSet(SourceFiles \X Exports)
    BY RulesAssumption, FS_Product
<1>3. DeclaredBy(m)' \subseteq DeclaredBy(m)
    <2> SUFFICES ASSUME NEW x \in DeclaredBy(m)'
                 PROVE  x \in DeclaredBy(m)
        OBVIOUS
    <2>1. /\ x \in (DOMAIN tree') \X Exports
          /\ x[2] \in tree'[x[1]].exports /\ DeclaredModule(Node(x[1]))' = m
        BY DEF DeclaredBy
    <2>2. x[1] \in DOMAIN tree /\ code' = code /\ Part(tree'[x[1]], tree[x[1]])
        BY <2>1 DEF Less
    <2>3. DeclaredModule(Node(x[1]))' = DeclaredModule(Node(x[1]))
        BY <2>2, ModuleThen DEF Part, Node
    <2> QED
        BY <2>1, <2>2, <2>3 DEF DeclaredBy, Part
<1>4. IsFiniteSet(DeclaredBy(m))
    BY <1>1, <1>2, FS_Subset
<1> QED
    BY <1>3, <1>4, FS_Subset, FS_CardinalityType

LEMMA LessOfFiles ==
    ASSUME Less, SourceTree(tree), NEW r, r.type = "public_api_max" => r.max \in Int,
           NEW E, NEW F, F \subseteq E
    PROVE  /\ r.type = "public_api_max" => PublicAPIMax(r)' \subseteq PublicAPIMax(r)
           /\ PublicAPIChange' \subseteq PublicAPIChange
           /\ PublicAPITypeLeak(F)' \subseteq PublicAPITypeLeak(E)
           /\ ForbiddenPattern(r)' \subseteq ForbiddenPattern(r)
<1>1. \A f \in DOMAIN tree' : /\ f \in DOMAIN tree /\ Part(tree'[f], tree[f])
                              /\ Node(f)' = Node(f) /\ DeclaredModule(Node(f))' = DeclaredModule(Node(f))
    BY ModuleThen DEF Less, Part, Node
<1>2. r.type = "public_api_max" => PublicAPIMax(r)' \subseteq PublicAPIMax(r)
    <2> SUFFICES ASSUME r.type = "public_api_max", NEW k \in PublicAPIMax(r)'
                 PROVE  k \in PublicAPIMax(r)
        OBVIOUS
    <2>1. PICK m \in Modules : Cardinality(DeclaredBy(m))' > r.max /\ k = DeclarationKey(m, m)
        BY DEF PublicAPIMax
    <2>2. PICK C, D : C = Cardinality(DeclaredBy(m))' /\ D = Cardinality(DeclaredBy(m))
        OBVIOUS
    <2>3. C \in Nat /\ D \in Nat /\ C <= D
        BY <2>2, LessDeclared
    <2>4. C > r.max
        BY <2>1, <2>2
    <2>5. Cardinality(DeclaredBy(m)) > r.max
        BY <2>2, <2>3, <2>4
    <2> QED
        BY <2>1, <2>5 DEF PublicAPIMax
<1>3. PublicAPIChange' \subseteq PublicAPIChange
    <2> SUFFICES ASSUME NEW k \in PublicAPIChange'
                 PROVE  k \in PublicAPIChange
        OBVIOUS
    <2>1. PICK f \in DOMAIN tree' : /\ DeclaredModule(Node(f))' # Nobody
                                   /\ k \in {DeclarationKey(DeclaredModule(Node(f))', n) : n \in tree'[f].exports}
        BY DEF PublicAPIChange
    <2>2. f \in DOMAIN tree /\ DeclaredModule(Node(f)) # Nobody
          /\ k \in {DeclarationKey(DeclaredModule(Node(f)), n) : n \in tree[f].exports}
        BY <1>1, <2>1 DEF Part
    <2> QED
        BY <2>2 DEF PublicAPIChange
<1>4. ExternalPackages(F) \subseteq ExternalPackages(E)
    BY MoreEdges
<1>5. PublicAPITypeLeak(F)' \subseteq PublicAPITypeLeak(E)
    <2> SUFFICES ASSUME NEW k \in PublicAPITypeLeak(F)'
                 PROVE  k \in PublicAPITypeLeak(E)
        OBVIOUS
    <2> DEFINE Key(f) == IF DeclaredModule(Node(f)) = Nobody THEN Node(f) ELSE DeclaredModule(Node(f))
    <2>1. PICK f \in DOMAIN tree' : k \in {DeclarationKey(Key(f)', x) : x \in tree'[f].leaks \cap ExternalPackages(F)}
        BY DEF PublicAPITypeLeak
    <2>2. Key(f)' = Key(f) /\ f \in DOMAIN tree /\ tree'[f].leaks \subseteq tree[f].leaks
        BY <1>1 DEF Part
    <2> HIDE DEF Key
    <2>3. k \in {DeclarationKey(Key(f), x) : x \in tree[f].leaks \cap ExternalPackages(E)}
        BY <1>4, <2>1, <2>2
    <2> QED
        BY <2>2, <2>3 DEF PublicAPITypeLeak, Key
<1>6. ForbiddenPattern(r)' \subseteq ForbiddenPattern(r)
    BY <1>1 DEF ForbiddenPattern, Part
<1> QED
    BY <1>2, <1>3, <1>5, <1>6

LEMMA LessKeys ==
    ASSUME Less, SourceTree(tree), NEW r, r.type \in RuleTypes, r.type = "public_api_max" => r.max \in Int,
           NEW k \in RuleCheck(r, Edges)'
    PROVE  \/ k \in RuleCheck(r, Edges)
           \/ r.type \in {"cycle", "module_cycle"} /\ \E l \in RuleCheck(r, Edges) : k[1] \subseteq l[1] /\ k[2] = l[2]
<1>1. PICK E, F : E = Edges /\ F = Edges'
    OBVIOUS
<1>2. F \subseteq E
    BY <1>1, LessEdges
<1>3. RuleCheck(r, Edges)' = RuleCheck(r, F)' /\ RuleCheck(r, Edges) = RuleCheck(r, E)
    BY <1>1
<1>4. PICK g : EdgesPlaced(E, g)
    BY <1>1, EdgesArePlaced
<1>5. /\ ForbiddenByPath(r, F) \subseteq ForbiddenByPath(r, E) /\ ForbiddenByModule(r, F) \subseteq ForbiddenByModule(r, E)
      /\ PublicAPIOnly(r, F) \subseteq PublicAPIOnly(r, E) /\ ForbiddenLayerDirection(F) \subseteq ForbiddenLayerDirection(E)
      /\ NewCrossModuleDependency(F) \subseteq NewCrossModuleDependency(E)
      /\ ModuleDependencies(F) \subseteq ModuleDependencies(E) /\ ModuleEdges(F) \subseteq ModuleEdges(E)
    BY <1>2, MoreEdges
<1>6. /\ PublicAPIOnly(r, F)' = PublicAPIOnly(r, F) /\ ForbiddenLayerDirection(F)' = ForbiddenLayerDirection(F)
      /\ NewCrossModuleDependency(F)' = NewCrossModuleDependency(F) /\ ModuleDependencies(F)' = ModuleDependencies(F)
    BY SameEdgeRules DEF Less
<1>7. /\ r.type = "public_api_max" => PublicAPIMax(r)' \subseteq PublicAPIMax(r)
      /\ PublicAPIChange' \subseteq PublicAPIChange
      /\ PublicAPITypeLeak(F)' \subseteq PublicAPITypeLeak(E)
      /\ ForbiddenPattern(r)' \subseteq ForbiddenPattern(r)
    BY <1>2, LessOfFiles
<1>8. CASE r.type = "cycle"
    <2>1. k \in CycleRule(F) /\ RuleCheck(r, E) = CycleRule(E)
        BY <1>3, <1>8, Checked, CheckedThen
    <2> QED
        BY <1>2, <1>3, <1>4, <1>8, <2>1, CyclesGrow
<1>9. CASE r.type = "module_cycle"
    <2>1. k \in ModuleCycle(F) /\ RuleCheck(r, E) = ModuleCycle(E)
        BY <1>3, <1>9, Checked, CheckedThen
    <2> QED
        BY <1>3, <1>4, <1>5, <1>9, <2>1, ModuleCyclesGrow
<1>10. CASE r.type \notin {"cycle", "module_cycle"}
    <2>1. RuleCheck(r, F)' \subseteq RuleCheck(r, E)
        BY <1>5, <1>6, <1>7, <1>10, Checked, CheckedThen DEF RuleTypes
    <2> QED
        BY <1>3, <2>1
<1> QED
    BY <1>8, <1>9, <1>10

\* What is reported after a removal was reported before, or was part of a larger cycle.
LEMMA RemovalAdds ==
    ASSUME RulesInv, code # NoCode, Less
    PROVE  Beyond(Findings', Findings) = {}
<1> SUFFICES ASSUME NEW x \in Findings'
             PROVE  x \in Findings \/ (Cyclic(x) /\ \E y \in Findings : Within(x, y))
    BY DEF Beyond
<1>1. PICK r \in code'.rules : Gate(r) # "off" /\ \E k \in RuleCheck(r, Edges)' :
                                 x = [rule |-> r, gates |-> Gate(r) # "warn", key |-> k]
    BY FindingsThen
<1>2. PICK k \in RuleCheck(r, Edges)' : x = [rule |-> r, gates |-> Gate(r) # "warn", key |-> k]
    BY <1>1
<1>3. /\ r \in code.rules /\ SourceTree(tree) /\ r.type \in RuleTypes /\ (r.type = "public_api_max" => r.max \in Int)
    <2>1. code \in Codebases /\ SourceTree(tree) /\ code' = code
        BY DEF RulesInv, Less
    <2> QED
        BY <2>1, RulesAssumption
<1>4. CASE k \in RuleCheck(r, Edges)
    BY <1>1, <1>2, <1>3, <1>4, FindingsAre
<1>5. CASE r.type \in {"cycle", "module_cycle"} /\ \E l \in RuleCheck(r, Edges) : k[1] \subseteq l[1] /\ k[2] = l[2]
    <2>1. PICK l \in RuleCheck(r, Edges) : k[1] \subseteq l[1] /\ k[2] = l[2]
        BY <1>5
    <2>2. [rule |-> r, gates |-> Gate(r) # "warn", key |-> l] \in Findings
        BY <1>1, <1>3, FindingsAre
    <2> QED
        BY <1>2, <1>5, <2>1, <2>2 DEF Cyclic, Within
<1> QED
    BY <1>3, <1>4, <1>5, LessKeys

-----------------------------------------------------------------------------
(* Rules: edges that stand for others                                        *)

\* d stands for e: between the same modules, if not from a file nobody owns.
Stands(d, e) ==
    /\ d.use = e.use /\ d.fromModule = e.fromModule /\ d.toModule = e.toModule
    /\ ProductionSource(e) => ProductionSource(d)
    /\ e.fromModule = Nobody => d.from.dir = e.from.dir
Carried(E, F) == \A e \in E : \E d \in F : Stands(d, e)

\* Edges that stand for others give each finding between modules of theirs.
LEMMA CarriedKeys ==
    ASSUME NEW E, NEW F, Carried(E, F), NEW r
    PROVE  /\ ModuleEdges(E) \subseteq ModuleEdges(F)
           /\ ModuleDependencies(E) \subseteq ModuleDependencies(F)
           /\ r.fromModules # {} /\ r.toModules # {} => ForbiddenByModule(r, E) \subseteq ForbiddenByModule(r, F)
<1>1. \A e \in DependencyEdges(E) : \E d \in DependencyEdges(F) : Stands(d, e)
    BY DEF DependencyEdges, Carried, Stands
<1>2. ASSUME NEW k \in ModuleEdges(E)
      PROVE  k \in ModuleEdges(F)
    <2>1. PICK e \in DependencyEdges(E) :
            /\ k = <<e.fromModule, e.toModule>>
            /\ ProductionSource(e) /\ Nobody \notin {e.fromModule, e.toModule} /\ e.fromModule # e.toModule
        BY DEF ModuleEdges
    <2>2. PICK d \in DependencyEdges(F) : Stands(d, e)
        BY <1>1
    <2> QED
        BY <2>1, <2>2 DEF ModuleEdges, Stands
<1>3. ASSUME NEW k \in ModuleDependencies(E)
      PROVE  k \in ModuleDependencies(F)
    <2> DEFINE Key(e) == <<{IF e.fromModule = Nobody THEN ImportingPackage(e) ELSE e.fromModule},
                           {e.toModule}, "module_dependency">>
               Denied(e) == /\ e.toModule # Nobody /\ ProductionSource(e)
                            /\ DeniedDependency(e.fromModule, e.toModule) # {}
    <2>1. PICK e \in DependencyEdges(E) : k = Key(e) /\ Denied(e)
        BY DEF ModuleDependencies
    <2>2. PICK d \in DependencyEdges(F) : Stands(d, e)
        BY <1>1
    <2>3. Denied(d)
        BY <2>1, <2>2 DEF Stands
    <2>4. Key(d) = Key(e)
        BY <2>2 DEF Stands, ImportingPackage
    <2> QED
        BY <2>1, <2>3, <2>4 DEF ModuleDependencies
<1>4. ASSUME r.fromModules # {}, r.toModules # {}, NEW k \in ForbiddenByModule(r, E)
      PROVE  k \in ForbiddenByModule(r, F)
    <2> DEFINE Key(e) == <<{e.fromModule}, {e.toModule}, "module_dependency">>
    <2>1. \A e : <<EndKey(e.fromModule, r.fromModules # {}, ImportingPackage(e)),
                   EndKey(e.toModule, r.toModules # {}, e.to), "module_dependency">> = Key(e)
        BY <1>4 DEF EndKey
    <2>2. PICK e \in DependencyEdges(E) : k = Key(e) /\ Selects(r, e)
        BY <2>1 DEF ForbiddenByModule
    <2>3. PICK d \in DependencyEdges(F) : Stands(d, e)
        BY <1>1
    <2>4. Selects(r, d) /\ Key(d) = Key(e)
        BY <1>4, <2>2, <2>3 DEF Selects, Stands
    <2> QED
        BY <2>1, <2>2, <2>4 DEF ForbiddenByModule
<1> QED
    BY <1>2, <1>3, <1>4

\* What the rules between modules say of the files: who owns each, and what it exports.
SameFiles ==
    /\ code' = code /\ DOMAIN tree' = DOMAIN tree
    /\ \A f \in DOMAIN tree : /\ tree'[f].exports = tree[f].exports
                              /\ DeclaredModule(Node(f))' = DeclaredModule(Node(f))

LEMMA SameDeclarations ==
    ASSUME SameFiles, NEW r
    PROVE  PublicAPIMax(r)' = PublicAPIMax(r) /\ PublicAPIChange' = PublicAPIChange
<1>1. \A m : DeclaredBy(m)' = DeclaredBy(m)
    BY DEF SameFiles, DeclaredBy
<1>2. PublicAPIMax(r)' = PublicAPIMax(r)
    BY <1>1 DEF PublicAPIMax
<1>3. PublicAPIChange' = PublicAPIChange
    <2> DEFINE Keys(f) == {DeclarationKey(DeclaredModule(Node(f)), n) : n \in tree[f].exports}
               OwnedFiles == {g \in DOMAIN tree : DeclaredModule(Node(g)) # Nobody}
    <2>1. OwnedFiles' = OwnedFiles
        BY DEF SameFiles
    <2>2. \A f \in OwnedFiles : Keys(f)' = Keys(f)
        BY DEF SameFiles
    <2>3. PublicAPIChange = UNION {Keys(f) : f \in OwnedFiles} /\ PublicAPIChange' = UNION {Keys(f)' : f \in OwnedFiles'}
        BY DEF PublicAPIChange
    <2> HIDE DEF Keys, OwnedFiles
    <2> QED
        BY <2>1, <2>2, <2>3
<1> QED
    BY <1>2, <1>3

\* The rules whose findings are between modules.
BetweenRule(r) ==
    \/ r.type \in {"module_cycle", "module_dependencies", "public_api_change", "public_api_max"}
    \/ r.type = "forbidden_dependency" /\ r.fromModules # {} /\ r.toModules # {}

\* What such a rule reports stays, but for cycles when there are more edges.
LEMMA CarriedChecks ==
    ASSUME SameFiles, NEW E, NEW F, Carried(E, F), NEW r, BetweenRule(r), r.type # "module_cycle"
    PROVE  RuleCheck(r, E) \subseteq RuleCheck(r, F)'
<1>1. /\ ModuleDependencies(E) \subseteq ModuleDependencies(F)
      /\ r.fromModules # {} /\ r.toModules # {} => ForbiddenByModule(r, E) \subseteq ForbiddenByModule(r, F)
    BY CarriedKeys
<1>2. ModuleDependencies(F)' = ModuleDependencies(F)
    BY SameEdgeRules DEF SameFiles
<1>3. PublicAPIMax(r)' = PublicAPIMax(r) /\ PublicAPIChange' = PublicAPIChange
    BY SameDeclarations
<1>4. CASE r.type = "forbidden_dependency" /\ r.fromModules # {} /\ r.toModules # {}
    BY <1>1, <1>4, Checked, CheckedThen
<1>5. CASE r.type \in {"module_dependencies", "public_api_change", "public_api_max"}
    BY <1>1, <1>2, <1>3, <1>5, Checked, CheckedThen
<1> QED
    BY <1>4, <1>5 DEF BetweenRule

LEMMA CarriedBack ==
    ASSUME SameFiles, NEW E, NEW F, Carried(F, E), NEW r, BetweenRule(r), r.type # "module_cycle"
    PROVE  RuleCheck(r, F)' \subseteq RuleCheck(r, E)
<1>1. /\ ModuleDependencies(F) \subseteq ModuleDependencies(E)
      /\ r.fromModules # {} /\ r.toModules # {} => ForbiddenByModule(r, F) \subseteq ForbiddenByModule(r, E)
    BY CarriedKeys
<1>2. ModuleDependencies(F)' = ModuleDependencies(F)
    BY SameEdgeRules DEF SameFiles
<1>3. PublicAPIMax(r)' = PublicAPIMax(r) /\ PublicAPIChange' = PublicAPIChange
    BY SameDeclarations
<1>4. CASE r.type = "forbidden_dependency" /\ r.fromModules # {} /\ r.toModules # {}
    BY <1>1, <1>4, Checked, CheckedThen
<1>5. CASE r.type \in {"module_dependencies", "public_api_change", "public_api_max"}
    BY <1>1, <1>2, <1>3, <1>5, Checked, CheckedThen
<1> QED
    BY <1>4, <1>5 DEF BetweenRule

-----------------------------------------------------------------------------
(* Rules: a file that moves                                                  *)

\* Where a file moves, no other is: the uses follow one by one.
LEMMA FollowedOne ==
    ASSUME SourceTree(tree), NEW f \in DOMAIN tree, NEW g \in DOMAIN tree, NEW p \in Packages, tree[f].dir # p
    PROVE  LET u == Followed(f, p, tree[g].uses)
           IN  /\ UsesOfPlaces(u)
               /\ DOMAIN u = {Moved(f, p, t) : t \in DOMAIN tree[g].uses}
               /\ \A t \in DOMAIN tree[g].uses : u[Moved(f, p, t)] = tree[g].uses[t]
<1> DEFINE D == DOMAIN tree[g].uses
           u == Followed(f, p, tree[g].uses)
<1>1. /\ D \subseteq Places /\ \A t \in D : tree[g].uses[t] \in Uses
      /\ \A t \in D : t.file = NoFile \/ (t.file \in DOMAIN tree /\ t.dir = tree[t.file].dir)
      /\ f \in SourceFiles /\ f # NoFile
    BY RulesAssumption DEF SourceTree, SourceFile
<1>2. \A t \in D : t = [dir |-> t.dir, file |-> t.file]
    BY <1>1 DEF Places
<1>3. \A t \in D : t.file = f => t = Node(f)
    BY <1>1, <1>2 DEF Node
<1>4. \A t \in D : /\ t = Node(f) => Moved(f, p, t) = [dir |-> p, file |-> f]
                   /\ t # Node(f) => Moved(f, p, t) = t
    BY DEF Moved, Node
<1>5. \A s, t \in D : Moved(f, p, s) = Moved(f, p, t) => s = t
    BY <1>3, <1>4
<1>6. \A t \in D : Moved(f, p, t) \in Places
    BY <1>1, <1>4 DEF Places
<1>7. DOMAIN u = {Moved(f, p, t) : t \in D} /\ u = [x \in DOMAIN u |-> u[x]]
    BY DEF Followed
<1>8. ASSUME NEW t \in D
      PROVE  u[Moved(f, p, t)] = tree[g].uses[t]
    <2>1. PICK x : x = Moved(f, p, t)
        OBVIOUS
    <2>2. u[x] = tree[g].uses[CHOOSE s \in D : Moved(f, p, s) = x]
        BY <2>1 DEF Followed
    <2>3. \A s \in D : Moved(f, p, s) = x <=> s = t
        BY <1>5, <2>1
    <2>4. (CHOOSE s \in D : Moved(f, p, s) = x) = t
        BY <2>3
    <2> QED
        BY <2>1, <2>2, <2>4
<1>9. UsesOfPlaces(u)
    BY <1>1, <1>6, <1>7, <1>8 DEF UsesOfPlaces
<1> QED
    BY <1>7, <1>8, <1>9

\* A move keeps the tree a tree, and each file but for where it is and whom it uses.
LEMMA MoveKeeps ==
    ASSUME RulesInv, NEW f \in DOMAIN tree, NEW p \in Packages, Move(f, p)
    PROVE  /\ RulesInv' /\ code' = code /\ code # NoCode /\ tree[f].dir # p /\ DOMAIN tree' = DOMAIN tree
           /\ \A g \in DOMAIN tree :
                FileWith(tree'[g], IF g = f THEN p ELSE tree[g].dir, tree[g].class,
                         Followed(f, p, tree[g].uses), tree[g].exports, tree[g].leaks, tree[g].matches)
<1>1. /\ code' = code /\ code # NoCode /\ tree[f].dir # p
      /\ tree' = [g \in DOMAIN tree |->
                    [tree[g] EXCEPT !.dir = IF g = f THEN p ELSE tree[g].dir,
                                    !.uses = Followed(f, p, tree[g].uses)]]
    BY DEF Move, Change
<1>2. SourceTree(tree) /\ code \in Codebases /\ \A r \in code.rules : ValidRule(r, code.rules)
    BY <1>1 DEF RulesInv
<1>3. DOMAIN tree' = DOMAIN tree /\ tree' = [g \in DOMAIN tree' |-> tree'[g]]
    BY <1>1
<1>4. ASSUME NEW g \in DOMAIN tree
      PROVE  FileWith(tree'[g], IF g = f THEN p ELSE tree[g].dir, tree[g].class,
                      Followed(f, p, tree[g].uses), tree[g].exports, tree[g].leaks, tree[g].matches)
    <2>1. PICK d, u : d = (IF g = f THEN p ELSE tree[g].dir) /\ u = Followed(f, p, tree[g].uses)
        OBVIOUS
    <2>2. SourceFile(tree[g]) /\ d \in Packages
        BY <1>2, <2>1 DEF SourceTree, SourceFile
    <2>3. UsesOfPlaces(u)
        BY <1>1, <1>2, <2>1, FollowedOne
    <2>4. tree'[g] = [tree[g] EXCEPT !.dir = d, !.uses = u]
        BY <1>1, <2>1
    <2>5. FileWith([tree[g] EXCEPT !.dir = d, !.uses = u], d, tree[g].class, u,
                   tree[g].exports, tree[g].leaks, tree[g].matches)
        BY <2>2, <2>3, FileEdits
    <2> QED
        BY <2>1, <2>4, <2>5
<1>5. ASSUME NEW g \in DOMAIN tree', NEW x \in DOMAIN tree'[g].uses, x.file # NoFile
      PROVE  x.file \in DOMAIN tree' /\ x.dir = tree'[x.file].dir
    <2>1. tree'[g].uses = Followed(f, p, tree[g].uses)
        BY <1>3, <1>4 DEF FileWith
    <2>a. DOMAIN Followed(f, p, tree[g].uses) = {Moved(f, p, t) : t \in DOMAIN tree[g].uses}
        BY DEF Followed
    <2>2. PICK t \in DOMAIN tree[g].uses : x = Moved(f, p, t)
        BY <1>5, <2>1, <2>a
    <2>3. t \in Places /\ (t.file = NoFile \/ (t.file \in DOMAIN tree /\ t.dir = tree[t.file].dir))
        BY <1>2, <1>3 DEF SourceTree, SourceFile
    <2>4. t = [dir |-> t.dir, file |-> t.file]
        BY <2>3 DEF Places
    <2>5. CASE t = Node(f)
        <3>1. x = [dir |-> p, file |-> f]
            BY <2>2, <2>5 DEF Moved, Node
        <3> QED
            BY <1>3, <1>4, <3>1 DEF FileWith
    <2>6. CASE t # Node(f)
        <3>1. x = t /\ t.file # f
            BY <2>2, <2>3, <2>4, <2>6, <1>5 DEF Moved, Node
        <3> QED
            BY <1>3, <1>4, <1>5, <2>3, <3>1 DEF FileWith
    <2> QED
        BY <2>5, <2>6
<1>6. SourceTree(tree')
    BY <1>2, <1>3, <1>4, <1>5 DEF SourceTree, FileWith
<1> QED
    BY <1>1, <1>2, <1>3, <1>4, <1>6 DEF RulesInv

-----------------------------------------------------------------------------
(* Rules: where a file moves or is lost, an edge stands for each             *)

\* A file moves inside its module: each edge has one that stands for it, both ways.
LEMMA MoveCarries ==
    ASSUME RulesInv, NEW f \in DOMAIN tree, NEW p \in Packages, Move(f, p),
           DeclaredModule(Node(f)) # Nobody,
           DeclaredModule(Node(f)) = DeclaredModule([dir |-> p, file |-> f])
    PROVE  SameFiles /\ Carried(Edges, Edges') /\ Carried(Edges', Edges)
<1>1. SourceTree(tree) /\ code' = code /\ tree[f].dir # p /\ DOMAIN tree' = DOMAIN tree
    BY MoveKeeps DEF RulesInv
<1>2. \A g \in DOMAIN tree :
        /\ tree'[g].dir = (IF g = f THEN p ELSE tree[g].dir)
        /\ tree'[g].class = tree[g].class /\ tree'[g].exports = tree[g].exports
        /\ tree'[g].uses = Followed(f, p, tree[g].uses)
    BY MoveKeeps DEF FileWith
<1>3. \A g \in DOMAIN tree : DeclaredModule(Node(g))' = DeclaredModule(Node(g))
    <2> TAKE g \in DOMAIN tree
    <2>1. DeclaredModule(Node(g))' = DeclaredModule([dir |-> tree'[g].dir, file |-> g])
        BY <1>1, ModuleThen
    <2>2. CASE g = f
        BY <1>2, <2>1, <2>2
    <2>3. CASE g # f
        BY <1>2, <2>1, <2>3 DEF Node
    <2> QED
        BY <2>2, <2>3
<1>4. SameFiles
    BY <1>1, <1>2, <1>3 DEF SameFiles
<1>5. \A t, n : n = Moved(f, p, t) => DeclaredModule(n)' = DeclaredModule(t)
    <2> TAKE t, n
    <2> HAVE n = Moved(f, p, t)
    <2>2. DeclaredModule(n)' = DeclaredModule(n)
        BY <1>1, SameOwners
    <2>3. CASE t = Node(f)
        <3>1. n = [dir |-> p, file |-> f]
            BY <2>3 DEF Moved, Node
        <3> QED
            BY <2>2, <2>3, <3>1
    <2>4. CASE t # Node(f)
        BY <2>2, <2>4 DEF Moved
    <2> QED
        BY <2>3, <2>4
<1> DEFINE Was(g, t) ==
               [from |-> Node(g), to |-> t, use |-> tree[g].uses[t], class |-> tree[g].class,
                fromModule |-> DeclaredModule(Node(g)), toModule |-> DeclaredModule(t)]
           Is(g, n) ==
               [from |-> Node(g)', to |-> n, use |-> tree'[g].uses[n], class |-> tree'[g].class,
                fromModule |-> DeclaredModule(Node(g))', toModule |-> DeclaredModule(n)']
<1>6. ASSUME NEW g \in DOMAIN tree, NEW t \in DOMAIN tree[g].uses, NEW n, n = Moved(f, p, t)
      PROVE  /\ n \in DOMAIN tree'[g].uses
             /\ Stands(Is(g, n), Was(g, t)) /\ Stands(Was(g, t), Is(g, n))
    <2>1. PICK u : u = Followed(f, p, tree[g].uses)
        OBVIOUS
    <2>2. DOMAIN u = {Moved(f, p, s) : s \in DOMAIN tree[g].uses}
          /\ \A s \in DOMAIN tree[g].uses : u[Moved(f, p, s)] = tree[g].uses[s]
        BY <1>1, <2>1, FollowedOne
    <2>3. tree'[g].uses = u /\ n \in DOMAIN u /\ u[n] = tree[g].uses[t]
        BY <1>2, <1>6, <2>1, <2>2
    <2>4. Is(g, n).use = Was(g, t).use /\ Is(g, n).class = Was(g, t).class
        BY <1>2, <2>3
    <2>5. Is(g, n).fromModule = Was(g, t).fromModule /\ Is(g, n).toModule = Was(g, t).toModule
        BY <1>3, <1>5, <1>6
    <2>6. Is(g, n).from.dir = tree'[g].dir /\ Was(g, t).from.dir = tree[g].dir
          /\ Was(g, t).fromModule = DeclaredModule(Node(g))
        BY DEF Node
    <2>7. Was(g, t).fromModule = Nobody => Is(g, n).from.dir = Was(g, t).from.dir
        BY <1>2, <2>6
    <2> HIDE DEF Is, Was
    <2> QED
        BY <2>3, <2>4, <2>5, <2>7 DEF Stands, ProductionSource
<1>7. \A e : e \in Edges <=> \E g \in DOMAIN tree : \E t \in DOMAIN tree[g].uses : e = Was(g, t)
    BY EdgesAre
<1>8. \A e : e \in Edges' <=> \E g \in DOMAIN tree' : \E n \in DOMAIN tree'[g].uses : e = Is(g, n)
    BY EdgesThen
<1> HIDE DEF Was, Is
<1>9. Carried(Edges, Edges')
    <2> SUFFICES ASSUME NEW e \in Edges
                 PROVE  \E d \in Edges' : Stands(d, e)
        BY DEF Carried
    <2>1. PICK g \in DOMAIN tree : \E t \in DOMAIN tree[g].uses : e = Was(g, t)
        BY <1>7
    <2>2. PICK t \in DOMAIN tree[g].uses : e = Was(g, t)
        BY <2>1
    <2>3. PICK n : n = Moved(f, p, t)
        OBVIOUS
    <2>4. n \in DOMAIN tree'[g].uses /\ Stands(Is(g, n), e)
        BY <1>6, <2>2, <2>3
    <2> QED
        BY <1>1, <1>8, <2>4
<1>10. Carried(Edges', Edges)
    <2> SUFFICES ASSUME NEW d \in Edges'
                 PROVE  \E e \in Edges : Stands(e, d)
        BY DEF Carried
    <2>1. PICK g \in DOMAIN tree : \E n \in DOMAIN tree'[g].uses : d = Is(g, n)
        BY <1>1, <1>8
    <2>2. PICK n \in DOMAIN tree'[g].uses : d = Is(g, n)
        BY <2>1
    <2>3. PICK u : u = Followed(f, p, tree[g].uses)
        OBVIOUS
    <2>4. tree'[g].uses = u /\ DOMAIN u = {Moved(f, p, s) : s \in DOMAIN tree[g].uses}
        BY <1>1, <1>2, <2>3, FollowedOne
    <2>5. PICK t \in DOMAIN tree[g].uses : n = Moved(f, p, t)
        BY <2>2, <2>4
    <2>6. Stands(Was(g, t), d)
        BY <1>6, <2>2, <2>5
    <2> QED
        BY <1>7, <2>6
<1> QED
    BY <1>4, <1>9, <1>10

\* A file the walk loses: each edge has one that stands for it.
LEMMA UnwalkCarries ==
    ASSUME RulesInv, NEW f \in DOMAIN tree, Unwalk(f)
    PROVE  RulesInv' /\ code # NoCode /\ SameFiles /\ Carried(Edges, Edges')
<1>1. SourceFile(tree[f]) /\ SourceTree(tree)
    BY DEF RulesInv, SourceTree
<1>2. PICK n : n = [tree[f] EXCEPT !.class = "unknown"]
    OBVIOUS
<1>3. FileWith(n, tree[f].dir, "unknown", tree[f].uses, tree[f].exports, tree[f].leaks, tree[f].matches)
    BY <1>1, <1>2, FileEdits DEF Classes
<1>4. Change(Rewritten(f, n)) /\ code # NoCode
    BY <1>2 DEF Unwalk, Change
<1>5. /\ SourceFile(n) /\ n.dir = tree[f].dir
      /\ \A p \in DOMAIN n.uses : p.file = NoFile \/ (p.file \in DOMAIN tree /\ p.dir = tree[p.file].dir)
    BY <1>1, <1>3 DEF FileWith, SourceTree
<1>6. /\ RulesInv' /\ code' = code /\ DOMAIN tree' = DOMAIN tree /\ tree'[f] = n
      /\ \A g \in DOMAIN tree \ {f} : tree'[g] = tree[g]
    BY <1>4, <1>5, InPlace
<1>7. ASSUME NEW g \in DOMAIN tree
      PROVE  /\ tree'[g].dir = tree[g].dir /\ tree'[g].uses = tree[g].uses /\ tree'[g].exports = tree[g].exports
             /\ tree'[g].class \in {tree[g].class, "unknown"}
    BY <1>3, <1>6 DEF FileWith
<1>8. \A g \in DOMAIN tree : Node(g)' = Node(g) /\ DeclaredModule(Node(g))' = DeclaredModule(Node(g))
    BY <1>6, <1>7, ModuleThen DEF Node
<1>9. SameFiles
    BY <1>6, <1>7, <1>8 DEF SameFiles
<1>10. ASSUME NEW e \in Edges
       PROVE  \E d \in Edges' : Stands(d, e)
    <2>1. PICK g \in DOMAIN tree : \E t \in DOMAIN tree[g].uses :
            e = [from |-> Node(g), to |-> t, use |-> tree[g].uses[t], class |-> tree[g].class,
                 fromModule |-> DeclaredModule(Node(g)), toModule |-> DeclaredModule(t)]
        BY EdgesAre
    <2>2. PICK t \in DOMAIN tree[g].uses :
            e = [from |-> Node(g), to |-> t, use |-> tree[g].uses[t], class |-> tree[g].class,
                 fromModule |-> DeclaredModule(Node(g)), toModule |-> DeclaredModule(t)]
        BY <2>1
    <2>3. PICK d : d = [from |-> Node(g)', to |-> t, use |-> tree'[g].uses[t], class |-> tree'[g].class,
                        fromModule |-> DeclaredModule(Node(g))', toModule |-> DeclaredModule(t)']
        OBVIOUS
    <2>4. g \in DOMAIN tree' /\ t \in DOMAIN tree'[g].uses
        BY <1>6, <1>7
    <2>5. d \in Edges'
        BY <2>3, <2>4, EdgesThen
    <2>6. /\ d.from = e.from /\ d.use = e.use /\ d.class \in {e.class, "unknown"}
          /\ d.fromModule = e.fromModule
        BY <1>7, <1>8, <2>2, <2>3
    <2>7. d.toModule = e.toModule
        BY <1>6, <2>2, <2>3, SameOwners
    <2>8. Stands(d, e)
        BY <2>6, <2>7 DEF Stands, ProductionSource
    <2> QED
        BY <2>5, <2>8
<1> QED
    BY <1>4, <1>6, <1>9, <1>10 DEF Carried

-----------------------------------------------------------------------------
(* Rules: the findings between modules                                       *)

\* A finding between modules is of a rule between modules.
LEMMA BetweenIsOfRule ==
    ASSUME RulesInv, code # NoCode, NEW r \in code.rules, NEW b, NEW k,
           NEW S, [rule |-> r, gates |-> b, key |-> k] \in S
    PROVE  [rule |-> r, gates |-> b, key |-> k] \in BetweenModules(S) <=> BetweenRule(r)
<1>1. ValidRule(r, code.rules)
    BY DEF RulesInv
<1> QED
    BY <1>1 DEF BetweenModules, BetweenRule, ValidRule

LEMMA MoveKeepsFindings ==
    ASSUME RulesInv, code # NoCode, SameFiles, Carried(Edges, Edges'), Carried(Edges', Edges)
    PROVE  BetweenModules(Findings) = BetweenModules(Findings')
<1>1. PICK E, F : E = Edges /\ F = Edges'
    OBVIOUS
<1>2. Carried(E, F) /\ Carried(F, E)
    BY <1>1
<1>3. \A r : RuleCheck(r, Edges)' = RuleCheck(r, F)' /\ RuleCheck(r, Edges) = RuleCheck(r, E)
    BY <1>1
<1>4. ASSUME NEW r, BetweenRule(r)
      PROVE  RuleCheck(r, E) = RuleCheck(r, F)'
    <2>1. CASE r.type = "module_cycle"
        <3>1. ModuleEdges(E) = ModuleEdges(F)
            BY <1>2, CarriedKeys
        <3>2. ModuleCycle(E) = ModuleCycle(F)
            BY <3>1 DEF ModuleCycle
        <3> QED
            BY <2>1, <3>2, Checked, CheckedThen
    <2>2. CASE r.type # "module_cycle"
        <3>1. RuleCheck(r, E) \subseteq RuleCheck(r, F)'
            BY <1>2, <1>4, <2>2, CarriedChecks
        <3>2. RuleCheck(r, F)' \subseteq RuleCheck(r, E)
            BY <1>2, <1>4, <2>2, CarriedBack
        <3> QED
            BY <3>1, <3>2
    <2> QED
        BY <2>1, <2>2
<1>5. code'.rules = code.rules
    BY DEF SameFiles
<1> DEFINE X(r, k) == [rule |-> r, gates |-> Gate(r) # "warn", key |-> k]
<1>6. ASSUME NEW x \in BetweenModules(Findings)
      PROVE  x \in BetweenModules(Findings')
    <2>1. x \in Findings
        BY <1>6 DEF BetweenModules
    <2>2. PICK r \in code.rules : Gate(r) # "off" /\ \E k \in RuleCheck(r, Edges) : x = X(r, k)
        BY <2>1, FindingsAre
    <2>3. PICK k \in RuleCheck(r, Edges) : x = X(r, k)
        BY <2>2
    <2>4. BetweenRule(r)
        BY <1>6, <2>1, <2>3, BetweenIsOfRule
    <2>5. k \in RuleCheck(r, Edges)'
        BY <1>3, <1>4, <2>3, <2>4
    <2>6. x \in Findings'
        BY <1>5, <2>2, <2>3, <2>5, FindingsThen
    <2> QED
        BY <2>3, <2>4, <2>6, BetweenIsOfRule
<1>7. ASSUME NEW x \in BetweenModules(Findings')
      PROVE  x \in BetweenModules(Findings)
    <2>1. x \in Findings'
        BY <1>7 DEF BetweenModules
    <2>2. PICK r \in code.rules : Gate(r) # "off" /\ \E k \in RuleCheck(r, Edges)' : x = X(r, k)
        BY <1>5, <2>1, FindingsThen
    <2>3. PICK k \in RuleCheck(r, Edges)' : x = X(r, k)
        BY <2>2
    <2>4. BetweenRule(r)
        BY <1>7, <2>1, <2>3, BetweenIsOfRule
    <2>5. k \in RuleCheck(r, Edges)
        BY <1>3, <1>4, <2>3, <2>4
    <2>6. x \in Findings
        BY <2>2, <2>3, <2>5, FindingsAre
    <2> QED
        BY <2>3, <2>4, <2>6, BetweenIsOfRule
<1> QED
    BY <1>6, <1>7

LEMMA UnwalkHidesNothing ==
    ASSUME RulesInv, RulesInv', code # NoCode, SameFiles, Carried(Edges, Edges')
    PROVE  Beyond(BetweenModules(Findings), Findings') = {}
<1> DEFINE X(r, k) == [rule |-> r, gates |-> Gate(r) # "warn", key |-> k]
<1> SUFFICES ASSUME NEW x \in BetweenModules(Findings)
             PROVE  x \in Findings' \/ (Cyclic(x) /\ \E y \in Findings' : Within(x, y))
    BY DEF Beyond
<1>1. x \in Findings
    BY DEF BetweenModules
<1>2. PICK r \in code.rules : Gate(r) # "off" /\ \E k \in RuleCheck(r, Edges) : x = X(r, k)
    BY <1>1, FindingsAre
<1>3. PICK k \in RuleCheck(r, Edges) : x = X(r, k)
    BY <1>2
<1>4. BetweenRule(r) /\ r \in code'.rules
    BY <1>1, <1>3, BetweenIsOfRule DEF SameFiles
<1>5. PICK E, F : E = Edges /\ F = Edges'
    OBVIOUS
<1>6. Carried(E, F)
    BY <1>5
<1>7. RuleCheck(r, Edges)' = RuleCheck(r, F)' /\ RuleCheck(r, Edges) = RuleCheck(r, E)
    BY <1>5
<1>8. CASE r.type # "module_cycle"
    <2>1. k \in RuleCheck(r, Edges)'
        BY <1>3, <1>4, <1>6, <1>7, <1>8, CarriedChecks
    <2> QED
        BY <1>2, <1>3, <1>4, <2>1, FindingsThen
<1>9. CASE r.type = "module_cycle"
    <2>1. PICK g : EdgesPlaced(F, g)
        <3>1. SourceTree(tree)'
            BY DEF RulesInv
        <3>2. EdgesPlaced(Edges, [p \in Places |-> DeclaredModule(p)])'
            BY <3>1, EdgesArePlaced, PTL
        <3> QED
            BY <1>5, <3>2
    <2>2. ModuleEdges(E) \subseteq ModuleEdges(F)
        BY <1>6, CarriedKeys
    <2>3. k \in ModuleCycle(E)
        BY <1>3, <1>7, <1>9, Checked
    <2>4. PICK l \in ModuleCycle(F) : k[1] \subseteq l[1] /\ k[2] = l[2]
        BY <2>1, <2>2, <2>3, ModuleCyclesGrow
    <2>5. l \in RuleCheck(r, Edges)'
        BY <1>7, <1>9, <2>4, CheckedThen
    <2>6. X(r, l) \in Findings'
        BY <1>2, <1>4, <2>5, FindingsThen
    <2> QED
        BY <1>3, <1>9, <2>4, <2>6 DEF Cyclic, Within
<1> QED
    BY <1>8, <1>9

-----------------------------------------------------------------------------
(* Rules: every behaviour                                                    *)

\* A file uses one place more.
LEMMA ImportKeeps ==
    ASSUME RulesInv, NEW f \in DOMAIN tree, NEW t \in Places, NEW use \in Uses, Import(f, t, use)
    PROVE  RulesInv'
<1>1. SourceTree(tree) /\ SourceFile(tree[f]) /\ DOMAIN tree[f].uses \subseteq Places
    BY DEF RulesInv, SourceTree, SourceFile
<1>2. t.file = NoFile \/ (t.file \in DOMAIN tree /\ t.dir = tree[t.file].dir)
    BY DEF Import, Node
<1>3. PICK u : u = [x \in DOMAIN tree[f].uses \cup {t} |-> IF x = t THEN use ELSE tree[f].uses[x]]
    OBVIOUS
<1>4. UsesOfPlaces(u) /\ DOMAIN u = DOMAIN tree[f].uses \cup {t}
    BY <1>1, <1>3 DEF SourceFile, UsesOfPlaces
<1>5. PICK n : n = [tree[f] EXCEPT !.uses = u]
    OBVIOUS
<1>6. FileWith(n, tree[f].dir, tree[f].class, u, tree[f].exports, tree[f].leaks, tree[f].matches)
    BY <1>1, <1>4, <1>5, FileEdits
<1>7. \A p \in DOMAIN tree[f].uses : p.file = NoFile \/ (p.file \in DOMAIN tree /\ p.dir = tree[p.file].dir)
    BY <1>1 DEF SourceTree
<1>8. /\ SourceFile(n) /\ n.dir = tree[f].dir
      /\ \A p \in DOMAIN n.uses : p.file = NoFile \/ (p.file \in DOMAIN tree /\ p.dir = tree[p.file].dir)
    BY <1>2, <1>4, <1>6, <1>7 DEF FileWith
<1>9. Change(Rewritten(f, n))
    BY <1>3, <1>5 DEF Import
<1> QED
    BY <1>8, <1>9, InPlace

LEMMA ExportKeeps ==
    ASSUME RulesInv, NEW f \in DOMAIN tree, NEW x \in Exports, Export(f, x)
    PROVE  RulesInv'
<1>1. SourceTree(tree) /\ SourceFile(tree[f]) /\ tree[f].exports \cup {x} \in SUBSET Exports
    BY DEF RulesInv, SourceTree, SourceFile
<1>2. PICK n : n = [tree[f] EXCEPT !.exports = tree[f].exports \cup {x}]
    OBVIOUS
<1>3. FileWith(n, tree[f].dir, tree[f].class, tree[f].uses, tree[f].exports \cup {x}, tree[f].leaks, tree[f].matches)
    BY <1>1, <1>2, FileEdits
<1>4. /\ SourceFile(n) /\ n.dir = tree[f].dir
      /\ \A p \in DOMAIN n.uses : p.file = NoFile \/ (p.file \in DOMAIN tree /\ p.dir = tree[p.file].dir)
    BY <1>1, <1>3 DEF FileWith, SourceTree
<1>5. Change(Rewritten(f, n))
    BY <1>2 DEF Export
<1> QED
    BY <1>4, <1>5, InPlace

LEMMA AdoptKeeps ==
    ASSUME NEW c \in Codebases, Adopt(c)
    PROVE  RulesInv'
    BY RulesAssumption DEF Adopt, RulesInv

LEMMA RulesInvKept ==
    RulesInv /\ [RulesNext]_rulesVars => RulesInv'
<1> SUFFICES ASSUME RulesInv, [RulesNext]_rulesVars
             PROVE  RulesInv'
    OBVIOUS
<1>1. CASE UNCHANGED rulesVars
    BY <1>1 DEF rulesVars, RulesInv, SourceTree
<1>2. ASSUME NEW c \in Codebases, Adopt(c)
      PROVE  RulesInv'
    BY <1>2, AdoptKeeps
<1>3. ASSUME NEW f \in DOMAIN tree
      PROVE  /\ \A t \in Places, use \in Uses : Import(f, t, use) => RulesInv'
             /\ \A t \in DOMAIN tree[f].uses : Drop(f, t) => RulesInv'
             /\ \A p \in Packages : Move(f, p) => RulesInv'
             /\ \A n \in Exports : Export(f, n) => RulesInv'
             /\ (Unexport(f) \/ Delete(f) \/ Unwalk(f)) => RulesInv'
    BY ImportKeeps, DropIsLess, MoveKeeps, ExportKeeps, UnexportIsLess, DeleteIsLess, UnwalkCarries
<1> QED
    BY <1>1, <1>2, <1>3 DEF RulesNext

LEMMA ChangesBounded ==
    changes \in 0..MaxChanges /\ [RulesNext]_rulesVars => (changes \in 0..MaxChanges)'
<1> SUFFICES ASSUME changes \in 0..MaxChanges, [RulesNext]_rulesVars
             PROVE  (changes \in 0..MaxChanges)'
    OBVIOUS
<1>1. \A new : Change(new) => (changes \in 0..MaxChanges)'
    BY RulesAssumption DEF Change
<1>2. \A c \in Codebases : Adopt(c) => (changes \in 0..MaxChanges)'
    BY DEF Adopt
<1>3. ASSUME NEW f \in DOMAIN tree
      PROVE  /\ \A t \in Places, use \in Uses : Import(f, t, use) => (changes \in 0..MaxChanges)'
             /\ \A t \in DOMAIN tree[f].uses : Drop(f, t) => (changes \in 0..MaxChanges)'
             /\ \A p \in Packages : Move(f, p) => (changes \in 0..MaxChanges)'
             /\ \A n \in Exports : Export(f, n) => (changes \in 0..MaxChanges)'
             /\ (Unexport(f) \/ Delete(f) \/ Unwalk(f)) => (changes \in 0..MaxChanges)'
    <2> HIDE DEF Change
    <2> QED
        BY <1>1 DEF Import, Drop, Move, Export, Unexport, Delete, Unwalk
<1>4. CASE UNCHANGED rulesVars
    BY <1>4 DEF rulesVars
<1> QED
    BY <1>2, <1>3, <1>4 DEF RulesNext

\* Config and tree have their types in every behaviour: the tree is of files that know where
\* they are, and use only places there are.
THEOREM RulesTyped == RulesSpec => []RulesTypeOK
<1>1. RulesInit => RulesInv /\ changes \in 0..MaxChanges
    <2>1. RulesInit => SourceTree(tree)
        BY DEF RulesInit, SourceTree
    <2> QED
        BY <2>1, RulesAssumption DEF RulesInit, RulesInv
<1>2. RulesInv /\ changes \in 0..MaxChanges => RulesTypeOK
    BY DEF RulesInv, RulesTypeOK
<1> QED
    BY <1>1, <1>2, RulesInvKept, ChangesBounded, PTL DEF RulesSpec

\* What a step may do to the findings.
StableStep ==
    /\ Removal => Beyond(Findings', Findings) = {}
    /\ MoveInside => BetweenModules(Findings) = BetweenModules(Findings')
    /\ (\E f \in DOMAIN tree : Unwalk(f)) => Beyond(BetweenModules(Findings), Findings') = {}

LEMMA StepIsStable ==
    RulesInv /\ RulesInv' => StableStep
<1> SUFFICES ASSUME RulesInv, RulesInv'
             PROVE  StableStep
    OBVIOUS
<1>1. ASSUME Removal
      PROVE  Beyond(Findings', Findings) = {}
    <2>1. PICK f \in DOMAIN tree : Unexport(f) \/ Delete(f) \/ \E t \in DOMAIN tree[f].uses : Drop(f, t)
        BY <1>1 DEF Removal
    <2>2. Less
        BY <2>1, UnexportIsLess, DeleteIsLess, DropIsLess
    <2>3. code # NoCode
        BY <2>1 DEF Unexport, Delete, Drop, Change
    <2> QED
        BY <2>2, <2>3, RemovalAdds
<1>2. ASSUME MoveInside
      PROVE  BetweenModules(Findings) = BetweenModules(Findings')
    <2>1. PICK f \in DOMAIN tree : \E p \in Packages :
            /\ DeclaredModule(Node(f)) # Nobody
            /\ DeclaredModule(Node(f)) = DeclaredModule([dir |-> p, file |-> f])
            /\ Move(f, p)
        BY <1>2 DEF MoveInside
    <2>2. PICK p \in Packages :
            /\ DeclaredModule(Node(f)) # Nobody
            /\ DeclaredModule(Node(f)) = DeclaredModule([dir |-> p, file |-> f])
            /\ Move(f, p)
        BY <2>1
    <2>3. code # NoCode
        BY <2>2, MoveKeeps
    <2>4. SameFiles /\ Carried(Edges, Edges') /\ Carried(Edges', Edges)
        BY <2>2, MoveCarries
    <2> QED
        BY <2>3, <2>4, MoveKeepsFindings
<1>3. ASSUME NEW f \in DOMAIN tree, Unwalk(f)
      PROVE  Beyond(BetweenModules(Findings), Findings') = {}
    BY <1>3, UnwalkCarries, UnwalkHidesNothing
<1> QED
    BY <1>1, <1>2, <1>3 DEF StableStep

\* Whatever the config and the tree, a removal adds no finding, a move inside a module
\* keeps those between modules, and a file the source walk loses hides none of them.
THEOREM FindingsStable == RulesSpec => FindingsAreStable
<1>1. RulesInit => RulesInv
    <2>1. RulesInit => SourceTree(tree)
        BY DEF RulesInit, SourceTree
    <2> QED
        BY <2>1 DEF RulesInit, RulesInv
<1>2. RulesInv /\ RulesInv' =>
        /\ [Removal => Beyond(Findings', Findings) = {}]_rulesVars
        /\ [MoveInside => BetweenModules(Findings) = BetweenModules(Findings')]_rulesVars
        /\ [(\E f \in DOMAIN tree : Unwalk(f)) => Beyond(BetweenModules(Findings), Findings') = {}]_rulesVars
    BY StepIsStable DEF StableStep
<1> QED
    BY <1>1, <1>2, RulesInvKept, PTL
       DEF RulesSpec, FindingsAreStable, RemovalAddsNoFinding, MoveInsideKeepsFindings, LostFilesHideNothing

-----------------------------------------------------------------------------
(* PolicyChange: who owns a place                                            *)

\* Of finitely many numbers there is a greatest: above one there is none.
LEMMA BiggestIs ==
    ASSUME NEW S, S \subseteq Nat, IsFiniteSet(S), S # {}
    PROVE  Biggest(S) \in S
<1> DEFINE R == StrictSubsetOrdering(S)
           Above(n) == {k \in S : k > n}
           T == {Above(n) : n \in S}
<1>1. IsWellFoundedOn(R, FiniteSubsetsOf(S))
    BY FS_StrictSubsetOrderingWellFounded
<1>2. T \subseteq FiniteSubsetsOf(S) /\ T # {}
    <2>1. \A n \in S : IsFiniteSet(Above(n)) /\ Above(n) \subseteq S
        BY FS_Subset
    <2> QED
        BY <2>1 DEF FiniteSubsetsOf
<1> HIDE DEF R
<1>3. \E X \in T : \A Y \in T : ~(<<Y, X>> \in R)
    BY <1>1, <1>2, WFMin
<1>4. PICK x \in S : \A y \in S : ~(<<Above(y), Above(x)>> \in R)
    BY <1>3
<1>5. \A y \in S : y <= x
    <2> SUFFICES ASSUME NEW y \in S, y > x PROVE FALSE
        OBVIOUS
    <2>0. x \in Int /\ y \in Int /\ \A k \in S : k \in Int
        OBVIOUS
    <2>1. Above(y) \subseteq Above(x) /\ y \in Above(x) /\ y \notin Above(y) /\ Above(x) \subseteq S
        <3>1. \A k \in S : k > y => k > x
            BY <2>0
        <3>2. ~(y > y)
            BY <2>0
        <3> QED
            BY <3>1, <3>2
    <2>2. <<Above(y), Above(x)>> \in R
        BY <2>1 DEF R, StrictSubsetOrdering
    <2> QED
        BY <2>2, <1>4
<1> QED
    BY <1>5 DEF Biggest

\* Of some modules one is first by name.
LEMMA FirstIs ==
    ASSUME NEW S, S \subseteq Modules, S # {}
    PROVE  FirstName(S) \in S
<1> DEFINE I == {i \in DOMAIN ModuleNames : ModuleNames[i] \in S}
           R == StrictSubsetOrdering(DOMAIN ModuleNames)
           Below(n) == {k \in I : k < n}
           T == {Below(n) : n \in I}
<1>1. DOMAIN ModuleNames \subseteq Nat /\ IsFiniteSet(DOMAIN ModuleNames)
    <2>1. DOMAIN ModuleNames = 1..Len(ModuleNames) /\ Len(ModuleNames) \in Nat
        BY RulesAssumption, LenProperties
    <2>2. IsFiniteSet(1..Len(ModuleNames))
        BY <2>1, FS_Interval
    <2> QED
        BY <2>1, <2>2
<1>2. IsWellFoundedOn(R, FiniteSubsetsOf(DOMAIN ModuleNames))
    BY <1>1, FS_StrictSubsetOrderingWellFounded
<1>3. I # {}
    BY DEF Modules
<1>4. T \subseteq FiniteSubsetsOf(DOMAIN ModuleNames) /\ T # {}
    <2>1. \A n \in I : IsFiniteSet(Below(n)) /\ Below(n) \subseteq DOMAIN ModuleNames
        BY <1>1, FS_Subset
    <2> QED
        BY <1>3, <2>1 DEF FiniteSubsetsOf
<1> HIDE DEF R
<1>5. \E X \in T : \A Y \in T : ~(<<Y, X>> \in R)
    BY <1>2, <1>4, WFMin
<1>6. PICK i \in I : \A j \in I : ~(<<Below(j), Below(i)>> \in R)
    BY <1>5
<1>7. \A j \in I : i <= j
    <2> SUFFICES ASSUME NEW j \in I, j < i PROVE FALSE
        BY <1>1
    <2>1. Below(j) \subseteq Below(i) /\ j \in Below(i) /\ j \notin Below(j) /\ Below(i) \subseteq DOMAIN ModuleNames
        BY <1>1
    <2>2. <<Below(j), Below(i)>> \in R
        BY <2>1 DEF R, StrictSubsetOrdering
    <2> QED
        BY <2>2, <1>6
<1>8. ModuleNames[i] \in S /\ \A n \in S \ {ModuleNames[i]} : Before(ModuleNames[i], n)
    <2> SUFFICES ASSUME NEW n \in S \ {ModuleNames[i]} PROVE Before(ModuleNames[i], n)
        OBVIOUS
    <2>1. PICK j \in I : ModuleNames[j] = n
        BY DEF Modules
    <2>2. i < j
        BY <1>1, <1>7, <2>1
    <2> QED
        BY <2>1, <2>2 DEF Before
<1> QED
    BY <1>8 DEF FirstName

\* A policy as Rules reads it.
LEMMA PolicyIs ==
    ASSUME NEW p
    PROVE  /\ PolicyOf(p).rules = p.rules
           /\ PolicyOf(p).globs = [m \in Modules |-> IF m \in DOMAIN p.modules THEN p.modules[m].paths ELSE {}]
           /\ PolicyOf(p).public = [m \in Modules |-> IF m \in DOMAIN p.modules THEN p.modules[m].public ELSE {}]
           /\ PolicyOf(p).internal = [m \in Modules |-> IF m \in DOMAIN p.modules THEN p.modules[m].internal ELSE {}]
           /\ PolicyOf(p).layer = [m \in Modules |->
                LayerRank(p.layers, IF m \in DOMAIN p.modules THEN p.modules[m].layer ELSE NotSet)]
           /\ PolicyOf(p).dependsOn = [m \in Modules |->
                Admits(IF m \in DOMAIN p.modules THEN p.modules[m].dependsOn ELSE Anything, Modules)]
           /\ PolicyOf(p).visibleTo = [m \in Modules |->
                Admits(IF m \in DOMAIN p.modules THEN p.modules[m].visibleTo ELSE Anything, Modules \cup {Nobody})]
    BY DEF PolicyOf

\* The module of a place is a declared one, or nobody.
LEMMA OwnerIsModule ==
    ASSUME NEW p, IsPolicy(p), NEW x
    PROVE  /\ Under(p, {})!ModuleFor(x) \in Modules \cup {Nobody}
           /\ Under(p, {})!DeclaredModule(x) \in Modules \cup {Nobody}
<1>1. IsFiniteSet(Modules)
    <2>1. DOMAIN ModuleNames = 1..Len(ModuleNames) /\ Len(ModuleNames) \in Nat
        BY RulesAssumption, LenProperties
    <2>2. ModuleNames \in Surjection(1..Len(ModuleNames), Modules)
        BY <2>1, RulesAssumption DEF Surjection, Modules
    <2> QED
        BY <2>1, <2>2, FS_Interval, FS_Surjection
<1>2. \A m \in Modules : IsFiniteSet(PolicyOf(p).globs[m]) /\ \A g \in PolicyOf(p).globs[m] : g.rank \in Nat
    <2> SUFFICES ASSUME NEW m \in Modules
                 PROVE  IsFiniteSet(PolicyOf(p).globs[m]) /\ \A g \in PolicyOf(p).globs[m] : g.rank \in Nat
        OBVIOUS
    <2>1. PolicyOf(p).globs[m] = IF m \in DOMAIN p.modules THEN p.modules[m].paths ELSE {}
        <3>1. PolicyOf(p).globs = [n \in Modules |-> IF n \in DOMAIN p.modules THEN p.modules[n].paths ELSE {}]
            BY PolicyIs
        <3> QED
            BY <3>1
    <2>2. IsPart("modules", p["modules"])
        BY DEF IsPolicy, PolicyParts
    <2>3. m \in DOMAIN p.modules => IsModule(p.modules[m])
        BY <2>2 DEF IsPart
    <2> QED
        BY <2>1, <2>3, FS_EmptySet DEF IsModule
<1>3. ASSUME NEW y, NEW m \in Modules
      PROVE  IsFiniteSet(Under(p, {})!Ranks(m, y)) /\ Under(p, {})!Ranks(m, y) \subseteq Nat
    <2> DEFINE G == {g \in PolicyOf(p).globs[m] : y \in g.places}
               h == [g \in G |-> g.rank]
    <2>1. Under(p, {})!Ranks(m, y) = {g.rank : g \in G}
        BY DEF Under!Ranks
    <2>2. IsFiniteSet(G)
        BY <1>2, FS_Subset
    <2>3. h \in Surjection(G, {g.rank : g \in G})
        BY DEF Surjection
    <2>4. IsFiniteSet({g.rank : g \in G})
        BY <2>2, <2>3, FS_Surjection
    <2> QED
        BY <1>2, <2>1, <2>4
<1>4. ASSUME NEW y
      PROVE  IsFiniteSet(Under(p, {})!AllRanks(y)) /\ Under(p, {})!AllRanks(y) \subseteq Nat
    <2> DEFINE K == {Under(p, {})!Ranks(m, y) : m \in Modules}
    <2>1. Under(p, {})!AllRanks(y) = UNION K
        BY DEF Under!AllRanks, Under!Modules, Modules
    <2>2. IsFiniteSet(K)
        <3> DEFINE h == [m \in Modules |-> Under(p, {})!Ranks(m, y)]
        <3>1. h \in Surjection(Modules, K)
            BY DEF Surjection
        <3> QED
            BY <1>1, <3>1, FS_Surjection
    <2>3. \A X \in K : IsFiniteSet(X) /\ X \subseteq Nat
        BY <1>3
    <2>4. IsFiniteSet(UNION K)
        BY <2>2, <2>3, FS_UNION
    <2> QED
        BY <2>1, <2>3, <2>4
<1>5. ASSUME NEW y
      PROVE  Under(p, {})!ModuleFor(y) \in Modules \cup {Nobody}
    <2>1. CASE Under(p, {})!AllRanks(y) = {}
        BY <2>1 DEF Under!ModuleFor
    <2>2. CASE Under(p, {})!AllRanks(y) # {}
        <3>1. Biggest(Under(p, {})!AllRanks(y)) \in Under(p, {})!AllRanks(y)
            BY <1>4, <2>2, BiggestIs
        <3>2. PICK m \in Modules : Biggest(Under(p, {})!AllRanks(y)) \in Under(p, {})!Ranks(m, y)
            BY <3>1 DEF Under!AllRanks, Under!Modules, Modules
        <3>3. Under(p, {})!Biggest(Under(p, {})!AllRanks(y)) = Biggest(Under(p, {})!AllRanks(y))
            BY DEF Under!Biggest, Biggest
        <3>4. Under(p, {})!MostSpecific(y) \subseteq Modules /\ m \in Under(p, {})!MostSpecific(y)
            BY <3>2, <3>3 DEF Under!MostSpecific, Under!Modules, Modules
        <3>5. FirstName(Under(p, {})!MostSpecific(y)) \in Modules
            BY <3>4, FirstIs
        <3>6. Under(p, {})!FirstName(Under(p, {})!MostSpecific(y)) = FirstName(Under(p, {})!MostSpecific(y))
            BY DEF Under!FirstName, FirstName, Under!Before, Before
        <3> QED
            BY <2>2, <3>5, <3>6 DEF Under!ModuleFor
    <2> QED
        BY <2>1, <2>2
<1>6. Under(p, {})!DeclaredModule(x) \in Modules \cup {Nobody}
    BY <1>5 DEF Under!DeclaredModule
<1> QED
    BY <1>5, <1>6

\* b reads at least what a does and sorts it alike, and its allowlists admit no more.
NoLooser(a, b) ==
    /\ IsPolicy(a) /\ IsPolicy(b) /\ SourceTree(source)
    /\ PolicyOf(a).globs = PolicyOf(b).globs /\ PolicyOf(a).layer = PolicyOf(b).layer
    /\ PolicyOf(a).public = PolicyOf(b).public /\ PolicyOf(a).internal = PolicyOf(b).internal
    /\ \A m \in Modules : /\ PolicyOf(b).dependsOn[m] \subseteq PolicyOf(a).dependsOn[m]
                          /\ PolicyOf(b).visibleTo[m] \subseteq PolicyOf(a).visibleTo[m]
    /\ Scanned(a) \subseteq Scanned(b)
    /\ a.syntax => b.syntax

\* A file edited in four of its fields is the file with those.
FileRecord(r) ==
    r = [dir |-> r.dir, class |-> r.class, uses |-> r.uses, exports |-> r.exports, leaks |-> r.leaks,
         matches |-> r.matches]

Edited(r, u, e, l, m) == [r EXCEPT !.uses = u, !.exports = e, !.leaks = l, !.matches = m]

LEMMA FourEdits ==
    ASSUME NEW r, FileRecord(r), NEW u, NEW e, NEW l, NEW m
    PROVE  Edited(r, u, e, l, m) =
             [dir |-> r.dir, class |-> r.class, uses |-> u, exports |-> e, leaks |-> l, matches |-> m]
<1>1. PICK q : q = [r EXCEPT !.uses = u]
    OBVIOUS
<1>2. q = [dir |-> r.dir, class |-> r.class, uses |-> u, exports |-> r.exports, leaks |-> r.leaks, matches |-> r.matches]
    BY <1>1 DEF FileRecord
<1>3. PICK s : s = [q EXCEPT !.exports = e]
    OBVIOUS
<1>4. s = [dir |-> r.dir, class |-> r.class, uses |-> u, exports |-> e, leaks |-> r.leaks, matches |-> r.matches]
    BY <1>2, <1>3
<1>5. PICK t : t = [s EXCEPT !.leaks = l]
    OBVIOUS
<1>6. t = [dir |-> r.dir, class |-> r.class, uses |-> u, exports |-> e, leaks |-> l, matches |-> r.matches]
    BY <1>4, <1>5
<1>7. [t EXCEPT !.matches = m] =
        [dir |-> r.dir, class |-> r.class, uses |-> u, exports |-> e, leaks |-> l, matches |-> m]
    BY <1>6
<1>8. Edited(r, u, e, l, m) = [t EXCEPT !.matches = m]
    BY <1>1, <1>3, <1>5 DEF Edited
<1> QED
    BY <1>7, <1>8

\* What a run reads of a file, when no analyzer lost its imports.
LEMMA ReadIs ==
    ASSUME SourceTree(source), NEW p
    PROVE  /\ DOMAIN ReadUnder(p, {}) = Scanned(p) /\ Scanned(p) \subseteq DOMAIN source
           /\ \A f \in Scanned(p) :
                /\ ReadUnder(p, {})[f].dir = source[f].dir /\ ReadUnder(p, {})[f].class = source[f].class
                /\ ReadUnder(p, {})[f].uses = source[f].uses
                /\ ReadUnder(p, {})[f].exports = IF p.syntax THEN source[f].exports ELSE {}
                /\ ReadUnder(p, {})[f].leaks = IF p.syntax THEN source[f].leaks ELSE {}
                /\ ReadUnder(p, {})[f].matches = IF p.syntax THEN source[f].matches ELSE {}
<1>1. Scanned(p) \subseteq DOMAIN source
    BY DEF Scanned
<1>2. ASSUME NEW f \in Scanned(p)
      PROVE  ReadUnder(p, {})[f] =
               [dir |-> source[f].dir, class |-> source[f].class, uses |-> source[f].uses,
                exports |-> IF p.syntax THEN source[f].exports ELSE {},
                leaks |-> IF p.syntax THEN source[f].leaks ELSE {},
                matches |-> IF p.syntax THEN source[f].matches ELSE {}]
    <2>1. PICK r : r = source[f]
        OBVIOUS
    <2>2. FileRecord(r)
        <3>1. SourceFile(r)
            BY <1>1, <2>1 DEF SourceTree
        <3>2. PICK v : v = [t \in DOMAIN r.uses |-> r.uses[t]]
            OBVIOUS
        <3>3. r = [dir |-> r.dir, class |-> r.class, uses |-> v, exports |-> r.exports, leaks |-> r.leaks,
                   matches |-> r.matches]
            BY <3>1, <3>2, Zenon DEF SourceFile
        <3>4. r.uses = v
            BY <3>3
        <3> QED
            BY <3>3, <3>4 DEF FileRecord
    <2>3. ReadUnder(p, {})[f] = Edited(r, r.uses, IF p.syntax THEN r.exports ELSE {},
                                       IF p.syntax THEN r.leaks ELSE {}, IF p.syntax THEN r.matches ELSE {})
        BY <2>1 DEF ReadUnder, Edited
    <2>4. PICK e, l, m : /\ e = (IF p.syntax THEN r.exports ELSE {}) /\ l = (IF p.syntax THEN r.leaks ELSE {})
                         /\ m = (IF p.syntax THEN r.matches ELSE {})
        OBVIOUS
    <2>5. Edited(r, r.uses, e, l, m) =
            [dir |-> r.dir, class |-> r.class, uses |-> r.uses, exports |-> e, leaks |-> l, matches |-> m]
        BY <2>2, FourEdits
    <2> QED
        BY <2>1, <2>3, <2>4, <2>5
<1>3. DOMAIN ReadUnder(p, {}) = Scanned(p)
    BY DEF ReadUnder
<1>4. ASSUME NEW f \in Scanned(p)
      PROVE  /\ ReadUnder(p, {})[f].dir = source[f].dir /\ ReadUnder(p, {})[f].class = source[f].class
             /\ ReadUnder(p, {})[f].uses = source[f].uses
             /\ ReadUnder(p, {})[f].exports = IF p.syntax THEN source[f].exports ELSE {}
             /\ ReadUnder(p, {})[f].leaks = IF p.syntax THEN source[f].leaks ELSE {}
             /\ ReadUnder(p, {})[f].matches = IF p.syntax THEN source[f].matches ELSE {}
    <2>1. PICK n : n = ReadUnder(p, {})[f]
        OBVIOUS
    <2>2. PICK e, l, m : /\ e = (IF p.syntax THEN source[f].exports ELSE {}) /\ l = (IF p.syntax THEN source[f].leaks ELSE {})
                         /\ m = (IF p.syntax THEN source[f].matches ELSE {})
        OBVIOUS
    <2>3. n = [dir |-> source[f].dir, class |-> source[f].class, uses |-> source[f].uses, exports |-> e,
               leaks |-> l, matches |-> m]
        BY <1>2, <2>1, <2>2
    <2> HIDE <2>2
    <2>4. n.dir = source[f].dir /\ n.class = source[f].class /\ n.uses = source[f].uses /\ n.exports = e
          /\ n.leaks = l /\ n.matches = m
        BY <2>3
    <2> QED
        BY <2>1, <2>2, <2>4
<1> QED
    BY <1>1, <1>3, <1>4

-----------------------------------------------------------------------------
(* PolicyChange: places, and their edges                                     *)

LEMMA KeptOwners ==
    ASSUME NEW a, NEW b, NoLooser(a, b)
    PROVE  /\ \A x : Under(a, {})!ModuleFor(x) = Under(b, {})!ModuleFor(x)
           /\ \A x : Under(a, {})!DeclaredModule(x) = Under(b, {})!DeclaredModule(x)
           /\ \A x : Under(a, {})!MatchesInternal(x) = Under(b, {})!MatchesInternal(x)
           /\ \A x : Under(a, {})!LayerFor(x) = Under(b, {})!LayerFor(x)
<1>1. \A m, x : Under(a, {})!Ranks(m, x) = Under(b, {})!Ranks(m, x)
    BY DEF Under!Ranks, NoLooser
<1>2. \A x : Under(a, {})!AllRanks(x) = Under(b, {})!AllRanks(x)
    BY <1>1 DEF Under!AllRanks, Under!Modules, Modules
<1>3. ASSUME NEW x
      PROVE  Under(a, {})!MostSpecific(x) = Under(b, {})!MostSpecific(x)
    <2>1. \A S : Under(a, {})!Biggest(S) = Under(b, {})!Biggest(S)
        BY DEF Under!Biggest
    <2> QED
        BY <1>1, <1>2, <2>1 DEF Under!MostSpecific, Under!Modules, Modules
<1>4. ASSUME NEW x
      PROVE  Under(a, {})!ModuleFor(x) = Under(b, {})!ModuleFor(x)
    <2>1. \A S : Under(a, {})!FirstName(S) = Under(b, {})!FirstName(S)
        BY DEF Under!FirstName, Under!Before
    <2> QED
        BY <1>2, <1>3, <2>1 DEF Under!ModuleFor
<1>5. \A x : Under(a, {})!DeclaredModule(x) = Under(b, {})!DeclaredModule(x)
    BY <1>4 DEF Under!DeclaredModule, Under!Package
<1>6. \A x : Under(a, {})!MatchesInternal(x) = Under(b, {})!MatchesInternal(x)
    BY <1>4 DEF Under!MatchesInternal, Under!Modules, Modules, NoLooser
<1>7. \A x : Under(a, {})!LayerFor(x) = Under(b, {})!LayerFor(x)
    BY <1>4 DEF Under!LayerFor, NoLooser
<1> QED
    BY <1>4, <1>5, <1>6, <1>7

\* The edges of what a policy reads, one by one.
LEMMA PolicyEdges ==
    ASSUME NEW p, SourceTree(source)
    PROVE  \A e : e \in Under(p, {})!Edges <=>
             \E f \in Scanned(p) : \E t \in DOMAIN source[f].uses :
               e = [from |-> [dir |-> source[f].dir, file |-> f], to |-> t, use |-> source[f].uses[t],
                    class |-> source[f].class,
                    fromModule |-> Under(p, {})!DeclaredModule([dir |-> source[f].dir, file |-> f]),
                    toModule |-> Under(p, {})!DeclaredModule(t)]
<1>1. \A e : e \in Under(p, {})!Edges <=>
        \E f \in DOMAIN ReadUnder(p, {}) : \E t \in DOMAIN ReadUnder(p, {})[f].uses :
          e = [from |-> Under(p, {})!Node(f), to |-> t, use |-> ReadUnder(p, {})[f].uses[t],
               class |-> ReadUnder(p, {})[f].class,
               fromModule |-> Under(p, {})!DeclaredModule(Under(p, {})!Node(f)),
               toModule |-> Under(p, {})!DeclaredModule(t)]
    BY DEF Under!Edges
<1>2. \A f \in Scanned(p) : Under(p, {})!Node(f) = [dir |-> source[f].dir, file |-> f]
    BY ReadIs DEF Under!Node
<1>3. \A f \in Scanned(p) : ReadUnder(p, {})[f].uses = source[f].uses /\ ReadUnder(p, {})[f].class = source[f].class
    BY ReadIs
<1>4. DOMAIN ReadUnder(p, {}) = Scanned(p)
    BY ReadIs
<1> DEFINE Read(f, t) ==
             [from |-> Under(p, {})!Node(f), to |-> t, use |-> ReadUnder(p, {})[f].uses[t],
              class |-> ReadUnder(p, {})[f].class,
              fromModule |-> Under(p, {})!DeclaredModule(Under(p, {})!Node(f)),
              toModule |-> Under(p, {})!DeclaredModule(t)]
           Sourced(f, t) ==
             [from |-> [dir |-> source[f].dir, file |-> f], to |-> t, use |-> source[f].uses[t],
              class |-> source[f].class,
              fromModule |-> Under(p, {})!DeclaredModule([dir |-> source[f].dir, file |-> f]),
              toModule |-> Under(p, {})!DeclaredModule(t)]
<1>5. \A f \in Scanned(p) : \A t : Read(f, t) = Sourced(f, t)
    BY <1>2, <1>3
<1>6. \A e : e \in Under(p, {})!Edges <=>
        \E f \in Scanned(p) : \E t \in DOMAIN source[f].uses : e = Read(f, t)
    BY <1>1, <1>3, <1>4
<1>7. \A e : e \in Under(p, {})!Edges <=>
        \E f \in Scanned(p) : \E t \in DOMAIN source[f].uses : e = Sourced(f, t)
    <2> HIDE DEF Read, Sourced
    <2> QED
        BY <1>5, <1>6
<1> QED
    BY <1>7

LEMMA KeptEdges ==
    ASSUME NEW a, NEW b, NoLooser(a, b)
    PROVE  Under(a, {})!Edges \subseteq Under(b, {})!Edges
<1> SUFFICES ASSUME NEW e \in Under(a, {})!Edges
             PROVE  e \in Under(b, {})!Edges
    OBVIOUS
<1>1. PICK f \in Scanned(a) : \E t \in DOMAIN source[f].uses :
               e = [from |-> [dir |-> source[f].dir, file |-> f], to |-> t, use |-> source[f].uses[t],
                    class |-> source[f].class,
                    fromModule |-> Under(a, {})!DeclaredModule([dir |-> source[f].dir, file |-> f]),
                    toModule |-> Under(a, {})!DeclaredModule(t)]
    BY PolicyEdges DEF NoLooser
<1>2. f \in Scanned(b)
    BY DEF NoLooser
<1>3. \E t \in DOMAIN source[f].uses :
               e = [from |-> [dir |-> source[f].dir, file |-> f], to |-> t, use |-> source[f].uses[t],
                    class |-> source[f].class,
                    fromModule |-> Under(b, {})!DeclaredModule([dir |-> source[f].dir, file |-> f]),
                    toModule |-> Under(b, {})!DeclaredModule(t)]
    BY <1>1, KeptOwners
<1> QED
    BY <1>2, <1>3, PolicyEdges DEF NoLooser

\* The ends of an edge are places, its modules declared ones or nobody.
LEMMA PolicyEdgesPlaced ==
    ASSUME NEW p, SourceTree(source), IsPolicy(p)
    PROVE  /\ EdgesPlaced(Under(p, {})!Edges, [x \in Places |-> Under(p, {})!DeclaredModule(x)])
           /\ \A e \in Under(p, {})!Edges : {e.fromModule, e.toModule} \subseteq Modules \cup {Nobody}
<1> SUFFICES ASSUME NEW e \in Under(p, {})!Edges
             PROVE  /\ e.from \in Places /\ e.to \in Places
                    /\ e.fromModule = Under(p, {})!DeclaredModule(e.from)
                    /\ e.toModule = Under(p, {})!DeclaredModule(e.to)
                    /\ {e.fromModule, e.toModule} \subseteq Modules \cup {Nobody}
    BY DEF EdgesPlaced
<1>1. PICK f \in Scanned(p) : \E t \in DOMAIN source[f].uses :
               e = [from |-> [dir |-> source[f].dir, file |-> f], to |-> t, use |-> source[f].uses[t],
                    class |-> source[f].class,
                    fromModule |-> Under(p, {})!DeclaredModule([dir |-> source[f].dir, file |-> f]),
                    toModule |-> Under(p, {})!DeclaredModule(t)]
    BY PolicyEdges
<1>2. f \in DOMAIN source /\ SourceFile(source[f]) /\ f \in SourceFiles
    BY ReadIs DEF SourceTree
<1>3. [dir |-> source[f].dir, file |-> f] \in Places /\ DOMAIN source[f].uses \subseteq Places
    BY <1>2 DEF SourceFile, Places
<1> QED
    BY <1>1, <1>3, OwnerIsModule

-----------------------------------------------------------------------------
(* PolicyChange: what the rules find under a policy                          *)

LEMMA SameCardinality == \A p, S : Under(p, {})!Cardinality(S) = Cardinality(S)
    BY DEF Under!Cardinality, Cardinality

\* What depends on the edges alone is the same under any policy.
LEMMA UnderAny ==
    ASSUME NEW p, NEW r, NEW E
    PROVE  /\ Under(p, {})!DependencyEdges(E) = DependencyEdges(E)
           /\ Under(p, {})!ForbiddenByPath(r, E) = ForbiddenByPath(r, E)
           /\ Under(p, {})!ForbiddenByModule(r, E) = ForbiddenByModule(r, E)
           /\ Under(p, {})!CycleRule(E) = CycleRule(E)
           /\ Under(p, {})!ModuleCycle(E) = ModuleCycle(E)
           /\ Under(p, {})!ExternalPackages(E) = ExternalPackages(E)
<1>1. Under(p, {})!DependencyEdges(E) = DependencyEdges(E)
    BY DEF Under!DependencyEdges, DependencyEdges
<1>2. \A S : Under(p, {})!ByEdge(S) = ByEdge(S)
    BY DEF Under!ByEdge, ByEdge
<1>3. Under(p, {})!ForbiddenByPath(r, E) = ForbiddenByPath(r, E)
    BY <1>2 DEF Under!ForbiddenByPath, ForbiddenByPath
<1>4. Under(p, {})!ForbiddenByModule(r, E) = ForbiddenByModule(r, E)
    <2>1. \A e : Under(p, {})!Selects(r, e) = Selects(r, e)
        BY DEF Under!Selects, Selects
    <2>2. \A m, w, x : Under(p, {})!EndKey(m, w, x) = EndKey(m, w, x)
        BY DEF Under!EndKey, EndKey
    <2>3. \A e : Under(p, {})!ImportingPackage(e) = ImportingPackage(e)
        BY DEF Under!ImportingPackage, ImportingPackage, Under!Package, Package
    <2> QED
        BY <1>1, <2>1, <2>2, <2>3 DEF Under!ForbiddenByModule, ForbiddenByModule
<1>5. \A D : Under(p, {})!Components(D) = Components(D)
    <2>1. \A D : Under(p, {})!Inner(D) = Inner(D)
        BY DEF Under!Inner, Inner
    <2>2. \A D : Under(p, {})!NodesOf(D) = NodesOf(D)
        BY DEF Under!NodesOf, NodesOf
    <2>3. \A D : Under(p, {})!Closed(D) = Closed(D)
        BY <2>2 DEF Under!Closed, Closed
    <2>4. \A K, x : Under(p, {})!Unseparated(K, x) = Unseparated(K, x)
        BY DEF Under!Unseparated, Unseparated
    <2> SUFFICES ASSUME NEW D
                 PROVE  Under(p, {})!Components(D) = Components(D)
        OBVIOUS
    <2>5. \A S : S \in Components(D) <=>
            (\E x \in UNION Closed(Inner(D)) : S = Unseparated(Closed(Inner(D)), x)) /\ Cardinality(S) > 1
        BY DEF Components
    <2>6. \A S : S \in Under(p, {})!Components(D) <=>
            /\ \E x \in UNION Under(p, {})!Closed(Under(p, {})!Inner(D)) :
                 S = Under(p, {})!Unseparated(Under(p, {})!Closed(Under(p, {})!Inner(D)), x)
            /\ Cardinality(S) > 1
        BY SameCardinality DEF Under!Components
    <2>7. \A S : S \in Components(D) <=> S \in Under(p, {})!Components(D)
        BY <2>1, <2>3, <2>4, <2>5, <2>6
    <2> QED
        BY <2>7
<1>6. Under(p, {})!CycleRule(E) = CycleRule(E)
    BY <1>1, <1>5 DEF Under!CycleRule, CycleRule
<1>7. Under(p, {})!ModuleEdges(E) = ModuleEdges(E)
    BY <1>1 DEF Under!ModuleEdges, ModuleEdges, Under!ProductionSource, ProductionSource
<1>8. Under(p, {})!ModuleCycle(E) = ModuleCycle(E)
    BY <1>5, <1>7 DEF Under!ModuleCycle, ModuleCycle
<1>9. Under(p, {})!ExternalPackages(E) = ExternalPackages(E)
    BY <1>1 DEF Under!ExternalPackages, ExternalPackages
<1> QED
    BY <1>1, <1>3, <1>4, <1>6, <1>8, <1>9

\* The same rule, or a stricter one: what it reads is the same, its cap no higher.
SameReading(r, q) ==
    /\ q.id = r.id /\ q.type = r.type /\ q.from = r.from /\ q.to = r.to
    /\ q.fromModules = r.fromModules /\ q.toModules = r.toModules /\ q.patterns = r.patterns
    /\ r.type \in RuleTypes
    /\ r.type = "public_api_max" => r.max \in Int /\ q.max \in Int /\ q.max <= r.max

\* What an allowlist denies, a narrower one denies.
LEMMA KeptDenied ==
    ASSUME NEW a, NEW b, NoLooser(a, b), NEW m \in Modules \cup {Nobody}, NEW n \in Modules,
           Under(a, {})!DeniedDependency(m, n) # {}
    PROVE  Under(b, {})!DeniedDependency(m, n) # {}
<1>1. m # n /\ \/ m # Nobody /\ n \notin PolicyOf(a).dependsOn[m]
               \/ m \notin PolicyOf(a).visibleTo[n]
    BY DEF Under!DeniedDependency
<1>2. CASE m # Nobody /\ n \notin PolicyOf(a).dependsOn[m]
    <2>1. n \notin PolicyOf(b).dependsOn[m]
        BY <1>2 DEF NoLooser
    <2> QED
        BY <1>1, <1>2, <2>1 DEF Under!DeniedDependency
<1>3. CASE m \notin PolicyOf(a).visibleTo[n]
    <2>1. m \notin PolicyOf(b).visibleTo[n]
        BY <1>3 DEF NoLooser
    <2> QED
        BY <1>1, <2>1 DEF Under!DeniedDependency
<1> QED
    BY <1>1, <1>2, <1>3

LEMMA KeptByEdges ==
    ASSUME NEW a, NEW b, NoLooser(a, b), NEW r, NEW q, SameReading(r, q), NEW E, NEW F, F \subseteq E,
           \A e \in E : {e.fromModule, e.toModule} \subseteq Modules \cup {Nobody}
    PROVE  /\ Under(a, {})!ForbiddenByPath(r, F) \subseteq Under(b, {})!ForbiddenByPath(q, E)
           /\ Under(a, {})!ForbiddenByModule(r, F) \subseteq Under(b, {})!ForbiddenByModule(q, E)
           /\ Under(a, {})!PublicAPIOnly(r, F) \subseteq Under(b, {})!PublicAPIOnly(q, E)
           /\ Under(a, {})!ForbiddenLayerDirection(F) \subseteq Under(b, {})!ForbiddenLayerDirection(E)
           /\ Under(a, {})!NewCrossModuleDependency(F) \subseteq Under(b, {})!NewCrossModuleDependency(E)
           /\ Under(a, {})!ModuleDependencies(F) \subseteq Under(b, {})!ModuleDependencies(E)
<1>1. /\ Under(a, {})!DependencyEdges(F) = DependencyEdges(F) /\ Under(b, {})!DependencyEdges(E) = DependencyEdges(E)
      /\ DependencyEdges(F) \subseteq DependencyEdges(E) /\ DependencyEdges(E) \subseteq E
    BY UnderAny DEF DependencyEdges
<1>2. \A S : Under(a, {})!ByEdge(S) = ByEdge(S) /\ Under(b, {})!ByEdge(S) = ByEdge(S)
    BY DEF Under!ByEdge, ByEdge
<1>3. \A S, T : S \subseteq T => ByEdge(S) \subseteq ByEdge(T)
    BY DEF ByEdge
<1>4. Under(a, {})!ForbiddenByPath(r, F) \subseteq Under(b, {})!ForbiddenByPath(q, E)
    <2>1. ForbiddenByPath(r, F) \subseteq ForbiddenByPath(r, E)
        BY MoreEdges
    <2>2. ForbiddenByPath(r, E) = ForbiddenByPath(q, E)
        BY DEF ForbiddenByPath, SameReading
    <2> QED
        BY <2>1, <2>2, UnderAny
<1>5. Under(a, {})!ForbiddenByModule(r, F) \subseteq Under(b, {})!ForbiddenByModule(q, E)
    <2>1. ForbiddenByModule(r, F) \subseteq ForbiddenByModule(r, E)
        BY MoreEdges
    <2>2. \A e : Selects(r, e) = Selects(q, e)
        BY DEF Selects, SameReading
    <2>3. r.fromModules = q.fromModules /\ r.toModules = q.toModules
        BY DEF SameReading
    <2>4. ForbiddenByModule(r, E) = ForbiddenByModule(q, E)
        BY <2>2, <2>3 DEF ForbiddenByModule
    <2> QED
        BY <2>1, <2>4, UnderAny
<1>6. Under(a, {})!PublicAPIOnly(r, F) \subseteq Under(b, {})!PublicAPIOnly(q, E)
    <2>1. \A e : /\ Under(a, {})!InternalTarget(e) = Under(b, {})!InternalTarget(e)
                 /\ Under(a, {})!SameModule(e) = Under(b, {})!SameModule(e)
        BY KeptOwners DEF Under!InternalTarget, Under!SameModule
    <2>2. r.from = q.from /\ r.to = q.to
        BY DEF SameReading
    <2> DEFINE A == {e \in DependencyEdges(F) : /\ e.from \in r.from /\ e.to \in r.to
                                                /\ Under(a, {})!InternalTarget(e) /\ ~Under(a, {})!SameModule(e)}
               B == {e \in DependencyEdges(E) : /\ e.from \in q.from /\ e.to \in q.to
                                                /\ Under(b, {})!InternalTarget(e) /\ ~Under(b, {})!SameModule(e)}
    <2>3. Under(a, {})!PublicAPIOnly(r, F) = ByEdge(A) /\ Under(b, {})!PublicAPIOnly(q, E) = ByEdge(B)
        BY <1>1, <1>2 DEF Under!PublicAPIOnly
    <2>4. A \subseteq B
        BY <1>1, <2>1, <2>2
    <2> QED
        BY <1>3, <2>3, <2>4
<1>7. Under(a, {})!ForbiddenLayerDirection(F) \subseteq Under(b, {})!ForbiddenLayerDirection(E)
    <2> DEFINE A == {e \in F : Under(a, {})!LayerFor(e.from) > 0 /\ Under(a, {})!LayerFor(e.from) < Under(a, {})!LayerFor(e.to)}
               B == {e \in E : Under(b, {})!LayerFor(e.from) > 0 /\ Under(b, {})!LayerFor(e.from) < Under(b, {})!LayerFor(e.to)}
    <2>1. Under(a, {})!ForbiddenLayerDirection(F) = ByEdge(A) /\ Under(b, {})!ForbiddenLayerDirection(E) = ByEdge(B)
        BY <1>2 DEF Under!ForbiddenLayerDirection
    <2>2. A \subseteq B
        BY KeptOwners
    <2> QED
        BY <1>3, <2>1, <2>2
<1>8. Under(a, {})!NewCrossModuleDependency(F) \subseteq Under(b, {})!NewCrossModuleDependency(E)
    <2> DEFINE Crosses(p, e) == /\ Under(p, {})!ModuleFor(e.from) # Nobody
                                /\ Under(p, {})!ModuleFor(e.to) \notin {Nobody, Under(p, {})!ModuleFor(e.from)}
    <2>1. /\ Under(a, {})!NewCrossModuleDependency(F) = ByEdge({e \in F : Crosses(a, e)})
          /\ Under(b, {})!NewCrossModuleDependency(E) = ByEdge({e \in E : Crosses(b, e)})
        BY <1>2 DEF Under!NewCrossModuleDependency
    <2>2. {e \in F : Crosses(a, e)} \subseteq {e \in E : Crosses(b, e)}
        BY KeptOwners
    <2> QED
        BY <1>3, <2>1, <2>2
<1>9. Under(a, {})!ModuleDependencies(F) \subseteq Under(b, {})!ModuleDependencies(E)
    <2> SUFFICES ASSUME NEW k \in Under(a, {})!ModuleDependencies(F)
                 PROVE  k \in Under(b, {})!ModuleDependencies(E)
        OBVIOUS
    <2>1. PICK e \in DependencyEdges(F) :
            /\ e.toModule # Nobody /\ ProductionSource(e)
            /\ Under(a, {})!DeniedDependency(e.fromModule, e.toModule) # {}
            /\ k = <<{IF e.fromModule = Nobody THEN ImportingPackage(e) ELSE e.fromModule},
                     {e.toModule}, "module_dependency">>
        BY <1>1 DEF Under!ModuleDependencies, Under!ProductionSource, ProductionSource,
                    Under!ImportingPackage, ImportingPackage, Under!Package, Package
    <2>2. e \in DependencyEdges(E) /\ e.fromModule \in Modules \cup {Nobody} /\ e.toModule \in Modules
        BY <1>1, <2>1
    <2>3. Under(b, {})!DeniedDependency(e.fromModule, e.toModule) # {}
        BY <2>1, <2>2, KeptDenied
    <2> QED
        BY <1>1, <2>1, <2>2, <2>3 DEF Under!ModuleDependencies, Under!ProductionSource, ProductionSource,
                    Under!ImportingPackage, ImportingPackage, Under!Package, Package
<1> QED
    BY <1>4, <1>5, <1>6, <1>7, <1>8, <1>9

\* What a module declares is finite, and no less under a policy that reads more.
LEMMA KeptDeclared ==
    ASSUME NEW a, NEW b, NoLooser(a, b), NEW m
    PROVE  /\ Under(a, {})!DeclaredBy(m) \subseteq Under(b, {})!DeclaredBy(m)
           /\ Under(a, {})!Cardinality(Under(a, {})!DeclaredBy(m)) \in Nat
           /\ Under(b, {})!Cardinality(Under(b, {})!DeclaredBy(m)) \in Nat
           /\ Under(a, {})!Cardinality(Under(a, {})!DeclaredBy(m)) <= Under(b, {})!Cardinality(Under(b, {})!DeclaredBy(m))
<1>1. ASSUME NEW p
      PROVE  \A x : x \in Under(p, {})!DeclaredBy(m) <=>
               /\ x \in Scanned(p) \X Exports /\ x[2] \in ReadUnder(p, {})[x[1]].exports
               /\ Under(p, {})!DeclaredModule([dir |-> source[x[1]].dir, file |-> x[1]]) = m
    <2>1. DOMAIN ReadUnder(p, {}) = Scanned(p)
        BY ReadIs DEF NoLooser
    <2>2. \A f \in Scanned(p) : Under(p, {})!Node(f) = [dir |-> source[f].dir, file |-> f]
        BY ReadIs DEF Under!Node, NoLooser
    <2> QED
        BY <2>1, <2>2 DEF Under!DeclaredBy
<1>2. Under(a, {})!DeclaredBy(m) \subseteq Under(b, {})!DeclaredBy(m)
    <2> SUFFICES ASSUME NEW x \in Under(a, {})!DeclaredBy(m)
                 PROVE  x \in Under(b, {})!DeclaredBy(m)
        OBVIOUS
    <2>1. /\ x \in Scanned(a) \X Exports /\ x[2] \in ReadUnder(a, {})[x[1]].exports
          /\ Under(a, {})!DeclaredModule([dir |-> source[x[1]].dir, file |-> x[1]]) = m
        BY <1>1
    <2>2. x \in Scanned(b) \X Exports
        BY <2>1 DEF NoLooser
    <2>3. Under(b, {})!DeclaredModule([dir |-> source[x[1]].dir, file |-> x[1]]) = m
        BY <2>1, KeptOwners
    <2>4. x[2] \in ReadUnder(b, {})[x[1]].exports
        <3>1. x[1] \in Scanned(a) /\ x[1] \in Scanned(b)
            BY <2>1, <2>2
        <3> QED
            BY <2>1, <3>1, ReadIs DEF NoLooser
    <2> QED
        BY <1>1, <2>2, <2>3, <2>4
<1>3. IsFiniteSet(Under(b, {})!DeclaredBy(m))
    <2>1. Under(b, {})!DeclaredBy(m) \subseteq SourceFiles \X Exports
        <3>1. Scanned(b) \subseteq SourceFiles
            BY ReadIs DEF NoLooser, SourceTree
        <3> SUFFICES ASSUME NEW x \in Under(b, {})!DeclaredBy(m)
                     PROVE  x \in SourceFiles \X Exports
            OBVIOUS
        <3>2. x \in Scanned(b) \X Exports
            BY <1>1
        <3> QED
            BY <3>1, <3>2
    <2>2. IsFiniteSet(SourceFiles \X Exports)
        BY RulesAssumption, FS_Product
    <2> QED
        BY <2>1, <2>2, FS_Subset
<1>4. /\ Cardinality(Under(a, {})!DeclaredBy(m)) \in Nat /\ Cardinality(Under(b, {})!DeclaredBy(m)) \in Nat
      /\ Cardinality(Under(a, {})!DeclaredBy(m)) <= Cardinality(Under(b, {})!DeclaredBy(m))
    BY <1>2, <1>3, FS_Subset, FS_CardinalityType
<1> QED
    BY <1>2, <1>4, SameCardinality

LEMMA KeptByFiles ==
    ASSUME NEW a, NEW b, NoLooser(a, b), NEW r, NEW q, SameReading(r, q), NEW E, NEW F, F \subseteq E
    PROVE  /\ r.type = "public_api_max" => Under(a, {})!PublicAPIMax(r) \subseteq Under(b, {})!PublicAPIMax(q)
           /\ Under(a, {})!PublicAPIChange \subseteq Under(b, {})!PublicAPIChange
           /\ Under(a, {})!PublicAPITypeLeak(F) \subseteq Under(b, {})!PublicAPITypeLeak(E)
           /\ Under(a, {})!ForbiddenPattern(r) \subseteq Under(b, {})!ForbiddenPattern(q)
<1> DEFINE N(f) == [dir |-> source[f].dir, file |-> f]
<1>1. ASSUME NEW p \in {a, b}
      PROVE  /\ DOMAIN ReadUnder(p, {}) = Scanned(p)
             /\ \A f \in Scanned(p) : Under(p, {})!Node(f) = N(f)
    BY ReadIs DEF Under!Node, NoLooser
<1>2. \A f \in Scanned(a) :
        /\ f \in Scanned(b)
        /\ ReadUnder(a, {})[f].class = ReadUnder(b, {})[f].class
        /\ ReadUnder(a, {})[f].exports \subseteq ReadUnder(b, {})[f].exports
        /\ ReadUnder(a, {})[f].leaks \subseteq ReadUnder(b, {})[f].leaks
        /\ ReadUnder(a, {})[f].matches \subseteq ReadUnder(b, {})[f].matches
    BY ReadIs DEF NoLooser
<1>3. \A f : Under(a, {})!DeclaredModule(N(f)) = Under(b, {})!DeclaredModule(N(f))
    BY KeptOwners
<1>4. \A o, n : /\ Under(a, {})!DeclarationKey(o, n) = DeclarationKey(o, n)
                /\ Under(b, {})!DeclarationKey(o, n) = DeclarationKey(o, n)
    BY Zenon DEF Under!DeclarationKey, DeclarationKey
<1> HIDE DEF N
<1>5. r.type = "public_api_max" => Under(a, {})!PublicAPIMax(r) \subseteq Under(b, {})!PublicAPIMax(q)
    <2> SUFFICES ASSUME r.type = "public_api_max", NEW k \in Under(a, {})!PublicAPIMax(r)
                 PROVE  k \in Under(b, {})!PublicAPIMax(q)
        OBVIOUS
    <2>1. PICK m \in Modules : /\ Under(a, {})!Cardinality(Under(a, {})!DeclaredBy(m)) > r.max
                               /\ k = DeclarationKey(m, m)
        BY <1>4 DEF Under!PublicAPIMax, Under!Modules, Modules
    <2>2. PICK C, D : /\ C = Under(a, {})!Cardinality(Under(a, {})!DeclaredBy(m))
                      /\ D = Under(b, {})!Cardinality(Under(b, {})!DeclaredBy(m))
        OBVIOUS
    <2>3. C \in Nat /\ D \in Nat /\ C <= D
        BY <2>2, KeptDeclared
    <2>4. C > r.max /\ r.max \in Int /\ q.max \in Int /\ q.max <= r.max
        BY <2>1, <2>2 DEF SameReading
    <2>5. D > q.max
        BY <2>3, <2>4
    <2>6. Under(b, {})!Cardinality(Under(b, {})!DeclaredBy(m)) > q.max
        BY <2>2, <2>5
    <2> QED
        BY <1>4, <2>1, <2>6 DEF Under!PublicAPIMax, Under!Modules, Modules
<1>6. Under(a, {})!PublicAPIChange \subseteq Under(b, {})!PublicAPIChange
    <2> SUFFICES ASSUME NEW k \in Under(a, {})!PublicAPIChange
                 PROVE  k \in Under(b, {})!PublicAPIChange
        OBVIOUS
    <2>1. PICK f \in Scanned(a) :
            /\ Under(a, {})!DeclaredModule(N(f)) # Nobody
            /\ k \in {DeclarationKey(Under(a, {})!DeclaredModule(N(f)), n) : n \in ReadUnder(a, {})[f].exports}
        BY <1>1, <1>4 DEF Under!PublicAPIChange
    <2>2. /\ f \in Scanned(b) /\ Under(b, {})!DeclaredModule(N(f)) # Nobody
          /\ k \in {DeclarationKey(Under(b, {})!DeclaredModule(N(f)), n) : n \in ReadUnder(b, {})[f].exports}
        BY <1>2, <1>3, <2>1
    <2> QED
        BY <1>1, <1>4, <2>2 DEF Under!PublicAPIChange
<1>7. Under(a, {})!PublicAPITypeLeak(F) \subseteq Under(b, {})!PublicAPITypeLeak(E)
    <2> SUFFICES ASSUME NEW k \in Under(a, {})!PublicAPITypeLeak(F)
                 PROVE  k \in Under(b, {})!PublicAPITypeLeak(E)
        OBVIOUS
    <2> DEFINE O(p, f) == IF Under(p, {})!DeclaredModule(N(f)) = Nobody THEN N(f) ELSE Under(p, {})!DeclaredModule(N(f))
    <2>1. PICK f \in Scanned(a) :
            k \in {DeclarationKey(O(a, f), x) : x \in ReadUnder(a, {})[f].leaks \cap ExternalPackages(F)}
        BY <1>1, <1>4, UnderAny DEF Under!PublicAPITypeLeak
    <2>2. ExternalPackages(F) \subseteq ExternalPackages(E)
        BY MoreEdges
    <2>3. O(a, f) = O(b, f)
        BY <1>3
    <2> HIDE DEF O
    <2>4. /\ f \in Scanned(b)
          /\ k \in {DeclarationKey(O(b, f), x) : x \in ReadUnder(b, {})[f].leaks \cap ExternalPackages(E)}
        BY <1>2, <2>1, <2>2, <2>3
    <2> QED
        BY <1>1, <1>4, <2>4, UnderAny DEF Under!PublicAPITypeLeak, O
<1>8. Under(a, {})!ForbiddenPattern(r) \subseteq Under(b, {})!ForbiddenPattern(q)
    <2> SUFFICES ASSUME NEW k \in Under(a, {})!ForbiddenPattern(r)
                 PROVE  k \in Under(b, {})!ForbiddenPattern(q)
        OBVIOUS
    <2>1. PICK f \in Scanned(a) :
            /\ ReadUnder(a, {})[f].class = "production" /\ N(f) \in r.from
            /\ k \in {<<{N(f)}, {x}, "pattern_match">> : x \in ReadUnder(a, {})[f].matches \cap r.patterns}
        BY <1>1 DEF Under!ForbiddenPattern
    <2>2. /\ f \in Scanned(b) /\ ReadUnder(b, {})[f].class = "production" /\ N(f) \in q.from
          /\ k \in {<<{N(f)}, {x}, "pattern_match">> : x \in ReadUnder(b, {})[f].matches \cap q.patterns}
        BY <1>2, <2>1 DEF SameReading
    <2> QED
        BY <1>1, <2>2 DEF Under!ForbiddenPattern
<1> QED
    BY <1>5, <1>6, <1>7, <1>8

\* What each type of rule checks under a policy.
LEMMA PolicyChecked ==
    ASSUME NEW p, NEW r, NEW E
    PROVE  /\ r.type = "forbidden_dependency" => Under(p, {})!RuleCheck(r, E) =
                IF r.fromModules # {} \/ r.toModules # {} THEN Under(p, {})!ForbiddenByModule(r, E)
                ELSE Under(p, {})!ForbiddenByPath(r, E)
           /\ r.type \in {"public_api_only", "internal_api_access"} =>
                Under(p, {})!RuleCheck(r, E) = Under(p, {})!PublicAPIOnly(r, E)
           /\ r.type = "forbidden_layer_direction" =>
                Under(p, {})!RuleCheck(r, E) = Under(p, {})!ForbiddenLayerDirection(E)
           /\ r.type = "new_cross_module_dependency" =>
                Under(p, {})!RuleCheck(r, E) = Under(p, {})!NewCrossModuleDependency(E)
           /\ r.type = "cycle" => Under(p, {})!RuleCheck(r, E) = Under(p, {})!CycleRule(E)
           /\ r.type = "module_cycle" => Under(p, {})!RuleCheck(r, E) = Under(p, {})!ModuleCycle(E)
           /\ r.type = "module_dependencies" => Under(p, {})!RuleCheck(r, E) = Under(p, {})!ModuleDependencies(E)
           /\ r.type = "public_api_max" => Under(p, {})!RuleCheck(r, E) = Under(p, {})!PublicAPIMax(r)
           /\ r.type = "public_api_change" => Under(p, {})!RuleCheck(r, E) = Under(p, {})!PublicAPIChange
           /\ r.type = "public_api_type_leak" => Under(p, {})!RuleCheck(r, E) = Under(p, {})!PublicAPITypeLeak(E)
           /\ r.type = "forbidden_pattern" => Under(p, {})!RuleCheck(r, E) = Under(p, {})!ForbiddenPattern(r)
    BY DEF Under!RuleCheck, Under!InternalAPIAccess

\* What a rule reports, its stricter form reports, or a cycle around it.
LEMMA KeptKeys ==
    ASSUME NEW a, NEW b, NoLooser(a, b), NEW r, NEW q, SameReading(r, q),
           NEW k \in Under(a, {})!RuleCheck(r, Under(a, {})!Edges)
    PROVE  \/ k \in Under(b, {})!RuleCheck(q, Under(b, {})!Edges)
           \/ /\ r.type \in {"cycle", "module_cycle"}
              /\ \E l \in Under(b, {})!RuleCheck(q, Under(b, {})!Edges) : k[1] \subseteq l[1] /\ k[2] = l[2]
<1>1. PICK E, F : E = Under(b, {})!Edges /\ F = Under(a, {})!Edges
    OBVIOUS
<1>2. F \subseteq E /\ \A e \in E : {e.fromModule, e.toModule} \subseteq Modules \cup {Nobody}
    BY <1>1, KeptEdges, PolicyEdgesPlaced DEF NoLooser
<1>3. PICK g : EdgesPlaced(E, g)
    BY <1>1, PolicyEdgesPlaced DEF NoLooser
<1>4. q.type = r.type /\ r.type \in RuleTypes /\ q.fromModules = r.fromModules /\ q.toModules = r.toModules
    BY DEF SameReading
<1>5. k \in Under(a, {})!RuleCheck(r, F)
    BY <1>1
<1>6. CASE r.type = "cycle"
    <2>1. k \in CycleRule(F) /\ Under(b, {})!RuleCheck(q, E) = CycleRule(E)
        BY <1>4, <1>5, <1>6, PolicyChecked, UnderAny
    <2> QED
        BY <1>1, <1>2, <1>3, <1>6, <2>1, CyclesGrow
<1>7. CASE r.type = "module_cycle"
    <2>1. k \in ModuleCycle(F) /\ Under(b, {})!RuleCheck(q, E) = ModuleCycle(E)
        BY <1>4, <1>5, <1>7, PolicyChecked, UnderAny
    <2>2. ModuleEdges(F) \subseteq ModuleEdges(E)
        BY <1>2, MoreEdges
    <2> QED
        BY <1>1, <1>3, <1>7, <2>1, <2>2, ModuleCyclesGrow
<1>8. CASE r.type \notin {"cycle", "module_cycle"}
    <2>1. /\ Under(a, {})!ForbiddenByPath(r, F) \subseteq Under(b, {})!ForbiddenByPath(q, E)
          /\ Under(a, {})!ForbiddenByModule(r, F) \subseteq Under(b, {})!ForbiddenByModule(q, E)
          /\ Under(a, {})!PublicAPIOnly(r, F) \subseteq Under(b, {})!PublicAPIOnly(q, E)
          /\ Under(a, {})!ForbiddenLayerDirection(F) \subseteq Under(b, {})!ForbiddenLayerDirection(E)
          /\ Under(a, {})!NewCrossModuleDependency(F) \subseteq Under(b, {})!NewCrossModuleDependency(E)
          /\ Under(a, {})!ModuleDependencies(F) \subseteq Under(b, {})!ModuleDependencies(E)
        BY <1>2, KeptByEdges
    <2>2. /\ r.type = "public_api_max" => Under(a, {})!PublicAPIMax(r) \subseteq Under(b, {})!PublicAPIMax(q)
          /\ Under(a, {})!PublicAPIChange \subseteq Under(b, {})!PublicAPIChange
          /\ Under(a, {})!PublicAPITypeLeak(F) \subseteq Under(b, {})!PublicAPITypeLeak(E)
          /\ Under(a, {})!ForbiddenPattern(r) \subseteq Under(b, {})!ForbiddenPattern(q)
        BY <1>2, KeptByFiles
    <2>3. Under(a, {})!RuleCheck(r, F) \subseteq Under(b, {})!RuleCheck(q, E)
        BY <1>4, <1>8, <2>1, <2>2, PolicyChecked DEF RuleTypes
    <2> QED
        BY <1>1, <1>5, <2>3
<1> QED
    BY <1>6, <1>7, <1>8

-----------------------------------------------------------------------------
(* PolicyChange: an edit that is not called a loosening                      *)

\* A gate not lower is on where the other was, and fails where it failed.
LEMMA GateRanks ==
    ASSUME NEW g \in {"fail", "warn", "off"}, NEW h \in {"fail", "warn", "off"}, ~(GateRank(h) < GateRank(g))
    PROVE  (g # "off" => h # "off") /\ (g = "fail" => h = "fail")
    BY DEF GateRank

LEMMA GateIs ==
    ASSUME NEW r, IsRule(r)
    PROVE  Gate(r) \in {"fail", "warn", "off"}
<1>1. r.gate \in PolicyGates
    BY DEF IsRule
<1>2. DefaultGate(r.type) \in {"fail", "warn", "off"}
    BY DEF DefaultGate
<1>3. r.gate = "" \/ r.gate = "fail" \/ r.gate = "warn" \/ r.gate = "off"
    BY <1>1, Zenon DEF PolicyGates
<1>4. Gate(r) = DefaultGate(r.type) \/ Gate(r) = "fail" \/ Gate(r) = "warn" \/ Gate(r) = "off"
    BY <1>3, Zenon DEF Gate
<1> QED
    BY <1>2, <1>4

LEMMA FailingIs ==
    ASSUME NEW gate \in PolicyGates
    PROVE  Failing(gate) \in {"fail", "warn", "off"}
    BY Zenon DEF Failing, PolicyGates

\* A rule and its edit declare the same, but for the gate and the cap.
Redeclared(r, e) == [r EXCEPT !.gate = e, !.max = NotSet]
LEMMA RedeclaredIs ==
    ASSUME NEW r, IsRule(r), NEW e
    PROVE  Redeclared(r, e) = [id |-> r.id, type |-> r.type, gate |-> e, from |-> r.from, to |-> r.to,
              fromModules |-> r.fromModules, toModules |-> r.toModules, max |-> NotSet, patterns |-> r.patterns]
<1>1. PICK q : q = [r EXCEPT !.gate = e]
    OBVIOUS
<1>2. q = [id |-> r.id, type |-> r.type, gate |-> e, from |-> r.from, to |-> r.to,
           fromModules |-> r.fromModules, toModules |-> r.toModules, max |-> r.max, patterns |-> r.patterns]
    BY <1>1 DEF IsRule
<1>3. Redeclared(r, e) = [q EXCEPT !.max = NotSet]
    BY <1>1 DEF Redeclared
<1> QED
    BY <1>2, <1>3

LEMMA SameDeclaration ==
    ASSUME NEW r, IsRule(r), NEW q, IsRule(q), RuleDeclaration(r) = RuleDeclaration(q)
    PROVE  /\ q.id = r.id /\ q.type = r.type /\ q.from = r.from /\ q.to = r.to
           /\ q.fromModules = r.fromModules /\ q.toModules = r.toModules /\ q.patterns = r.patterns
<1>1. PICK e : Redeclared(r, e) = Redeclared(q, e)
    BY Zenon DEF RuleDeclaration, Redeclared
<1>2. /\ Redeclared(r, e) = [id |-> r.id, type |-> r.type, gate |-> e, from |-> r.from, to |-> r.to,
              fromModules |-> r.fromModules, toModules |-> r.toModules, max |-> NotSet, patterns |-> r.patterns]
      /\ Redeclared(q, e) = [id |-> q.id, type |-> q.type, gate |-> e, from |-> q.from, to |-> q.to,
              fromModules |-> q.fromModules, toModules |-> q.toModules, max |-> NotSet, patterns |-> q.patterns]
    BY RedeclaredIs
<1>3. PICK d : d = Redeclared(r, e) /\ d = Redeclared(q, e)
    BY <1>1
<1>4. /\ d.id = r.id /\ d.type = r.type /\ d.from = r.from /\ d.to = r.to
      /\ d.fromModules = r.fromModules /\ d.toModules = r.toModules /\ d.patterns = r.patterns
    BY <1>2, <1>3
<1>5. /\ d.id = q.id /\ d.type = q.type /\ d.from = q.from /\ d.to = q.to
      /\ d.fromModules = q.fromModules /\ d.toModules = q.toModules /\ d.patterns = q.patterns
    BY <1>2, <1>3
<1> QED
    BY <1>4, <1>5

\* A rule of the config in force has its like in a candidate that does not loosen.
LEMMA RuleIsKept ==
    ASSUME NEW a, NEW b, IsPolicy(a), IsPolicy(b), ~Loosens(a, b), NEW r \in a.rules
    PROVE  \E q \in b.rules : SameReading(r, q) /\ ~(GateRank(Gate(q)) < GateRank(Gate(r)))
<1> DEFINE cur == WithId(a.rules, r.id)
           cand == WithId(b.rules, r.id)
<1>1. (\A x \in a.rules : IsRule(x)) /\ (\A x \in b.rules : IsRule(x))
    <2>1. IsPart("rules", a["rules"]) /\ IsPart("rules", b["rules"])
        BY DEF IsPolicy, PolicyParts
    <2> QED
        BY <2>1 DEF IsPart
<1>2. r.id \in Ids(a.rules) \cap Ids(b.rules)
    BY DEF Ids, Loosens
<1>3. r \in cur /\ \E q \in b.rules : q \in cand
    BY <1>2 DEF WithId, Ids
<1>4. IF Single(cur) /\ Single(cand) THEN ~\E x \in cur, y \in cand : RuleLoosened(x, y) ELSE cur = cand
    BY <1>2 DEF Loosens, RulesLoosened
<1>5. CASE Single(cur) /\ Single(cand)
    <2>1. PICK q \in b.rules : q \in cand
        BY <1>3
    <2>2. ~RuleLoosened(r, q)
        BY <1>3, <1>4, <1>5, <2>1
    <2>3. /\ ~(GateRank(Gate(q)) < GateRank(Gate(r)))
          /\ r.max # q.max => NotSet \notin {r.max, q.max} /\ ~(q.max > r.max)
          /\ RuleDeclaration(r) = RuleDeclaration(q)
        BY <2>2 DEF RuleLoosened
    <2>4. IsRule(r) /\ IsRule(q)
        BY <1>1
    <2>5. /\ q.id = r.id /\ q.type = r.type /\ q.from = r.from /\ q.to = r.to
          /\ q.fromModules = r.fromModules /\ q.toModules = r.toModules /\ q.patterns = r.patterns
        BY <2>3, <2>4, SameDeclaration
    <2>6. r.type \in RuleTypes
        BY <2>4 DEF IsRule
    <2>7. r.type = "public_api_max" => r.max \in Int /\ q.max \in Int
        BY <2>4, <2>5 DEF IsRule
    <2>8. r.type = "public_api_max" => q.max <= r.max
        BY <2>3, <2>7
    <2>9. SameReading(r, q)
        BY <2>5, <2>6, <2>7, <2>8 DEF SameReading
    <2> QED
        BY <2>3, <2>9
<1>6. CASE ~(Single(cur) /\ Single(cand))
    <2>1. r \in b.rules
        BY <1>3, <1>4, <1>6 DEF WithId
    <2>2. r.type \in RuleTypes /\ (r.type = "public_api_max" => r.max \in Int)
        BY <1>1 DEF IsRule
    <2>3. SameReading(r, r)
        BY <2>2 DEF SameReading
    <2>4. ~(GateRank(Gate(r)) < GateRank(Gate(r)))
        BY DEF GateRank
    <2> QED
        BY <2>1, <2>3, <2>4
<1> QED
    BY <1>5, <1>6

\* An allowlist that is not widened admits no more.
LEMMA ListIsKept ==
    ASSUME NEW from, NEW to, Lists(from), Lists(to), NEW all, Modules \subseteq all,
           from # to => AdmitsMore(to, from)
    PROVE  Admits(to, all) \subseteq Admits(from, all)
    BY DEF Admits, AdmitsMore, Lists

LEMMA DoesNotLoosen ==
    ASSUME NEW a, NEW b, IsPolicy(a), IsPolicy(b), ~Loosens(a, b), SourceTree(source)
    PROVE  NoLooser(a, b)
<1>1. /\ IsPart("modules", a["modules"]) /\ IsPart("modules", b["modules"])
      /\ IsPart("languages", a["languages"]) /\ IsPart("languages", b["languages"])
      /\ IsPart("syntax", a["syntax"]) /\ IsPart("syntax", b["syntax"])
    BY DEF IsPolicy, PolicyParts
<1>2. DOMAIN a.modules = DOMAIN b.modules
    BY DEF Loosens, CoverageLost, DeclarationsChanged
<1>3. \A m \in DOMAIN a.modules :
        /\ a.modules[m].paths = b.modules[m].paths /\ Surface(a, m) = Surface(b, m)
        /\ ~Widened(a, b, m, "dependsOn") /\ ~Widened(a, b, m, "visibleTo")
    <2>1. InBoth(a, b) = DOMAIN a.modules
        BY <1>2 DEF InBoth
    <2>2. \A m \in DOMAIN a.modules : ~Widened(a, b, m, "dependsOn") /\ ~Widened(a, b, m, "visibleTo")
        BY <2>1 DEF Loosens
    <2>3. \A m \in DOMAIN a.modules : a.modules[m].paths \ b.modules[m].paths = {}
        BY <2>1 DEF Loosens, CoverageLost
    <2>4. \A m \in DOMAIN a.modules : b.modules[m].paths \ a.modules[m].paths = {} /\ Surface(a, m) = Surface(b, m)
        BY <2>1 DEF Loosens, DeclarationsChanged
    <2> QED
        BY <2>2, <2>3, <2>4
<1>4. a.layers = b.layers
    BY DEF Loosens, DeclarationsChanged
<1>5. \A m \in DOMAIN a.modules :
        /\ a.modules[m].public = b.modules[m].public /\ a.modules[m].internal = b.modules[m].internal
        /\ a.modules[m].layer = b.modules[m].layer
    BY <1>3 DEF Surface
<1>6. PolicyOf(a).globs = PolicyOf(b).globs
    <2>1. PolicyOf(a).globs = [m \in Modules |-> IF m \in DOMAIN a.modules THEN a.modules[m].paths ELSE {}]
        BY PolicyIs
    <2>2. PolicyOf(b).globs = [m \in Modules |-> IF m \in DOMAIN b.modules THEN b.modules[m].paths ELSE {}]
        BY PolicyIs
    <2> QED
        BY <1>2, <1>3, <2>1, <2>2
<1>7. PolicyOf(a).public = PolicyOf(b).public
    <2>1. PolicyOf(a).public = [m \in Modules |-> IF m \in DOMAIN a.modules THEN a.modules[m].public ELSE {}]
        BY PolicyIs
    <2>2. PolicyOf(b).public = [m \in Modules |-> IF m \in DOMAIN b.modules THEN b.modules[m].public ELSE {}]
        BY PolicyIs
    <2> QED
        BY <1>2, <1>5, <2>1, <2>2
<1>8. PolicyOf(a).internal = PolicyOf(b).internal
    <2>1. PolicyOf(a).internal = [m \in Modules |-> IF m \in DOMAIN a.modules THEN a.modules[m].internal ELSE {}]
        BY PolicyIs
    <2>2. PolicyOf(b).internal = [m \in Modules |-> IF m \in DOMAIN b.modules THEN b.modules[m].internal ELSE {}]
        BY PolicyIs
    <2> QED
        BY <1>2, <1>5, <2>1, <2>2
<1>9. PolicyOf(a).layer = PolicyOf(b).layer
    <2>1. PolicyOf(a).layer = [m \in Modules |->
            LayerRank(a.layers, IF m \in DOMAIN a.modules THEN a.modules[m].layer ELSE NotSet)]
        BY PolicyIs
    <2>2. PolicyOf(b).layer = [m \in Modules |->
            LayerRank(b.layers, IF m \in DOMAIN b.modules THEN b.modules[m].layer ELSE NotSet)]
        BY PolicyIs
    <2> QED
        BY <1>2, <1>4, <1>5, <2>1, <2>2
<1>10. ASSUME NEW m \in Modules
       PROVE  /\ PolicyOf(b).dependsOn[m] \subseteq PolicyOf(a).dependsOn[m]
              /\ PolicyOf(b).visibleTo[m] \subseteq PolicyOf(a).visibleTo[m]
    <2> DEFINE D(p) == IF m \in DOMAIN p.modules THEN p.modules[m].dependsOn ELSE Anything
               V(p) == IF m \in DOMAIN p.modules THEN p.modules[m].visibleTo ELSE Anything
    <2>0. \A p : /\ PolicyOf(p).dependsOn[m] = Admits(D(p), Modules)
                 /\ PolicyOf(p).visibleTo[m] = Admits(V(p), Modules \cup {Nobody})
        <3> SUFFICES ASSUME NEW p
                     PROVE  /\ PolicyOf(p).dependsOn[m] = Admits(D(p), Modules)
                            /\ PolicyOf(p).visibleTo[m] = Admits(V(p), Modules \cup {Nobody})
            OBVIOUS
        <3>1. PolicyOf(p).dependsOn = [n \in Modules |->
                Admits(IF n \in DOMAIN p.modules THEN p.modules[n].dependsOn ELSE Anything, Modules)]
            BY PolicyIs
        <3>2. PolicyOf(p).visibleTo = [n \in Modules |->
                Admits(IF n \in DOMAIN p.modules THEN p.modules[n].visibleTo ELSE Anything, Modules \cup {Nobody})]
            BY PolicyIs
        <3> QED
            BY <3>1, <3>2
    <2>1. CASE m \in DOMAIN a.modules
        <3>1. IsModule(a.modules[m]) /\ IsModule(b.modules[m])
            BY <1>1, <1>2, <2>1 DEF IsPart
        <3>2. /\ Lists(a.modules[m].dependsOn) /\ Lists(b.modules[m].dependsOn)
              /\ Lists(a.modules[m].visibleTo) /\ Lists(b.modules[m].visibleTo)
            BY <3>1 DEF IsModule
        <3>3. /\ a.modules[m].dependsOn # b.modules[m].dependsOn =>
                   AdmitsMore(b.modules[m].dependsOn, a.modules[m].dependsOn)
              /\ a.modules[m].visibleTo # b.modules[m].visibleTo =>
                   AdmitsMore(b.modules[m].visibleTo, a.modules[m].visibleTo)
            BY <1>3, <2>1 DEF Widened, Narrowed
        <3>4. /\ Admits(b.modules[m].dependsOn, Modules) \subseteq Admits(a.modules[m].dependsOn, Modules)
              /\ Admits(b.modules[m].visibleTo, Modules \cup {Nobody}) \subseteq Admits(a.modules[m].visibleTo, Modules \cup {Nobody})
            BY <3>2, <3>3, ListIsKept
        <3> QED
            BY <1>2, <2>0, <2>1, <3>4
    <2>2. CASE m \notin DOMAIN a.modules
        BY <1>2, <2>0, <2>2
    <2> QED
        BY <2>1, <2>2
<1>11. Scanned(a) \subseteq Scanned(b)
    <2> SUFFICES ASSUME NEW f \in DOMAIN source, f \notin UNION a.exclude, a.languages[LangOf[f]] # "off"
                 PROVE  f \notin UNION b.exclude /\ b.languages[LangOf[f]] # "off"
        BY DEF Scanned
    <2>1. b.exclude \subseteq a.exclude
        BY DEF Loosens, CoverageLost
    <2>2. PICK l \in PolicyLangs : l = LangOf[f]
        BY PolicyAssumption DEF SourceTree
    <2>3. ~(ModeRank(b.languages[l]) < ModeRank(a.languages[l]))
        BY DEF Loosens, CoverageLost
    <2>4. a.languages[l] \in {"on", "off", "auto"} /\ b.languages[l] \in {"on", "off", "auto"}
        BY <1>1 DEF IsPart
    <2>5. b.languages[l] # "off"
        BY <2>2, <2>3, <2>4 DEF ModeRank
    <2> QED
        BY <2>1, <2>2, <2>5
<1>12. a.syntax => b.syntax
    BY DEF Loosens, CoverageLost
<1> QED
    BY <1>6, <1>7, <1>8, <1>9, <1>10, <1>11, <1>12 DEF NoLooser

-----------------------------------------------------------------------------
(* PolicyChange: what one config reports and the other does not              *)

\* A metric over its tolerance, under some key.
TrippedAs(p, m, e) == [id |-> m, key |-> e, cyclic |-> FALSE, gates |-> Failing(p.metrics[m].gate) = "fail"]
Trips(p, m) == Failing(p.metrics[m].gate) # "off" /\ Measures[m] > p.metrics[m].tolerance

LEMMA TrippedIs ==
    \E e : \A p, x : x \in Tripped(p) <=> \E m \in DOMAIN Measures : Trips(p, m) /\ x = TrippedAs(p, m, e)
<1>1. \A p, x : x \in Tripped(p) <=> \E m \in DOMAIN Measures : Trips(p, m) /\ x = TrippedAs(p, m, "")
    BY Zenon DEF Tripped, Trips, TrippedAs
<1> QED
    BY <1>1, Zenon

\* A finding of a rule, as it is compared.
ReportedAs(r, k) == [id |-> r.id, key |-> k, cyclic |-> r.type \in {"cycle", "module_cycle"}, gates |-> Gate(r) # "warn"]

LEMMA ReportedIs ==
    ASSUME NEW p
    PROVE  \A x : x \in ReportedBy(p, {}) <=>
             \/ x \in Tripped(p)
             \/ \E r \in p.rules : Gate(r) # "off" /\ \E k \in Under(p, {})!RuleCheck(r, Under(p, {})!Edges) :
                  x = ReportedAs(r, k)
<1>1. \A r : Under(p, {})!Gate(r) = Gate(r)
    BY Zenon DEF Under!Gate, Gate, Under!DefaultGate, DefaultGate
<1>2. PolicyOf(p).rules = p.rules
    BY PolicyIs
<1> DEFINE Found(r, k) == [rule |-> r, gates |-> Gate(r) # "warn", key |-> k]
           Compared(y) == [id |-> y.rule.id, key |-> y.key, cyclic |-> Cyclic(y), gates |-> y.gates]
<1>3. \A y : y \in Under(p, {})!Findings <=>
        \E r \in p.rules : Gate(r) # "off" /\ \E k \in Under(p, {})!RuleCheck(r, Under(p, {})!Edges) : y = Found(r, k)
    BY <1>1, <1>2 DEF Under!Findings, Under!Gated
<1>4. \A r, k : Compared(Found(r, k)) = ReportedAs(r, k)
    BY DEF ReportedAs, Cyclic
<1>5. \A x : x \in ReportedBy(p, {}) <=> x \in Tripped(p) \/ \E y \in Under(p, {})!Findings : x = Compared(y)
    BY DEF ReportedBy
<1> HIDE DEF Found, Compared
<1> QED
    BY <1>3, <1>4, <1>5

\* What a config reports, a candidate that does not loosen still does, and as strictly.
LEMMA NothingVanishes ==
    ASSUME NEW a, NEW b, IsPolicy(a), IsPolicy(b), SourceTree(source), ~Loosens(a, b),
           NEW x \in ReportedBy(a, {})
    PROVE  \E y \in ReportedBy(b, {}) : Same(x, y) /\ (x.gates => y.gates)
<1>1. CASE x \in Tripped(a)
    <2>1. PICK e : \A p, z : z \in Tripped(p) <=> \E m \in DOMAIN Measures : Trips(p, m) /\ z = TrippedAs(p, m, e)
        BY TrippedIs
    <2>2. PICK m \in DOMAIN Measures : Trips(a, m) /\ x = TrippedAs(a, m, e)
        BY <1>1, <2>1
    <2>3. PICK f, g : f = Failing(a.metrics[m].gate) /\ g = Failing(b.metrics[m].gate)
        OBVIOUS
    <2>4. PICK s, t : s = a.metrics[m].tolerance /\ t = b.metrics[m].tolerance
        OBVIOUS
    <2>5. /\ a.metrics[m].gate \in PolicyGates /\ b.metrics[m].gate \in PolicyGates
          /\ s \in Int /\ t \in Int /\ Measures[m] \in Int
        <3>1. IsPart("metrics", a["metrics"]) /\ IsPart("metrics", b["metrics"])
            BY DEF IsPolicy, PolicyParts
        <3>2. \A v : IsPart("metrics", v) => v[m].gate \in PolicyGates /\ v[m].tolerance \in Int
            BY DEF IsPart
        <3> QED
            BY <2>4, <3>1, <3>2, PolicyAssumption
    <2>6. f \in {"fail", "warn", "off"} /\ g \in {"fail", "warn", "off"}
        BY <2>3, <2>5, FailingIs
    <2>7. ~(GateRank(g) < GateRank(f)) /\ ~(t > s)
        BY <2>3, <2>4 DEF Loosens, MetricLoosened
    <2>8. (f # "off" => g # "off") /\ (f = "fail" => g = "fail")
        BY <2>6, <2>7, GateRanks
    <2>9. f # "off" /\ Measures[m] > s
        BY <2>2, <2>3, <2>4 DEF Trips
    <2>10. Measures[m] > t
        BY <2>5, <2>7, <2>9
    <2>11. Trips(b, m)
        BY <2>3, <2>4, <2>8, <2>9, <2>10 DEF Trips
    <2>12. PICK y : y = TrippedAs(b, m, e)
        OBVIOUS
    <2>13. y \in ReportedBy(b, {})
        BY <2>1, <2>11, <2>12, ReportedIs
    <2>14. x.id = y.id /\ x.key = y.key /\ x.cyclic = FALSE /\ (x.gates => y.gates)
        BY <2>2, <2>3, <2>8, <2>12 DEF TrippedAs
    <2> QED
        BY <2>13, <2>14 DEF Same
<1>2. CASE x \notin Tripped(a)
    <2>1. PICK r \in a.rules : Gate(r) # "off" /\ \E k \in Under(a, {})!RuleCheck(r, Under(a, {})!Edges) :
            x = ReportedAs(r, k)
        BY <1>2, ReportedIs
    <2>2. PICK k \in Under(a, {})!RuleCheck(r, Under(a, {})!Edges) : x = ReportedAs(r, k)
        BY <2>1
    <2>3. PICK q \in b.rules : SameReading(r, q) /\ ~(GateRank(Gate(q)) < GateRank(Gate(r)))
        BY RuleIsKept
    <2>4. IsRule(r) /\ IsRule(q)
        <3>1. IsPart("rules", a["rules"]) /\ IsPart("rules", b["rules"])
            BY DEF IsPolicy, PolicyParts
        <3> QED
            BY <3>1 DEF IsPart
    <2>5. PICK f, g : f = Gate(r) /\ g = Gate(q)
        OBVIOUS
    <2>6. f \in {"fail", "warn", "off"} /\ g \in {"fail", "warn", "off"}
        BY <2>4, <2>5, GateIs
    <2>7. g # "off" /\ (f = "fail" => g = "fail")
        BY <2>1, <2>3, <2>5, <2>6, GateRanks
    <2>8. f # "warn" => g # "warn"
        BY <2>1, <2>5, <2>6, <2>7
    <2>9. q.id = r.id /\ q.type = r.type
        BY <2>3 DEF SameReading
    <2>10. NoLooser(a, b)
        BY DoesNotLoosen
    <2>11. \A l \in Under(b, {})!RuleCheck(q, Under(b, {})!Edges) : ReportedAs(q, l) \in ReportedBy(b, {})
        BY <2>5, <2>7, ReportedIs
    <2>12. \A l : /\ ReportedAs(q, l).id = x.id /\ ReportedAs(q, l).cyclic = x.cyclic /\ ReportedAs(q, l).key = l
                  /\ x.key = k /\ (x.cyclic <=> r.type \in {"cycle", "module_cycle"})
                  /\ (x.gates => ReportedAs(q, l).gates)
        BY <2>2, <2>5, <2>8, <2>9 DEF ReportedAs
    <2>13. CASE k \in Under(b, {})!RuleCheck(q, Under(b, {})!Edges)
        <3>1. PICK y \in ReportedBy(b, {}) : y = ReportedAs(q, k)
            BY <2>11, <2>13
        <3>2. y.id = x.id /\ y.key = x.key /\ (x.gates => y.gates)
            BY <2>12, <3>1
        <3> QED
            BY <3>2 DEF Same
    <2>14. CASE /\ r.type \in {"cycle", "module_cycle"}
                /\ \E l \in Under(b, {})!RuleCheck(q, Under(b, {})!Edges) : k[1] \subseteq l[1] /\ k[2] = l[2]
        <3>1. PICK l \in Under(b, {})!RuleCheck(q, Under(b, {})!Edges) : k[1] \subseteq l[1]
            BY <2>14
        <3>2. PICK y \in ReportedBy(b, {}) : y = ReportedAs(q, l)
            BY <2>11
        <3>3. y.id = x.id /\ x.cyclic /\ y.cyclic /\ x.key[1] \subseteq y.key[1] /\ (x.gates => y.gates)
            BY <2>12, <2>14, <3>1, <3>2
        <3> QED
            BY <3>3 DEF Same
    <2> QED
        BY <2>3, <2>10, <2>13, <2>14, KeptKeys
<1> QED
    BY <1>1, <1>2

LEMMA NothingIsMissed ==
    ASSUME NEW a, NEW b, IsPolicy(a), IsPolicy(b), SourceTree(source), ~Loosens(a, b)
    PROVE  /\ Vanished(ReportedBy(a, {}), ReportedBy(b, {})) = {}
           /\ Vanished(Blocking(a), Blocking(b)) = {}
<1>1. \A x \in ReportedBy(a, {}) : \E y \in ReportedBy(b, {}) : Same(x, y) /\ (x.gates => y.gates)
    BY NothingVanishes
<1>2. \A x, y : Same(x, y) /\ ~Exempt(a, x) => ~Exempt(b, y)
    <2>1. b.waivers \subseteq a.waivers
        BY DEF Loosens
    <2> QED
        BY <2>1 DEF Same, Exempt
<1>3. Vanished(ReportedBy(a, {}), ReportedBy(b, {})) = {}
    BY <1>1 DEF Vanished
<1>4. Vanished(Blocking(a), Blocking(b)) = {}
    BY <1>1, <1>2 DEF Vanished, Blocking
<1> QED
    BY <1>3, <1>4

-----------------------------------------------------------------------------
(* PolicyChange: what comparable runs have read                              *)

\* Both runs of a comparison saw what their rows say, of the configs there are.
PolicyInv ==
    /\ current # NoProposal =>
         /\ IsPolicy(current) /\ IsPolicy(candidate) /\ SourceTree(source)
         /\ \E p \in Proposals : current = p.policy /\ source = p.tree
         /\ \A part \in DOMAIN candidate : candidate[part] = current[part] \/ candidate[part] \in Variants[part]
    /\ current = NoProposal => candidate = NoProposal
    /\ measured # NotMeasured =>
         /\ current # NoProposal
         /\ \E c \in Outcomes(current), d \in Outcomes(candidate) : measured = [current |-> c, candidate |-> d]

\* An outcome whose rows are whole lost nothing.
LEMMA OutcomeIs ==
    ASSUME NEW p, NEW o \in Outcomes(p)
    PROVE  \E h \in Healths : o.rows = ProfileRows(p, h) /\ (o.lost = {} \/ o.lost = Losable(p, h))
<1>1. PICK h \in Healths : o \in {[rows |-> ProfileRows(p, h), lost |-> L] : L \in {{}, Losable(p, h)}}
    BY DEF Outcomes
<1> QED
    BY <1>1

LEMMA WholeOutcome ==
    ASSUME NEW p, SourceTree(source), NEW o \in Outcomes(p),
           \A l \in PolicyLangs : o.rows[l] = "ok" \/ (o.rows[l] = "absent" /\ ~GapFor(p, o.rows, l))
    PROVE  o.lost = {}
<1>1. PICK h : o.rows = ProfileRows(p, h) /\ (o.lost = {} \/ o.lost = Losable(p, h))
    BY OutcomeIs
<1>2. ASSUME NEW f \in Losable(p, h)
      PROVE  FALSE
    <2>1. PICK l : l = LangOf[f]
        OBVIOUS
    <2>2. /\ f \in DOMAIN source /\ f \notin UNION p.exclude /\ p.languages[l] # "off"
          /\ h[l] \in {"unresolved", "stopped", "absent"} /\ l \in PolicyLangs /\ l # "syntax"
        BY <2>1, PolicyAssumption DEF Losable, Scanned, SourceTree
    <2>3. There(p, l)
        BY <2>1, <2>2 DEF There
    <2>4. o.rows[l] = h[l]
        BY <1>1, <2>2, <2>3 DEF ProfileRows, LanguageRow
    <2>5. h[l] = "absent" => GapFor(p, o.rows, l)
        BY <2>3, <2>4 DEF GapFor
    <2> QED
        BY <2>2, <2>4, <2>5
<1> QED
    BY <1>1, <1>2

\* The rows of comparable runs: complete, or absent where nothing was there to read.
LEMMA ComparableLostNothing ==
    ASSUME PolicyInv, measured # NotMeasured, Comparability = "comparable"
    PROVE  measured.current.lost = {} /\ measured.candidate.lost = {}
<1>1. PICK c \in Outcomes(current), d \in Outcomes(candidate) : measured = [current |-> c, candidate |-> d]
    BY DEF PolicyInv
<1>2. measured.current = c /\ measured.candidate = d /\ SourceTree(source)
    BY <1>1 DEF PolicyInv
<1>3. PICK s, t : s = c.rows /\ t = d.rows
    OBVIOUS
<1>4. DOMAIN s = PolicyLangs \cup {"syntax"}
    BY <1>3, OutcomeIs DEF ProfileRows
<1>5. s = t
    BY <1>2, <1>3 DEF Comparability, ProfilesDiffer
<1>6. ASSUME NEW l \in PolicyLangs
      PROVE  GradeTool(l, s[l], t[l], GapFor(current, s, l), GapFor(candidate, t, l)) \in ToolGrades
    <2> DEFINE Gap(p, rows, x) == x \in PolicyLangs /\ GapFor(p, rows, x)
    <2>1. ToolGrades = {GradeTool(x, s[x], t[x], Gap(current, s, x), Gap(candidate, t, x)) : x \in DOMAIN s}
        BY <1>2, <1>3 DEF ToolGrades
    <2>2. GradeTool(l, s[l], t[l], Gap(current, s, l), Gap(candidate, t, l)) \in ToolGrades
        BY <1>4, <2>1
    <2>3. /\ Gap(current, s, l) = GapFor(current, s, l) /\ Gap(candidate, t, l) = GapFor(candidate, t, l)
        BY DEF GapFor
    <2> QED
        BY <2>2, <2>3
<1>7. ASSUME NEW l \in PolicyLangs
      PROVE  /\ s[l] = "ok" \/ (s[l] = "absent" /\ ~GapFor(current, s, l))
             /\ t[l] = "ok" \/ (t[l] = "absent" /\ ~GapFor(candidate, t, l))
    <2>1. PICK g : g = GradeTool(l, s[l], t[l], GapFor(current, s, l), GapFor(candidate, t, l))
        OBVIOUS
    <2>2. g \in ToolGrades /\ "not_comparable" \notin ToolGrades /\ "comparable_with_gaps" \notin ToolGrades
        BY <1>6, <2>1 DEF Comparability
    <2>3. g # "not_comparable" /\ g # "comparable_with_gaps"
        BY <2>2
    <2> QED
        BY <1>5, <2>1, <2>3 DEF GradeTool
<1>8. c.lost = {}
    BY <1>2, <1>3, <1>7, WholeOutcome
<1>9. d.lost = {}
    BY <1>2, <1>3, <1>7, WholeOutcome
<1> QED
    BY <1>2, <1>8, <1>9

-----------------------------------------------------------------------------
(* PolicyChange: what holds while a person edits and compares                *)

LEMMA RewordKeeps ==
    ASSUME NEW p, IsPolicy(p), NEW part \in DOMAIN Variants, NEW v \in Variants[part]
    PROVE  IsPolicy([p EXCEPT ![part] = v])
<1>1. PICK q : q = [p EXCEPT ![part] = v]
    OBVIOUS
<1>2. DOMAIN q = DOMAIN p /\ \A x \in DOMAIN p : q[x] = p[x] \/ (x = part /\ q[x] = v)
    BY <1>1 DEF IsPolicy
<1>3. IsPart(part, v)
    BY PolicyAssumption
<1>4. \A x \in PolicyParts : IsPart(x, q[x])
    BY <1>2, <1>3 DEF IsPolicy
<1> QED
    BY <1>1, <1>2, <1>4 DEF IsPolicy

LEMMA PolicyStart == PolicyInit => PolicyInv
    BY DEF PolicyInit, PolicyInv

LEMMA PolicySteps == PolicyInv /\ [PolicyNext]_policyVars => PolicyInv'
<1> SUFFICES ASSUME PolicyInv, [PolicyNext]_policyVars PROVE PolicyInv'
    OBVIOUS
<1>1. ASSUME current = NoProposal, NEW p \in Proposals, Propose(p)
      PROVE  PolicyInv'
    <2>1. current' = p.policy /\ candidate' = p.policy /\ source' = p.tree /\ measured' = NotMeasured
        BY <1>1 DEF Propose, PolicyInv
    <2>2. IsPolicy(p.policy) /\ SourceTree(p.tree)
        BY PolicyAssumption
    <2> QED
        BY <2>1, <2>2 DEF PolicyInv
<1>2. ASSUME current # NoProposal, NEW part \in DOMAIN Variants, NEW v \in Variants[part], Reword(part, v)
      PROVE  PolicyInv'
    <2>1. /\ measured = NotMeasured /\ candidate' = [candidate EXCEPT ![part] = v]
          /\ current' = current /\ source' = source /\ measured' = measured
        BY <1>2 DEF Reword
    <2>2. IsPolicy(current) /\ IsPolicy(candidate) /\ SourceTree(source)
        BY <1>2 DEF PolicyInv
    <2>3. IsPolicy(candidate')
        BY <2>1, <2>2, RewordKeeps
    <2>4. \A x \in DOMAIN candidate' : candidate'[x] = current'[x] \/ candidate'[x] \in Variants[x]
        <3>1. \A x \in DOMAIN candidate : candidate[x] = current[x] \/ candidate[x] \in Variants[x]
            BY <1>2 DEF PolicyInv
        <3>2. DOMAIN candidate' = DOMAIN candidate
              /\ \A x \in DOMAIN candidate : candidate'[x] = candidate[x] \/ (x = part /\ candidate'[x] = v)
            BY <2>1, <2>2 DEF IsPolicy
        <3> QED
            BY <2>1, <3>1, <3>2
    <2>5. \E p \in Proposals : current' = p.policy /\ source' = p.tree
        BY <1>2, <2>1 DEF PolicyInv
    <2>6. current' # NoProposal /\ measured' = NotMeasured
        BY <1>2, <2>1
    <2> QED
        BY <2>1, <2>2, <2>3, <2>4, <2>5, <2>6 DEF PolicyInv
<1>3. ASSUME Compare
      PROVE  PolicyInv'
    <2>1. current # NoProposal /\ current' = current /\ candidate' = candidate /\ source' = source
        BY <1>3 DEF Compare
    <2>2. PICK c \in Outcomes(current), d \in Outcomes(candidate) : measured' = [current |-> c, candidate |-> d]
        BY <1>3 DEF Compare
    <2>3. Outcomes(current)' = Outcomes(current) /\ Outcomes(candidate)' = Outcomes(candidate)
        BY <2>1 DEF Outcomes, ProfileRows, LanguageRow, There, Losable, Scanned
    <2>4. IsPolicy(current) /\ IsPolicy(candidate) /\ SourceTree(source)
        BY <2>1 DEF PolicyInv
    <2> QED
        BY <2>1, <2>2, <2>3, <2>4 DEF PolicyInv
<1>4. CASE UNCHANGED policyVars
    <2>1. current' = current /\ candidate' = candidate /\ source' = source /\ measured' = measured
        BY <1>4 DEF policyVars
    <2>2. Outcomes(current)' = Outcomes(current) /\ Outcomes(candidate)' = Outcomes(candidate)
        BY <2>1 DEF Outcomes, ProfileRows, LanguageRow, There, Losable, Scanned
    <2> QED
        BY <2>1, <2>2 DEF PolicyInv
<1> QED
    BY <1>1, <1>2, <1>3, <1>4 DEF PolicyNext

LEMMA PolicyHolds == PolicyInv => ComparisonIsSafe
<1> SUFFICES ASSUME PolicyInv PROVE NoMissedLoosening /\ LossIsExplained
    BY DEF ComparisonIsSafe
<1>1. current # NoProposal /\ ~Loosens(current, candidate) =>
        /\ Vanished(ReportedBy(current, {}), ReportedBy(candidate, {})) = {}
        /\ Vanished(Blocking(current), Blocking(candidate)) = {}
    BY NothingIsMissed DEF PolicyInv
<1>2. Direction(current, candidate) \in {"none", "tightening"} <=> ~Loosens(current, candidate)
    BY DEF Direction
<1>3. Direction(current, candidate) \in {"loosening", "mixed"} <=> Loosens(current, candidate)
    BY DEF Direction
<1>4. NoMissedLoosening
    BY <1>1, <1>2 DEF NoMissedLoosening
<1>5. LossIsExplained
    <2> SUFFICES ASSUME measured # NotMeasured, Comparability = "comparable", ~Loosens(current, candidate)
                 PROVE  Vanished(ReportedBy(current, measured.current.lost),
                                 ReportedBy(candidate, measured.candidate.lost)) = {}
        BY <1>3 DEF LossIsExplained
    <2>1. measured.current.lost = {} /\ measured.candidate.lost = {}
        BY ComparableLostNothing
    <2>2. current # NoProposal
        BY DEF PolicyInv
    <2> QED
        BY <1>1, <2>1, <2>2
<1> QED
    BY <1>4, <1>5

LEMMA PolicyTypes == PolicyInv => PolicyTypeOK
<1> SUFFICES ASSUME PolicyInv PROVE PolicyTypeOK
    OBVIOUS
<1> DEFINE R == {"ok", "degraded", "unresolved", "stopped", "absent", "disabled"}
<1>1. ASSUME NEW p, NEW o \in Outcomes(p)
      PROVE  o.rows \in [PolicyLangs \cup {"syntax"} -> R] /\ o.lost \subseteq DOMAIN source
    <2>1. PICK h \in Healths : o.rows = ProfileRows(p, h) /\ (o.lost = {} \/ o.lost = Losable(p, h))
        BY <1>1, OutcomeIs
    <2>2. \A l \in PolicyLangs : h[l] \in R
        <3>1. PICK l \in PolicyLangs : \E g \in {"ok", Roughness[l], "stopped", "absent"} :
                h = [k \in PolicyLangs |-> IF k = l THEN g ELSE "ok"]
            BY DEF Healths
        <3>2. PICK g \in {"ok", Roughness[l], "stopped", "absent"} : h = [k \in PolicyLangs |-> IF k = l THEN g ELSE "ok"]
            BY <3>1
        <3>3. g \in R
            BY PolicyAssumption
        <3> QED
            BY <3>2, <3>3
    <2>3. \A l \in PolicyLangs : LanguageRow(p, l, h[l]) \in R
        BY <2>2 DEF LanguageRow
    <2>4. \A t \in PolicyLangs \cup {"syntax"} :
            (IF t = "syntax" THEN (IF p.syntax THEN "ok" ELSE "disabled") ELSE LanguageRow(p, t, h[t])) \in R
        BY <2>3
    <2>5. ProfileRows(p, h) \in [PolicyLangs \cup {"syntax"} -> R]
        BY <2>4 DEF ProfileRows
    <2> QED
        BY <2>1, <2>5 DEF Losable, Scanned
<1>2. current = NoProposal \/ \E p \in Proposals : current = p.policy /\ source = p.tree
    BY DEF PolicyInv
<1>3. candidate = NoProposal \/ \A part \in DOMAIN candidate :
        candidate[part] = current[part] \/ candidate[part] \in Variants[part]
    BY DEF PolicyInv
<1>4. ASSUME measured # NotMeasured, NEW side \in {"current", "candidate"}
      PROVE  measured[side].rows \in [PolicyLangs \cup {"syntax"} -> R] /\ measured[side].lost \subseteq DOMAIN source
    <2>1. PICK c \in Outcomes(current), d \in Outcomes(candidate) : measured = [current |-> c, candidate |-> d]
        BY <1>4 DEF PolicyInv
    <2>2. measured[side] = c \/ measured[side] = d
        BY <1>4, <2>1
    <2> QED
        BY <1>1, <2>2
<1> QED
    BY <1>2, <1>3, <1>4 DEF PolicyTypeOK

\* For any configs, trees and edits: the candidate is the config in force with some of its
\* parts edited, both are read on one tree, and each run has a row for each analyzer and lost
\* only files there are.
THEOREM PolicyTyped == PolicySpec => []PolicyTypeOK
<1>1. PolicySpec => []PolicyInv
    BY PolicyStart, PolicySteps, PTL DEF PolicySpec
<1> QED
    BY <1>1, PolicyTypes, PTL

\* For any configs, trees and edits of them: an edit not called a loosening takes away
\* nothing that is reported and nothing that blocks; and a finding that goes away between
\* two runs called comparable is the edit's, which is called a loosening.
THEOREM LooseningIsCalled == PolicySpec => []ComparisonIsSafe
<1>1. PolicySpec => []PolicyInv
    BY PolicyStart, PolicySteps, PTL DEF PolicySpec
<1> QED
    BY <1>1, PolicyHolds, PTL

-----------------------------------------------------------------------------
(* Coupling: scores and bands                                                *)

LEMMA BalanceIs ==
    ASSUME NEW s \in Strengths, NEW d \in Boundaries, NEW v \in Volatilities
    PROVE  /\ Balance(s, d, v) \in 0..10
           /\ Balance(s, d, v) = 0 <=> s = "unknown"
           /\ Balance(s, d, v) \in 1..6 => s \in Strong
           /\ s \in Strong /\ v = "high" => Balance(s, d, v) <= 2
           /\ s = "contract" => Balance(s, d, v) > 6
           /\ s \in {"functional", "symmetric"} => Balance(s, "same", v) > 6
<1>1. DistanceValue(d) = 9 /\ DistanceValue("same") = 2
    BY DEF DistanceValue, Boundaries
<1>2. VolatilityValue(v) \in {1, 3, 6, 10} /\ (v = "high" => VolatilityValue(v) = 10)
    BY DEF VolatilityValue, Volatilities
<1>3. /\ s = "unknown" => StrengthValue(s) = 0
      /\ s = "contract" => StrengthValue(s) = 1
      /\ s = "model" => StrengthValue(s) = 3
      /\ s = "functional" => StrengthValue(s) = 8
      /\ s = "symmetric" => StrengthValue(s) = 9
      /\ s = "intrusive" => StrengthValue(s) = 10
    BY DEF StrengthValue
<1>4. /\ Balance(s, d, v) = IF 0 \in {StrengthValue(s), DistanceValue(d)} THEN 0
                           ELSE Greater(Abs(StrengthValue(s) - DistanceValue(d)), 10 - VolatilityValue(v)) + 1
      /\ Balance(s, "same", v) = IF 0 \in {StrengthValue(s), DistanceValue("same")} THEN 0
                           ELSE Greater(Abs(StrengthValue(s) - DistanceValue("same")), 10 - VolatilityValue(v)) + 1
    BY DEF Balance
<1>5. \A m, n \in Int : Greater(m, n) = (IF m > n THEN m ELSE n) /\ Abs(m) = (IF m < 0 THEN -m ELSE m)
    BY DEF Greater, Abs
<1> DEFINE S == StrengthValue(s)
           V == VolatilityValue(v)
           B == Balance(s, d, v)
<1>6. S \in {0, 1, 3, 8, 9, 10} /\ V \in 1..10
    BY <1>2, <1>3 DEF Strengths
<1>7. B = IF S = 0 THEN 0 ELSE Greater(Abs(S - 9), 10 - V) + 1
    BY <1>1, <1>4
<1>8. Balance(s, "same", v) = IF S = 0 THEN 0 ELSE Greater(Abs(S - 2), 10 - V) + 1
    BY <1>1, <1>4
<1> HIDE DEF B, S, V
<1>9. B = IF S = 0 THEN 0 ELSE (IF (IF S < 9 THEN 9 - S ELSE S - 9) > 10 - V THEN (IF S < 9 THEN 9 - S ELSE S - 9) ELSE 10 - V) + 1
    BY <1>5, <1>6, <1>7
<1>10. S \in {8, 9} => Balance(s, "same", v) > 6
    BY <1>5, <1>6, <1>8
<1>11. /\ B \in 0..10
       /\ B = 0 <=> S = 0
       /\ B \in 1..6 => S >= 8
       /\ S >= 8 /\ V = 10 => B <= 2
       /\ S = 1 => B > 6
    <2>1. CASE S = 0
        BY <1>9, <2>1
    <2>2. CASE S \in 1..8
        <3>1. B = (IF 9 - S > 10 - V THEN 9 - S ELSE 10 - V) + 1
            BY <1>9, <2>2
        <3> QED
            BY <1>6, <2>2, <3>1
    <2>3. CASE S \in 9..10
        <3>1. B = (IF S - 9 > 10 - V THEN S - 9 ELSE 10 - V) + 1
            BY <1>9, <2>3
        <3> QED
            BY <1>6, <2>3, <3>1
    <2> QED
        BY <1>6, <2>1, <2>2, <2>3
<1>12. /\ S = 0 <=> s = "unknown"
       /\ S >= 8 <=> s \in Strong
       /\ s = "contract" => S = 1
       /\ s \in {"functional", "symmetric"} => S \in {8, 9}
    BY <1>3 DEF S, Strengths, Strong
<1> QED
    BY <1>2, <1>10, <1>11, <1>12 DEF B, V

\* The bands of a balance, from the worst.
LEMMA BandIs ==
    ASSUME NEW n \in 0..10
    PROVE  Band(n) = IF n = 0 \/ n > 8 THEN "none" ELSE IF n > 6 THEN "low" ELSE IF n > 4 THEN "medium"
                     ELSE IF n > 2 THEN "high" ELSE "critical"
<1>1. CASE n = 0
    BY <1>1 DEF Band
<1>2. CASE n \in 1..2
    BY <1>2 DEF Band
<1>3. CASE n \in 3..4
    BY <1>3 DEF Band
<1>4. CASE n \in 5..6
    BY <1>4 DEF Band
<1>5. CASE n \in 7..8
    BY <1>5 DEF Band
<1>6. CASE n > 8
    BY <1>6 DEF Band
<1> QED
    BY <1>1, <1>2, <1>3, <1>4, <1>5, <1>6

BandNames == {"none", "low", "medium", "high", "critical"}

LEMMA WorseBandIs ==
    ASSUME NEW n \in 0..10
    PROVE  /\ WorseBand("none", n) = Band(n)
           /\ \A m \in 1..10 : WorseBand(Band(m), n) = IF n # 0 /\ n < m THEN Band(n) ELSE Band(m)
           /\ Band(n) \in BandNames
<1>1. /\ BandRank("none") = 0 /\ BandRank("low") = 1 /\ BandRank("medium") = 2
      /\ BandRank("high") = 3 /\ BandRank("critical") = 4
    BY DEF BandRank
<1>2. \A m \in 0..10 :
        /\ Band(m) \in BandNames
        /\ BandRank(Band(m)) = IF m = 0 \/ m > 8 THEN 0 ELSE IF m > 6 THEN 1 ELSE IF m > 4 THEN 2 ELSE IF m > 2 THEN 3 ELSE 4
    BY <1>1, BandIs DEF BandNames
<1>3. \A m \in 0..10 : BandRank(Band(m)) = BandRank(Band(n)) => Band(m) = Band(n)
    BY <1>1, BandIs
<1>4. \A b : WorseBand(b, n) = IF BandRank(Band(n)) > BandRank(b) THEN Band(n) ELSE b
    BY DEF WorseBand
<1>5. WorseBand("none", n) = Band(n)
    <2>1. BandRank(Band(n)) > 0 \/ Band(n) = "none"
        BY <1>2, BandIs
    <2> QED
        BY <1>1, <1>2, <1>4, <2>1
<1>6. ASSUME NEW m \in 1..10 PROVE WorseBand(Band(m), n) = IF n # 0 /\ n < m THEN Band(n) ELSE Band(m)
    <2>1. m \in 0..10
        OBVIOUS
    <2>2. CASE n # 0 /\ n < m
        <3>1. BandRank(Band(n)) >= BandRank(Band(m)) /\ BandRank(Band(n)) \in Nat /\ BandRank(Band(m)) \in Nat
            BY <1>2, <2>1, <2>2
        <3> QED
            BY <1>3, <1>4, <2>1, <2>2, <3>1
    <2>3. CASE ~(n # 0 /\ n < m)
        <3>1. ~(BandRank(Band(n)) > BandRank(Band(m)))
            BY <1>2, <2>1, <2>3
        <3> QED
            BY <1>4, <2>3, <3>1
    <2> QED
        BY <2>2, <2>3
<1> QED
    BY <1>2, <1>5, <1>6

-----------------------------------------------------------------------------
(* Coupling: what a fact is of                                               *)

LEMMA StrengthIs ==
    ASSUME system \in Systems, NEW e \in system.edges
    PROVE  Strength(e) \in Strengths
<1>1. GraphEdge(e, system)
    BY CouplingAssumption
<1>2. e.hint \in Strengths
    BY <1>1 DEF GraphEdge
<1>3. Unjudged(e) \in Strengths
    <2>1. CASE Pinned(e)
        BY <2>1, CouplingAssumption DEF Unjudged, Pinned
    <2>2. CASE ~Pinned(e) /\ ByGlob(e) = "contract"
        BY <2>2 DEF Unjudged, Strengths
    <2>3. CASE ~Pinned(e) /\ ByGlob(e) = "intrusive"
        BY <2>3 DEF Unjudged, Strengths
    <2>4. CASE ~Pinned(e) /\ ByGlob(e) \notin {"contract", "intrusive"}
        BY <1>2, <2>4 DEF Unjudged
    <2> QED
        BY <2>1, <2>2, <2>3, <2>4
<1>4. Judged(e) => system.judged[Pair(e)].strength \in Strengths
    BY CouplingAssumption DEF Judged
<1> QED
    BY <1>3, <1>4 DEF Strength

LEMMA ModuleDistanceIs ==
    ASSUME NEW m, NEW n
    PROVE  ModuleDistance(m, n) \in Boundaries
<1>1. ModuleDistance(m, n) \in {"deploy unit", "owner", "module"}
    BY Zenon DEF ModuleDistance
<1> QED
    BY <1>1 DEF Boundaries

LEMMA WorseIs == ASSUME NEW v, NEW w PROVE Worse(v, w) \in {v, w}
    BY DEF Worse

LEMMA BoundariesAre == "external" \notin Boundaries /\ "unknown" \notin Boundaries /\ "same" \notin Boundaries
    BY DEF Boundaries

\* The edges a seam is made of: those between its two modules, if no system is one of them.
SeamPair(p) == p \in Parts \X Parts /\ p[1] # p[2] /\ p[2] \notin DOMAIN system.vendors

LEMMA SeamEdgeIs ==
    ASSUME NEW e
    PROVE  /\ SeamEdge(e) <=> SeamPair(Pair(e))
           /\ SeamEdge(e) => Distance(e) = ModuleDistance(e.from, e.to)
<1>1. Pair(e) = <<e.from, e.to>>
    BY DEF Pair
<1>2. Owned(e) <=> e.from \in Parts /\ e.to \in Parts
    BY DEF Owned
<1>3. CASE e.to \in DOMAIN system.vendors
    <2>1. Distance(e) = "external"
        BY <1>3 DEF Distance
    <2> QED
        BY <1>1, <1>3, <2>1, BoundariesAre DEF SeamEdge, SeamPair
<1>4. CASE e.to \notin DOMAIN system.vendors /\ ~Owned(e)
    BY <1>1, <1>2, <1>4 DEF SeamEdge, SeamPair
<1>5. CASE e.to \notin DOMAIN system.vendors /\ Owned(e) /\ e.from = e.to
    <2>1. Distance(e) = "same"
        BY <1>5 DEF Distance
    <2> QED
        BY <1>1, <1>5, <2>1, BoundariesAre DEF SeamEdge, SeamPair
<1>6. CASE e.to \notin DOMAIN system.vendors /\ Owned(e) /\ e.from # e.to
    <2>1. Distance(e) = ModuleDistance(e.from, e.to)
        BY <1>6 DEF Distance
    <2> QED
        BY <1>1, <1>2, <1>6, <2>1, ModuleDistanceIs DEF SeamEdge, SeamPair
<1> QED
    BY <1>3, <1>4, <1>5, <1>6

LEMMA FactIs ==
    ASSUME NEW i \in Nat \cup {NoFact}, NEW s \in Strengths, NEW d \in Boundaries, NEW v \in Volatilities
    PROVE  /\ Fact(i, s, d, v) \in SeamFacts
           /\ Fact(i, s, d, v).strength = s /\ Fact(i, s, d, v).distance = d
           /\ Fact(i, s, d, v).volatility = v /\ Fact(i, s, d, v).balance = Balance(s, d, v)
    BY BalanceIs DEF Fact, SeamFacts

\* The fact of an edge of a seam, and of a copy.
LEMMA EdgeFactIs ==
    ASSUME system \in Systems, effective \in [Parts -> Volatilities], NEW e \in system.edges, SeamEdge(e)
    PROVE  /\ EdgeFact(e) \in SeamFacts
           /\ EdgeFact(e).strength = Strength(e) /\ EdgeFact(e).volatility = Volatility(e)
           /\ EdgeFact(e).balance = Balance(EdgeFact(e).strength, EdgeFact(e).distance, EdgeFact(e).volatility)
           /\ Volatility(e) \in {effective[e.to], effective[e.from]}
           /\ Strength(e) = "intrusive" => Volatility(e) = effective[e.to]
<1>1. e.from \in Parts /\ e.to \in Parts /\ Distance(e) \in Boundaries
    BY DEF SeamEdge, Owned
<1>2. EffectiveOf(e.to) = effective[e.to] /\ EffectiveOf(e.from) = effective[e.from]
    BY <1>1 DEF EffectiveOf
<1>3. Distance(e) \notin {"external", "unknown"}
    BY <1>1, BoundariesAre
<1>4. /\ Volatility(e) \in {effective[e.to], effective[e.from]}
      /\ Strength(e) = "intrusive" => Volatility(e) = effective[e.to]
    <2>1. CASE Strength(e) \in {"functional", "symmetric"}
        <3>1. Volatility(e) = Worse(EffectiveOf(e.to), EffectiveOf(e.from))
            BY <1>3, <2>1 DEF Volatility
        <3> QED
            BY <1>2, <2>1, <3>1, WorseIs
    <2>2. CASE Strength(e) \notin {"functional", "symmetric"}
        <3>1. Volatility(e) = EffectiveOf(e.to)
            BY <1>3, <2>2 DEF Volatility
        <3> QED
            BY <1>2, <2>2, <3>1
    <2> QED
        BY <2>1, <2>2
<1>5. Volatility(e) \in Volatilities
    BY <1>1, <1>4
<1>6. Strength(e) \in Strengths
    BY StrengthIs
<1>7. e.id \in Nat
    BY CouplingAssumption DEF GraphEdge
<1> QED
    BY <1>1, <1>4, <1>5, <1>6, <1>7, FactIs DEF EdgeFact

LEMMA CloneFactIs ==
    ASSUME effective \in [Parts -> Volatilities], NEW m \in Parts, NEW n \in Parts
    PROVE  /\ CloneFact(m, n) \in SeamFacts
           /\ CloneFact(m, n).strength = "symmetric" /\ CloneFact(m, n).balance > 0
           /\ CloneFact(m, n).balance =
                Balance("symmetric", CloneFact(m, n).distance, CloneFact(m, n).volatility)
<1>1. Worse(effective[m], effective[n]) \in Volatilities
    BY WorseIs
<1>2. "symmetric" \in Strengths /\ "symmetric" # "unknown"
    BY DEF Strengths
<1>3. ModuleDistance(m, n) \in Boundaries
    BY ModuleDistanceIs
<1>4. CloneFact(m, n) = Fact(NoFact, "symmetric", ModuleDistance(m, n), Worse(effective[m], effective[n]))
    BY DEF CloneFact
<1>5. Balance("symmetric", ModuleDistance(m, n), Worse(effective[m], effective[n])) > 0
    BY <1>1, <1>2, <1>3, BalanceIs
<1>6. PICK d : d = ModuleDistance(m, n)
    OBVIOUS
<1>7. PICK v : v = Worse(effective[m], effective[n])
    OBVIOUS
<1>8. d \in Boundaries /\ v \in Volatilities /\ CloneFact(m, n) = Fact(NoFact, "symmetric", d, v)
      /\ Balance("symmetric", d, v) > 0
    BY <1>1, <1>3, <1>4, <1>5, <1>6, <1>7
<1>9. /\ Fact(NoFact, "symmetric", d, v) \in SeamFacts
      /\ Fact(NoFact, "symmetric", d, v).strength = "symmetric" /\ Fact(NoFact, "symmetric", d, v).distance = d
      /\ Fact(NoFact, "symmetric", d, v).volatility = v
      /\ Fact(NoFact, "symmetric", d, v).balance = Balance("symmetric", d, v)
    <2>1. PICK s \in Strengths : s = "symmetric"
        BY <1>2
    <2>2. PICK i \in Nat \cup {NoFact} : i = NoFact
        OBVIOUS
    <2>3. /\ Fact(i, s, d, v) \in SeamFacts
          /\ Fact(i, s, d, v).strength = s /\ Fact(i, s, d, v).distance = d
          /\ Fact(i, s, d, v).volatility = v /\ Fact(i, s, d, v).balance = Balance(s, d, v)
        BY <1>8, FactIs
    <2> QED
        BY <2>1, <2>2, <2>3
<1> QED
    BY <1>8, <1>9

\* A fact that qualifies is strong, volatile, and as bad as any.
LEMMA QualifiesIs ==
    ASSUME NEW f \in SeamFacts, f.balance = Balance(f.strength, f.distance, f.volatility), NEW c, Qualifies(f, c)
    PROVE  f.balance \in 1..2 /\ f.strength \in Strong /\ f.volatility = "high"
<1>1. f.balance > 0 /\ f.volatility = "high" /\ f.strength \in Strong
    BY DEF Qualifies, Strong
<1>2. f.strength \in Strengths /\ f.distance \in Boundaries /\ f.volatility \in Volatilities /\ f.balance \in 0..10
    BY DEF SeamFacts
<1> QED
    BY <1>1, <1>2, BalanceIs

-----------------------------------------------------------------------------
(* Coupling: what a seam holds                                               *)

\* A fact none of a set is worse than, or nothing of none.
LowestOf(a, S) == IF S = {} THEN a = NoFact ELSE a \in S /\ \A g \in S : a.balance <= g.balance

SeamRecords ==
    [edges : Nat, scored : Nat, abstained : Nat, doubtful : BOOLEAN, severity : BandNames,
     worst : SeamFacts \cup {NoFact}, qualWorst : SeamFacts \cup {NoFact}, worstClone : SeamFacts \cup {NoFact}]

\* A seam a of the facts D; c says that its source is cohesive, k is its copy,
\* which is attached only to a seam whose edges are all in.
SeamHolds(a, D, c, k, whole) ==
    /\ a \in SeamRecords
    /\ a.edges <= a.scored + a.abstained
    /\ LowestOf(a.worst, {f \in D : f.balance > 0})
    /\ LowestOf(a.qualWorst, {f \in D : Qualifies(f, c)})
    /\ a.worstClone # NoFact =>
         whole /\ a.worstClone = k /\ (a.worst = NoFact \/ k.balance <= a.worst.balance)
    /\ a.severity = IF DrivingWorst(a) = NoFact THEN "none" ELSE Band(DrivingWorst(a).balance)

LEMMA NoFactIs == NoFact \notin SeamFacts
    BY CouplingAssumption

LEMMA KeepIs ==
    ASSUME NEW S, S \subseteq SeamFacts, NEW a, LowestOf(a, S), NEW f \in SeamFacts
    PROVE  LowestOf(Keep(f, a), S \cup {f})
<1>1. \A g \in SeamFacts : g.balance \in 0..10
    BY DEF SeamFacts
<1>2. CASE S = {}
    <2>1. Keep(f, a) = f
        BY <1>2 DEF LowestOf, Keep
    <2> QED
        BY <1>1, <1>2, <2>1 DEF LowestOf
<1>3. CASE S # {}
    <2>1. a \in S /\ a # NoFact /\ \A g \in S : a.balance <= g.balance
        BY <1>3, NoFactIs DEF LowestOf
    <2>2. LowerEdge(f, a) => f.balance <= a.balance
        <3>1. CASE f.balance # a.balance
            <4>1. LowerEdge(f, a) <=> f.balance < a.balance
                BY <3>1 DEF LowerEdge
            <4> QED
                BY <1>1, <2>1, <4>1
        <3>2. CASE f.balance = a.balance
            BY <1>1, <2>1, <3>2
        <3> QED
            BY <3>1, <3>2
    <2>3. ~LowerEdge(f, a) => a.balance <= f.balance
        <3>1. CASE f.balance # a.balance
            <4>1. LowerEdge(f, a) <=> f.balance < a.balance
                BY <3>1 DEF LowerEdge
            <4> QED
                BY <1>1, <2>1, <4>1
        <3>2. CASE f.balance = a.balance
            BY <1>1, <2>1, <3>2
        <3> QED
            BY <3>1, <3>2
    <2>4. Keep(f, a) = IF LowerEdge(f, a) THEN f ELSE a
        BY <2>1 DEF Keep
    <2>5. CASE LowerEdge(f, a)
        <3>1. \A g \in S \cup {f} : f.balance <= g.balance
            BY <1>1, <2>1, <2>2, <2>5
        <3> QED
            BY <2>4, <2>5, <3>1 DEF LowestOf
    <2>6. CASE ~LowerEdge(f, a)
        <3>1. \A g \in S \cup {f} : a.balance <= g.balance
            BY <2>1, <2>3, <2>6
        <3> QED
            BY <2>1, <2>4, <2>6, <3>1 DEF LowestOf
    <2> QED
        BY <2>5, <2>6
<1> QED
    BY <1>2, <1>3

LEMMA NewSeamHolds == ASSUME NEW c, NEW k PROVE SeamHolds(NewSeam, {}, c, k, FALSE)
<1>1. NewSeam \in SeamRecords
    BY DEF NewSeam, SeamRecords, BandNames
<1>2. /\ NewSeam.edges = 0 /\ NewSeam.scored = 0 /\ NewSeam.abstained = 0 /\ NewSeam.severity = "none"
      /\ NewSeam.worst = NoFact /\ NewSeam.qualWorst = NoFact /\ NewSeam.worstClone = NoFact
    BY DEF NewSeam
<1>3. DrivingWorst(NewSeam) = NoFact
    BY <1>2 DEF DrivingWorst
<1> QED
    BY <1>1, <1>2, <1>3 DEF SeamHolds, LowestOf

LEMMA AccumulatedIs ==
    ASSUME NEW a \in SeamRecords, NEW e, NEW f \in SeamFacts,
           NEW c, c = system.defs[e.from].cohesive
    PROVE  LET b == Accumulated(a, e, f) IN
           /\ b \in SeamRecords
           /\ b.edges = a.edges + 1 /\ b.worstClone = a.worstClone
           /\ b.severity = WorseBand(a.severity, f.balance)
           /\ b.scored = IF f.balance > 0 THEN a.scored + 1 ELSE a.scored
           /\ b.abstained = IF f.balance > 0 THEN a.abstained ELSE a.abstained + 1
           /\ b.worst = IF f.balance > 0 THEN Keep(f, a.worst) ELSE a.worst
           /\ b.qualWorst = IF Qualifies(f, c) THEN Keep(f, a.qualWorst) ELSE a.qualWorst
<1> DEFINE dbt == a.doubtful \/ Doubtful(e)
           sev == WorseBand(a.severity, f.balance)
           sco == IF f.balance > 0 THEN a.scored + 1 ELSE a.scored
           abst == IF f.balance > 0 THEN a.abstained ELSE a.abstained + 1
           wst == IF f.balance > 0 THEN Keep(f, a.worst) ELSE a.worst
           qwst == IF Qualifies(f, c) THEN Keep(f, a.qualWorst) ELSE a.qualWorst
           b == [edges |-> a.edges + 1, scored |-> sco, abstained |-> abst, doubtful |-> dbt, severity |-> sev,
                 worst |-> wst, qualWorst |-> qwst, worstClone |-> a.worstClone]
<1>1. /\ a.edges \in Nat /\ a.scored \in Nat /\ a.abstained \in Nat /\ a.doubtful \in BOOLEAN
      /\ a.severity \in BandNames /\ a.worst \in SeamFacts \cup {NoFact}
      /\ a.qualWorst \in SeamFacts \cup {NoFact} /\ a.worstClone \in SeamFacts \cup {NoFact}
      /\ a = [edges |-> a.edges, scored |-> a.scored, abstained |-> a.abstained, doubtful |-> a.doubtful,
              severity |-> a.severity, worst |-> a.worst, qualWorst |-> a.qualWorst, worstClone |-> a.worstClone]
    BY DEF SeamRecords
<1>2. dbt \in BOOLEAN
    BY <1>1
<1>3. sev \in BandNames
    <2>1. f.balance \in 0..10
        BY DEF SeamFacts
    <2> QED
        BY <1>1, <2>1, WorseBandIs DEF WorseBand
<1>4. wst \in SeamFacts \cup {NoFact} /\ qwst \in SeamFacts \cup {NoFact}
    BY <1>1 DEF Keep
<1>5. sco \in Nat /\ abst \in Nat
    BY <1>1
<1>6. Accumulated(a, e, f) =
        [a EXCEPT !.edges = a.edges + 1, !.doubtful = dbt, !.severity = sev, !.scored = sco, !.abstained = abst,
                  !.worst = wst, !.qualWorst = qwst]
    BY DEF Accumulated
<1> HIDE DEF dbt, sev, sco, abst, wst, qwst
<1>7. Accumulated(a, e, f) = b
    BY <1>1, <1>6
<1>8. b \in SeamRecords
    BY <1>1, <1>2, <1>3, <1>4, <1>5 DEF SeamRecords
<1>9. /\ b.edges = a.edges + 1 /\ b.worstClone = a.worstClone /\ b.severity = sev /\ b.scored = sco
      /\ b.abstained = abst /\ b.worst = wst /\ b.qualWorst = qwst
    OBVIOUS
<1> HIDE DEF b
<1> QED
    BY <1>7, <1>8, <1>9 DEF sev, sco, abst, wst, qwst

LEMMA SeverityIs ==
    ASSUME NEW f \in SeamFacts, NEW a, a = NoFact \/ (a \in SeamFacts /\ a.balance > 0), f.balance > 0,
           NEW w, w = Keep(f, a)
    PROVE  WorseBand(IF a = NoFact THEN "none" ELSE Band(a.balance), f.balance) = Band(w.balance)
<1>1. f.balance \in 1..10
    BY DEF SeamFacts
<1>2. CASE a = NoFact
    <2>1. w = f
        BY <1>2 DEF Keep
    <2> QED
        BY <1>1, <1>2, <2>1, WorseBandIs
<1>3. CASE a # NoFact
    <2>1. a \in SeamFacts /\ a.balance \in 1..10
        BY <1>3 DEF SeamFacts
    <2>2. WorseBand(Band(a.balance), f.balance) = IF f.balance < a.balance THEN Band(f.balance) ELSE Band(a.balance)
        BY <1>1, <2>1, WorseBandIs
    <2>3. LowestOf(a, {a})
        BY <2>1 DEF LowestOf
    <2>4. LowestOf(w, {a, f})
        <3>1. {a} \subseteq SeamFacts /\ {a, f} = {a} \cup {f}
            BY <2>1
        <3> QED
            BY <2>3, <3>1, KeepIs
    <2>5. w \in {a, f} /\ w.balance <= a.balance /\ w.balance <= f.balance
        BY <2>4 DEF LowestOf
    <2> QED
        BY <1>1, <1>3, <2>1, <2>2, <2>5
<1> QED
    BY <1>2, <1>3

LEMMA AccumulateHolds ==
    ASSUME NEW D, D \subseteq SeamFacts, NEW a, NEW c, NEW k, SeamHolds(a, D, c, k, FALSE),
           NEW f \in SeamFacts, NEW e, c = system.defs[e.from].cohesive
    PROVE  SeamHolds(Accumulated(a, e, f), D \cup {f}, c, k, FALSE)
<1> DEFINE b == Accumulated(a, e, f)
           S == {g \in D : g.balance > 0}
           Q == {g \in D : Qualifies(g, c)}
<1>1. /\ b \in SeamRecords
      /\ b.edges = a.edges + 1 /\ b.worstClone = a.worstClone
      /\ b.severity = WorseBand(a.severity, f.balance)
      /\ b.scored = IF f.balance > 0 THEN a.scored + 1 ELSE a.scored
      /\ b.abstained = IF f.balance > 0 THEN a.abstained ELSE a.abstained + 1
      /\ b.worst = IF f.balance > 0 THEN Keep(f, a.worst) ELSE a.worst
      /\ b.qualWorst = IF Qualifies(f, c) THEN Keep(f, a.qualWorst) ELSE a.qualWorst
    BY AccumulatedIs DEF SeamHolds
<1>2. /\ a.edges <= a.scored + a.abstained /\ a.edges \in Nat /\ a.scored \in Nat /\ a.abstained \in Nat
      /\ LowestOf(a.worst, S) /\ LowestOf(a.qualWorst, Q) /\ a.worstClone = NoFact
      /\ a.severity = IF a.worst = NoFact THEN "none" ELSE Band(a.worst.balance)
    BY DEF SeamHolds, SeamRecords, DrivingWorst
<1> HIDE DEF b
<1>3. f.balance \in 0..10
    BY DEF SeamFacts
<1>4. b.edges <= b.scored + b.abstained
    BY <1>1, <1>2, <1>3
<1>5. LowestOf(b.worst, {g \in D \cup {f} : g.balance > 0})
    <2>1. CASE f.balance > 0
        <3>1. {g \in D \cup {f} : g.balance > 0} = S \cup {f} /\ S \subseteq SeamFacts
            BY <2>1
        <3> HIDE DEF S
        <3> QED
            BY <1>1, <1>2, <2>1, <3>1, KeepIs
    <2>2. CASE ~(f.balance > 0)
        <3>1. {g \in D \cup {f} : g.balance > 0} = S
            BY <2>2
        <3> QED
            BY <1>1, <1>2, <2>2, <3>1
    <2> QED
        BY <2>1, <2>2
<1>6. LowestOf(b.qualWorst, {g \in D \cup {f} : Qualifies(g, c)})
    <2>1. CASE Qualifies(f, c)
        <3>1. {g \in D \cup {f} : Qualifies(g, c)} = Q \cup {f} /\ Q \subseteq SeamFacts
            BY <2>1
        <3> HIDE DEF Q
        <3> QED
            BY <1>1, <1>2, <2>1, <3>1, KeepIs
    <2>2. CASE ~Qualifies(f, c)
        <3>1. {g \in D \cup {f} : Qualifies(g, c)} = Q
            BY <2>2
        <3> QED
            BY <1>1, <1>2, <2>2, <3>1
    <2> QED
        BY <2>1, <2>2
<1>7. b.severity = IF b.worst = NoFact THEN "none" ELSE Band(b.worst.balance)
    <2>1. a.worst = NoFact \/ (a.worst \in SeamFacts /\ a.worst.balance > 0)
        BY <1>2 DEF LowestOf
    <2>2. CASE f.balance > 0
        <3>1. b.worst = Keep(f, a.worst)
            BY <1>1, <2>2
        <3>2. b.worst # NoFact
            BY <2>1, <3>1, NoFactIs DEF Keep
        <3>3. WorseBand(IF a.worst = NoFact THEN "none" ELSE Band(a.worst.balance), f.balance) = Band(b.worst.balance)
            BY <2>1, <2>2, <3>1, SeverityIs
        <3> QED
            BY <1>1, <1>2, <3>2, <3>3
    <2>3. CASE ~(f.balance > 0)
        <3>1. f.balance = 0 /\ b.worst = a.worst
            BY <1>1, <1>3, <2>3
        <3>2. Band(0) = "none"
            BY BandIs
        <3>3. WorseBand(a.severity, 0) = a.severity
            <4>1. 0 \in 0..10
                OBVIOUS
            <4>2. CASE a.worst = NoFact
                BY <1>2, <3>2, <4>1, <4>2, WorseBandIs
            <4>3. CASE a.worst # NoFact
                <5>1. a.worst.balance \in 1..10
                    BY <2>1, <4>3 DEF SeamFacts
                <5> QED
                    BY <1>2, <4>1, <4>3, <5>1, WorseBandIs
            <4> QED
                BY <4>2, <4>3
        <3> QED
            BY <1>1, <1>2, <3>1, <3>3
    <2> QED
        BY <2>2, <2>3
<1>8. b.worstClone = NoFact /\ DrivingWorst(b) = b.worst
    BY <1>1, <1>2 DEF DrivingWorst
<1>9. SeamHolds(b, D \cup {f}, c, k, FALSE)
    BY <1>1, <1>4, <1>5, <1>6, <1>7, <1>8 DEF SeamHolds
<1> QED
    BY <1>9 DEF b

LEMMA AddCloneIs ==
    ASSUME NEW a \in SeamRecords, NEW f \in SeamFacts
    PROVE  LET b == AddClone(a, f) IN
           /\ b \in SeamRecords
           /\ b.edges = a.edges /\ b.scored = a.scored + 1 /\ b.abstained = a.abstained
           /\ b.worst = a.worst /\ b.qualWorst = a.qualWorst
           /\ b.severity = WorseBand(a.severity, f.balance)
           /\ b.worstClone = IF \/ a.worst = NoFact
                                \/ f.balance < a.worst.balance
                                \/ f.balance = a.worst.balance /\ StrengthValue(f.strength) > StrengthValue(a.worst.strength)
                             THEN f ELSE a.worstClone
<1> DEFINE sev == WorseBand(a.severity, f.balance)
           wcl == IF \/ a.worst = NoFact
                     \/ f.balance < a.worst.balance
                     \/ f.balance = a.worst.balance /\ StrengthValue(f.strength) > StrengthValue(a.worst.strength)
                  THEN f ELSE a.worstClone
           b == [edges |-> a.edges, scored |-> a.scored + 1, abstained |-> a.abstained, doubtful |-> a.doubtful,
                 severity |-> sev, worst |-> a.worst, qualWorst |-> a.qualWorst, worstClone |-> wcl]
<1>1. /\ a.edges \in Nat /\ a.scored \in Nat /\ a.abstained \in Nat /\ a.doubtful \in BOOLEAN
      /\ a.severity \in BandNames /\ a.worst \in SeamFacts \cup {NoFact}
      /\ a.qualWorst \in SeamFacts \cup {NoFact} /\ a.worstClone \in SeamFacts \cup {NoFact}
      /\ a = [edges |-> a.edges, scored |-> a.scored, abstained |-> a.abstained, doubtful |-> a.doubtful,
              severity |-> a.severity, worst |-> a.worst, qualWorst |-> a.qualWorst, worstClone |-> a.worstClone]
    BY DEF SeamRecords
<1>2. sev \in BandNames
    <2>1. f.balance \in 0..10
        BY DEF SeamFacts
    <2> QED
        BY <1>1, <2>1, WorseBandIs DEF WorseBand
<1>3. wcl \in SeamFacts \cup {NoFact}
    BY <1>1
<1>4. AddClone(a, f) = [a EXCEPT !.scored = a.scored + 1, !.severity = sev, !.worstClone = wcl]
    BY DEF AddClone
<1>5. wcl = IF \/ a.worst = NoFact
               \/ f.balance < a.worst.balance
               \/ f.balance = a.worst.balance /\ StrengthValue(f.strength) > StrengthValue(a.worst.strength)
            THEN f ELSE a.worstClone
    OBVIOUS
<1> HIDE DEF sev, wcl
<1>6. AddClone(a, f) = b
    BY <1>1, <1>4
<1>7. b \in SeamRecords
    BY <1>1, <1>2, <1>3 DEF SeamRecords
<1>8. /\ b.edges = a.edges /\ b.scored = a.scored + 1 /\ b.abstained = a.abstained
      /\ b.worst = a.worst /\ b.qualWorst = a.qualWorst /\ b.severity = sev /\ b.worstClone = wcl
    OBVIOUS
<1> HIDE DEF b
<1> QED
    BY <1>5, <1>6, <1>7, <1>8 DEF sev

LEMMA AddCloneHolds ==
    ASSUME NEW D, D \subseteq SeamFacts, NEW a, NEW c, NEW k \in SeamFacts, k.balance > 0, SeamHolds(a, D, c, k, TRUE)
    PROVE  SeamHolds(AddClone(a, k), D, c, k, TRUE)
<1> DEFINE b == AddClone(a, k)
<1>1. a \in SeamRecords
    BY DEF SeamHolds
<1>2. /\ b \in SeamRecords
      /\ b.edges = a.edges /\ b.scored = a.scored + 1 /\ b.abstained = a.abstained
      /\ b.worst = a.worst /\ b.qualWorst = a.qualWorst
      /\ b.severity = WorseBand(a.severity, k.balance)
      /\ b.worstClone = IF \/ a.worst = NoFact
                           \/ k.balance < a.worst.balance
                           \/ k.balance = a.worst.balance /\ StrengthValue(k.strength) > StrengthValue(a.worst.strength)
                        THEN k ELSE a.worstClone
    BY <1>1, AddCloneIs
<1> HIDE DEF b
<1>3. a.edges \in Nat /\ a.scored \in Nat /\ a.abstained \in Nat /\ a.edges <= a.scored + a.abstained
    BY DEF SeamHolds, SeamRecords
<1>4. k.balance \in 1..10 /\ k # NoFact
    BY NoFactIs DEF SeamFacts
<1>5. a.worst = NoFact \/ (a.worst \in SeamFacts /\ a.worst # NoFact /\ a.worst.balance \in 1..10)
    BY NoFactIs DEF SeamHolds, LowestOf, SeamFacts
<1>6. b.worstClone # NoFact => b.worstClone = k /\ (b.worst = NoFact \/ k.balance <= b.worst.balance)
    <2>1. CASE b.worstClone = k
        <3>1. CASE a.worst = NoFact
            BY <1>2, <2>1, <3>1
        <3>2. CASE a.worst # NoFact
            <4>1. CASE a.worstClone # NoFact
                BY <1>2, <2>1, <4>1 DEF SeamHolds
            <4>2. CASE a.worstClone = NoFact
                <5>1. k.balance < a.worst.balance \/ k.balance = a.worst.balance
                    BY <1>2, <1>4, <2>1, <3>2, <4>2
                <5> QED
                    BY <1>2, <1>4, <1>5, <2>1, <3>2, <5>1
            <4> QED
                BY <4>1, <4>2
        <3> QED
            BY <3>1, <3>2
    <2>2. CASE b.worstClone = a.worstClone
        BY <1>2, <2>2 DEF SeamHolds
    <2> QED
        BY <1>2, <2>1, <2>2
<1>7. DrivingWorst(a) = NoFact \/ (DrivingWorst(a).balance \in 1..10 /\ DrivingWorst(a) # NoFact)
    <2>1. a.worstClone = NoFact \/ a.worstClone = k
        BY DEF SeamHolds
    <2> QED
        BY <1>4, <1>5, <2>1 DEF DrivingWorst
<1>8. a.severity = IF DrivingWorst(a) = NoFact THEN "none" ELSE Band(DrivingWorst(a).balance)
    BY DEF SeamHolds
<1>9. b.severity = IF DrivingWorst(b) = NoFact THEN "none" ELSE Band(DrivingWorst(b).balance)
    <2>1. CASE b.worstClone # NoFact
        <3>1. DrivingWorst(b) = k
            BY <1>6, <2>1 DEF DrivingWorst
        <3>2. DrivingWorst(a) = NoFact \/ k.balance <= DrivingWorst(a).balance
            <4>1. CASE a.worstClone # NoFact
                BY <1>4, <4>1 DEF DrivingWorst, SeamHolds
            <4>2. CASE a.worstClone = NoFact
                <5>1. DrivingWorst(a) = a.worst
                    BY <4>2 DEF DrivingWorst
                <5> QED
                    BY <1>2, <1>6, <2>1, <5>1
            <4> QED
                BY <4>1, <4>2
        <3>3. CASE DrivingWorst(a) = NoFact
            BY <1>2, <1>4, <1>8, <3>1, <3>3, WorseBandIs
        <3>4. CASE DrivingWorst(a) # NoFact
            <4> DEFINE d == DrivingWorst(a).balance
            <4>1. d \in 1..10 /\ k.balance <= d
                BY <1>7, <3>2, <3>4
            <4>2. a.severity = Band(d)
                BY <1>8, <3>4
            <4> HIDE DEF d
            <4>3. WorseBand(Band(d), k.balance) = IF k.balance < d THEN Band(k.balance) ELSE Band(d)
                BY <1>4, <4>1, WorseBandIs
            <4>4. WorseBand(Band(d), k.balance) = Band(k.balance)
                <5>1. CASE k.balance < d
                    BY <4>3, <5>1
                <5>2. CASE ~(k.balance < d)
                    <6>1. k.balance = d
                        BY <1>4, <4>1, <5>2
                    <6> QED
                        BY <4>3, <5>2, <6>1
                <5> QED
                    BY <5>1, <5>2
            <4> QED
                BY <1>2, <1>4, <3>1, <4>2, <4>4
        <3> QED
            BY <3>3, <3>4
    <2>2. CASE b.worstClone = NoFact
        <3>1. a.worst # NoFact /\ a.worstClone = NoFact /\ ~(k.balance < a.worst.balance)
            BY <1>2, <1>4, <2>2
        <3>2. DrivingWorst(b) = a.worst /\ DrivingWorst(a) = a.worst
            BY <1>2, <2>2, <3>1 DEF DrivingWorst
        <3>3. WorseBand(Band(a.worst.balance), k.balance) = Band(a.worst.balance)
            BY <1>4, <1>5, <3>1, WorseBandIs
        <3> QED
            BY <1>2, <1>8, <3>1, <3>2, <3>3
    <2> QED
        BY <2>1, <2>2
<1>10. LowestOf(b.worst, {f \in D : f.balance > 0}) /\ LowestOf(b.qualWorst, {f \in D : Qualifies(f, c)})
    BY <1>2 DEF SeamHolds
<1>11. SeamHolds(b, D, c, k, TRUE)
    BY <1>2, <1>3, <1>6, <1>9, <1>10 DEF SeamHolds
<1> QED
    BY <1>11 DEF b

-----------------------------------------------------------------------------
(* Coupling: the invariant                                                   *)

\* The edges that carry volatility, and the modules they lead to a volatile one.
Carrying == IF system.cascade THEN CascadeEdges ELSE {}
Led == LedTo(HoldsVolatile(system, Carrying))

FactsIn(p) == {EdgeFact(e) : e \in {x \in system.edges \ todo : Pair(x) = p}}

CascadeInv ==
    /\ \A m \in Parts : effective[m] = system.defs[m].volatility \/ (effective[m] = "high" /\ m \in Led)
    /\ \A m \in Parts : system.defs[m].volatility = "high" => effective[m] = "high"

SeamsInv ==
    /\ \A e \in system.edges \ todo : SeamEdge(e) => Pair(e) \in DOMAIN seams
    /\ \A p \in DOMAIN seams :
         /\ SeamPair(p)
         /\ SeamHolds(seams[p], FactsIn(p), system.defs[p[1]].cohesive, CloneFact(p[1], p[2]), todo = {})

CouplingInv ==
    /\ system = NoSystem \/ system \in Systems
    /\ system = NoSystem => effective = <<>> /\ todo = {} /\ unattached = {} /\ seams = <<>>
    /\ system # NoSystem =>
         /\ effective \in [Parts -> Volatilities] /\ todo \subseteq system.edges /\ unattached \subseteq system.clones
         /\ CascadeInv
         /\ Raised \/ (seams = <<>> /\ todo = system.edges)
         /\ SeamsInv

\* What is read of the config alone, and with it of the volatilities alone.
LEMMA SameSystem ==
    ASSUME system' = system
    PROVE  /\ \A e : Strength(e)' = Strength(e) /\ Distance(e)' = Distance(e) /\ (SeamEdge(e)' <=> SeamEdge(e))
           /\ \A p : SeamPair(p)' <=> SeamPair(p)
           /\ \A m, n : ModuleDistance(m, n)' = ModuleDistance(m, n)
           /\ CascadeEdges' = CascadeEdges /\ Carrying' = Carrying /\ Led' = Led
<1>1. \A e : (Pinned(e)' <=> Pinned(e))
    BY DEF Pinned
<1>2. \A e : Unjudged(e)' = Unjudged(e)
    BY <1>1 DEF Unjudged, Pinned
<1>3. \A e : (Judged(e)' <=> Judged(e))
    BY <1>2 DEF Judged
<1>4. \A e : Strength(e)' = Strength(e)
    BY <1>2, <1>3 DEF Strength
<1>5. \A m, n : ModuleDistance(m, n)' = ModuleDistance(m, n)
    BY Zenon DEF ModuleDistance
<1>6. \A e : Distance(e)' = Distance(e)
    BY <1>5 DEF Distance
<1>7. \A e : SeamEdge(e)' <=> SeamEdge(e)
    BY <1>6 DEF SeamEdge
<1>8. \A p : SeamPair(p)' <=> SeamPair(p)
    BY DEF SeamPair
<1>9. CascadeEdges' = CascadeEdges
    BY <1>4 DEF CascadeEdges, ClonePair
<1>10. Carrying' = Carrying
    BY <1>9 DEF Carrying
<1>11. Led' = Led
    BY <1>10 DEF Led
<1> QED
    BY <1>4, <1>5, <1>6, <1>7, <1>8, <1>9, <1>10, <1>11

LEMMA SameFacts ==
    ASSUME system' = system, effective' = effective
    PROVE  /\ \A e : EdgeFact(e)' = EdgeFact(e)
           /\ \A m, n : CloneFact(m, n)' = CloneFact(m, n)
           /\ Raised' <=> Raised
<1>1. \A m : EffectiveOf(m)' = EffectiveOf(m)
    BY DEF EffectiveOf
<1>2. \A e : Volatility(e)' = Volatility(e)
    BY <1>1, SameSystem DEF Volatility
<1>3. \A e : EdgeFact(e)' = EdgeFact(e)
    BY <1>2, SameSystem DEF EdgeFact
<1>4. \A m, n : CloneFact(m, n)' = CloneFact(m, n)
    BY SameSystem DEF CloneFact
<1>5. Raised' <=> Raised
    BY SameSystem DEF Raised, Raisable
<1> QED
    BY <1>3, <1>4, <1>5

LEMMA FactsTyped ==
    ASSUME CouplingInv, NEW p \in DOMAIN seams, NEW D, D \subseteq FactsIn(p)
    PROVE  D \subseteq SeamFacts
<1>1. system \in Systems /\ effective \in [Parts -> Volatilities] /\ SeamPair(p)
    <2>1. system # NoSystem
        BY DEF CouplingInv
    <2> QED
        BY <2>1 DEF CouplingInv, SeamsInv
<1>2. ASSUME NEW e \in system.edges, Pair(e) = p PROVE EdgeFact(e) \in SeamFacts
    BY <1>1, <1>2, SeamEdgeIs, EdgeFactIs
<1> QED
    BY <1>2 DEF FactsIn

LEMMA ObserveKeeps == ASSUME CouplingInv, system = NoSystem, NEW s \in Systems, Observe(s) PROVE CouplingInv'
<1>1. /\ system' = s /\ effective' = [m \in Parts |-> s.defs[m].volatility]
      /\ todo' = s.edges /\ unattached' = s.clones /\ seams' = <<>>
    BY DEF Observe, CouplingInv
<1>2. system' \in Systems /\ system' # NoSystem
    BY <1>1, CouplingAssumption
<1>3. \A m \in Parts : s.defs[m].volatility \in Volatilities
    BY CouplingAssumption DEF PartDef
<1>4. effective' \in [Parts -> Volatilities]
    BY <1>1, <1>3
<1>5. CascadeInv'
    BY <1>1 DEF CascadeInv
<1>6. SeamsInv'
    BY <1>1 DEF SeamsInv
<1> QED
    BY <1>1, <1>2, <1>4, <1>5, <1>6 DEF CouplingInv

LEMMA RaiseKeeps ==
    ASSUME CouplingInv, system # NoSystem, NEW e \in system.edges, Raise(e) PROVE CouplingInv'
<1>1. /\ system.cascade /\ e \in CascadeEdges /\ effective[e.to] = "high"
      /\ effective' = [effective EXCEPT ![e.from] = "high"]
      /\ system' = system /\ todo' = todo /\ seams' = seams /\ unattached' = unattached
    BY DEF Raise, Raisable
<1>2. seams = <<>> /\ todo = system.edges
    BY DEF CouplingInv, Raised, Raise
<1>3. /\ system \in Systems /\ effective \in [Parts -> Volatilities]
      /\ todo \subseteq system.edges /\ unattached \subseteq system.clones /\ CascadeInv
    BY DEF CouplingInv
<1>4. e.from \in Parts /\ e.to \in Parts
    BY <1>1 DEF CascadeEdges, Owned
<1>5. effective' \in [Parts -> Volatilities]
    BY <1>1, <1>3 DEF Volatilities
<1>6. e.from \in Led
    <2> SUFFICES ASSUME NEW X \in HoldsVolatile(system, Carrying) PROVE e.from \in X
        BY <1>4 DEF Led, LedTo
    <2>1. e \in Carrying
        BY <1>1 DEF Carrying
    <2>2. e.to \in X
        <3>1. CASE system.defs[e.to].volatility = "high"
            BY <1>4, <3>1 DEF HoldsVolatile
        <3>2. CASE system.defs[e.to].volatility # "high"
            <4>1. e.to \in Led
                BY <1>1, <1>3, <1>4, <3>2 DEF CascadeInv
            <4> QED
                BY <4>1 DEF Led, LedTo
        <3> QED
            BY <3>1, <3>2
    <2> QED
        BY <2>1, <2>2 DEF HoldsVolatile
<1>7. CascadeInv'
    <2>1. Led' = Led
        BY <1>1, SameSystem
    <2>2. \A m \in Parts : effective'[m] = IF m = e.from THEN "high" ELSE effective[m]
        BY <1>1, <1>3, <1>4
    <2> QED
        BY <1>1, <1>3, <1>6, <2>1, <2>2 DEF CascadeInv
<1>8. SeamsInv'
    BY <1>1, <1>2 DEF SeamsInv
<1> QED
    BY <1>1, <1>2, <1>3, <1>5, <1>7, <1>8 DEF CouplingInv

LEMMA AddKeeps ==
    ASSUME CouplingInv, system # NoSystem, NEW e \in system.edges, Add(e) PROVE CouplingInv'
<1>1. /\ Raised /\ e \in todo /\ todo' = todo \ {e}
      /\ system' = system /\ effective' = effective /\ unattached' = unattached
      /\ seams' = IF SeamEdge(e) THEN With(Pair(e), Accumulated(SeamSoFar(Pair(e)), e, EdgeFact(e))) ELSE seams
    BY DEF Add
<1>2. /\ system \in Systems /\ effective \in [Parts -> Volatilities]
      /\ todo \subseteq system.edges /\ unattached \subseteq system.clones /\ CascadeInv /\ SeamsInv
    BY DEF CouplingInv
<1>3. CascadeInv'
    BY <1>1, <1>2, SameSystem DEF CascadeInv
<1>4. Raised'
    BY <1>1, SameFacts
<1>5. \A p : FactsIn(p)' = IF Pair(e) = p THEN FactsIn(p) \cup {EdgeFact(e)} ELSE FactsIn(p)
    <2> TAKE p
    <2>1. \A x : EdgeFact(x)' = EdgeFact(x)
        BY <1>1, SameFacts
    <2>2. FactsIn(p)' = {EdgeFact(x) : x \in {y \in system.edges \ (todo \ {e}) : Pair(y) = p}}
        BY <1>1, <2>1 DEF FactsIn, Pair
    <2>3. CASE Pair(e) = p
        <3>1. {y \in system.edges \ (todo \ {e}) : Pair(y) = p} = {y \in system.edges \ todo : Pair(y) = p} \cup {e}
            BY <1>1, <2>3
        <3> QED
            BY <2>2, <2>3, <3>1 DEF FactsIn
    <2>4. CASE Pair(e) # p
        <3>1. {y \in system.edges \ (todo \ {e}) : Pair(y) = p} = {y \in system.edges \ todo : Pair(y) = p}
            BY <1>1, <2>4
        <3> QED
            BY <2>2, <2>4, <3>1 DEF FactsIn
    <2> QED
        BY <2>3, <2>4
<1>6. todo # {}
    BY <1>1
<1>7. \A p : /\ SeamPair(p)' <=> SeamPair(p)
             /\ system'.defs[p[1]].cohesive = system.defs[p[1]].cohesive
             /\ CloneFact(p[1], p[2])' = CloneFact(p[1], p[2])
    BY <1>1, SameSystem, SameFacts
<1>8. \A x : (SeamEdge(x)' <=> SeamEdge(x)) /\ Pair(x)' = Pair(x)
    BY <1>1, SameSystem DEF Pair
<1>9. \A a, D, c, k : SeamHolds(a, D, c, k, FALSE) => SeamHolds(a, D, c, k, todo' = {})
    BY DEF SeamHolds
<1>10. \A p \in DOMAIN seams :
         /\ SeamPair(p)
         /\ SeamHolds(seams[p], FactsIn(p), system.defs[p[1]].cohesive, CloneFact(p[1], p[2]), FALSE)
    BY <1>2, <1>6 DEF SeamsInv
<1>11. CASE ~SeamEdge(e)
    <2>1. seams' = seams
        BY <1>1, <1>11
    <2>2. \A p \in DOMAIN seams : Pair(e) # p
        BY <1>10, <1>11, SeamEdgeIs
    <2>3. SeamsInv'
        <3>1. \A x \in system.edges \ (todo \ {e}) : SeamEdge(x) => Pair(x) \in DOMAIN seams
            BY <1>2, <1>11 DEF SeamsInv
        <3>2. \A p \in DOMAIN seams :
                /\ SeamPair(p)
                /\ SeamHolds(seams[p], FactsIn(p)', system.defs[p[1]].cohesive, CloneFact(p[1], p[2]), todo' = {})
            BY <1>5, <1>9, <1>10, <2>2
        <3> QED
            BY <1>1, <1>7, <1>8, <2>1, <3>1, <3>2 DEF SeamsInv
    <2> QED
        BY <1>1, <1>2, <1>3, <1>4, <2>3 DEF CouplingInv
<1>12. CASE SeamEdge(e)
    <2> DEFINE p == Pair(e)
               c == system.defs[p[1]].cohesive
               k == CloneFact(p[1], p[2])
               b == Accumulated(SeamSoFar(p), e, EdgeFact(e))
    <2>1. p[1] = e.from /\ p[2] = e.to /\ SeamPair(p)
        BY <1>12, SeamEdgeIs DEF Pair
    <2>2. EdgeFact(e) \in SeamFacts
        BY <1>2, <1>12, EdgeFactIs
    <2>3. SeamHolds(SeamSoFar(p), FactsIn(p), c, k, FALSE) /\ FactsIn(p) \subseteq SeamFacts
        <3>1. CASE p \in DOMAIN seams
            <4>1. SeamSoFar(p) = seams[p]
                BY <3>1 DEF SeamSoFar
            <4>2. FactsIn(p) \subseteq SeamFacts
                BY <3>1, FactsTyped
            <4> QED
                BY <1>10, <3>1, <4>1, <4>2
        <3>2. CASE p \notin DOMAIN seams
            <4>1. SeamSoFar(p) = NewSeam
                BY <3>2 DEF SeamSoFar
            <4>2. \A x \in system.edges \ todo : Pair(x) # p
                BY <1>2, <2>1, <3>2, SeamEdgeIs DEF SeamsInv
            <4>3. FactsIn(p) = {}
                BY <4>2 DEF FactsIn
            <4> QED
                BY <4>1, <4>3, NewSeamHolds
        <3> QED
            BY <3>1, <3>2
    <2>4. SeamHolds(b, FactsIn(p) \cup {EdgeFact(e)}, c, k, FALSE)
        <3>1. c = system.defs[e.from].cohesive
            BY <2>1
        <3> HIDE DEF p, c, k
        <3> QED
            BY <2>2, <2>3, <3>1, AccumulateHolds
    <2>5. seams' = [q \in DOMAIN seams \cup {p} |-> IF q = p THEN b ELSE seams[q]]
        BY <1>1, <1>12 DEF With
    <2> HIDE DEF b
    <2>6. SeamsInv'
        <3>1. \A x \in system.edges \ (todo \ {e}) : SeamEdge(x) => Pair(x) \in DOMAIN seams'
            BY <1>2, <2>5 DEF SeamsInv
        <3>2. ASSUME NEW q \in DOMAIN seams'
              PROVE  /\ SeamPair(q)
                     /\ SeamHolds(seams'[q], FactsIn(q)', system.defs[q[1]].cohesive, CloneFact(q[1], q[2]), todo' = {})
            <4>1. CASE q = p
                <5>1. seams'[q] = b /\ FactsIn(q)' = FactsIn(p) \cup {EdgeFact(e)}
                    BY <1>5, <2>5, <4>1
                <5> QED
                    BY <1>9, <2>1, <2>4, <4>1, <5>1
            <4>2. CASE q # p
                <5>1. q \in DOMAIN seams /\ seams'[q] = seams[q] /\ FactsIn(q)' = FactsIn(q)
                    BY <1>5, <2>5, <3>2, <4>2
                <5> QED
                    BY <1>9, <1>10, <5>1
            <4> QED
                BY <4>1, <4>2
        <3> QED
            BY <1>1, <1>7, <1>8, <3>1, <3>2 DEF SeamsInv
    <2> QED
        BY <1>1, <1>2, <1>3, <1>4, <2>6 DEF CouplingInv
<1> QED
    BY <1>11, <1>12

LEMMA AttachKeeps ==
    ASSUME CouplingInv, NEW m \in Parts, NEW n \in Parts, m # n, Attach(m, n) PROVE CouplingInv'
<1>1. /\ Raised /\ todo = {} /\ todo' = todo /\ system' = system /\ effective' = effective
      /\ unattached' \subseteq unattached
      /\ \/ <<m, n>> \in DOMAIN seams /\ seams' = With(<<m, n>>, AddClone(seams[<<m, n>>], CloneFact(m, n)))
         \/ seams' = seams
    BY DEF Attach
<1>2. /\ system # NoSystem /\ system \in Systems /\ effective \in [Parts -> Volatilities]
      /\ todo \subseteq system.edges /\ unattached \subseteq system.clones /\ CascadeInv /\ SeamsInv
    BY <1>1 DEF CouplingInv, Raised
<1>3. CascadeInv'
    BY <1>1, <1>2, SameSystem DEF CascadeInv
<1>4. Raised'
    BY <1>1, SameFacts
<1>5. \A p : /\ SeamPair(p)' <=> SeamPair(p)
             /\ system'.defs[p[1]].cohesive = system.defs[p[1]].cohesive
             /\ CloneFact(p[1], p[2])' = CloneFact(p[1], p[2])
             /\ FactsIn(p)' = FactsIn(p)
    BY <1>1, SameSystem, SameFacts DEF FactsIn, Pair
<1>6. \A x : (SeamEdge(x)' <=> SeamEdge(x)) /\ Pair(x)' = Pair(x)
    BY <1>1, SameSystem DEF Pair
<1>7. \A p \in DOMAIN seams :
         /\ SeamPair(p)
         /\ SeamHolds(seams[p], FactsIn(p), system.defs[p[1]].cohesive, CloneFact(p[1], p[2]), TRUE)
    BY <1>1, <1>2 DEF SeamsInv
<1>8. SeamsInv'
    <2>1. CASE seams' = seams
        BY <1>1, <1>2, <1>5, <1>6, <2>1 DEF SeamsInv
    <2>2. CASE <<m, n>> \in DOMAIN seams /\ seams' = With(<<m, n>>, AddClone(seams[<<m, n>>], CloneFact(m, n)))
        <3> DEFINE p == <<m, n>>
                   k == CloneFact(m, n)
                   b == AddClone(seams[p], k)
                   c == system.defs[p[1]].cohesive
        <3>1. p[1] = m /\ p[2] = n /\ p \in DOMAIN seams
            BY <2>2
        <3>2. k \in SeamFacts /\ k.balance > 0
            BY <1>2, CloneFactIs
        <3>3. SeamHolds(seams[p], FactsIn(p), c, k, TRUE) /\ FactsIn(p) \subseteq SeamFacts /\ SeamPair(p)
            <4>1. FactsIn(p) \subseteq SeamFacts
                BY <3>1, FactsTyped
            <4> QED
                BY <1>7, <3>1, <4>1
        <3>4. seams' = [q \in DOMAIN seams |-> IF q = p THEN b ELSE seams[q]]
            <4>1. DOMAIN seams \cup {p} = DOMAIN seams
                BY <3>1
            <4> QED
                BY <2>2, <4>1 DEF With
        <3> HIDE DEF p, k, c
        <3>5. SeamHolds(b, FactsIn(p), c, k, TRUE)
            BY <3>2, <3>3, AddCloneHolds
        <3> HIDE DEF b
        <3>6. ASSUME NEW q \in DOMAIN seams
              PROVE  /\ SeamPair(q)
                     /\ SeamHolds(seams'[q], FactsIn(q), system.defs[q[1]].cohesive, CloneFact(q[1], q[2]), TRUE)
            <4>1. CASE q = p
                <5>1. seams'[q] = b /\ CloneFact(q[1], q[2]) = k /\ system.defs[q[1]].cohesive = c
                    BY <3>1, <3>4, <4>1 DEF k, c
                <5> QED
                    BY <3>3, <3>5, <4>1, <5>1
            <4>2. CASE q # p
                <5>1. seams'[q] = seams[q]
                    BY <3>4, <4>2
                <5> QED
                    BY <1>7, <5>1
            <4> QED
                BY <4>1, <4>2
        <3>7. DOMAIN seams' = DOMAIN seams
            BY <3>4
        <3>8. \A x \in system.edges \ todo : SeamEdge(x) => Pair(x) \in DOMAIN seams'
            BY <1>2, <3>7 DEF SeamsInv
        <3>9. \A q \in DOMAIN seams' :
                /\ SeamPair(q)'
                /\ SeamHolds(seams'[q], FactsIn(q)', system'.defs[q[1]].cohesive, CloneFact(q[1], q[2])', todo' = {})
            BY <1>1, <1>5, <3>6, <3>7
        <3> QED
            BY <1>1, <1>6, <3>8, <3>9 DEF SeamsInv
    <2> QED
        BY <1>1, <2>1, <2>2
<1> QED
    BY <1>1, <1>2, <1>3, <1>4, <1>8 DEF CouplingInv

LEMMA CouplingSteps == ASSUME CouplingInv, [CouplingNext]_couplingVars PROVE CouplingInv'
<1>1. CASE system = NoSystem /\ \E s \in Systems : Observe(s)
    BY <1>1, ObserveKeeps
<1>2. CASE system # NoSystem /\ \E e \in system.edges : Raise(e) \/ Add(e)
    BY <1>2, RaiseKeeps, AddKeeps
<1>3. CASE \E m, n \in Parts : m # n /\ Attach(m, n)
    BY <1>3, AttachKeeps
<1>4. CASE UNCHANGED couplingVars
    <2>1. system' = system /\ effective' = effective /\ todo' = todo /\ seams' = seams /\ unattached' = unattached
        BY <1>4 DEF couplingVars
    <2>2. CascadeInv' <=> CascadeInv
        BY <2>1, SameSystem DEF CascadeInv
    <2>3. \A p : FactsIn(p)' = FactsIn(p)
        BY <2>1, SameFacts DEF FactsIn, Pair
    <2>4. SeamsInv' <=> SeamsInv
        BY <2>1, <2>3, SameSystem, SameFacts DEF SeamsInv, Pair
    <2>5. Raised' <=> Raised
        BY <2>1, SameFacts
    <2> QED
        BY <2>1, <2>2, <2>4, <2>5 DEF CouplingInv
<1> QED
    BY <1>1, <1>2, <1>3, <1>4 DEF CouplingNext

LEMMA CouplingStarts == CouplingInit => CouplingInv
    BY DEF CouplingInit, CouplingInv

-----------------------------------------------------------------------------
(* Coupling: what follows                                                    *)

LEMMA CascadeFollows == ASSUME CouplingInv PROVE CascadeIsExact
<1> DEFINE E == {e \in system.edges :
                  /\ system.cascade /\ Strength(e) \in Strong /\ Owned(e)
                  /\ e.from # e.to /\ {e.from, e.to} \notin system.clones}
<1> SUFFICES ASSUME Raised, NEW m \in Parts
             PROVE  effective[m] = IF m \in LedTo(HoldsVolatile(system, E)) THEN "high" ELSE system.defs[m].volatility
    BY DEF CascadeIsExact
<1>1. E = Carrying
    BY DEF Carrying, CascadeEdges, ClonePair
<1> HIDE DEF E
<1>2. CascadeInv
    BY DEF CouplingInv, Raised
<1>3. {x \in Parts : effective[x] = "high"} \in HoldsVolatile(system, Carrying)
    <2> DEFINE H == {x \in Parts : effective[x] = "high"}
    <2>1. \A x \in Parts : system.defs[x].volatility = "high" => x \in H
        BY <1>2 DEF CascadeInv
    <2>2. ASSUME NEW e \in Carrying, e.to \in H PROVE e.from \in H
        <3>1. e \in CascadeEdges /\ system.cascade /\ e.from \in Parts
            BY DEF Carrying, CascadeEdges, Owned
        <3>2. ~Raisable(e)
            BY <3>1 DEF Raised
        <3> QED
            BY <2>2, <3>1, <3>2 DEF Raisable
    <2> QED
        BY <2>1, <2>2 DEF HoldsVolatile
<1>4. m \in Led => effective[m] = "high"
    BY <1>3 DEF Led, LedTo
<1> QED
    BY <1>1, <1>2, <1>4 DEF CascadeInv, Led

\* The facts of a finished seam are those of all its edges.
LEMMA FinishedIs ==
    ASSUME CouplingInv, todo = {}, NEW p \in DOMAIN seams
    PROVE  /\ FactsIn(p) = EdgesOf(p) /\ FactsIn(p) \subseteq SeamFacts
           /\ \A f \in FactsIn(p) : f.balance = Balance(f.strength, f.distance, f.volatility)
           /\ \A f \in FactsIn(p) : f.volatility = "high" => "high" \in {effective[p[1]], effective[p[2]]}
           /\ p[1] \in Parts /\ p[2] \in Parts /\ effective \in [Parts -> Volatilities]
           /\ SeamHolds(seams[p], FactsIn(p), system.defs[p[1]].cohesive, CloneFact(p[1], p[2]), TRUE)
<1>1. system \in Systems /\ effective \in [Parts -> Volatilities] /\ SeamPair(p)
      /\ SeamHolds(seams[p], FactsIn(p), system.defs[p[1]].cohesive, CloneFact(p[1], p[2]), todo = {})
    <2>1. system # NoSystem
        BY DEF CouplingInv
    <2> QED
        BY <2>1 DEF CouplingInv, SeamsInv
<1>2. SeamHolds(seams[p], FactsIn(p), system.defs[p[1]].cohesive, CloneFact(p[1], p[2]), TRUE)
    BY <1>1 DEF SeamHolds
<1>3. FactsIn(p) = EdgesOf(p)
    BY DEF FactsIn, EdgesOf
<1>4. FactsIn(p) \subseteq SeamFacts
    BY FactsTyped
<1>5. ASSUME NEW f \in FactsIn(p)
      PROVE  /\ f.balance = Balance(f.strength, f.distance, f.volatility)
             /\ f.volatility = "high" => "high" \in {effective[p[1]], effective[p[2]]}
    <2>1. PICK e \in system.edges : Pair(e) = p /\ f = EdgeFact(e)
        BY DEF FactsIn
    <2>2. SeamEdge(e) /\ e.from = p[1] /\ e.to = p[2]
        BY <1>1, <2>1, SeamEdgeIs DEF Pair
    <2> QED
        BY <1>1, <2>1, <2>2, EdgeFactIs
<1>6. p[1] \in Parts /\ p[2] \in Parts
    BY <1>1 DEF SeamPair
<1> QED
    BY <1>1, <1>2, <1>3, <1>4, <1>5, <1>6

\* A qualifying fact is had from a module that is volatile for a reason.
LEMMA NotAGuess ==
    ASSUME NEW p, "high" \in {effective[p[1]], effective[p[2]]}
    PROVE  SeamProvenance(p) # "undeclared"
<1>1. ASSUME NEW m, effective[m] = "high" PROVE Provenance(m) # "undeclared"
    <2>1. CASE system.defs[m].volatility # "high"
        BY <1>1, <2>1 DEF Provenance
    <2>2. CASE system.defs[m].volatility = "high"
        BY <1>1, <2>2 DEF Provenance
    <2> QED
        BY <2>1, <2>2
<1> QED
    BY <1>1 DEF SeamProvenance

\* The move for a fact clears it, whoever the two modules are.
LEMMA MoveClears ==
    ASSUME NEW p, NEW a, Driving(a) \in SeamFacts, Driving(a).balance > 0,
           NEW f, f = Driving(a), f.balance = Balance(f.strength, f.distance, f.volatility)
    PROVE  Cleared(Hypothesis(p, a), f)
<1> DEFINE clone == f # NoFact /\ f = a.worstClone
           public == system.defs[p[2]].public
           cohesive == system.defs[p[1]].cohesive
<1>1. f # NoFact /\ f.strength \in Strengths /\ f.distance \in Boundaries /\ f.volatility \in Volatilities
      /\ f.balance \in 1..10
    BY NoFactIs DEF SeamFacts
<1>2. Hypothesis(p, a) =
        IF Band(f.balance) \in {"none", "low"} THEN IF f.strength \in Strong THEN "accept_low_volatility" ELSE "balanced"
        ELSE IF cohesive /\ ~clone /\ f.strength # "intrusive" THEN "expected_by_role"
        ELSE IF f.volatility \in {"undeclared", "unknown"} THEN "declare_volatility"
        ELSE IF f.strength = "intrusive" \/ (~clone /\ public /\ f.strength \in {"functional", "model"})
             THEN "introduce_contract"
        ELSE IF f.strength \in {"functional", "symmetric", "model"} THEN "move_functionality" ELSE Unsaid
    <2>1. CASE Band(f.balance) \in {"none", "low"}
        BY <1>1, <2>1 DEF Hypothesis
    <2>2. CASE Band(f.balance) \notin {"none", "low"} /\ cohesive /\ ~clone /\ f.strength # "intrusive"
        BY <1>1, <2>2 DEF Hypothesis
    <2>3. CASE Band(f.balance) \notin {"none", "low"} /\ ~(cohesive /\ ~clone /\ f.strength # "intrusive")
        BY <1>1, <2>3 DEF Hypothesis
    <2> QED
        BY <2>1, <2>2, <2>3
<1>3. \A move \in {"accept_low_volatility", "balanced", "expected_by_role", "declare_volatility"} : Cleared(move, f)
    BY DEF Cleared, Unsaid
<1> HIDE DEF clone, public, cohesive
<1>4. CASE Band(f.balance) \in {"none", "low"}
    BY <1>2, <1>3, <1>4
<1>5. CASE Band(f.balance) \notin {"none", "low"}
    <2>1. f.balance \in 1..6
        BY <1>1, <1>5, BandIs
    <2>2. f.strength \in Strong
        BY <1>1, <2>1, BalanceIs
    <2>3. Balance("contract", f.distance, f.volatility) > 6
        BY <1>1, BalanceIs DEF Strengths
    <2>4. Cleared("introduce_contract", f)
        BY <2>3 DEF Cleared
    <2>5. f.strength \in {"functional", "symmetric"} => Cleared("move_functionality", f)
        BY <1>1, BalanceIs DEF Cleared
    <2>6. f.strength = "intrusive" \/ f.strength \in {"functional", "symmetric"}
        BY <2>2 DEF Strong
    <2> QED
        BY <1>2, <1>3, <1>5, <2>4, <2>5, <2>6
<1> QED
    BY <1>4, <1>5

LEMMA QuadrantIs ==
    ASSUME NEW a, DrivingWorst(a) \in SeamFacts
    PROVE  Quadrant(a) \in {"tight", "loose"} /\ (Quadrant(a) = "tight" <=> StrengthValue(DrivingWorst(a).strength) > 5)
<1> DEFINE f == DrivingWorst(a)
<1>1. f # NoFact /\ f.distance \in Boundaries
    BY NoFactIs DEF SeamFacts
<1>2. DistanceValue(f.distance) = 9
    BY <1>1 DEF DistanceValue, Boundaries
<1>3. CASE StrengthValue(f.strength) > 5
    BY <1>1, <1>2, <1>3 DEF Quadrant, DrivingWorst
<1>4. CASE ~(StrengthValue(f.strength) > 5)
    BY <1>1, <1>2, <1>4 DEF Quadrant, DrivingWorst
<1> QED
    BY <1>3, <1>4

LEMMA StrongIs == ASSUME NEW s \in Strengths PROVE StrengthValue(s) > 5 <=> s \in Strong
<1>1. /\ s = "unknown" => StrengthValue(s) = 0
      /\ s = "contract" => StrengthValue(s) = 1
      /\ s = "model" => StrengthValue(s) = 3
      /\ s = "functional" => StrengthValue(s) = 8
      /\ s = "symmetric" => StrengthValue(s) = 9
      /\ s = "intrusive" => StrengthValue(s) = 10
    BY DEF StrengthValue
<1> QED
    BY <1>1 DEF Strengths, Strong

LEMMA SeamFollows == ASSUME CouplingInv PROVE SeamTellsOneFact
<1> SUFFICES ASSUME Raised, todo = {}, NEW p \in DOMAIN seams PROVE TellsOneFact(p)
    BY DEF SeamTellsOneFact
<1> DEFINE a == seams[p]
           k == CloneFact(p[1], p[2])
           c == system.defs[p[1]].cohesive
           D == FactsIn(p)
           f == Driving(a)
           S == ScoredOf(p)
           Q == QualifyingOf(p)
           w == DrivingWorst(a)
           facts == (S \cup {a.worstClone}) \ {NoFact}
           among == IF Q # {} THEN Q ELSE facts
<1>1. /\ D = EdgesOf(p) /\ D \subseteq SeamFacts
      /\ \A g \in D : g.balance = Balance(g.strength, g.distance, g.volatility)
      /\ \A g \in D : g.volatility = "high" => "high" \in {effective[p[1]], effective[p[2]]}
      /\ p[1] \in Parts /\ p[2] \in Parts /\ effective \in [Parts -> Volatilities]
      /\ SeamHolds(a, D, c, k, TRUE)
    BY FinishedIs
<1>2. S = {g \in D : g.balance > 0} /\ Q = {g \in D : Qualifies(g, c)}
    BY <1>1 DEF ScoredOf, QualifyingOf
<1>3. /\ k \in SeamFacts /\ k.strength = "symmetric" /\ k.balance > 0
      /\ k.balance = Balance(k.strength, k.distance, k.volatility)
    BY <1>1, CloneFactIs
<1> HIDE DEF k, D, S, Q
<1>4. /\ LowestOf(a.worst, S) /\ LowestOf(a.qualWorst, Q)
      /\ a.worstClone # NoFact => a.worstClone = k /\ (a.worst = NoFact \/ k.balance <= a.worst.balance)
      /\ a.severity = IF w = NoFact THEN "none" ELSE Band(w.balance)
    BY <1>1, <1>2 DEF SeamHolds
<1>5. /\ f = IF a.qualWorst # NoFact THEN a.qualWorst ELSE w
      /\ w = IF a.worstClone # NoFact THEN a.worstClone ELSE a.worst
    BY DEF Driving, DrivingWorst
<1> HIDE DEF a, f, w
<1>6. S \subseteq SeamFacts /\ Q \subseteq S /\ \A g \in S : g.balance > 0
    BY <1>1, <1>2 DEF Qualifies
<1>7. \A g \in SeamFacts : g.balance \in 0..10 /\ g # NoFact
    BY NoFactIs DEF SeamFacts
<1>8. \A g \in facts : w # NoFact /\ w.balance <= g.balance
    <2> TAKE g \in facts
    <2>1. CASE g \in S
        <3>1. a.worst \in S /\ a.worst.balance <= g.balance /\ a.worst # NoFact
            BY <1>4, <1>6, <1>7, <2>1 DEF LowestOf
        <3>2. a.worst.balance \in 0..10 /\ g.balance \in 0..10 /\ k.balance \in 0..10
            BY <1>3, <1>6, <1>7, <2>1, <3>1
        <3> QED
            BY <1>4, <1>5, <3>1, <3>2
    <2>2. CASE g = a.worstClone /\ g # NoFact
        <3>1. w = g /\ g \in SeamFacts
            BY <1>3, <1>4, <1>5, <2>2
        <3> QED
            BY <1>7, <2>2, <3>1
    <2> QED
        BY <2>1, <2>2
<1>9. w # NoFact => w \in facts /\ w \in SeamFacts /\ w.balance > 0
                    /\ w.balance = Balance(w.strength, w.distance, w.volatility)
    <2>1. CASE a.worstClone # NoFact
        BY <1>3, <1>4, <1>5, <2>1
    <2>2. CASE a.worstClone = NoFact /\ a.worst # NoFact
        <3>1. w = a.worst /\ a.worst \in S
            BY <1>4, <1>5, <2>2 DEF LowestOf
        <3> QED
            BY <1>1, <1>2, <1>6, <2>2, <3>1
    <2>3. CASE a.worstClone = NoFact /\ a.worst = NoFact
        BY <1>5, <2>3
    <2> QED
        BY <2>1, <2>2, <2>3
<1>10. \A g \in Q : g.balance \in 1..2 /\ g.strength \in Strong /\ g.volatility = "high"
    BY <1>1, <1>2, QualifiesIs
<1>11. CASE Q # {}
    <2>1. /\ f = a.qualWorst /\ f \in Q /\ f # NoFact
          /\ \A g \in Q : f.balance <= g.balance
        BY <1>4, <1>5, <1>6, <1>7, <1>11 DEF LowestOf
    <2>2. f \in facts /\ f \in SeamFacts /\ f.balance \in 1..2 /\ f.strength \in Strong
          /\ f.balance = Balance(f.strength, f.distance, f.volatility)
        BY <1>1, <1>2, <1>6, <1>10, <2>1
    <2>3. w # NoFact /\ w \in SeamFacts /\ w.balance \in 1..2
        <3>1. w # NoFact /\ w.balance <= f.balance
            BY <1>8, <2>2
        <3> QED
            BY <1>7, <1>9, <2>2, <3>1
    <2>4. w.strength \in Strong
        <3>1. w.strength \in Strengths /\ w.distance \in Boundaries /\ w.volatility \in Volatilities
            BY <2>3 DEF SeamFacts
        <3>2. Balance(w.strength, w.distance, w.volatility) \in 1..6
            BY <1>9, <2>3
        <3> QED
            BY <3>1, <3>2, BalanceIs
    <2>5. a.severity = Band(f.balance)
        <3>1. Band(w.balance) = Band(f.balance)
            BY <2>2, <2>3, BandIs
        <3> QED
            BY <1>4, <2>3, <3>1
    <2>6. Quadrant(a) = "tight"
        <3>1. StrengthValue(w.strength) > 5
            BY <2>3, <2>4, StrongIs DEF SeamFacts
        <3> QED
            BY <2>3, <3>1, QuadrantIs DEF w
    <2>7. Cleared(Hypothesis(p, a), f)
        BY <2>2, MoveClears DEF f
    <2>8. SeamProvenance(p) # "undeclared"
        BY <1>1, <1>2, <1>10, <2>1, NotAGuess
    <2>9. facts # {}
        BY <2>2
    <2> QED
        BY <1>11, <2>1, <2>2, <2>5, <2>6, <2>7, <2>8, <2>9 DEF TellsOneFact, a, f, S, Q
<1>12. CASE Q = {}
    <2>1. a.qualWorst = NoFact /\ f = w
        BY <1>4, <1>5, <1>12 DEF LowestOf
    <2>2. f = NoFact <=> facts = {}
        BY <1>8, <1>9, <2>1
    <2>3. ASSUME f # NoFact
          PROVE  /\ f \in facts /\ \A g \in facts : f.balance <= g.balance
                 /\ a.severity = Band(f.balance)
                 /\ Quadrant(a) = IF f.strength \in Strong THEN "tight" ELSE "loose"
                 /\ Cleared(Hypothesis(p, a), f)
        <3>1. f \in facts /\ f \in SeamFacts /\ f.balance > 0
              /\ f.balance = Balance(f.strength, f.distance, f.volatility)
            BY <1>9, <2>1, <2>3
        <3>2. \A g \in facts : f.balance <= g.balance
            BY <1>8, <2>1
        <3>3. a.severity = Band(f.balance)
            BY <1>4, <2>1, <2>3
        <3>4. Quadrant(a) = IF f.strength \in Strong THEN "tight" ELSE "loose"
            <4>1. Quadrant(a) \in {"tight", "loose"} /\ (Quadrant(a) = "tight" <=> StrengthValue(f.strength) > 5)
                BY <2>1, <3>1, QuadrantIs DEF w
            <4>2. f.strength \in Strengths
                BY <3>1 DEF SeamFacts
            <4> QED
                BY <4>1, <4>2, StrongIs
        <3>5. Cleared(Hypothesis(p, a), f)
            BY <3>1, MoveClears DEF f
        <3> QED
            BY <3>1, <3>2, <3>3, <3>4, <3>5
    <2> QED
        BY <1>12, <2>2, <2>3 DEF TellsOneFact, a, f, S, Q
<1> QED
    BY <1>11, <1>12

\* The cascade raises what deliberate strong edges lead to a volatile module and nothing
\* else, and a finished seam tells one worst fact of its pair, in whatever order
\* the edges and the copies come.
THEOREM SeamsExact == CouplingSpec => []CouplingIsExact
<1>1. CouplingInv /\ [CouplingNext]_couplingVars => CouplingInv'
    BY CouplingSteps
<1>2. CouplingInv => CouplingIsExact
    BY CascadeFollows, SeamFollows DEF CouplingIsExact
<1> QED
    BY <1>1, <1>2, CouplingStarts, PTL DEF CouplingSpec

\* Every variable has its type, and an edge of a seam is scored or abstained.
THEOREM CouplingTyped == CouplingSpec => []CouplingTypeOK
<1>1. CouplingInv /\ [CouplingNext]_couplingVars => CouplingInv'
    BY CouplingSteps
<1>2. ASSUME CouplingInv PROVE CouplingTypeOK
    <2>1. ASSUME NEW p \in DOMAIN seams
          PROVE  /\ p \in Parts \X Parts /\ p[1] # p[2]
                 /\ seams[p].edges <= seams[p].scored + seams[p].abstained
                 /\ Confidence(seams[p]) \in {"unrated", "low", "medium", "high"}
        <3>1. system # NoSystem
            BY <1>2 DEF CouplingInv
        <3>2. SeamPair(p) /\ SeamHolds(seams[p], FactsIn(p), system.defs[p[1]].cohesive, CloneFact(p[1], p[2]), todo = {})
            BY <1>2, <3>1 DEF CouplingInv, SeamsInv
        <3>3. /\ seams[p].scored \in Nat /\ seams[p].abstained \in Nat
              /\ seams[p].edges <= seams[p].scored + seams[p].abstained
            BY <3>2 DEF SeamHolds, SeamRecords
        <3>4. Confidence(seams[p]) \in {"unrated", "low", "medium", "high"}
            <4> DEFINE n == seams[p].scored
                       o == seams[p].abstained
            <4>1. CASE n = 0
                BY <4>1 DEF Confidence
            <4>2. CASE n > 0 /\ o > n
                BY <3>3, <4>2 DEF Confidence
            <4>3. CASE n > 0 /\ o \in 1..n
                BY <3>3, <4>3 DEF Confidence
            <4>4. CASE n > 0 /\ o = 0
                BY <3>3, <4>4 DEF Confidence
            <4> QED
                BY <3>3, <4>1, <4>2, <4>3, <4>4
        <3> QED
            BY <3>2, <3>3, <3>4 DEF SeamPair
    <2>2. DOMAIN seams \subseteq Parts \X Parts
        BY <2>1
    <2> QED
        BY <1>2, <2>1, <2>2 DEF CouplingInv, CouplingTypeOK
<1> QED
    BY <1>1, <1>2, CouplingStarts, PTL DEF CouplingSpec

=============================================================================
