------------------------------- MODULE Lists -------------------------------
(***************************************************************************)
(* A list with some of its items left out, the others in their order, as   *)
(* the loops that append what they keep to a fresh slice leave it.  The     *)
(* item at each place is the one with as many before it that stay.          *)
(***************************************************************************)
EXTENDS Integers, FiniteSets, Sequences

\* The items at the places K, in their order.
ItemsAt(items, K) ==
    [n \in 1..Cardinality(K) |-> items[CHOOSE k \in K : Cardinality({j \in K : j < k}) = n - 1]]
=============================================================================
