---------------------------- MODULE Observation ----------------------------
(***************************************************************************)
(* What an acquisition promises the rest of a run: for each language, one   *)
(* coverage row and the files whose imports are all in the graph.  `Check`  *)
(* judges a change on these promises alone (its Observations).              *)
(***************************************************************************)
CONSTANTS
    Langs,
    Files,
    Unresolved, \* the languages whose partial rows may be of unresolved specifiers
    Degraded,   \* the languages whose partial rows may only lose precision
    NoTree

VARIABLES
    tree, \* the languages that are there, the files of each, and those the config switches
          \* off or on
    row,  \* the class of each language's row, "pending" before it is reported
    seen  \* the files whose imports the graph holds, all of them

Trees == [there: SUBSET Langs, inScope: [Langs -> SUBSET Files], off: SUBSET Langs,
          on: SUBSET Langs]
Classes == {"ok", "absent", "disabled", "unresolved", "degraded", "unavailable"}

\* What a row promises: complete evidence, none, or a part of it.
Promised(l, r, s) ==
    /\ s \subseteq tree.inScope[l]
    /\ r \in {"ok", "degraded"} => s = tree.inScope[l]
    /\ r \in {"absent", "disabled"} => s = {}
    /\ l \notin tree.there => r = "absent" \/ (r = "unavailable" /\ l \in tree.on)
    /\ l \in tree.off => r \in {"absent", "disabled"}
    /\ r = "disabled" => l \in tree.off
    /\ r = "unresolved" => l \in Unresolved
    /\ r = "degraded" => l \in Degraded

Init ==
    /\ tree = NoTree
    /\ row = [l \in Langs |-> "pending"]
    /\ seen = [l \in Langs |-> {}]

Begin ==
    /\ tree = NoTree
    /\ tree' \in Trees
    /\ UNCHANGED <<row, seen>>

Observe(l) ==
    /\ tree # NoTree /\ row[l] = "pending"
    /\ \E r \in Classes, s \in SUBSET Files :
         /\ Promised(l, r, s)
         /\ row' = [row EXCEPT ![l] = r]
         /\ seen' = [seen EXCEPT ![l] = s]
    /\ UNCHANGED tree

Next == Begin \/ \E l \in Langs : Observe(l)

Spec == Init /\ [][Next]_<<tree, row, seen>>
=============================================================================
