------------------------------ MODULE BaseTrees ------------------------------
(***************************************************************************)
(* What a checkout of a base tree promises (internal/history/git,          *)
(* worktree.go): a run takes a tree and, until it drops it, the tree under *)
(* it is the one it took, whatever other runs do.                          *)
(***************************************************************************)
CONSTANTS Procs, Commits, None

VARIABLE held \* the tree each run analyses, None outside a checkout

Init == held = [p \in Procs |-> None]

Take(p) ==
    /\ held[p] = None
    /\ \E c \in Commits : held' = [held EXCEPT ![p] = c]

Drop(p) ==
    /\ held[p] # None
    /\ held' = [held EXCEPT ![p] = None]

Next == \E p \in Procs : Take(p) \/ Drop(p)

Spec == Init /\ [][Next]_held
=============================================================================
