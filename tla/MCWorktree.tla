----------------------------- MODULE MCWorktree -----------------------------
(* Instances of Worktree for TLC. *)
EXTENDS Worktree

CONSTANTS c1, c2

MCCommits == {c1, c2}
OneCommit == {c1}
MCInitRef == [r \in Refs |-> c1]
=============================================================================
