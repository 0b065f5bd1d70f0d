------------------------------ MODULE Worktree ------------------------------
(***************************************************************************)
(* The base-tree checkout of internal/history/git/worktree.go: runs of     *)
(* archfit, each a process, check a base ref out into the directory its    *)
(* commit names, <repo>/.archfit-cache/worktrees/<sha>, under a flock on   *)
(* <sha>.lock, or into a directory of their own when that fails.           *)
(*                                                                         *)
(* git's part is external: `git worktree add` registers the path, locked   *)
(* as "initializing" until the checkout is complete; `remove --force` and  *)
(* `prune` drop a registration unless it is locked; `add` refuses a path   *)
(* that is registered.                                                     *)
(***************************************************************************)
EXTENDS Naturals

CONSTANTS
    Procs,    \* the runs that may overlap
    Commits,
    Refs,     \* the names a base is given by
    InitRef,  \* the commit each ref names at first
    MaxMoves, \* bound on the moves of a ref
    MaxRuns,  \* bound on the checkouts of a process
    GitKills, \* whether git may die inside `git worktree add`
    None, Gone, Empty, Partial

ASSUME WorktreeAssumption ==
    /\ InitRef \in [Refs -> Commits]
    /\ MaxMoves \in Nat /\ MaxRuns \in Nat
    /\ GitKills \in BOOLEAN
    /\ None \notin Procs /\ None \notin Commits
    /\ {Gone, Empty, Partial} \cap Commits = {}

VARIABLES
    ref,   \* the commit each ref names
    moves, \* the moves made so far
    flock, \* the process that holds <sha>.lock
    dir,   \* what the directory of a commit holds
    reg,   \* git's registration of that directory
    run    \* the checkout of each process

vars == <<ref, moves, flock, dir, reg, run>>

Phases == {"idle", "waiting", "locked", "ready", "adding", "using", "ending", "removed"}

Checkout ==
    [phase: Phases, ref: Refs, sha: Commits, shared: BOOLEAN,
     cancelled: BOOLEAN, tree: Commits \cup {None}, runs: 0 .. MaxRuns]

RunType == {r \in Checkout : r.phase \in {"adding", "using"} => r.tree \in Commits}

TypeOK ==
    /\ ref \in [Refs -> Commits]
    /\ moves \in 0 .. MaxMoves
    /\ flock \in [Commits -> Procs \cup {None}]
    /\ dir \in [Commits -> Commits \cup {Gone, Empty, Partial}]
    /\ reg \in [Commits -> {"none", "live", "initializing"}]
    /\ run \in [Procs -> RunType]

Init ==
    /\ ref = InitRef
    /\ moves = 0
    /\ flock = [c \in Commits |-> None]
    /\ dir = [c \in Commits |-> Gone]
    /\ reg = [c \in Commits |-> "none"]
    /\ run \in [Procs -> {r \in [phase: {"idle"}, ref: Refs, sha: Commits, shared: {FALSE},
                                 cancelled: {FALSE}, tree: {None}, runs: {0}] :
                          r.sha = InitRef[r.ref]}]

-----------------------------------------------------------------------------

Set(p, r) == run' = [run EXCEPT ![p] = r]

Phase(p, ph) == [run[p] EXCEPT !.phase = ph]

\* RemoveWorktree: remove --force, then prune.  Under a cancelled context the
\* Runner starts neither; neither touches a locked registration.
Unregistered(p, c) ==
    IF run[p].cancelled \/ reg[c] = "initializing" THEN reg[c] ELSE "none"

\* Checkout, WorktreeParent: the ref is resolved and names the directory.
Resolve(p, r) ==
    /\ run[p].phase = "idle" /\ run[p].runs < MaxRuns
    /\ Set(p, [phase |-> "waiting", ref |-> r, sha |-> ref[r], shared |-> TRUE,
               cancelled |-> FALSE, tree |-> None, runs |-> run[p].runs + 1])
    /\ UNCHANGED <<ref, moves, flock, dir, reg>>

\* lockWorktree: a poll that finds the lock free takes it.
Lock(p) ==
    /\ run[p].phase = "waiting"
    /\ flock[run[p].sha] = None
    /\ flock' = [flock EXCEPT ![run[p].sha] = p]
    /\ Set(p, Phase(p, "locked"))
    /\ UNCHANGED <<ref, moves, dir, reg>>

\* lockWorktree: a cancelled run stops polling, and the checkout fails.
GiveUp(p) ==
    /\ run[p].phase = "waiting" /\ run[p].cancelled
    /\ flock[run[p].sha] # None
    /\ Set(p, Phase(p, "idle"))
    /\ UNCHANGED <<ref, moves, flock, dir, reg>>

\* A bug in its place: the shared directory is used without its lock.
SharedWithoutLock(p) ==
    /\ run[p].phase = "waiting"
    /\ Set(p, Phase(p, "ready"))
    /\ UNCHANGED <<ref, moves, flock, dir, reg>>

\* lockWorktree fails for another reason: a temporary directory of its own.
NoLock(p) ==
    /\ run[p].phase = "waiting"
    /\ Set(p, [Phase(p, "ready") EXCEPT !.shared = FALSE])
    /\ UNCHANGED <<ref, moves, flock, dir, reg>>

\* A bug in its place: the directory goes and its registration stays.
ClearWithoutUnregister(p) ==
    /\ run[p].phase = "locked"
    /\ dir' = [dir EXCEPT ![run[p].sha] = Empty]
    /\ Set(p, Phase(p, "ready"))
    /\ UNCHANGED <<ref, moves, flock, reg>>

\* WorktreeParent: what an earlier run left is removed and the path reused.
ClearLeftover(p) ==
    LET c == run[p].sha
    IN  /\ run[p].phase = "locked"
        /\ reg' = [reg EXCEPT ![c] = Unregistered(p, c)]
        /\ dir' = [dir EXCEPT ![c] = Empty]
        /\ Set(p, Phase(p, "ready"))
        /\ UNCHANGED <<ref, moves, flock>>

\* WorktreeParent: RemoveAll or MkdirAll fails; the lock goes back first.
ClearFails(p) ==
    LET c == run[p].sha
    IN  /\ run[p].phase = "locked"
        /\ reg' = [reg EXCEPT ![c] = Unregistered(p, c)]
        /\ dir' = [dir EXCEPT ![c] = IF reg[c] = "live" /\ ~run[p].cancelled THEN Gone ELSE @]
        /\ flock' = [flock EXCEPT ![c] = None]
        /\ Set(p, [Phase(p, "ready") EXCEPT !.shared = FALSE])
        /\ UNCHANGED <<ref, moves>>

\* AddWorktree starts; the ref is given by name, and git resolves it again.
AddBegins(p) ==
    LET c == run[p].sha
    IN  /\ run[p].phase = "ready" /\ ~run[p].cancelled
        /\ run[p].shared => reg[c] = "none"
        /\ IF run[p].shared
           THEN /\ reg' = [reg EXCEPT ![c] = "initializing"]
                /\ dir' = [dir EXCEPT ![c] = Partial]
           ELSE UNCHANGED <<reg, dir>>
        /\ Set(p, [Phase(p, "adding") EXCEPT !.tree = ref[run[p].ref]])
        /\ UNCHANGED <<ref, moves, flock>>

\* AddWorktree fails: the context is done, the path is still registered, or
\* git reports another error and cleans up after itself.
AddFails(p) ==
    LET c == run[p].sha
    IN  /\ \/ run[p].phase = "ready" /\ (run[p].cancelled \/ (run[p].shared /\ reg[c] # "none"))
           \/ run[p].phase = "adding"
        /\ IF run[p].phase = "adding" /\ run[p].shared
           THEN /\ reg' = [reg EXCEPT ![c] = "none"]
                /\ dir' = [dir EXCEPT ![c] = Empty]
           ELSE UNCHANGED <<reg, dir>>
        /\ Set(p, [Phase(p, "ending") EXCEPT !.tree = None])
        /\ UNCHANGED <<ref, moves, flock>>

\* A cancelled context kills git, which leaves the path locked.
AddKilled(p) ==
    /\ GitKills
    /\ run[p].phase = "adding" /\ run[p].cancelled
    /\ Set(p, [Phase(p, "ending") EXCEPT !.tree = None])
    /\ UNCHANGED <<ref, moves, flock, dir, reg>>

\* A bug in its place: the ref's name where its commit belongs.
AddEndsForRef(p) ==
    LET c == run[p].sha
    IN  /\ run[p].phase = "adding"
        /\ reg' = [reg EXCEPT ![c] = "live"]
        /\ dir' = [dir EXCEPT ![c] = run[p].ref]
        /\ Set(p, Phase(p, "using"))
        /\ UNCHANGED <<ref, moves, flock>>

\* git completes the checkout and unlocks its registration.
AddEnds(p) ==
    LET c == run[p].sha
    IN  /\ run[p].phase = "adding"
        /\ IF run[p].shared
           THEN /\ reg' = [reg EXCEPT ![c] = "live"]
                /\ dir' = [dir EXCEPT ![c] = run[p].tree]
           ELSE UNCHANGED <<reg, dir>>
        /\ Set(p, Phase(p, "using"))
        /\ UNCHANGED <<ref, moves, flock>>

\* A bug in its place: the lock goes back before the directory is removed.
EndUseUnlocks(p) ==
    /\ run[p].phase = "using"
    /\ flock' = [c \in Commits |-> IF flock[c] = p THEN None ELSE flock[c]]
    /\ Set(p, [Phase(p, "ending") EXCEPT !.tree = None])
    /\ UNCHANGED <<ref, moves, dir, reg>>

\* attachBaseComparison has scored the base tree, or failed to.
EndUse(p) ==
    /\ run[p].phase = "using"
    /\ Set(p, [Phase(p, "ending") EXCEPT !.tree = None])
    /\ UNCHANGED <<ref, moves, flock, dir, reg>>

\* cleanup: the registration and the directory go first.
Remove(p) ==
    LET c == run[p].sha
    IN  /\ run[p].phase = "ending"
        /\ IF run[p].shared
           THEN /\ reg' = [reg EXCEPT ![c] = Unregistered(p, c)]
                /\ dir' = [dir EXCEPT ![c] = Gone]
           ELSE UNCHANGED <<reg, dir>>
        /\ Set(p, Phase(p, "removed"))
        /\ UNCHANGED <<ref, moves, flock>>

\* A bug in its place: the lock is never given back.
LockKept(p) ==
    /\ run[p].phase = "removed"
    /\ Set(p, Phase(p, "idle"))
    /\ UNCHANGED <<ref, moves, flock, dir, reg>>

\* cleanup: the lock goes last.
Release(p) ==
    /\ run[p].phase = "removed"
    /\ flock' = IF run[p].shared THEN [flock EXCEPT ![run[p].sha] = None] ELSE flock
    /\ Set(p, Phase(p, "idle"))
    /\ UNCHANGED <<ref, moves, dir, reg>>

-----------------------------------------------------------------------------
(* The environment.                                                         *)

\* Interrupt, termination, or the timeout of a run.
Cancel(p) ==
    /\ run[p].phase # "idle" /\ ~run[p].cancelled
    /\ Set(p, [run[p] EXCEPT !.cancelled = TRUE])
    /\ UNCHANGED <<ref, moves, flock, dir, reg>>

\* A process that dies: the kernel frees its lock and nothing else is undone.
\* Inside `git worktree add` it takes git along (GitKills).
Crash(p) ==
    /\ run[p].phase # "idle"
    /\ run[p].phase = "adding" => GitKills
    /\ flock' = [c \in Commits |-> IF flock[c] = p THEN None ELSE flock[c]]
    /\ Set(p, [Phase(p, "idle") EXCEPT !.tree = None])
    /\ UNCHANGED <<ref, moves, dir, reg>>

MoveRef(r, c) ==
    /\ moves < MaxMoves /\ ref[r] # c
    /\ ref' = [ref EXCEPT ![r] = c]
    /\ moves' = moves + 1
    /\ UNCHANGED <<flock, dir, reg, run>>

\* The steps of a checkout that the process takes on its own.
Progress(p) ==
    \/ Lock(p) \/ GiveUp(p) \/ ClearLeftover(p) \/ ClearFails(p)
    \/ AddBegins(p) \/ AddFails(p) \/ AddKilled(p) \/ AddEnds(p)
    \/ EndUse(p) \/ Remove(p) \/ Release(p)

Next ==
    \/ \E p \in Procs : \/ \E r \in Refs : Resolve(p, r)
                        \/ Progress(p) \/ NoLock(p) \/ Cancel(p) \/ Crash(p)
    \/ \E r \in Refs, c \in Commits : MoveRef(r, c)

Spec == Init /\ [][Next]_vars

\* A process runs on: the lock poll wakes every worktreeLockPoll, git
\* commands end, and the analysis of a base tree ends (its tools have a
\* watchdog).  Nobody is bound to start, cancel, crash or move a ref, and a
\* lock call need not fail: NoLock is not what a waiting process relies on.
FairSpec ==
    /\ Spec
    /\ \A p \in Procs : WF_vars(Progress(p))

-----------------------------------------------------------------------------
(* Properties.                                                              *)

Holding == {"locked", "ready", "adding", "using", "ending", "removed"}

\* While a run analyses the directory of a commit, that directory is the
\* complete tree it checked out, registered with git: no other run, however
\* it fails, is cancelled or crashes, removes or replaces it (cleanup's order).
LiveTreeIntact ==
    \A p \in Procs :
        run[p].phase = "using" /\ run[p].shared =>
            dir[run[p].sha] = run[p].tree /\ reg[run[p].sha] = "live"

\* What a crashed or cancelled run left behind never makes a later run of the
\* same base fail, unless git was killed inside `git worktree add`: once the
\* path is cleared, it is empty, and git accepts it or holds it locked.
OnlyKilledGitBlocks ==
    \A p \in Procs :
        run[p].phase = "ready" /\ run[p].shared /\ ~run[p].cancelled =>
            dir[run[p].sha] = Empty /\ reg[run[p].sha] \in {"none", "initializing"}

\* WorktreeParent's comment has no such exception: "a leftover checkout from a
\* crashed run is removed and the path reused".
LeftoverIsReusable ==
    \A p \in Procs :
        run[p].phase = "ready" /\ run[p].shared /\ ~run[p].cancelled =>
            reg[run[p].sha] = "none"

\* The directory a commit names holds that commit's tree ("the path is a
\* deterministic function of the resolved base commit SHA").
TreeIsNamedCommit ==
    \A p \in Procs :
        run[p].phase = "using" /\ run[p].shared => run[p].tree = run[p].sha

\* Every checkout ends: a run neither waits for ever for a lock that another
\* run failed to give back, nor blocks on one of its own.
CheckoutEnds ==
    \A p \in Procs : (run[p].phase # "idle") ~> (run[p].phase = "idle")

Base == INSTANCE BaseTrees WITH
    held <- [p \in Procs |->
                IF run[p].phase # "using" THEN None
                ELSE IF run[p].shared THEN dir[run[p].sha] ELSE run[p].tree]

\* The checkouts implement the abstract promise, whatever overlaps.
ImplementsBaseTrees == Base!Spec
=============================================================================
