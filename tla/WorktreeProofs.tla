--------------------------- MODULE WorktreeProofs ---------------------------
(***************************************************************************)
(* For any number of runs, commits and refs: the tree under a run's        *)
(* analysis is the one it checked out, and the checkouts implement         *)
(* BaseTrees.                                                              *)
(***************************************************************************)
EXTENDS Worktree, TLAPS

\* Whoever holds a directory holds the lock of its commit, and a run in use of
\* one finds its own tree there.
HoldsLock(p) ==
    /\ run[p].phase \in Holding /\ run[p].shared => flock[run[p].sha] = p
    /\ run[p].phase \in {"waiting", "locked"} => run[p].shared

OwnTree(p) ==
    run[p].phase = "using" /\ run[p].shared =>
        dir[run[p].sha] = run[p].tree /\ reg[run[p].sha] = "live"

LockInv == \A p \in Procs : HoldsLock(p) /\ OwnTree(p)

\* The record a step gives p: its phase and what the step may set beside it.
LEMMA CheckoutType ==
  ASSUME NEW r \in Checkout, NEW ph \in Phases, NEW t \in Commits \cup {None}
  PROVE  /\ [r EXCEPT !.phase = ph] \in Checkout
         /\ [[r EXCEPT !.phase = ph] EXCEPT !.shared = FALSE] \in Checkout
         /\ [[r EXCEPT !.phase = ph] EXCEPT !.tree = t] \in Checkout
         /\ [r EXCEPT !.cancelled = TRUE] \in Checkout
  BY DEF Checkout

\* Restated so that no prover has to look into the set.
LEMMA InRunType ==
  ASSUME NEW r
  PROVE  r \in RunType <=>
            r \in Checkout /\ (r.phase \in {"adding", "using"} => r.tree \in Commits)
  BY DEF RunType

LEMMA PhaseType ==
  ASSUME NEW r \in RunType, NEW ph \in Phases \ {"adding", "using"},
         NEW t \in Commits \cup {None}
  PROVE  /\ [r EXCEPT !.phase = ph] \in RunType
         /\ [[r EXCEPT !.phase = ph] EXCEPT !.shared = FALSE] \in RunType
         /\ [[r EXCEPT !.phase = ph] EXCEPT !.tree = t] \in RunType
         /\ [r EXCEPT !.cancelled = TRUE] \in RunType
  <1>1. r \in Checkout /\ (r.phase \in {"adding", "using"} => r.tree \in Commits)
    BY InRunType
  <1>2. [r EXCEPT !.phase = ph] \in RunType
    <2> DEFINE s == [r EXCEPT !.phase = ph]
    <2>1. s \in Checkout /\ s.phase = ph
      <3>1. ph \in Phases
        OBVIOUS
      <3>2. s \in Checkout
        BY <1>1, <3>1, CheckoutType
      <3>3. s.phase = ph
        BY <1>1 DEF Checkout
      <3>4. QED
        BY <3>2, <3>3
    <2> HIDE DEF s
    <2>2. s \in RunType
      BY <2>1, InRunType
    <2>3. QED
      BY <2>2 DEF s
  <1>3. [[r EXCEPT !.phase = ph] EXCEPT !.shared = FALSE] \in RunType
    <2> DEFINE s == [[r EXCEPT !.phase = ph] EXCEPT !.shared = FALSE]
    <2>1. s \in Checkout /\ s.phase = ph
      <3>1. ph \in Phases
        OBVIOUS
      <3>2. s \in Checkout
        BY <1>1, <3>1, CheckoutType
      <3>3. s.phase = ph
        BY <1>1 DEF Checkout
      <3>4. QED
        BY <3>2, <3>3
    <2> HIDE DEF s
    <2>2. s \in RunType
      BY <2>1, InRunType
    <2>3. QED
      BY <2>2 DEF s
  <1>4. [[r EXCEPT !.phase = ph] EXCEPT !.tree = t] \in RunType
    <2> DEFINE s == [[r EXCEPT !.phase = ph] EXCEPT !.tree = t]
    <2>1. s \in Checkout /\ s.phase = ph
      <3>1. ph \in Phases
        OBVIOUS
      <3>2. s \in Checkout
        BY <1>1, <3>1, CheckoutType
      <3>3. s.phase = ph
        BY <1>1 DEF Checkout
      <3>4. QED
        BY <3>2, <3>3
    <2> HIDE DEF s
    <2>2. s \in RunType
      BY <2>1, InRunType
    <2>3. QED
      BY <2>2 DEF s
  <1>5. [r EXCEPT !.cancelled = TRUE] \in RunType
    <2> DEFINE s == [r EXCEPT !.cancelled = TRUE]
    <2>1. s \in Checkout /\ s.phase = r.phase /\ s.tree = r.tree
      <3>1. s \in Checkout
        BY <1>1 DEF Checkout
      <3>2. s.phase = r.phase /\ s.tree = r.tree
        BY <1>1 DEF Checkout
      <3>3. QED
        BY <3>1, <3>2
    <2> HIDE DEF s
    <2>2. s \in RunType
      BY <1>1, <2>1, InRunType
    <2>3. QED
      BY <2>2 DEF s
  <1>6. QED
    BY <1>2, <1>3, <1>4, <1>5

\* A checkout that git works on, and one that git completed, have a tree.
LEMMA TreeType ==
  ASSUME NEW r \in RunType, NEW t \in Commits
  PROVE  /\ [[r EXCEPT !.phase = "adding"] EXCEPT !.tree = t] \in RunType
         /\ r.phase = "adding" => r.tree \in Commits /\ [r EXCEPT !.phase = "using"] \in RunType
  <1>1. /\ r \in Checkout /\ (r.phase \in {"adding", "using"} => r.tree \in Commits)
        /\ "adding" \in Phases /\ "using" \in Phases /\ t \in Commits \cup {None}
    BY InRunType DEF Phases
  <1>2. [[r EXCEPT !.phase = "adding"] EXCEPT !.tree = t] \in RunType
    <2> DEFINE s == [[r EXCEPT !.phase = "adding"] EXCEPT !.tree = t]
    <2>1. s \in Checkout /\ s.phase = "adding" /\ s.tree = t
      <3>1. s \in Checkout
        BY <1>1, CheckoutType
      <3>2. s.phase = "adding" /\ s.tree = t
        BY <1>1 DEF Checkout
      <3>3. QED
        BY <3>1, <3>2
    <2> HIDE DEF s
    <2>2. s \in RunType
      BY <2>1, InRunType
    <2>3. QED
      BY <2>2 DEF s
  <1>3. ASSUME r.phase = "adding"
        PROVE  r.tree \in Commits /\ [r EXCEPT !.phase = "using"] \in RunType
    <2> DEFINE s == [r EXCEPT !.phase = "using"]
    <2>1. s \in Checkout /\ s.phase = "using" /\ s.tree = r.tree
      <3>1. s \in Checkout
        BY <1>1, CheckoutType
      <3>2. s.phase = "using" /\ s.tree = r.tree
        BY <1>1 DEF Checkout
      <3>3. QED
        BY <3>1, <3>2
    <2> HIDE DEF s
    <2>2. s \in RunType /\ r.tree \in Commits
      BY <1>1, <1>3, <2>1, InRunType
    <2>3. QED
      BY <2>2 DEF s
  <1>4. QED
    BY <1>2, <1>3

LEMMA SetType ==
  ASSUME TypeOK, NEW p \in Procs, NEW r \in RunType, Set(p, r)
  PROVE  /\ run' \in [Procs -> RunType]
         /\ run'[p] = r
         /\ \A q \in Procs : q # p => run'[q] = run[q]
  BY DEF TypeOK, Set

LEMMA TypeInit == Init => TypeOK
  <1> SUFFICES ASSUME Init PROVE TypeOK
    OBVIOUS
  <1>1. 0 \in 0 .. MaxMoves /\ 0 \in 0 .. MaxRuns
    BY WorktreeAssumption
  <1>2. ASSUME NEW p \in Procs PROVE run[p] \in RunType /\ run[p].phase = "idle"
    <2>1. run[p] \in [phase: {"idle"}, ref: Refs, sha: Commits, shared: {FALSE},
                      cancelled: {FALSE}, tree: {None}, runs: {0}]
      BY DEF Init
    <2>2. QED
      BY <1>1, <2>1 DEF RunType, Checkout, Phases
  <1>3. run \in [Procs -> RunType]
    <2>1. run = [p \in Procs |-> run[p]]
      BY DEF Init
    <2>2. QED
      BY <1>2, <2>1
  <1>4. QED
    BY <1>1, <1>2, <1>3, WorktreeAssumption DEF Init, TypeOK

LEMMA TypeInductive == TypeOK /\ [Next]_vars => TypeOK'
  <1> SUFFICES ASSUME TypeOK, [Next]_vars PROVE TypeOK'
    OBVIOUS
  <1>0. /\ \A p \in Procs : run[p] \in RunType /\ run[p].sha \in Commits
                            /\ run[p].ref \in Refs /\ run[p].tree \in Commits \cup {None}
        /\ \A ph \in {"idle", "waiting", "locked", "ready", "ending", "removed"} :
              ph \in Phases \ {"adding", "using"}
        /\ \A r \in Refs : ref[r] \in Commits
        /\ \A p \in Procs, c \in Commits : Unregistered(p, c) \in {"none", "live", "initializing"}
    BY DEF TypeOK, RunType, Checkout, Phases, Unregistered
  <1>1. ASSUME NEW p \in Procs, NEW r \in Refs, Resolve(p, r) PROVE TypeOK'
    <2> DEFINE new == [phase |-> "waiting", ref |-> r, sha |-> ref[r], shared |-> TRUE,
                       cancelled |-> FALSE, tree |-> None, runs |-> run[p].runs + 1]
    <2>1. run[p].runs + 1 \in 0 .. MaxRuns
      BY <1>0, <1>1, WorktreeAssumption DEF Resolve, RunType, Checkout
    <2>2. new \in RunType
      BY <1>0, <2>1 DEF RunType, Checkout
    <2>3. Set(p, new)
      BY <1>1 DEF Resolve
    <2> HIDE DEF new
    <2>4. QED
      BY <1>1, <2>2, <2>3, SetType DEF Resolve, TypeOK
  <1>2. ASSUME NEW p \in Procs, Lock(p) PROVE TypeOK'
    BY <1>0, <1>2, PhaseType, SetType DEF Lock, Phase, TypeOK
  <1>3. ASSUME NEW p \in Procs, GiveUp(p) PROVE TypeOK'
    BY <1>0, <1>3, PhaseType, SetType DEF GiveUp, Phase, TypeOK
  <1>4. ASSUME NEW p \in Procs, NoLock(p) PROVE TypeOK'
    BY <1>0, <1>4, PhaseType, SetType DEF NoLock, Phase, TypeOK
  <1>5. ASSUME NEW p \in Procs, ClearLeftover(p) PROVE TypeOK'
    BY <1>0, <1>5, PhaseType, SetType DEF ClearLeftover, Phase, TypeOK
  <1>6. ASSUME NEW p \in Procs, ClearFails(p) PROVE TypeOK'
    BY <1>0, <1>6, PhaseType, SetType DEF ClearFails, Phase, TypeOK
  <1>7. ASSUME NEW p \in Procs, AddBegins(p) PROVE TypeOK'
    <2>1. Set(p, [Phase(p, "adding") EXCEPT !.tree = ref[run[p].ref]])
      BY <1>7 DEF AddBegins
    <2>2. run' \in [Procs -> RunType]
      BY <1>0, <2>1, TreeType, SetType DEF Phase
    <2>3. dir' \in [Commits -> Commits \cup {Gone, Empty, Partial}]
          /\ reg' \in [Commits -> {"none", "live", "initializing"}]
      BY <1>7 DEF AddBegins, TypeOK
    <2>4. QED
      BY <1>7, <2>2, <2>3 DEF AddBegins, TypeOK
  <1>8. ASSUME NEW p \in Procs, AddFails(p) PROVE TypeOK'
    <2>1. Set(p, [Phase(p, "ending") EXCEPT !.tree = None])
      BY <1>8 DEF AddFails
    <2>2. run' \in [Procs -> RunType]
      BY <1>0, <2>1, PhaseType, SetType DEF Phase
    <2>3. dir' \in [Commits -> Commits \cup {Gone, Empty, Partial}]
          /\ reg' \in [Commits -> {"none", "live", "initializing"}]
      BY <1>8 DEF AddFails, TypeOK
    <2>4. QED
      BY <1>8, <2>2, <2>3 DEF AddFails, TypeOK
  <1>9. ASSUME NEW p \in Procs, AddKilled(p) PROVE TypeOK'
    BY <1>0, <1>9, PhaseType, SetType DEF AddKilled, Phase, TypeOK
  <1>10. ASSUME NEW p \in Procs, AddEnds(p) PROVE TypeOK'
    <2>1. Set(p, Phase(p, "using"))
      BY <1>10 DEF AddEnds
    <2>2. run' \in [Procs -> RunType]
      BY <1>0, <1>10, <2>1, TreeType, SetType DEF AddEnds, Phase
    <2>3. dir' \in [Commits -> Commits \cup {Gone, Empty, Partial}]
          /\ reg' \in [Commits -> {"none", "live", "initializing"}]
      BY <1>0, <1>10, TreeType DEF AddEnds, TypeOK
    <2>4. QED
      BY <1>10, <2>2, <2>3 DEF AddEnds, TypeOK
  <1>11. ASSUME NEW p \in Procs, EndUse(p) PROVE TypeOK'
    BY <1>0, <1>11, PhaseType, SetType DEF EndUse, Phase, TypeOK
  <1>12. ASSUME NEW p \in Procs, Remove(p) PROVE TypeOK'
    <2>1. Set(p, Phase(p, "removed"))
      BY <1>12 DEF Remove
    <2>2. run' \in [Procs -> RunType]
      BY <1>0, <2>1, PhaseType, SetType DEF Phase
    <2>3. dir' \in [Commits -> Commits \cup {Gone, Empty, Partial}]
          /\ reg' \in [Commits -> {"none", "live", "initializing"}]
      BY <1>0, <1>12 DEF Remove, TypeOK
    <2>4. QED
      BY <1>12, <2>2, <2>3 DEF Remove, TypeOK
  <1>13. ASSUME NEW p \in Procs, Release(p) PROVE TypeOK'
    <2>1. Set(p, Phase(p, "idle"))
      BY <1>13 DEF Release
    <2>2. run' \in [Procs -> RunType]
      BY <1>0, <2>1, PhaseType, SetType DEF Phase
    <2>3. flock' \in [Commits -> Procs \cup {None}]
      BY <1>13 DEF Release, TypeOK
    <2>4. QED
      BY <1>13, <2>2, <2>3 DEF Release, TypeOK
  <1>14. ASSUME NEW p \in Procs, Cancel(p) PROVE TypeOK'
    BY <1>0, <1>14, PhaseType, SetType DEF Cancel, TypeOK
  <1>15. ASSUME NEW p \in Procs, Crash(p) PROVE TypeOK'
    BY <1>0, <1>15, PhaseType, SetType DEF Crash, Phase, TypeOK
  <1>16. ASSUME NEW r \in Refs, NEW c \in Commits, MoveRef(r, c) PROVE TypeOK'
    BY <1>16, WorktreeAssumption DEF MoveRef, TypeOK
  <1>17. CASE UNCHANGED vars
    BY <1>17 DEF vars, TypeOK
  <1>18. QED
    BY <1>1, <1>2, <1>3, <1>4, <1>5, <1>6, <1>7, <1>8, <1>9, <1>10, <1>11, <1>12,
       <1>13, <1>14, <1>15, <1>16, <1>17
    DEF Next, Progress

\* Every state of the checkouts is well-typed.
THEOREM TypeCorrect == Spec => []TypeOK
  BY TypeInit, TypeInductive, PTL DEF Spec

\* What a step leaves of the record it changes.
LEMMA StepFields ==
  ASSUME TypeOK, NEW p \in Procs, NEW ph, NEW t
  PROVE  /\ Set(p, Phase(p, ph)) =>
              run'[p].phase = ph /\ run'[p].sha = run[p].sha
              /\ run'[p].shared = run[p].shared /\ run'[p].tree = run[p].tree
         /\ Set(p, [Phase(p, ph) EXCEPT !.shared = FALSE]) =>
              run'[p].phase = ph /\ run'[p].shared = FALSE /\ run'[p].tree = run[p].tree
         /\ Set(p, [Phase(p, ph) EXCEPT !.tree = t]) =>
              run'[p].phase = ph /\ run'[p].sha = run[p].sha
              /\ run'[p].shared = run[p].shared /\ run'[p].tree = t
         /\ Set(p, [run[p] EXCEPT !.cancelled = TRUE]) =>
              run'[p].phase = run[p].phase /\ run'[p].sha = run[p].sha
              /\ run'[p].shared = run[p].shared /\ run'[p].tree = run[p].tree
  <1>1. run[p] \in Checkout
    BY DEF TypeOK, RunType
  <1>2. ASSUME NEW r, Set(p, r) PROVE run'[p] = r
    BY <1>2 DEF Set, TypeOK
  <1>3. ASSUME Set(p, Phase(p, ph))
        PROVE  run'[p].phase = ph /\ run'[p].sha = run[p].sha
               /\ run'[p].shared = run[p].shared /\ run'[p].tree = run[p].tree
    BY <1>1, <1>2, <1>3 DEF Phase, Checkout
  <1>4. ASSUME Set(p, [Phase(p, ph) EXCEPT !.shared = FALSE])
        PROVE  run'[p].phase = ph /\ run'[p].shared = FALSE /\ run'[p].tree = run[p].tree
    BY <1>1, <1>2, <1>4 DEF Phase, Checkout
  <1>5. ASSUME Set(p, [Phase(p, ph) EXCEPT !.tree = t])
        PROVE  run'[p].phase = ph /\ run'[p].sha = run[p].sha
               /\ run'[p].shared = run[p].shared /\ run'[p].tree = t
    BY <1>1, <1>2, <1>5 DEF Phase, Checkout
  <1>6. ASSUME Set(p, [run[p] EXCEPT !.cancelled = TRUE])
        PROVE  run'[p].phase = run[p].phase /\ run'[p].sha = run[p].sha
               /\ run'[p].shared = run[p].shared /\ run'[p].tree = run[p].tree
    BY <1>1, <1>2, <1>6 DEF Checkout
  <1>7. QED
    BY <1>3, <1>4, <1>5, <1>6

LEMMA Others ==
  ASSUME NEW p \in Procs, NEW r, Set(p, r), NEW q \in Procs, q # p
  PROVE  run'[q] = run[q]
  BY DEF Set

LEMMA LockInit == Init => LockInv
  <1> SUFFICES ASSUME Init, NEW p \in Procs PROVE HoldsLock(p) /\ OwnTree(p)
    BY DEF LockInv
  <1>1. run[p] \in [phase: {"idle"}, ref: Refs, sha: Commits, shared: {FALSE},
                    cancelled: {FALSE}, tree: {None}, runs: {0}]
    BY DEF Init
  <1>2. run[p].phase = "idle"
    BY <1>1
  <1>3. QED
    BY <1>2 DEF HoldsLock, OwnTree, Holding

\* A process that holds no directory, or only one of its own, keeps the
\* invariant for itself; only p's own record and directory can change it.
LEMMA LockInductive == TypeOK /\ LockInv /\ [Next]_vars => LockInv'
  <1> SUFFICES ASSUME TypeOK, LockInv, [Next]_vars, NEW q \in Procs
               PROVE  (HoldsLock(q) /\ OwnTree(q))'
    BY DEF LockInv
  <1>0. /\ HoldsLock(q) /\ OwnTree(q)
        /\ \A p \in Procs : HoldsLock(p) /\ OwnTree(p)
        /\ \A p \in Procs : run[p].sha \in Commits /\ run[p].shared \in BOOLEAN
        /\ flock \in [Commits -> Procs \cup {None}]
        /\ dir \in [Commits -> Commits \cup {Gone, Empty, Partial}]
        /\ reg \in [Commits -> {"none", "live", "initializing"}]
        /\ None \notin Procs
    BY WorktreeAssumption DEF LockInv, TypeOK, RunType, Checkout
  <1>1. ASSUME NEW p \in Procs, NEW r \in Refs, Resolve(p, r)
        PROVE  (HoldsLock(q) /\ OwnTree(q))'
    <2>1. q = p => run'[q].phase = "waiting" /\ run'[q].shared = TRUE
      BY <1>1 DEF Resolve, Set, TypeOK
    <2>2. q # p => run'[q] = run[q]
      BY <1>1, Others DEF Resolve
    <2>3. QED
      BY <1>0, <1>1, <2>1, <2>2 DEF Resolve, HoldsLock, OwnTree, Holding
  <1>2. ASSUME NEW p \in Procs, Lock(p) PROVE (HoldsLock(q) /\ OwnTree(q))'
    <2>1. Set(p, Phase(p, "locked"))
      BY <1>2 DEF Lock
    <2>2. run'[p].phase = "locked" /\ run'[p].sha = run[p].sha
          /\ run'[p].shared = run[p].shared /\ run'[p].tree = run[p].tree
      BY <2>1, StepFields
    <2>3. q # p => run'[q] = run[q]
      BY <2>1, Others
    <2>4. CASE q = p
      BY <1>0, <1>2, <2>2, <2>4 DEF Lock, HoldsLock, OwnTree, Holding
    <2>5. CASE q # p
      BY <1>0, <1>2, <2>3, <2>5 DEF Lock, HoldsLock, OwnTree, Holding
    <2>6. QED
      BY <2>4, <2>5
  <1>3. ASSUME NEW p \in Procs, GiveUp(p) PROVE (HoldsLock(q) /\ OwnTree(q))'
    <2>1. Set(p, Phase(p, "idle"))
      BY <1>3 DEF GiveUp
    <2>2. run'[p].phase = "idle" /\ run'[p].sha = run[p].sha
          /\ run'[p].shared = run[p].shared /\ run'[p].tree = run[p].tree
      BY <2>1, StepFields
    <2>3. q # p => run'[q] = run[q]
      BY <2>1, Others
    <2>4. CASE q = p
      BY <1>0, <1>3, <2>2, <2>4 DEF GiveUp, HoldsLock, OwnTree, Holding
    <2>5. CASE q # p
      BY <1>0, <1>3, <2>3, <2>5 DEF GiveUp, HoldsLock, OwnTree, Holding
    <2>6. QED
      BY <2>4, <2>5
  <1>4. ASSUME NEW p \in Procs, NoLock(p) PROVE (HoldsLock(q) /\ OwnTree(q))'
    <2>1. Set(p, [Phase(p, "ready") EXCEPT !.shared = FALSE])
      BY <1>4 DEF NoLock
    <2>2. run'[p].phase = "ready" /\ run'[p].shared = FALSE
          /\ run'[p].tree = run[p].tree
      BY <2>1, StepFields
    <2>3. q # p => run'[q] = run[q]
      BY <2>1, Others
    <2>4. CASE q = p
      BY <1>0, <1>4, <2>2, <2>4 DEF NoLock, HoldsLock, OwnTree, Holding
    <2>5. CASE q # p
      BY <1>0, <1>4, <2>3, <2>5 DEF NoLock, HoldsLock, OwnTree, Holding
    <2>6. QED
      BY <2>4, <2>5
  <1>5. ASSUME NEW p \in Procs, ClearLeftover(p) PROVE (HoldsLock(q) /\ OwnTree(q))'
    <2>1. Set(p, Phase(p, "ready"))
      BY <1>5 DEF ClearLeftover
    <2>2. run'[p].phase = "ready" /\ run'[p].sha = run[p].sha
          /\ run'[p].shared = run[p].shared /\ run'[p].tree = run[p].tree
      BY <2>1, StepFields
    <2>3. q # p => run'[q] = run[q]
      BY <2>1, Others
    <2>4. CASE q = p
      BY <1>0, <1>5, <2>2, <2>4 DEF ClearLeftover, HoldsLock, OwnTree, Holding
    <2>5. CASE q # p
      BY <1>0, <1>5, <2>3, <2>5 DEF ClearLeftover, HoldsLock, OwnTree, Holding
    <2>6. QED
      BY <2>4, <2>5
  <1>6. ASSUME NEW p \in Procs, ClearFails(p) PROVE (HoldsLock(q) /\ OwnTree(q))'
    <2>1. Set(p, [Phase(p, "ready") EXCEPT !.shared = FALSE])
      BY <1>6 DEF ClearFails
    <2>2. run'[p].phase = "ready" /\ run'[p].shared = FALSE
          /\ run'[p].tree = run[p].tree
      BY <2>1, StepFields
    <2>3. q # p => run'[q] = run[q]
      BY <2>1, Others
    <2>4. CASE q = p
      BY <1>0, <1>6, <2>2, <2>4 DEF ClearFails, HoldsLock, OwnTree, Holding
    <2>5. CASE q # p
      BY <1>0, <1>6, <2>3, <2>5 DEF ClearFails, HoldsLock, OwnTree, Holding
    <2>6. QED
      BY <2>4, <2>5
  <1>7. ASSUME NEW p \in Procs, AddBegins(p) PROVE (HoldsLock(q) /\ OwnTree(q))'
    <2>1. Set(p, [Phase(p, "adding") EXCEPT !.tree = ref[run[p].ref]])
      BY <1>7 DEF AddBegins
    <2>2. run'[p].phase = "adding" /\ run'[p].sha = run[p].sha
          /\ run'[p].shared = run[p].shared
      BY <2>1, StepFields
    <2>3. q # p => run'[q] = run[q]
      BY <2>1, Others
    <2>4. CASE q = p
      BY <1>0, <1>7, <2>2, <2>4 DEF AddBegins, HoldsLock, OwnTree, Holding
    <2>5. CASE q # p
      BY <1>0, <1>7, <2>3, <2>5 DEF AddBegins, HoldsLock, OwnTree, Holding
    <2>6. QED
      BY <2>4, <2>5
  <1>8. ASSUME NEW p \in Procs, AddFails(p) PROVE (HoldsLock(q) /\ OwnTree(q))'
    <2>1. Set(p, [Phase(p, "ending") EXCEPT !.tree = None])
      BY <1>8 DEF AddFails
    <2>2. run'[p].phase = "ending" /\ run'[p].sha = run[p].sha
          /\ run'[p].shared = run[p].shared
      BY <2>1, StepFields
    <2>3. q # p => run'[q] = run[q]
      BY <2>1, Others
    <2>4. CASE q = p
      BY <1>0, <1>8, <2>2, <2>4 DEF AddFails, HoldsLock, OwnTree, Holding
    <2>5. CASE q # p
      BY <1>0, <1>8, <2>3, <2>5 DEF AddFails, HoldsLock, OwnTree, Holding
    <2>6. QED
      BY <2>4, <2>5
  <1>9. ASSUME NEW p \in Procs, AddKilled(p) PROVE (HoldsLock(q) /\ OwnTree(q))'
    <2>1. Set(p, [Phase(p, "ending") EXCEPT !.tree = None])
      BY <1>9 DEF AddKilled
    <2>2. run'[p].phase = "ending" /\ run'[p].sha = run[p].sha
          /\ run'[p].shared = run[p].shared
      BY <2>1, StepFields
    <2>3. q # p => run'[q] = run[q]
      BY <2>1, Others
    <2>4. CASE q = p
      BY <1>0, <1>9, <2>2, <2>4 DEF AddKilled, HoldsLock, OwnTree, Holding
    <2>5. CASE q # p
      BY <1>0, <1>9, <2>3, <2>5 DEF AddKilled, HoldsLock, OwnTree, Holding
    <2>6. QED
      BY <2>4, <2>5
  <1>10. ASSUME NEW p \in Procs, AddEnds(p) PROVE (HoldsLock(q) /\ OwnTree(q))'
    <2>1. Set(p, Phase(p, "using"))
      BY <1>10 DEF AddEnds
    <2>2. run'[p].phase = "using" /\ run'[p].sha = run[p].sha
          /\ run'[p].shared = run[p].shared /\ run'[p].tree = run[p].tree
      BY <2>1, StepFields
    <2>3. q # p => run'[q] = run[q]
      BY <2>1, Others
    <2>4. CASE q = p
      BY <1>0, <1>10, <2>2, <2>4 DEF AddEnds, HoldsLock, OwnTree, Holding
    <2>5. CASE q # p
      BY <1>0, <1>10, <2>3, <2>5 DEF AddEnds, HoldsLock, OwnTree, Holding
    <2>6. QED
      BY <2>4, <2>5
  <1>11. ASSUME NEW p \in Procs, EndUse(p) PROVE (HoldsLock(q) /\ OwnTree(q))'
    <2>1. Set(p, [Phase(p, "ending") EXCEPT !.tree = None])
      BY <1>11 DEF EndUse
    <2>2. run'[p].phase = "ending" /\ run'[p].sha = run[p].sha
          /\ run'[p].shared = run[p].shared
      BY <2>1, StepFields
    <2>3. q # p => run'[q] = run[q]
      BY <2>1, Others
    <2>4. CASE q = p
      BY <1>0, <1>11, <2>2, <2>4 DEF EndUse, HoldsLock, OwnTree, Holding
    <2>5. CASE q # p
      BY <1>0, <1>11, <2>3, <2>5 DEF EndUse, HoldsLock, OwnTree, Holding
    <2>6. QED
      BY <2>4, <2>5
  <1>12. ASSUME NEW p \in Procs, Remove(p) PROVE (HoldsLock(q) /\ OwnTree(q))'
    <2>1. Set(p, Phase(p, "removed"))
      BY <1>12 DEF Remove
    <2>2. run'[p].phase = "removed" /\ run'[p].sha = run[p].sha
          /\ run'[p].shared = run[p].shared /\ run'[p].tree = run[p].tree
      BY <2>1, StepFields
    <2>3. q # p => run'[q] = run[q]
      BY <2>1, Others
    <2>4. CASE q = p
      BY <1>0, <1>12, <2>2, <2>4 DEF Remove, HoldsLock, OwnTree, Holding
    <2>5. CASE q # p
      BY <1>0, <1>12, <2>3, <2>5 DEF Remove, HoldsLock, OwnTree, Holding
    <2>6. QED
      BY <2>4, <2>5
  <1>13. ASSUME NEW p \in Procs, Release(p) PROVE (HoldsLock(q) /\ OwnTree(q))'
    <2>1. Set(p, Phase(p, "idle"))
      BY <1>13 DEF Release
    <2>2. run'[p].phase = "idle" /\ run'[p].sha = run[p].sha
          /\ run'[p].shared = run[p].shared /\ run'[p].tree = run[p].tree
      BY <2>1, StepFields
    <2>3. q # p => run'[q] = run[q]
      BY <2>1, Others
    <2>4. CASE q = p
      BY <1>0, <1>13, <2>2, <2>4 DEF Release, HoldsLock, OwnTree, Holding
    <2>5. CASE q # p
      BY <1>0, <1>13, <2>3, <2>5 DEF Release, HoldsLock, OwnTree, Holding
    <2>6. QED
      BY <2>4, <2>5
  <1>14. ASSUME NEW p \in Procs, Cancel(p) PROVE (HoldsLock(q) /\ OwnTree(q))'
    <2>1. Set(p, [run[p] EXCEPT !.cancelled = TRUE])
      BY <1>14 DEF Cancel
    <2>2. run'[p].phase = run[p].phase /\ run'[p].sha = run[p].sha
          /\ run'[p].shared = run[p].shared /\ run'[p].tree = run[p].tree
      BY <2>1, StepFields
    <2>3. q # p => run'[q] = run[q]
      BY <2>1, Others
    <2>4. CASE q = p
      BY <1>0, <1>14, <2>2, <2>4 DEF Cancel, HoldsLock, OwnTree, Holding
    <2>5. CASE q # p
      BY <1>0, <1>14, <2>3, <2>5 DEF Cancel, HoldsLock, OwnTree, Holding
    <2>6. QED
      BY <2>4, <2>5
  <1>15. ASSUME NEW p \in Procs, Crash(p) PROVE (HoldsLock(q) /\ OwnTree(q))'
    <2>1. Set(p, [Phase(p, "idle") EXCEPT !.tree = None])
      BY <1>15 DEF Crash
    <2>2. run'[p].phase = "idle" /\ run'[p].sha = run[p].sha
          /\ run'[p].shared = run[p].shared
      BY <2>1, StepFields
    <2>3. q # p => run'[q] = run[q]
      BY <2>1, Others
    <2>4. CASE q = p
      BY <1>0, <1>15, <2>2, <2>4 DEF Crash, HoldsLock, OwnTree, Holding
    <2>5. CASE q # p
      BY <1>0, <1>15, <2>3, <2>5 DEF Crash, HoldsLock, OwnTree, Holding
    <2>6. QED
      BY <2>4, <2>5
  <1>16. ASSUME NEW r \in Refs, NEW c \in Commits, MoveRef(r, c)
         PROVE  (HoldsLock(q) /\ OwnTree(q))'
    BY <1>0, <1>16 DEF MoveRef, HoldsLock, OwnTree
  <1>17. CASE UNCHANGED vars
    BY <1>0, <1>17 DEF vars, HoldsLock, OwnTree
  <1>18. QED
    BY <1>1, <1>2, <1>3, <1>4, <1>5, <1>6, <1>7, <1>8, <1>9, <1>10, <1>11, <1>12,
       <1>13, <1>14, <1>15, <1>16, <1>17
    DEF Next, Progress

\* The directory a run analyses is the tree it checked out, registered with
\* git, however the other runs fail, are cancelled or crash.
THEOREM LiveTreeKept == Spec => []LiveTreeIntact
  <1>1. LockInv => LiveTreeIntact
    BY DEF LockInv, OwnTree, LiveTreeIntact
  <1>2. QED
    BY <1>1, TypeInit, TypeInductive, LockInit, LockInductive, PTL DEF Spec

\* What a run finds once it has cleared the path it shares.
Cleared(p) ==
    run[p].phase = "ready" /\ run[p].shared /\ ~run[p].cancelled =>
        dir[run[p].sha] = Empty /\ reg[run[p].sha] \in {"none", "initializing"}

\* A directory another run has cleared is under that run's lock, so a step of p
\* leaves it alone unless p left the phases that hold one.
LEMMA ClearedByOther ==
  ASSUME LockInv, NEW p \in Procs, NEW q \in Procs, q # p, Cleared(q),
         run'[q] = run[q],
         run[p].phase \in Holding /\ run[p].shared =>
           \A c \in Commits : c # run[p].sha => dir'[c] = dir[c] /\ reg'[c] = reg[c],
         ~(run[p].phase \in Holding /\ run[p].shared) => dir' = dir /\ reg' = reg,
         run[q].sha \in Commits
  PROVE  Cleared(q)'
  <1>1. HoldsLock(p) /\ HoldsLock(q)
    BY DEF LockInv
  <1>2. ASSUME run[q].phase = "ready", run[q].shared
        PROVE  dir'[run[q].sha] = dir[run[q].sha] /\ reg'[run[q].sha] = reg[run[q].sha]
    <2>1. flock[run[q].sha] = q
      BY <1>1, <1>2 DEF HoldsLock, Holding
    <2>2. run[p].phase \in Holding /\ run[p].shared => run[p].sha # run[q].sha
      BY <1>1, <2>1 DEF HoldsLock
    <2>3. QED
      BY <2>2
  <1>3. QED
    BY <1>2 DEF Cleared

LEMMA ClearedInductive ==
  TypeOK /\ LockInv /\ OnlyKilledGitBlocks /\ [Next]_vars => OnlyKilledGitBlocks'
  <1> SUFFICES ASSUME TypeOK, LockInv, OnlyKilledGitBlocks, [Next]_vars, NEW q \in Procs
               PROVE  Cleared(q)'
    BY DEF OnlyKilledGitBlocks, Cleared
  <1>0. /\ Cleared(q)
        /\ \A p \in Procs : run[p].sha \in Commits /\ run[p].shared \in BOOLEAN
        /\ dir \in [Commits -> Commits \cup {Gone, Empty, Partial}]
        /\ reg \in [Commits -> {"none", "live", "initializing"}]
    BY DEF OnlyKilledGitBlocks, Cleared, TypeOK, RunType, Checkout
  <1>1. ASSUME NEW p \in Procs, NEW r \in Refs, Resolve(p, r) PROVE Cleared(q)'
    <2>1. q = p => run'[q].phase = "waiting"
      BY <1>1 DEF Resolve, Set, TypeOK
    <2>2. q # p => run'[q] = run[q]
      BY <1>1, Others DEF Resolve
    <2>3. QED
      BY <1>0, <1>1, <2>1, <2>2 DEF Resolve, Cleared
  <1>2. ASSUME NEW p \in Procs, Lock(p) PROVE Cleared(q)'
    <2>1. Set(p, Phase(p, "locked"))
      BY <1>2 DEF Lock
    <2>2. run'[p].phase = "locked"
      BY <2>1, StepFields
    <2>3. CASE q = p
      BY <2>2, <2>3 DEF Cleared
    <2>4. CASE q # p
      BY <1>0, <1>2, <2>1, <2>4, Others DEF Lock, Cleared
    <2>5. QED
      BY <2>3, <2>4
  <1>3. ASSUME NEW p \in Procs, GiveUp(p) PROVE Cleared(q)'
    <2>1. Set(p, Phase(p, "idle"))
      BY <1>3 DEF GiveUp
    <2>2. run'[p].phase = "idle"
      BY <2>1, StepFields
    <2>3. CASE q = p
      BY <2>2, <2>3 DEF Cleared
    <2>4. CASE q # p
      BY <1>0, <1>3, <2>1, <2>4, Others DEF GiveUp, Cleared
    <2>5. QED
      BY <2>3, <2>4
  <1>4. ASSUME NEW p \in Procs, NoLock(p) PROVE Cleared(q)'
    <2>1. Set(p, [Phase(p, "ready") EXCEPT !.shared = FALSE])
      BY <1>4 DEF NoLock
    <2>2. run'[p].shared = FALSE
      BY <2>1, StepFields
    <2>3. CASE q = p
      BY <2>2, <2>3 DEF Cleared
    <2>4. CASE q # p
      BY <1>0, <1>4, <2>1, <2>4, Others DEF NoLock, Cleared
    <2>5. QED
      BY <2>3, <2>4
  <1>5. ASSUME NEW p \in Procs, ClearLeftover(p) PROVE Cleared(q)'
    <2>0. run[p].shared
      BY <1>5 DEF LockInv, HoldsLock, ClearLeftover
    <2>1. Set(p, Phase(p, "ready"))
      BY <1>5 DEF ClearLeftover
    <2>2. run'[p].sha = run[p].sha /\ run'[p].cancelled = run[p].cancelled
      <3>1. run'[p] = Phase(p, "ready") /\ run[p] \in Checkout
        BY <2>1 DEF Set, TypeOK, RunType
      <3>2. QED
        BY <3>1 DEF Phase, Checkout
    <2>3. CASE q = p
      BY <1>0, <1>5, <2>2, <2>3 DEF ClearLeftover, Unregistered, Cleared
    <2>4. CASE q # p
      <3>1. run'[q] = run[q]
        BY <2>1, <2>4, Others
      <3>2. /\ run[p].phase \in Holding /\ run[p].shared =>
                 \A c \in Commits : c # run[p].sha => dir'[c] = dir[c] /\ reg'[c] = reg[c]
            /\ ~(run[p].phase \in Holding /\ run[p].shared) => dir' = dir /\ reg' = reg
        BY <1>0, <1>5, <2>0 DEF ClearLeftover, Holding
      <3>3. QED
        BY <1>0, <2>4, <3>1, <3>2, ClearedByOther
    <2>5. QED
      BY <2>3, <2>4
  <1>6. ASSUME NEW p \in Procs, ClearFails(p) PROVE Cleared(q)'
    <2>0. run[p].shared
      BY <1>6 DEF LockInv, HoldsLock, ClearFails
    <2>1. Set(p, [Phase(p, "ready") EXCEPT !.shared = FALSE])
      BY <1>6 DEF ClearFails
    <2>2. run'[p].shared = FALSE
      BY <2>1, StepFields
    <2>3. CASE q = p
      BY <2>2, <2>3 DEF Cleared
    <2>4. CASE q # p
      <3>1. run'[q] = run[q]
        BY <2>1, <2>4, Others
      <3>2. /\ run[p].phase \in Holding /\ run[p].shared =>
                 \A c \in Commits : c # run[p].sha => dir'[c] = dir[c] /\ reg'[c] = reg[c]
            /\ ~(run[p].phase \in Holding /\ run[p].shared) => dir' = dir /\ reg' = reg
        BY <1>0, <1>6, <2>0 DEF ClearFails, Holding
      <3>3. QED
        BY <1>0, <2>4, <3>1, <3>2, ClearedByOther
    <2>5. QED
      BY <2>3, <2>4
  <1>7. ASSUME NEW p \in Procs, AddBegins(p) PROVE Cleared(q)'
    <2>1. Set(p, [Phase(p, "adding") EXCEPT !.tree = ref[run[p].ref]])
      BY <1>7 DEF AddBegins
    <2>2. run'[p].phase = "adding"
      BY <2>1, StepFields
    <2>3. CASE q = p
      BY <2>2, <2>3 DEF Cleared
    <2>4. CASE q # p
      <3>1. run'[q] = run[q]
        BY <2>1, <2>4, Others
      <3>2. /\ run[p].phase \in Holding /\ run[p].shared =>
                 \A c \in Commits : c # run[p].sha => dir'[c] = dir[c] /\ reg'[c] = reg[c]
            /\ ~(run[p].phase \in Holding /\ run[p].shared) => dir' = dir /\ reg' = reg
        BY <1>0, <1>7 DEF AddBegins, Holding
      <3>3. QED
        BY <1>0, <2>4, <3>1, <3>2, ClearedByOther
    <2>5. QED
      BY <2>3, <2>4
  <1>8. ASSUME NEW p \in Procs, AddFails(p) PROVE Cleared(q)'
    <2>1. Set(p, [Phase(p, "ending") EXCEPT !.tree = None])
      BY <1>8 DEF AddFails
    <2>2. run'[p].phase = "ending"
      BY <2>1, StepFields
    <2>3. CASE q = p
      BY <2>2, <2>3 DEF Cleared
    <2>4. CASE q # p
      <3>1. run'[q] = run[q]
        BY <2>1, <2>4, Others
      <3>2. /\ run[p].phase \in Holding /\ run[p].shared =>
                 \A c \in Commits : c # run[p].sha => dir'[c] = dir[c] /\ reg'[c] = reg[c]
            /\ ~(run[p].phase \in Holding /\ run[p].shared) => dir' = dir /\ reg' = reg
        BY <1>0, <1>8 DEF AddFails, Holding
      <3>3. QED
        BY <1>0, <2>4, <3>1, <3>2, ClearedByOther
    <2>5. QED
      BY <2>3, <2>4
  <1>9. ASSUME NEW p \in Procs, AddKilled(p) PROVE Cleared(q)'
    <2>1. Set(p, [Phase(p, "ending") EXCEPT !.tree = None])
      BY <1>9 DEF AddKilled
    <2>2. run'[p].phase = "ending"
      BY <2>1, StepFields
    <2>3. CASE q = p
      BY <2>2, <2>3 DEF Cleared
    <2>4. CASE q # p
      BY <1>0, <1>9, <2>1, <2>4, Others DEF AddKilled, Cleared
    <2>5. QED
      BY <2>3, <2>4
  <1>10. ASSUME NEW p \in Procs, AddEnds(p) PROVE Cleared(q)'
    <2>1. Set(p, Phase(p, "using"))
      BY <1>10 DEF AddEnds
    <2>2. run'[p].phase = "using"
      BY <2>1, StepFields
    <2>3. CASE q = p
      BY <2>2, <2>3 DEF Cleared
    <2>4. CASE q # p
      <3>1. run'[q] = run[q]
        BY <2>1, <2>4, Others
      <3>2. /\ run[p].phase \in Holding /\ run[p].shared =>
                 \A c \in Commits : c # run[p].sha => dir'[c] = dir[c] /\ reg'[c] = reg[c]
            /\ ~(run[p].phase \in Holding /\ run[p].shared) => dir' = dir /\ reg' = reg
        BY <1>0, <1>10 DEF AddEnds, Holding
      <3>3. QED
        BY <1>0, <2>4, <3>1, <3>2, ClearedByOther
    <2>5. QED
      BY <2>3, <2>4
  <1>11. ASSUME NEW p \in Procs, EndUse(p) PROVE Cleared(q)'
    <2>1. Set(p, [Phase(p, "ending") EXCEPT !.tree = None])
      BY <1>11 DEF EndUse
    <2>2. run'[p].phase = "ending"
      BY <2>1, StepFields
    <2>3. CASE q = p
      BY <2>2, <2>3 DEF Cleared
    <2>4. CASE q # p
      BY <1>0, <1>11, <2>1, <2>4, Others DEF EndUse, Cleared
    <2>5. QED
      BY <2>3, <2>4
  <1>12. ASSUME NEW p \in Procs, Remove(p) PROVE Cleared(q)'
    <2>1. Set(p, Phase(p, "removed"))
      BY <1>12 DEF Remove
    <2>2. run'[p].phase = "removed"
      BY <2>1, StepFields
    <2>3. CASE q = p
      BY <2>2, <2>3 DEF Cleared
    <2>4. CASE q # p
      <3>1. run'[q] = run[q]
        BY <2>1, <2>4, Others
      <3>2. /\ run[p].phase \in Holding /\ run[p].shared =>
                 \A c \in Commits : c # run[p].sha => dir'[c] = dir[c] /\ reg'[c] = reg[c]
            /\ ~(run[p].phase \in Holding /\ run[p].shared) => dir' = dir /\ reg' = reg
        BY <1>0, <1>12 DEF Remove, Holding
      <3>3. QED
        BY <1>0, <2>4, <3>1, <3>2, ClearedByOther
    <2>5. QED
      BY <2>3, <2>4
  <1>13. ASSUME NEW p \in Procs, Release(p) PROVE Cleared(q)'
    <2>1. Set(p, Phase(p, "idle"))
      BY <1>13 DEF Release
    <2>2. run'[p].phase = "idle"
      BY <2>1, StepFields
    <2>3. CASE q = p
      BY <2>2, <2>3 DEF Cleared
    <2>4. CASE q # p
      BY <1>0, <1>13, <2>1, <2>4, Others DEF Release, Cleared
    <2>5. QED
      BY <2>3, <2>4
  <1>14. ASSUME NEW p \in Procs, Cancel(p) PROVE Cleared(q)'
    <2>1. Set(p, [run[p] EXCEPT !.cancelled = TRUE])
      BY <1>14 DEF Cancel
    <2>2. run'[p].cancelled = TRUE
      BY <2>1 DEF Set, TypeOK, RunType, Checkout
    <2>3. CASE q = p
      BY <2>2, <2>3 DEF Cleared
    <2>4. CASE q # p
      BY <1>0, <1>14, <2>1, <2>4, Others DEF Cancel, Cleared
    <2>5. QED
      BY <2>3, <2>4
  <1>15. ASSUME NEW p \in Procs, Crash(p) PROVE Cleared(q)'
    <2>1. Set(p, [Phase(p, "idle") EXCEPT !.tree = None])
      BY <1>15 DEF Crash
    <2>2. run'[p].phase = "idle"
      BY <2>1, StepFields
    <2>3. CASE q = p
      BY <2>2, <2>3 DEF Cleared
    <2>4. CASE q # p
      BY <1>0, <1>15, <2>1, <2>4, Others DEF Crash, Cleared
    <2>5. QED
      BY <2>3, <2>4
  <1>16. ASSUME NEW r \in Refs, NEW c \in Commits, MoveRef(r, c) PROVE Cleared(q)'
    BY <1>0, <1>16 DEF MoveRef, Cleared
  <1>17. CASE UNCHANGED vars
    BY <1>0, <1>17 DEF vars, Cleared
  <1>18. QED
    BY <1>1, <1>2, <1>3, <1>4, <1>5, <1>6, <1>7, <1>8, <1>9, <1>10, <1>11, <1>12,
       <1>13, <1>14, <1>15, <1>16, <1>17
    DEF Next, Progress

\* A run that cleared its path finds it empty and unregistered, but for a
\* registration a killed git left locked: no other run puts anything there.
THEOREM LeftoversAreCleared == Spec => []OnlyKilledGitBlocks
  <1>1. Init => OnlyKilledGitBlocks
    <2> SUFFICES ASSUME Init, NEW p \in Procs PROVE run[p].phase # "ready"
      BY DEF OnlyKilledGitBlocks
    <2>1. run[p] \in [phase: {"idle"}, ref: Refs, sha: Commits, shared: {FALSE},
                      cancelled: {FALSE}, tree: {None}, runs: {0}]
      BY DEF Init
    <2>2. QED
      BY <2>1
  <1>2. QED
    BY <1>1, TypeInit, TypeInductive, LockInit, LockInductive, ClearedInductive, PTL DEF Spec

\* The tree that a run is analysing, as BaseTrees sees it.
Held == [p \in Procs |->
            IF run[p].phase # "using" THEN None
            ELSE IF run[p].shared THEN dir[run[p].sha] ELSE run[p].tree]

\* The directory of a run in use holds its own tree, so what BaseTrees sees of
\* it only depends on the run.
LEMMA HeldIsOwn ==
  ASSUME LockInv
  PROVE  Held = [p \in Procs |-> IF run[p].phase # "using" THEN None ELSE run[p].tree]
  BY DEF LockInv, OwnTree, Held

LEMMA HeldInit == Init => Base!Init
  <1> SUFFICES ASSUME Init PROVE Base!Init
    OBVIOUS
  <1>1. \A p \in Procs : run[p].phase = "idle"
    BY DEF Init
  <1>2. QED
    BY <1>1 DEF Base!Init

\* A step of p that neither begins nor ends p's use of a tree.
LEMMA NoUse ==
  ASSUME TypeOK, LockInv, LockInv', NEW p \in Procs, NEW r, Set(p, r),
         run[p].phase = "using" <=> run'[p].phase = "using",
         run[p].phase = "using" => run'[p].tree = run[p].tree
  PROVE  Held' = Held
  <1>1. \A q \in Procs : q # p => run'[q] = run[q]
    BY Others
  <1>2. Held = [q \in Procs |-> IF run[q].phase # "using" THEN None ELSE run[q].tree]
    BY HeldIsOwn
  <1>3. Held' = [q \in Procs |-> IF run'[q].phase # "using" THEN None ELSE run'[q].tree]
    BY DEF LockInv, OwnTree, Held
  <1>4. \A q \in Procs : (run'[q].phase = "using" <=> run[q].phase = "using")
                         /\ (run[q].phase = "using" => run'[q].tree = run[q].tree)
    BY <1>1
  <1>5. QED
    BY <1>2, <1>3, <1>4

\* The end of p's use of a tree, if it had one, is BaseTrees' Drop.
LEMMA UseEnds ==
  ASSUME TypeOK, LockInv, LockInv', NEW p \in Procs, NEW r, Set(p, r),
         run[p].phase = "using", run'[p].phase # "using"
  PROVE  Base!Drop(p)
  <1>1. \A q \in Procs : q # p => run'[q] = run[q]
    BY Others
  <1>2. Held = [q \in Procs |-> IF run[q].phase # "using" THEN None ELSE run[q].tree]
    BY HeldIsOwn
  <1>3. Held' = [q \in Procs |-> IF run'[q].phase # "using" THEN None ELSE run'[q].tree]
    BY DEF LockInv, OwnTree, Held
  <1>4. run[p].tree \in Commits
    BY DEF TypeOK, RunType
  <1>5. Held[p] # None
    BY <1>2, <1>4, WorktreeAssumption
  <1>6. Held' = [Held EXCEPT ![p] = None]
    BY <1>1, <1>2, <1>3
  <1>7. QED
    BY <1>5, <1>6 DEF Base!Drop, Held

\* The beginning of p's use of a tree is BaseTrees' Take of that tree.
LEMMA UseBegins ==
  ASSUME TypeOK, LockInv, LockInv', NEW p \in Procs, NEW r, Set(p, r),
         run[p].phase # "using", run'[p].phase = "using", run'[p].tree \in Commits
  PROVE  Base!Take(p)
  <1>1. \A q \in Procs : q # p => run'[q] = run[q]
    BY Others
  <1>2. Held = [q \in Procs |-> IF run[q].phase # "using" THEN None ELSE run[q].tree]
    BY HeldIsOwn
  <1>3. Held' = [q \in Procs |-> IF run'[q].phase # "using" THEN None ELSE run'[q].tree]
    BY DEF LockInv, OwnTree, Held
  <1>4. Held[p] = None
    BY <1>2
  <1>5. Held' = [Held EXCEPT ![p] = run'[p].tree]
    BY <1>1, <1>2, <1>3
  <1>6. QED
    BY <1>4, <1>5 DEF Base!Take, Held

LEMMA StepRefines == TypeOK /\ LockInv /\ LockInv' /\ [Next]_vars => [Base!Next]_Held
  <1> SUFFICES ASSUME TypeOK, LockInv, LockInv', [Next]_vars
               PROVE  (\E p \in Procs : Base!Take(p) \/ Base!Drop(p)) \/ Held' = Held
    BY DEF Base!Next
  <1>1. ASSUME NEW p \in Procs, NEW r \in Refs, Resolve(p, r) PROVE Held' = Held
    <2>1. run[p].phase = "idle" /\ run'[p].phase = "waiting"
      BY <1>1 DEF Resolve, Set, TypeOK
    <2>2. QED
      BY <1>1, <2>1, NoUse DEF Resolve
  <1>2. ASSUME NEW p \in Procs, Lock(p) PROVE Held' = Held
    <2>1. Set(p, Phase(p, "locked")) /\ run[p].phase # "using"
      BY <1>2 DEF Lock
    <2>2. run'[p].phase = "locked"
      BY <2>1, StepFields
    <2>3. QED
      BY <2>1, <2>2, NoUse
  <1>3. ASSUME NEW p \in Procs, GiveUp(p) PROVE Held' = Held
    <2>1. Set(p, Phase(p, "idle")) /\ run[p].phase # "using"
      BY <1>3 DEF GiveUp
    <2>2. run'[p].phase = "idle"
      BY <2>1, StepFields
    <2>3. QED
      BY <2>1, <2>2, NoUse
  <1>4. ASSUME NEW p \in Procs, NoLock(p) PROVE Held' = Held
    <2>1. Set(p, [Phase(p, "ready") EXCEPT !.shared = FALSE]) /\ run[p].phase # "using"
      BY <1>4 DEF NoLock
    <2>2. run'[p].phase = "ready"
      BY <2>1, StepFields
    <2>3. QED
      BY <2>1, <2>2, NoUse
  <1>5. ASSUME NEW p \in Procs, ClearLeftover(p) PROVE Held' = Held
    <2>1. Set(p, Phase(p, "ready")) /\ run[p].phase # "using"
      BY <1>5 DEF ClearLeftover
    <2>2. run'[p].phase = "ready"
      BY <2>1, StepFields
    <2>3. QED
      BY <2>1, <2>2, NoUse
  <1>6. ASSUME NEW p \in Procs, ClearFails(p) PROVE Held' = Held
    <2>1. Set(p, [Phase(p, "ready") EXCEPT !.shared = FALSE]) /\ run[p].phase # "using"
      BY <1>6 DEF ClearFails
    <2>2. run'[p].phase = "ready"
      BY <2>1, StepFields
    <2>3. QED
      BY <2>1, <2>2, NoUse
  <1>7. ASSUME NEW p \in Procs, AddBegins(p) PROVE Held' = Held
    <2>1. Set(p, [Phase(p, "adding") EXCEPT !.tree = ref[run[p].ref]]) /\ run[p].phase # "using"
      BY <1>7 DEF AddBegins
    <2>2. run'[p].phase = "adding"
      BY <2>1, StepFields
    <2>3. QED
      BY <2>1, <2>2, NoUse
  <1>8. ASSUME NEW p \in Procs, AddFails(p) PROVE Held' = Held
    <2>1. Set(p, [Phase(p, "ending") EXCEPT !.tree = None]) /\ run[p].phase # "using"
      BY <1>8 DEF AddFails
    <2>2. run'[p].phase = "ending"
      BY <2>1, StepFields
    <2>3. QED
      BY <2>1, <2>2, NoUse
  <1>9. ASSUME NEW p \in Procs, AddKilled(p) PROVE Held' = Held
    <2>1. Set(p, [Phase(p, "ending") EXCEPT !.tree = None]) /\ run[p].phase # "using"
      BY <1>9 DEF AddKilled
    <2>2. run'[p].phase = "ending"
      BY <2>1, StepFields
    <2>3. QED
      BY <2>1, <2>2, NoUse
  <1>10. ASSUME NEW p \in Procs, AddEnds(p) PROVE Base!Take(p)
    <2>1. Set(p, Phase(p, "using")) /\ run[p].phase = "adding"
      BY <1>10 DEF AddEnds
    <2>2. run'[p].phase = "using" /\ run'[p].tree = run[p].tree
      BY <2>1, StepFields
    <2>3. run[p].tree \in Commits
      BY <2>1 DEF TypeOK, RunType
    <2>4. QED
      BY <2>1, <2>2, <2>3, UseBegins
  <1>11. ASSUME NEW p \in Procs, EndUse(p) PROVE Base!Drop(p)
    <2>1. Set(p, [Phase(p, "ending") EXCEPT !.tree = None]) /\ run[p].phase = "using"
      BY <1>11 DEF EndUse
    <2>2. run'[p].phase = "ending"
      BY <2>1, StepFields
    <2>3. QED
      BY <2>1, <2>2, UseEnds
  <1>12. ASSUME NEW p \in Procs, Remove(p) PROVE Held' = Held
    <2>1. Set(p, Phase(p, "removed")) /\ run[p].phase # "using"
      BY <1>12 DEF Remove
    <2>2. run'[p].phase = "removed"
      BY <2>1, StepFields
    <2>3. QED
      BY <2>1, <2>2, NoUse
  <1>13. ASSUME NEW p \in Procs, Release(p) PROVE Held' = Held
    <2>1. Set(p, Phase(p, "idle")) /\ run[p].phase # "using"
      BY <1>13 DEF Release
    <2>2. run'[p].phase = "idle"
      BY <2>1, StepFields
    <2>3. QED
      BY <2>1, <2>2, NoUse
  <1>14. ASSUME NEW p \in Procs, Cancel(p) PROVE Held' = Held
    <2>1. Set(p, [run[p] EXCEPT !.cancelled = TRUE])
      BY <1>14 DEF Cancel
    <2>2. run'[p].phase = run[p].phase /\ run'[p].tree = run[p].tree
      BY <2>1, StepFields
    <2>3. QED
      BY <2>1, <2>2, NoUse
  <1>15. ASSUME NEW p \in Procs, Crash(p) PROVE Base!Drop(p) \/ Held' = Held
    <2>1. Set(p, [Phase(p, "idle") EXCEPT !.tree = None])
      BY <1>15 DEF Crash
    <2>2. run'[p].phase = "idle"
      BY <2>1, StepFields
    <2>3. CASE run[p].phase = "using"
      BY <2>1, <2>2, <2>3, UseEnds
    <2>4. CASE run[p].phase # "using"
      BY <2>1, <2>2, <2>4, NoUse
    <2>5. QED
      BY <2>3, <2>4
  <1>16. ASSUME NEW r \in Refs, NEW c \in Commits, MoveRef(r, c) PROVE Held' = Held
    BY <1>16 DEF MoveRef, Held
  <1>17. CASE UNCHANGED vars
    BY <1>17 DEF vars, Held
  <1>18. QED
    BY <1>1, <1>2, <1>3, <1>4, <1>5, <1>6, <1>7, <1>8, <1>9, <1>10, <1>11, <1>12,
       <1>13, <1>14, <1>15, <1>16, <1>17
    DEF Next, Progress

\* The checkouts of any number of overlapping runs implement BaseTrees: a tree
\* that a run took stays under it until the run drops it.
THEOREM CheckoutsImplementBaseTrees == Spec => ImplementsBaseTrees
  <1>1. Spec => []TypeOK
    BY TypeInit, TypeInductive, PTL DEF Spec
  <1>2. Spec => []LockInv
    BY <1>1, LockInit, LockInductive, PTL DEF Spec
  <1>3. QED
    BY <1>1, <1>2, HeldInit, StepRefines, PTL
    DEF Spec, ImplementsBaseTrees, Base!Spec, Held
=============================================================================
