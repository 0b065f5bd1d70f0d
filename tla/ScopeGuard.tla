----------------------------- MODULE ScopeGuard ------------------------------
(***************************************************************************)
(* The target branch of a check, the commit it compares with, and the policy *)
(* guard.  A branch edits the config and the baseline it is judged under, so *)
(* a check compares them with the tip of the branch the change lands on: a    *)
(* branch cannot grade itself under rules it wrote.                           *)
(*                                                                         *)
(* A clone holds commits, local and remote-tracking branches and origin/HEAD. *)
(* Commits, fetches, merges and edits happen between the steps of a check.    *)
(***************************************************************************)
EXTENDS Integers, FiniteSets, Sequences

CONSTANTS
    BranchNames,  \* "main" and "master" among them
    ConfigTexts,  \* what a config may say, and
    Declares,     \* the target_branch each text declares, or ""
    BundleFiles,  \* the files beside the config: the baseline and the approved labels
    BundleTexts,
    Clones,       \* repositories to start from
    Asked, Bases, \* what --target and --base may be, "" for none
    MaxEvents,    \* bound: what happens to the clone
    Missing,      \* no such file, or no such commit
    NoCheck

PolicyPaths == {"config"} \cup BundleFiles
Unnamed == "" \* no branch, and no reason
PolicyTrees == {t \in [PolicyPaths -> {Missing} \cup ConfigTexts \cup BundleTexts] :
                  /\ t["config"] \in {Missing} \cup ConfigTexts
                  /\ \A p \in BundleFiles : t[p] \in {Missing} \cup BundleTexts}

\* Commits in the order they were made, and branches that point to some of them or to none.
Commits == [parents : SUBSET Nat, tree : PolicyTrees, wrote : SUBSET PolicyPaths]
BranchTips == [BranchNames -> {Missing} \cup Nat]
IsClone(c) ==
    /\ c \in [commits : Seq(Commits), local : BranchTips, remote : BranchTips,
              originHead : BranchNames \cup {Unnamed}, on : BranchNames, tracked : BOOLEAN]
    /\ \A k \in DOMAIN c.commits : c.commits[k].parents \subseteq 1..(k - 1)
    /\ \A name \in BranchNames : {c.local[name], c.remote[name]} \subseteq {Missing} \cup DOMAIN c.commits

ASSUME GuardAssumption ==
    /\ {"main", "master"} \subseteq BranchNames /\ Unnamed \notin BranchNames
    /\ Declares \in [ConfigTexts -> BranchNames \cup {Unnamed}]
    /\ Asked \subseteq BranchNames \cup {Unnamed} /\ Bases \subseteq BranchNames \cup {"auto", "HEAD"}
    /\ "config" \notin BundleFiles /\ Missing \notin ConfigTexts \cup BundleTexts \cup Nat /\ MaxEvents \in Nat
    /\ \A c \in Clones : IsClone(c)

VARIABLES
    clone,   \* [commits, local, remote, originHead, on, tracked]
    ondisk,  \* the policy files of the working tree
    check,   \* the check that runs, or ended
    events

guardVars == <<clone, ondisk, check, events>>

HeadOf(c) == c.local[c.on]

GuardInit ==
    /\ clone \in Clones
    /\ ondisk = IF HeadOf(clone) = Missing THEN [p \in PolicyPaths |-> Missing]
                ELSE clone.commits[HeadOf(clone)].tree
    /\ check = NoCheck /\ events = 0

-----------------------------------------------------------------------------
(* Git *)

Ancestors(c) ==
    LET up[k \in DOMAIN c.commits] == {k} \cup UNION {up[p] : p \in c.commits[k].parents} IN up
Common(c, a, b) == Ancestors(c)[a] \cap Ancestors(c)[b]

\* The best common ancestors; git names one of them.
Best(c, shared) == {k \in shared : \A j \in shared \ {k} : k \notin Ancestors(c)[j]}
MergeBases(c, a, b) == Best(c, Common(c, a, b))
IsAncestor(c, a, b) == a \in Ancestors(c)[b]
FileAt(c, k, path) == c.commits[k].tree[path]
TargetBranchAt(c, k) == IF FileAt(c, k, "config") = Missing THEN Unnamed ELSE Declares[FileAt(c, k, "config")]

-----------------------------------------------------------------------------
(* The target *)

NoTarget == [ref |-> <<"none">>, sha |-> Missing]

\* The remote's copy of a branch goes before the local one.
lookupBranch(c, name) ==
    CASE c.remote[name] # Missing -> [ref |-> <<"origin", name>>, sha |-> c.remote[name]]
      [] c.remote[name] = Missing /\ c.local[name] # Missing -> [ref |-> <<"local", name>>, sha |-> c.local[name]]
      [] OTHER -> NoTarget

\* Of none, the repository has no default; two are ambiguous.
trustedDefault(c) ==
    IF c.originHead # Unnamed /\ c.remote[c.originHead] # Missing
    THEN {[ref |-> <<"origin", c.originHead>>, sha |-> c.remote[c.originHead]]}
    ELSE {lookupBranch(c, name) : name \in {"main", "master"}} \ {NoTarget}

DeclaredAt(c, defaults) == {IF c.tracked THEN TargetBranchAt(c, d.sha) ELSE Unnamed : d \in defaults}
TheOne(S) == CHOOSE x \in S : TRUE
declaredByAll(c, defaults) ==
    LET declared == DeclaredAt(c, defaults)
    IN  IF Unnamed \in declared \/ Cardinality(declared) > 1 THEN NoTarget
        ELSE lookupBranch(c, TheOne(declared))

\* asked is --target, declared the target_branch of the config on disk.
resolveTargetOnDisk(c, asked, declared) ==
    IF asked # Unnamed THEN lookupBranch(c, asked)
    ELSE IF declared # Unnamed THEN lookupBranch(c, declared)
    ELSE IF Cardinality(trustedDefault(c)) = 1 THEN TheOne(trustedDefault(c))
    ELSE NoTarget
resolveTarget(c, asked, declared) ==
    LET defaults == trustedDefault(c)
        default == TheOne(defaults)
        theirs == IF c.tracked THEN TargetBranchAt(c, default.sha) ELSE Unnamed
    IN  IF asked # Unnamed THEN lookupBranch(c, asked)
        ELSE IF (~c.tracked \/ defaults = {}) /\ declared # Unnamed THEN lookupBranch(c, declared)
        ELSE IF defaults = {} THEN NoTarget
        ELSE IF Cardinality(defaults) > 1 THEN declaredByAll(c, defaults)
        ELSE IF theirs # Unnamed THEN lookupBranch(c, theirs)
        ELSE default

-----------------------------------------------------------------------------
(* The scope and the guard *)

\* Where the branch left the target: HEAD when it is on it, or shares nothing with it.
\* Of several, when each has merged the other, git names one.
forkPoints(c, sha) ==
    IF IsAncestor(c, HeadOf(c), sha) \/ MergeBases(c, HeadOf(c), sha) = {} THEN {HeadOf(c)}
    ELSE MergeBases(c, HeadOf(c), sha)

\* What the branch edited, and what the target moved since.
Protects(c, sha) == c.tracked /\ FileAt(c, sha, "config") # Missing
PolicyChanged(c, sha, fork, policy) ==
    {p \in PolicyPaths : Protects(c, sha) /\ policy[p] # FileAt(c, sha, p) /\ policy[p] # FileAt(c, fork, p)}
PolicyStale(c, sha, fork, policy) ==
    {p \in PolicyPaths : Protects(c, sha) /\ policy[p] # FileAt(c, sha, p) /\ policy[p] = FileAt(c, fork, p)}

NoScope == [mode |-> "none", target |-> NoTarget, base |-> Missing, unresolved |-> FALSE, changed |-> {}, stale |-> {}]
withPolicyGuard(c, mode, target, base, fork, policy) ==
    [mode |-> mode, target |-> target, base |-> base, unresolved |-> FALSE,
     changed |-> PolicyChanged(c, target.sha, fork, policy), stale |-> PolicyStale(c, target.sha, fork, policy)]

\* The scopes a request may resolve to.  A base is a branch, HEAD, or "auto".
BaseSHA(c, base) == IF base = "HEAD" THEN HeadOf(c) ELSE c.local[base]
ResolveScope(c, asked, declared, base, policy) ==
    LET target == resolveTarget(c, asked, declared)
        lost == [NoScope EXCEPT !.target = target, !.unresolved = TRUE]
        named == [ref |-> <<"local", base>>, sha |-> BaseSHA(c, base)]
        against == IF target = NoTarget THEN named ELSE target
        head == HeadOf(c)
    IN  IF head = Missing THEN {NoScope}
        ELSE IF base # "auto" THEN
             IF BaseSHA(c, base) = Missing THEN {lost}
             ELSE {withPolicyGuard(c, "explicit", against, named.sha, f, policy) : f \in forkPoints(c, against.sha)}
        ELSE IF target = NoTarget THEN {lost}
        ELSE IF IsAncestor(c, head, target.sha) THEN {withPolicyGuard(c, "target_branch", target, Missing, head, policy)}
        ELSE IF MergeBases(c, head, target.sha) = {} THEN {lost}
        ELSE {withPolicyGuard(c, "merge_base", target, f, f, policy) : f \in MergeBases(c, head, target.sha)}

-----------------------------------------------------------------------------
(* A check *)

Reached(pc) == check # NoCheck /\ check.pc = pc
Proceed(more) == check' = more /\ UNCHANGED <<clone, ondisk, events>>
DeclaredIn(text) == IF text = Missing THEN Unnamed ELSE Declares[text]

\* A check needs a config.  A session that began before the first commit has no scope.
LoadConfig(kind, asked, base) ==
    /\ check = NoCheck /\ ondisk["config"] # Missing
    /\ Proceed([pc |-> IF kind = "unborn" THEN "resolved" ELSE "loaded", kind |-> kind, asked |-> asked, base |-> base,
                declared |-> DeclaredIn(ondisk["config"]), policy |-> ondisk, scope |-> NoScope,
                config |-> Missing, under |-> ondisk, view |-> Missing, outcome |-> "none", reason |-> Unnamed, late |-> {}])
ReadPolicy ==
    /\ Reached("loaded")
    /\ Proceed([check EXCEPT !.pc = "read", !.policy = ondisk, !.late = {}])
Resolve ==
    /\ Reached("read")
    /\ \E s \in ResolveScope(clone, check.asked, check.declared, check.base, check.policy) :
         Proceed([check EXCEPT !.pc = "resolved", !.scope = s])

\* The scan reads the config, and later the other files, for itself.
executeScan ==
    /\ Reached("resolved") /\ ondisk["config"] # Missing
    /\ Proceed([check EXCEPT !.pc = "scanning", !.config = ondisk["config"]])
assess ==
    /\ Reached("scanning")
    /\ \E o \in {"pass", "warn", "fail"} :
         Proceed([check EXCEPT !.pc = "judged", !.outcome = o,
                    !.under = [p \in PolicyPaths |-> IF p = "config" THEN check.config ELSE ondisk[p]]])

\* The files of the target's tip, for a second scan of the same tree.
materializePolicyAtTarget(sha) ==
    IF Protects(clone, sha) THEN [p \in PolicyPaths |-> FileAt(clone, sha, p)] ELSE Missing
measureUnderTargetPolicy(s) ==
    IF s.changed \cup s.stale = {} THEN Missing ELSE materializePolicyAtTarget(s.target.sha)
applyScope ==
    /\ Reached("judged")
    /\ LET s == check.scope
       IN  Proceed([check EXCEPT !.pc = "ended", !.view = measureUnderTargetPolicy(s),
                      !.reason = IF s.changed # {} THEN "changed" ELSE IF s.stale # {} THEN "stale"
                                 ELSE IF s.unresolved THEN "unresolved" ELSE Unnamed])

\* Git that cannot run, a config that is gone, a scan or a second scan that fails.
CheckFails ==
    /\ check # NoCheck /\ check.pc # "ended"
    /\ Proceed([check EXCEPT !.pc = "ended", !.outcome = "error"])
ExitCode(c) ==
    CASE c.outcome = "error" -> 3
      [] c.outcome = "fail" -> 1
      [] c.outcome = "warn" -> 2
      [] c.outcome = "pass" -> IF c.reason = Unnamed THEN 0 ELSE 2

-----------------------------------------------------------------------------
(* What happens to the clone *)

Event == events < MaxEvents /\ events' = events + 1
Grow(c, parents, tree, wrote) == Append(c.commits, [parents |-> parents, tree |-> tree, wrote |-> wrote])

EditPolicy(p, text) ==
    /\ Event /\ text # ondisk[p]
    /\ ondisk' = [ondisk EXCEPT ![p] = text] /\ ondisk' \in PolicyTrees
    /\ check' = IF check = NoCheck THEN check ELSE [check EXCEPT !.late = @ \cup {p}]
    /\ UNCHANGED clone

CommitPolicy ==
    /\ Event
    /\ LET head == HeadOf(clone)
           wrote == {p \in PolicyPaths : head = Missing \/ ondisk[p] # FileAt(clone, head, p)}
           parents == IF head = Missing THEN {} ELSE {head}
       IN  clone' = [clone EXCEPT !.commits = Grow(clone, parents, ondisk, wrote),
                                  !.local[clone.on] = Len(clone.commits) + 1]
    /\ UNCHANGED <<ondisk, check>>

\* Someone else's commit arrives on a branch of the remote.
Fetch(name, p, text) ==
    /\ Event /\ clone.remote[name] # Missing /\ FileAt(clone, clone.remote[name], p) # text
    /\ LET tip == clone.remote[name]
           tree == [clone.commits[tip].tree EXCEPT ![p] = text]
       IN  /\ tree \in PolicyTrees
           /\ clone' = [clone EXCEPT !.commits = Grow(clone, {tip}, tree, {p}),
                                     !.remote[name] = Len(clone.commits) + 1]
    /\ UNCHANGED <<ondisk, check>>
PushBranch ==
    /\ Event /\ HeadOf(clone) \notin {Missing, clone.remote[clone.on]}
    /\ clone' = [clone EXCEPT !.remote[clone.on] = HeadOf(clone)]
    /\ UNCHANGED <<ondisk, check>>

\* What a merge holds both sides against: the text at the fork, of several forks what
\* merging them gives, and nothing where they conflict.
ForkTexts(c, forks, p) ==
    LET texts == {FileAt(c, k, p) : k \in forks}
        older == {FileAt(c, k, p) : k \in Best(c, {j \in DOMAIN c.commits : \A k \in forks : IsAncestor(c, j, k)})}
    IN  IF Cardinality(texts) = 1 THEN texts
        ELSE IF Cardinality(texts \ older) = 1 THEN texts \ older ELSE {}

\* A file both sides changed since the fork is a conflict: a person settles it, and
\* the merge is said to have written the file.
Settled(p, ours, theirs, fork) ==
    IF ours[p] \in fork \/ ours[p] = theirs[p] THEN {theirs[p]}
    ELSE IF theirs[p] \in fork THEN {ours[p]} ELSE {ours[p], theirs[p]}
MergeIn(sha) ==
    /\ Event /\ check = NoCheck
    /\ LET head == HeadOf(clone)
           ours == clone.commits[head].tree
           theirs == clone.commits[sha].tree
           forks == MergeBases(clone, head, sha)
           settled == [p \in PolicyPaths |-> Settled(p, ours, theirs, ForkTexts(clone, forks, p))]
       IN  /\ head # Missing /\ ondisk = ours /\ ~IsAncestor(clone, sha, head) /\ forks # {}
           /\ IF IsAncestor(clone, head, sha)
              THEN clone' = [clone EXCEPT !.local[clone.on] = sha] /\ ondisk' = theirs
              ELSE \E tree \in PolicyTrees :
                     /\ \A p \in PolicyPaths : tree[p] \in settled[p]
                     /\ clone' = [clone EXCEPT !.commits = Grow(clone, {head, sha}, tree,
                                                                {p \in PolicyPaths : Cardinality(settled[p]) > 1}),
                                               !.local[clone.on] = Len(clone.commits) + 1]
                     /\ ondisk' = tree
    /\ UNCHANGED check
Merge == \E name \in BranchNames : clone.remote[name] # Missing /\ MergeIn(clone.remote[name])

GuardNext ==
    \/ \E asked \in Asked, base \in Bases : LoadConfig("check", asked, base)
    \/ LoadConfig("unborn", Unnamed, "auto")
    \/ ReadPolicy \/ Resolve \/ executeScan \/ assess \/ applyScope \/ CheckFails
    \/ \E p \in PolicyPaths, text \in {Missing} \cup ConfigTexts \cup BundleTexts :
         EditPolicy(p, text) \/ \E name \in BranchNames : Fetch(name, p, text)
    \/ CommitPolicy \/ PushBranch \/ Merge

GuardSpec == GuardInit /\ [][GuardNext]_guardVars

-----------------------------------------------------------------------------
(* Properties *)

Shas == {Missing} \cup DOMAIN clone.commits
GuardTypeOK ==
    /\ ondisk \in PolicyTrees /\ events \in 0..MaxEvents
    /\ IsClone(clone)
    /\ check # NoCheck => check.scope.target.sha \in Shas /\ check.policy \in PolicyTrees

\* A check exits 0 only where it resolved a scope, and ran under the files at the tip of
\* the target that scope names, but for a file edited after the guard had read it, and a
\* target without a config (withPolicyGuard, applyScope, runScan).
PassIsUnderTarget ==
    Reached("ended") /\ check.kind = "check" /\ ExitCode(check) = 0 /\ check.scope # NoScope =>
      /\ ~check.scope.unresolved
      /\ Protects(clone, check.scope.target.sha) =>
           \A p \in PolicyPaths \ check.late : check.under[p] = FileAt(clone, check.scope.target.sha, p)

\* HEAD left the target at one commit.  Where each has merged the other there may be
\* several, git names one, and what differs from that one the target alone may have
\* written: the branch did not edit it, as the comment of withPolicyGuard (scope.go:171)
\* takes it to have.  BlameIsEarned and CatchUpClears leave those histories out.
OneForkPoint(c, sha) == Cardinality(forkPoints(c, sha)) = 1

\* What a policy is said to be changed by is a commit the target has not, or an edit not
\* committed yet: a branch that only fell behind is told to catch up (forkPoint), unless
\* it and the target merged each other crosswise (OneForkPoint).
BlameIsEarned ==
    check # NoCheck /\ check.pc = "read" =>
      \A s \in ResolveScope(clone, check.asked, check.declared, check.base, check.policy) : \A p \in s.changed :
        \/ ~OneForkPoint(clone, s.target.sha)
        \/ check.policy[p] # FileAt(clone, HeadOf(clone), p)
        \/ \E k \in Ancestors(clone)[HeadOf(clone)] \ Ancestors(clone)[s.target.sha] : p \in clone.commits[k].wrote

\* With a default branch, editing the policy of another branch that has a commit, or
\* committing the edit, moves no target that --target does not name (resolveTarget).  The
\* first commit of a branch may: the branch comes to be, and the default may declare it.
OffDefault == \A d \in trustedDefault(clone) : d.ref # <<"local", clone.on>>
BranchCannotMoveGuard ==
    [][/\ \/ CommitPolicy \/ \E p \in PolicyPaths, text \in {Missing} \cup ConfigTexts \cup BundleTexts : EditPolicy(p, text)
       /\ HeadOf(clone) # Missing /\ clone.tracked /\ trustedDefault(clone) # {} /\ OffDefault
       => resolveTarget(clone, Unnamed, DeclaredIn(ondisk["config"])).ref
          = resolveTarget(clone', Unnamed, DeclaredIn(ondisk'["config"])).ref]_guardVars

\* Merging the target clears what is stale, and blames nothing new (reason "stale" says
\* so), unless the branch and the target merged each other crosswise (OneForkPoint).
CatchUp(target) ==
    target # NoTarget /\ HeadOf(clone) # Missing /\ OneForkPoint(clone, target.sha) /\ MergeIn(target.sha)
CatchUpClears ==
    [][\A name \in BranchNames :
         LET target == lookupBranch(clone, name)
         IN  CatchUp(target) /\ lookupBranch(clone', name) = target =>
               \A old \in ResolveScope(clone, name, Unnamed, "auto", ondisk) :
               \A new \in ResolveScope(clone', name, Unnamed, "auto", ondisk') :
                 new.stale = {} /\ new.changed \subseteq old.changed]_guardVars

GuardIsSound == [](PassIsUnderTarget /\ BlameIsEarned) /\ BranchCannotMoveGuard /\ CatchUpClears
=============================================================================
