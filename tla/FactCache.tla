------------------------------ MODULE FactCache ------------------------------
(***************************************************************************)
(* The extractor-fact cache: internal/factcache as the Go extractor uses   *)
(* it (internal/extract/golang/cache.go).  Runs of archfit, each a         *)
(* process, share .archfit-cache/facts without a lock.  A run hashes the   *)
(* source of every workspace member into a key, looks every key up, loads  *)
(* the members it did not find, each in a goroutine, and writes their      *)
(* facts through a temporary file.  Every write may start an eviction.     *)
(*                                                                         *)
(* The facts of a member are the sources they were read from: two sets of  *)
(* facts are equal exactly when those sources are.                         *)
(***************************************************************************)
EXTENDS Naturals, FiniteSets, FiniteSetsExt

CONSTANTS
    Runs,       \* the runs that may overlap
    Members,    \* the workspace members a run loads (memberDirs)
    Foreign,    \* local source outside of them that a member may compile against
    Workspaces, \* what the members of a workspace may require and import
    Contents,   \* what the source of a member may be
    Trees,      \* the trees the source may be
    Broken,     \* the contents that do not load cleanly
    Temps,      \* the names of temporary files
    Parallel,   \* the loads of a run at a time (GOMAXPROCS)
    MaxFiles,   \* the cap of the cache (MaxBytes)
    EvictTo,    \* what an eviction brings it down to (EvictToBytes)
    MaxEdits,   \* bound on the edits
    MaxLost,    \* bound on the writes that crashes interrupt
    EditsInRun, \* whether source changes while a run is under way
    Unread, Gone

Source == Members \cup Foreign

\* What was read of a tree, and what was read of it into a key.
Part == [Source -> Contents \cup {Unread}]
Key == Members \X [Members -> Contents \cup {Unread}]

Names == Key \cup Temps

ASSUME FactCacheAssumption ==
    /\ Members \cap Foreign = {}
    /\ Workspaces \subseteq [requires: [Source -> SUBSET Source],
                       imports: [Source -> SUBSET Source]]
    /\ Trees \subseteq [Source -> Contents]
    /\ Broken \subseteq Contents
    /\ MaxFiles \in Nat /\ EvictTo \in Nat /\ EvictTo <= MaxFiles
    /\ Parallel \in Nat \ {0} /\ MaxEdits \in Nat /\ MaxLost \in Nat
    /\ EditsInRun \in BOOLEAN
    /\ Unread \notin Contents
    /\ Gone \notin Part /\ Gone \notin Temps
    /\ Temps \cap Key = {}
    /\ IsFiniteSet(Runs) /\ IsFiniteSet(Members) /\ IsFiniteSet(Names)

VARIABLES
    work,     \* what each go.mod requires, and what each member imports of it
    files,    \* the source of each member
    edits,    \* the edits so far
    disk,     \* the content of each file of the cache
    run,      \* the runs
    job,      \* a run's work on a member
    lost      \* the writes that crashes interrupted and no eviction made up for

vars == <<work, files, edits, disk, run, job, lost>>

Steps == {"todo", "hit", "miss", "loaded", "temp", "renamed", "evicting", "done"}

Writing == {"temp", "renamed", "evicting"}

RunType == [phase: {"idle", "busy"}, tree: Part]

Job ==
    [step: Steps, facts: Part \cup {Gone}, temp: Temps \cup {Gone},
     left: SUBSET Names, total: Nat, after: Nat]

\* A job holds facts after a hit or a load, and a temporary file while it writes it.
JobType ==
    {j \in Job :
        /\ j.facts # Gone <=> j.step \in {"hit", "loaded"}
        /\ j.temp # Gone <=> j.step = "temp"}

NoRun == [phase |-> "idle", tree |-> [n \in Source |-> Unread]]

NoJob == [step |-> "todo", facts |-> Gone, temp |-> Gone, left |-> {}, total |-> 0, after |-> 0]

TypeOK ==
    /\ work \in Workspaces
    /\ files \in Trees
    /\ edits \in 0 .. MaxEdits
    /\ disk \in [Names -> Part \cup {Gone}]
    /\ run \in [Runs -> RunType]
    /\ job \in [Runs \X Members -> JobType]
    /\ lost \in Nat

-----------------------------------------------------------------------------
(* memberKeys                                                               *)

\* The least set that holds m and is closed under depends.
Closure(depends, m) ==
    {n \in Source : \A S \in SUBSET Source :
        m \in S /\ (\A k \in S : depends[k] \subseteq S) => n \in S}

\* What m compiles against: an import resolves in the workspace, required or not.
Needs(m) == Closure(work.imports, m)

\* What memberKeys takes m to compile against.
Keyed(m) == Closure(work.requires, m)

\* packages.Load and deriveMemberFacts: a load reads all that m compiles against.
FactsOf(m, t) == [n \in Source |-> IF n \in Needs(m) THEN t[n] ELSE Unread]

\* A bug in its place: the key hashes the member's own source only.
OwnKey(m, t) == <<m, [n \in Members |-> IF n = m THEN t[n] ELSE Unread]>>

\* The key of m hashes the inputs of m and of the members it requires.
KeyOf(m, t) == <<m, [n \in Members |-> IF n \in Keyed(m) THEN t[n] ELSE Unread]>>

\* A member that requires source no key covers is vetoed.
Cacheable == {m \in Members : Keyed(m) \cap Foreign = {}}

\* Every import is required, as `go mod tidy` wants it.
Tidy == \A w \in Workspaces, n \in Source : w.imports[n] \subseteq w.requires[n]

Clean(facts) == \A n \in Source : facts[n] \notin Broken

-----------------------------------------------------------------------------
(* The store.                                                               *)

\* A bug in its place: the walk skips temporary files.
Entries == {n \in Key : disk[n] # Gone}

Present == {n \in Names : disk[n] # Gone}

-----------------------------------------------------------------------------
(* A run.                                                                   *)

Init ==
    /\ work \in Workspaces
    /\ files \in Trees
    /\ edits = 0
    /\ disk = [n \in Names |-> Gone]
    /\ run = [r \in Runs |-> NoRun]
    /\ job = [x \in Runs \X Members |-> NoJob]
    /\ lost = 0

Set(r, m, j) == job' = [job EXCEPT ![<<r, m>>] = j]

\* memberKeys: the keys of the tree as it is now.  A run without the cache takes
\* no part here.
Start(r) ==
    /\ run[r].phase = "idle"
    /\ run' = [run EXCEPT ![r] = [phase |-> "busy", tree |-> files]]
    /\ UNCHANGED <<work, files, edits, disk, job, lost>>

\* Get finds a whole entry under m's key.
Found(r, m) ==
    /\ m \in Cacheable
    /\ disk[KeyOf(m, run[r].tree)] \in Part

Get(r, m) ==
    LET k == KeyOf(m, run[r].tree)
    IN  /\ run[r].phase = "busy" /\ job[r, m].step = "todo"
        /\ Found(r, m)
        /\ Set(r, m, [NoJob EXCEPT !.step = "hit", !.facts = disk[k]])
        /\ UNCHANGED <<work, files, edits, disk, run, lost>>

\* No key, no entry, one that does not read or decode, or a run that refreshes.
Miss(r, m) ==
    /\ run[r].phase = "busy" /\ job[r, m].step = "todo"
    /\ Set(r, m, [NoJob EXCEPT !.step = "miss"])
    /\ UNCHANGED <<work, files, edits, disk, run, lost>>

Loading(r) == {m \in Members : job[r, m].step \in {"loaded"} \cup Writing}

\* A goroutine's turn: the loads start once every key was looked up.
Turn(r, m) ==
    /\ run[r].phase = "busy" /\ job[r, m].step = "miss"
    /\ \A n \in Members : job[r, n].step # "todo"
    /\ Cardinality(Loading(r)) < Parallel

\* A bug in its place: partial facts are put too.
LoadPartial(r, m) ==
    /\ Turn(r, m)
    /\ Set(r, m, IF m \in Cacheable
                 THEN [NoJob EXCEPT !.step = "loaded", !.facts = FactsOf(m, files)]
                 ELSE [NoJob EXCEPT !.step = "done"])
    /\ UNCHANGED <<work, files, edits, disk, run, lost>>

\* Only the facts of a clean load of a member with a key are put.
Load(r, m) ==
    LET facts == FactsOf(m, files)
    IN  /\ Turn(r, m)
        /\ Set(r, m, IF m \in Cacheable /\ Clean(facts)
                     THEN [NoJob EXCEPT !.step = "loaded", !.facts = facts]
                     ELSE [NoJob EXCEPT !.step = "done"])
        /\ UNCHANGED <<work, files, edits, disk, run, lost>>

LoadFails(r, m) ==
    /\ Turn(r, m)
    /\ Set(r, m, [NoJob EXCEPT !.step = "done"])
    /\ UNCHANGED <<work, files, edits, disk, run, lost>>

\* Put: a temporary file whose random name (os.CreateTemp) is no other writer's.
WriteTemp(r, m, t) ==
    /\ run[r].phase = "busy" /\ job[r, m].step = "loaded"
    /\ disk[t] = Gone /\ \A x \in Runs \X Members : job[x].temp # t
    /\ disk' = [disk EXCEPT ![t] = job[r, m].facts]
    /\ Set(r, m, [NoJob EXCEPT !.step = "temp", !.temp = t])
    /\ UNCHANGED <<work, files, edits, run, lost>>

\* Put fails, which fails nothing else.
PutFails(r, m) ==
    /\ run[r].phase = "busy" /\ job[r, m].step = "loaded"
    /\ Set(r, m, [NoJob EXCEPT !.step = "done"])
    /\ UNCHANGED <<work, files, edits, disk, run, lost>>

\* A bug in its place: a writer whose temporary file is gone keeps its name.
RenameGone(r, m) ==
    LET t == job[r, m].temp
        k == KeyOf(m, run[r].tree)
    IN  /\ run[r].phase = "busy" /\ job[r, m].step = "temp"
        /\ disk' = [disk EXCEPT ![k] = disk[t], ![t] = Gone]
        /\ Set(r, m, [job[r, m] EXCEPT !.step = "renamed"])
        /\ UNCHANGED <<work, files, edits, run, lost>>

\* Put: rename; an eviction of another run may have taken the temporary file.
Rename(r, m) ==
    LET t == job[r, m].temp
        k == KeyOf(m, run[r].tree)
    IN  /\ run[r].phase = "busy" /\ job[r, m].step = "temp"
        /\ IF disk[t] = Gone
           THEN /\ Set(r, m, [NoJob EXCEPT !.step = "done"])
                /\ UNCHANGED disk
           ELSE /\ disk' = [disk EXCEPT ![k] = disk[t], ![t] = Gone]
                /\ Set(r, m, [NoJob EXCEPT !.step = "renamed"])
        /\ UNCHANGED <<work, files, edits, run, lost>>

\* evict: the walk lists every file of the cache, temporary ones included, and
\* finds the cache within its cap or not.
WalkWithin(r, m) ==
    /\ run[r].phase = "busy" /\ job[r, m].step = "renamed"
    /\ Cardinality(Present) <= MaxFiles
    /\ Set(r, m, [NoJob EXCEPT !.step = "done"])
    /\ lost' = 0
    /\ UNCHANGED <<work, files, edits, disk, run>>

WalkOver(r, m) ==
    /\ run[r].phase = "busy" /\ job[r, m].step = "renamed"
    /\ Cardinality(Present) > MaxFiles
    /\ Set(r, m, [NoJob EXCEPT !.step = "evicting",
                              !.left = Present, !.total = Cardinality(Present)])
    /\ UNCHANGED <<work, files, edits, disk, run, lost>>

\* evict: a file of the list goes, if it is still there.
EvictOne(r, m, n) ==
    LET j == job[r, m]
    IN  /\ run[r].phase = "busy" /\ j.step = "evicting"
        /\ j.total > EvictTo /\ n \in j.left
        /\ disk' = [disk EXCEPT ![n] = Gone]
        /\ Set(r, m, [j EXCEPT !.left = @ \ {n},
                               !.total = IF disk[n] = Gone THEN @ ELSE @ - 1])
        /\ UNCHANGED <<work, files, edits, run, lost>>

EvictEnds(r, m) ==
    LET j == job[r, m]
    IN  /\ run[r].phase = "busy" /\ j.step = "evicting"
        /\ j.total <= EvictTo \/ j.left = {}
        /\ Set(r, m, [NoJob EXCEPT !.step = "done"])
        /\ lost' = Min({lost, j.after})
        /\ UNCHANGED <<work, files, edits, disk, run>>

\* loadMemberFacts returns once every goroutine did.
Finish(r) ==
    /\ run[r].phase = "busy"
    /\ \A m \in Members : job[r, m].step \in {"hit", "done"}
    /\ run' = [run EXCEPT ![r] = NoRun]
    /\ job' = [x \in Runs \X Members |-> IF x[1] = r THEN NoJob ELSE job[x]]
    /\ UNCHANGED <<work, files, edits, disk, lost>>

-----------------------------------------------------------------------------
(* The environment.                                                         *)

WritesOf(r) == {m \in Members : job[r, m].step \in Writing}

Abandoned(x, r, n) ==
    IF x[1] = r THEN NoJob
    ELSE IF job[x].step = "evicting" THEN [job[x] EXCEPT !.after = Min({MaxLost, @ + n})]
    ELSE job[x]

\* The process dies; its files stay as they are.
Crash(r) ==
    LET n == Cardinality(WritesOf(r))
    IN  /\ run[r].phase = "busy" /\ lost + n <= MaxLost
        /\ run' = [run EXCEPT ![r] = NoRun]
        /\ job' = [x \in Runs \X Members |-> Abandoned(x, r, n)]
        /\ lost' = lost + n
        /\ UNCHANGED <<work, files, edits, disk>>

\* An edit, a pull or a checkout.
Edit(t) ==
    /\ edits < MaxEdits /\ files # t
    /\ EditsInRun \/ \A r \in Runs : run[r].phase = "idle"
    /\ files' = t
    /\ edits' = edits + 1
    /\ UNCHANGED <<work, disk, run, job, lost>>

Work(r, m) ==
    \/ Get(r, m) \/ Miss(r, m) \/ Load(r, m) \/ LoadFails(r, m)
    \/ \E t \in Temps : WriteTemp(r, m, t)
    \/ PutFails(r, m) \/ Rename(r, m)
    \/ WalkWithin(r, m) \/ WalkOver(r, m) \/ EvictEnds(r, m)
    \/ \E n \in Names : EvictOne(r, m, n)

Next ==
    \/ \E r \in Runs :
        \/ Start(r)
        \/ \E m \in Members : Work(r, m)
        \/ Finish(r)
        \/ Crash(r)
    \/ \E t \in Trees : Edit(t)

Spec == Init /\ [][Next]_vars

-----------------------------------------------------------------------------
(* Properties.                                                              *)

\* A hit is what a load of the tree the run hashed would give: no other run,
\* no edit between runs, no requirement and no crash makes a stale fact be
\* served ("stale entries are never served, only orphaned", key.go).
HitIsFresh ==
    \A r \in Runs, m \in Members :
        job[r, m].step = "hit" => job[r, m].facts = FactsOf(m, run[r].tree)

\* A hit never replays the facts of a load with errors, even when the source
\* changes under the run that writes them: a cached degradation would stick.
HitIsClean ==
    \A r \in Runs, m \in Members : job[r, m].step = "hit" => Clean(job[r, m].facts)

\* The cache exceeds its cap by the writes under way and the ones that crashes
\* cut short since the last complete eviction, whatever overlapping evictions
\* remove: what a crash left behind, a temporary file too, is reclaimed.
CapHolds ==
    Cardinality({n \in Names : disk[n] # Gone}) <=
        MaxFiles + lost + Cardinality({x \in Runs \X Members : job[x].step \in Writing})
=============================================================================
