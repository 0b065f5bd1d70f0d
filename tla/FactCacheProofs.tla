-------------------------- MODULE FactCacheProofs --------------------------
(***************************************************************************)
(* Proofs about FactCache: types; a hit is clean whatever is edited while  *)
(* runs are under way; a hit is fresh when nothing is and every import is  *)
(* required; and the cap is kept.                                          *)
(***************************************************************************)
EXTENDS FactCache, FiniteSetTheorems, TLAPS

USE FactCacheAssumption

Jobs == Runs \X Members

-----------------------------------------------------------------------------
(* Types.                                                                   *)

\* The lesser of two numbers.
LEMMA MinOfTwo ==
    ASSUME NEW x \in Nat, NEW y \in Nat
    PROVE  Min({x, y}) \in Nat
<1>1. \E z \in {x, y} : \A w \in {x, y} : z <= w
    OBVIOUS
<1>2. Min({x, y}) \in {x, y}
    BY <1>1 DEF Min
<1> QED
    BY <1>2

\* What is on disk is a finite set of files.
LEMMA PresentFinite == IsFiniteSet(Present) /\ Cardinality(Present) \in Nat
<1>1. Present \subseteq Names
    BY DEF Present
<1>2. IsFiniteSet(Present)
    BY <1>1, FS_Subset
<1> QED
    BY <1>2, FS_CardinalityType

\* A run has finitely many writes under way.
LEMMA WritesFinite == ASSUME NEW r PROVE Cardinality(WritesOf(r)) \in Nat
<1>1. WritesOf(r) \subseteq Members
    BY DEF WritesOf
<1>2. IsFiniteSet(WritesOf(r))
    BY <1>1, FS_Subset
<1> QED
    BY <1>2, FS_CardinalityType

\* Facts and keys of a tree are of their types.
LEMMA TreeTypes ==
    ASSUME TypeOK, NEW m \in Members, NEW t \in Part
    PROVE  FactsOf(m, t) \in Part /\ KeyOf(m, t) \in Key
<1>1. FactsOf(m, t) \in Part
    BY DEF FactsOf, Part
<1>2. [n \in Members |-> IF n \in Keyed(m) THEN t[n] ELSE Unread]
        \in [Members -> Contents \cup {Unread}]
    BY DEF Part, Source
<1>3. KeyOf(m, t) \in Key
    BY <1>2 DEF KeyOf, Key
<1> QED
    BY <1>1, <1>3

\* A tree is a part of itself.
LEMMA TreesArePart == Trees \subseteq Part
    BY DEF Part

\* A step that sets one job leaves the others, and the jobs have their type.
LEMMA SetType ==
    ASSUME TypeOK, NEW r \in Runs, NEW m \in Members, NEW j \in JobType, Set(r, m, j)
    PROVE  /\ job' \in [Jobs -> JobType]
           /\ job'[<<r, m>>] = j
           /\ \A x \in Jobs : x # <<r, m>> => job'[x] = job[x]
<1>1. job \in [Jobs -> JobType] /\ <<r, m>> \in Jobs
    BY DEF TypeOK, Jobs
<1>2. job' = [job EXCEPT ![<<r, m>>] = j]
    BY DEF Set
<1> QED
    BY <1>1, <1>2, Zenon

\* A job that does nothing, waits or is done.
LEMMA IdleJob ==
    ASSUME NEW s \in {"todo", "miss", "done", "renamed"}
    PROVE  /\ [NoJob EXCEPT !.step = s] \in JobType
           /\ [NoJob EXCEPT !.step = s].step = s
           /\ [NoJob EXCEPT !.step = s].facts = Gone
           /\ [NoJob EXCEPT !.step = s].temp = Gone
    BY DEF JobType, Job, NoJob, Steps

\* A job that holds facts.
LEMMA FactsJob ==
    ASSUME NEW s \in {"hit", "loaded"}, NEW f \in Part
    PROVE  /\ [NoJob EXCEPT !.step = s, !.facts = f] \in JobType
           /\ [NoJob EXCEPT !.step = s, !.facts = f].step = s
           /\ [NoJob EXCEPT !.step = s, !.facts = f].facts = f
           /\ [NoJob EXCEPT !.step = s, !.facts = f].temp = Gone
    BY DEF JobType, Job, NoJob, Steps

\* A job that holds a temporary file.
LEMMA TempJob ==
    ASSUME NEW t \in Temps
    PROVE  /\ [NoJob EXCEPT !.step = "temp", !.temp = t] \in JobType
           /\ [NoJob EXCEPT !.step = "temp", !.temp = t].facts = Gone
           /\ [NoJob EXCEPT !.step = "temp", !.temp = t].temp = t
    BY DEF JobType, Job, NoJob, Steps

\* A job that evicts.
LEMMA EvictJob ==
    ASSUME NEW L \in SUBSET Names, NEW n \in Nat
    PROVE  /\ [NoJob EXCEPT !.step = "evicting", !.left = L, !.total = n] \in JobType
           /\ [NoJob EXCEPT !.step = "evicting", !.left = L, !.total = n].facts = Gone
           /\ [NoJob EXCEPT !.step = "evicting", !.left = L, !.total = n].temp = Gone
    BY DEF JobType, Job, NoJob, Steps

\* The job of a run that has not begun.
LEMMA NoJobType == NoJob \in JobType /\ NoJob.step = "todo" /\ NoJob.facts = Gone /\ NoJob.temp = Gone
    BY DEF JobType, Job, NoJob, Steps

\* The fields of a job.
LEMMA JobFields ==
    ASSUME NEW j \in JobType
    PROVE  /\ j \in Job
           /\ j.facts \in Part \cup {Gone} /\ j.temp \in Temps \cup {Gone}
           /\ j.left \in SUBSET Names /\ j.total \in Nat /\ j.after \in Nat
           /\ j.facts # Gone <=> j.step \in {"hit", "loaded"}
           /\ j.temp # Gone <=> j.step = "temp"
<1>1. j \in Job
    BY DEF JobType
<1>2. /\ j.facts # Gone <=> j.step \in {"hit", "loaded"}
      /\ j.temp # Gone <=> j.step = "temp"
    BY DEF JobType
<1>3. /\ j.facts \in Part \cup {Gone} /\ j.temp \in Temps \cup {Gone}
      /\ j.left \in SUBSET Names /\ j.total \in Nat /\ j.after \in Nat
    BY <1>1 DEF Job
<1> QED
    BY <1>1, <1>2, <1>3

\* A job with less left to evict, and one that outlived another run's writes.
Evicted(j, L, n) == [j EXCEPT !.left = L, !.total = n]

Outlived(j, n) == [j EXCEPT !.after = n]

\* Both go on evicting.
LEMMA EvictsOn ==
    ASSUME NEW j \in JobType, NEW L \in SUBSET Names, NEW n \in Nat, j.step = "evicting"
    PROVE  /\ Evicted(j, L, n) \in JobType
           /\ Evicted(j, L, n).facts = Gone
           /\ Evicted(j, L, n).temp = Gone
           /\ Evicted(j, L, n).step = "evicting"
           /\ Outlived(j, n) \in JobType
           /\ Outlived(j, n).facts = Gone
           /\ Outlived(j, n).temp = Gone
           /\ Outlived(j, n).step = "evicting"
<1> DEFINE s == Evicted(j, L, n)
           u == Outlived(j, n)
<1>1. j \in Job /\ j.facts = Gone /\ j.temp = Gone
    BY JobFields
<1>2. s \in Job /\ s.facts = j.facts /\ s.temp = j.temp /\ s.step = j.step
    BY <1>1 DEF Job, Evicted
<1>3. u \in Job /\ u.facts = j.facts /\ u.temp = j.temp /\ u.step = j.step
    BY <1>1 DEF Job, Outlived
<1> HIDE DEF s, u
<1>4. s \in JobType /\ u \in JobType
    BY <1>1, <1>2, <1>3 DEF JobType
<1> QED
    BY <1>1, <1>2, <1>3, <1>4 DEF s, u

\* The job that EvictOne sets.
LEMMA EvictSets ==
    ASSUME TypeOK, NEW r \in Runs, NEW m \in Members, NEW n \in Names, EvictOne(r, m, n)
    PROVE  \E j \in JobType : Set(r, m, j) /\ j.facts = Gone /\ j.temp = Gone
<1> DEFINE j == job[<<r, m>>]
           L == j.left \ {n}
           k == IF disk[n] = Gone THEN j.total ELSE j.total - 1
<1>1. j \in JobType
    BY DEF TypeOK
<1>2. j.left \in SUBSET Names /\ j.total \in Nat
    BY <1>1, JobFields
<1>3. j.total > EvictTo /\ j.step = "evicting"
    BY DEF EvictOne
<1>4. L \in SUBSET Names /\ k \in Nat
    BY <1>2, <1>3
<1>5. Set(r, m, Evicted(j, L, k))
    BY DEF EvictOne, Evicted
<1> HIDE DEF j, L, k
<1>6. /\ Evicted(j, L, k) \in JobType
      /\ Evicted(j, L, k).facts = Gone
      /\ Evicted(j, L, k).temp = Gone
    BY <1>1, <1>3, <1>4, EvictsOn
<1> QED
    BY <1>5, <1>6

\* What the end of r leaves of the jobs.
LEMMA AbandonedType ==
    ASSUME TypeOK, NEW r \in Runs, NEW x \in Jobs
    PROVE  /\ Abandoned(x, r, Cardinality(WritesOf(r))) \in JobType
           /\ x[1] = r => Abandoned(x, r, Cardinality(WritesOf(r))) = NoJob
           /\ x[1] # r =>
                /\ Abandoned(x, r, Cardinality(WritesOf(r))).step = job[x].step
                /\ Abandoned(x, r, Cardinality(WritesOf(r))).facts = job[x].facts
                /\ Abandoned(x, r, Cardinality(WritesOf(r))).temp = job[x].temp
<1> DEFINE c == Cardinality(WritesOf(r))
           n == Min({MaxLost, job[x].after + c})
<1>1. job[x] \in JobType
    BY DEF TypeOK, Jobs
<1>2. c \in Nat
    BY WritesFinite
<1>3. job[x].after \in Nat
    BY <1>1, JobFields
<1>4. n \in Nat
    <2>1. MaxLost \in Nat /\ job[x].after + c \in Nat
        BY <1>2, <1>3
    <2> QED
        BY <2>1, MinOfTwo
<1>5. CASE x[1] = r
    BY <1>5, NoJobType DEF Abandoned
<1>6. CASE x[1] # r /\ job[x].step = "evicting"
    <2>1. Abandoned(x, r, c) = Outlived(job[x], n)
        BY <1>6 DEF Abandoned, Outlived
    <2>2. {} \in SUBSET Names
        OBVIOUS
    <2>3. job[x].facts = Gone /\ job[x].temp = Gone
        BY <1>1, <1>6, JobFields
    <2> HIDE DEF n, c
    <2>4. /\ Outlived(job[x], n) \in JobType
          /\ Outlived(job[x], n).facts = Gone
          /\ Outlived(job[x], n).temp = Gone
          /\ Outlived(job[x], n).step = "evicting"
        BY <1>1, <1>4, <1>6, <2>2, EvictsOn
    <2>5. /\ Abandoned(x, r, c) \in JobType
          /\ Abandoned(x, r, c).step = job[x].step
          /\ Abandoned(x, r, c).facts = job[x].facts
          /\ Abandoned(x, r, c).temp = job[x].temp
        BY <1>6, <2>1, <2>3, <2>4
    <2> QED
        BY <1>6, <2>5 DEF c
<1>7. CASE x[1] # r /\ job[x].step # "evicting"
    BY <1>1, <1>7 DEF Abandoned
<1> QED
    BY <1>5, <1>6, <1>7

\* The types of a run that begins or ends.
LEMMA RunTypes ==
    /\ NoRun \in RunType
    /\ \A t \in Part : [phase |-> "busy", tree |-> t] \in RunType
    BY DEF NoRun, RunType, Part

\* What TypeOK says apart from the jobs.
RestOK ==
    /\ work \in Workspaces
    /\ files \in Trees
    /\ edits \in 0 .. MaxEdits
    /\ disk \in [Names -> Part \cup {Gone}]
    /\ run \in [Runs -> RunType]
    /\ lost \in Nat

\* What a job step and an end keep of the types.
LEMMA TypeFromParts == RestOK' /\ job' \in [Jobs -> JobType] => TypeOK'
    BY DEF RestOK, TypeOK, Jobs

\* The types are kept by the steps of a job.
LEMMA WorkType ==
    ASSUME TypeOK, NEW r \in Runs, NEW m \in Members, Work(r, m)
    PROVE  TypeOK'
<1>1. RestOK /\ job[<<r, m>>] \in JobType /\ run[r] \in RunType
    BY DEF TypeOK, RestOK
<1>2. run[r].tree \in Part
    BY <1>1 DEF RunType
<1>3. FactsOf(m, files) \in Part /\ KeyOf(m, run[r].tree) \in Key
    BY <1>1, <1>2, TreeTypes, TreesArePart DEF RestOK
<1>4. NoJob \in JobType
    BY NoJobType
<1> DEFINE Typed == job' \in [Jobs -> JobType]
<1>5. CASE Get(r, m)
    <2>1. disk[KeyOf(m, run[r].tree)] \in Part
        BY <1>5 DEF Get, Found
    <2>2. Typed
        BY <1>5, <2>1, FactsJob, SetType DEF Get
    <2>3. RestOK'
        BY <1>1, <1>5 DEF Get, RestOK
    <2> QED
        BY <2>2, <2>3, TypeFromParts
<1>6. CASE Miss(r, m)
    <2>1. Typed
        BY <1>6, IdleJob, SetType DEF Miss
    <2>2. RestOK'
        BY <1>1, <1>6 DEF Miss, RestOK
    <2> QED
        BY <2>1, <2>2, TypeFromParts
<1>7. CASE Load(r, m)
    <2>1. Typed
        BY <1>3, <1>7, IdleJob, FactsJob, SetType DEF Load
    <2>2. RestOK'
        BY <1>1, <1>7 DEF Load, RestOK
    <2> QED
        BY <2>1, <2>2, TypeFromParts
<1>8. CASE LoadFails(r, m) \/ PutFails(r, m)
    <2>1. Typed
        BY <1>8, IdleJob, SetType DEF LoadFails, PutFails
    <2>2. RestOK'
        BY <1>1, <1>8 DEF LoadFails, PutFails, RestOK
    <2> QED
        BY <2>1, <2>2, TypeFromParts
<1>9. ASSUME NEW t \in Temps, WriteTemp(r, m, t) PROVE TypeOK'
    <2>1. Typed
        BY <1>9, TempJob, SetType DEF WriteTemp
    <2>2. job[<<r, m>>].facts \in Part
        BY <1>1, <1>9, JobFields DEF WriteTemp
    <2>3. disk' \in [Names -> Part \cup {Gone}]
        BY <1>1, <1>9, <2>2 DEF WriteTemp, RestOK
    <2>4. RestOK'
        BY <1>1, <1>9, <2>3 DEF WriteTemp, RestOK
    <2> QED
        BY <2>1, <2>4, TypeFromParts
<1>10. CASE Rename(r, m)
    <2>1. Typed
        BY <1>10, IdleJob, SetType DEF Rename
    <2>2. job[<<r, m>>].temp \in Temps
        BY <1>1, <1>10, JobFields DEF Rename
    <2>3. disk' \in [Names -> Part \cup {Gone}]
        BY <1>1, <1>3, <1>10, <2>2 DEF Rename, RestOK, Names
    <2>4. RestOK'
        BY <1>1, <1>10, <2>3 DEF Rename, RestOK
    <2> QED
        BY <2>1, <2>4, TypeFromParts
<1>11. CASE WalkWithin(r, m) \/ WalkOver(r, m)
    <2>1. Present \in SUBSET Names /\ Cardinality(Present) \in Nat
        BY PresentFinite DEF Present
    <2>2. Typed
        BY <1>11, <2>1, IdleJob, EvictJob, SetType DEF WalkWithin, WalkOver
    <2>3. UNCHANGED <<work, files, edits, disk, run>> /\ lost' \in {0, lost}
        BY <1>11, Zenon DEF WalkWithin, WalkOver
    <2>4. RestOK'
        BY <1>1, <2>3 DEF RestOK
    <2> QED
        BY <2>2, <2>4, TypeFromParts
<1>12. ASSUME NEW n \in Names, EvictOne(r, m, n) PROVE TypeOK'
    <2>1. PICK j \in JobType : Set(r, m, j) /\ j.facts = Gone /\ j.temp = Gone
        BY <1>12, EvictSets
    <2>5. Typed
        BY <2>1, SetType
    <2>6. disk' \in [Names -> Part \cup {Gone}]
        BY <1>1, <1>12 DEF EvictOne, RestOK
    <2>7. RestOK'
        BY <1>1, <1>12, <2>6 DEF EvictOne, RestOK
    <2> QED
        BY <2>5, <2>7, TypeFromParts
<1>13. CASE EvictEnds(r, m)
    <2>1. Typed
        BY <1>13, IdleJob, SetType DEF EvictEnds
    <2>2. job[<<r, m>>].after \in Nat
        BY <1>1, JobFields
    <2>3. lost' \in Nat
        BY <1>1, <1>13, <2>2, MinOfTwo DEF EvictEnds, RestOK
    <2>4. RestOK'
        BY <1>1, <1>13, <2>3 DEF EvictEnds, RestOK
    <2> QED
        BY <2>1, <2>4, TypeFromParts
<1> QED
    BY <1>5, <1>6, <1>7, <1>8, <1>9, <1>10, <1>11, <1>12, <1>13 DEF Work

\* The types are kept by every step.
LEMMA NextType == TypeOK /\ [Next]_vars => TypeOK'
<1> SUFFICES ASSUME TypeOK, [Next]_vars PROVE TypeOK'
    OBVIOUS
<1>1. RestOK /\ job \in [Jobs -> JobType]
    BY DEF TypeOK, RestOK, Jobs
<1>2. ASSUME NEW r \in Runs, Start(r) PROVE TypeOK'
    <2>1. [phase |-> "busy", tree |-> files] \in RunType
        BY <1>1, RunTypes, TreesArePart DEF RestOK
    <2>2. run' \in [Runs -> RunType]
        BY <1>1, <1>2, <2>1 DEF Start, RestOK
    <2>3. RestOK' /\ job' \in [Jobs -> JobType]
        BY <1>1, <1>2, <2>2 DEF Start, RestOK
    <2> QED
        BY <2>3, TypeFromParts
<1>3. ASSUME NEW r \in Runs, NEW m \in Members, Work(r, m) PROVE TypeOK'
    BY <1>3, WorkType
<1>4. ASSUME NEW r \in Runs, Finish(r) PROVE TypeOK'
    <2>1. run' \in [Runs -> RunType]
        BY <1>1, <1>4, RunTypes DEF Finish, RestOK
    <2>2. job' = [x \in Jobs |-> IF x[1] = r THEN NoJob ELSE job[x]]
        BY <1>4 DEF Finish, Jobs
    <2>3. job' \in [Jobs -> JobType]
        BY <1>1, <2>2, NoJobType
    <2>4. RestOK'
        BY <1>1, <1>4, <2>1 DEF Finish, RestOK
    <2> QED
        BY <2>3, <2>4, TypeFromParts
<1>5. ASSUME NEW r \in Runs, Crash(r) PROVE TypeOK'
    <2> DEFINE c == Cardinality(WritesOf(r))
    <2>1. run' \in [Runs -> RunType]
        BY <1>1, <1>5, RunTypes DEF Crash, RestOK
    <2>2. c \in Nat
        BY WritesFinite
    <2>3. job' = [x \in Jobs |-> Abandoned(x, r, c)]
        BY <1>5 DEF Crash, Jobs
    <2>4. \A x \in Jobs : Abandoned(x, r, c) \in JobType
        BY AbandonedType
    <2>5. job' \in [Jobs -> JobType]
        BY <2>3, <2>4
    <2>6. lost' = lost + c /\ UNCHANGED <<work, files, edits, disk>>
        BY <1>5 DEF Crash
    <2> HIDE DEF c
    <2>7. RestOK'
        BY <1>1, <2>1, <2>2, <2>6 DEF RestOK
    <2> QED
        BY <2>5, <2>7, TypeFromParts
<1>6. ASSUME NEW t \in Trees, Edit(t) PROVE TypeOK'
    <2>1. RestOK'
        BY <1>1, <1>6 DEF Edit, RestOK
    <2>2. job' \in [Jobs -> JobType]
        BY <1>1, <1>6 DEF Edit
    <2> QED
        BY <2>1, <2>2, TypeFromParts
<1>7. CASE UNCHANGED vars
    BY <1>7 DEF vars, TypeOK
<1> QED
    BY <1>2, <1>3, <1>4, <1>5, <1>6, <1>7 DEF Next

LEMMA InitType == Init => TypeOK
<1> SUFFICES ASSUME Init PROVE TypeOK
    OBVIOUS
<1>1. run \in [Runs -> RunType] /\ job \in [Jobs -> JobType]
    BY RunTypes, NoJobType DEF Init, Jobs
<1> QED
    BY <1>1 DEF Init, TypeOK, Jobs

\* Every state of the cache and of its runs is well typed: a job holds facts
\* exactly after a hit or a load, and a temporary file exactly while it writes.
THEOREM TypeCorrect == Spec => []TypeOK
    BY InitType, NextType, PTL DEF Spec

-----------------------------------------------------------------------------
(* A hit is clean.                                                          *)

\* No entry, no temporary file and no job holds the facts of a load with errors.
CleanInv ==
    /\ \A n \in Names : disk[n] # Gone => Clean(disk[n])
    /\ \A x \in Jobs : job[x].facts # Gone => Clean(job[x].facts)

\* A step that sets one job to one without facts, or with clean ones.
LEMMA CleanJobs ==
    ASSUME TypeOK, CleanInv, NEW r \in Runs, NEW m \in Members, NEW j \in JobType,
           Set(r, m, j), j.facts # Gone => Clean(j.facts)
    PROVE  \A x \in Jobs : job'[x].facts # Gone => Clean(job'[x].facts)
<1> TAKE x \in Jobs
<1>1. CASE x = <<r, m>>
    BY <1>1, SetType
<1>2. CASE x # <<r, m>>
    BY <1>2, SetType DEF CleanInv
<1> QED
    BY <1>1, <1>2

LEMMA WorkClean ==
    ASSUME TypeOK, CleanInv, NEW r \in Runs, NEW m \in Members, Work(r, m)
    PROVE  CleanInv'
<1> DEFINE CleanDisk == \A n \in Names : disk'[n] # Gone => Clean(disk'[n])
           CleanWork == \A x \in Jobs : job'[x].facts # Gone => Clean(job'[x].facts)
<1>1. /\ disk \in [Names -> Part \cup {Gone}] /\ Gone \notin Part
      /\ job[<<r, m>>] \in JobType /\ <<r, m>> \in Jobs /\ run[r] \in RunType /\ files \in Part
    BY TreesArePart DEF TypeOK, Jobs
<1>2. run[r].tree \in Part
    BY <1>1 DEF RunType
<1>3. FactsOf(m, files) \in Part /\ KeyOf(m, run[r].tree) \in Names
    BY <1>1, <1>2, TreeTypes DEF Names
<1>4. \A n \in Names : disk[n] # Gone => Clean(disk[n])
    BY DEF CleanInv
<1>5. job[<<r, m>>].facts # Gone => Clean(job[<<r, m>>].facts)
    BY <1>1 DEF CleanInv
<1>6. CASE disk' = disk /\ CleanWork
    BY <1>4, <1>6 DEF CleanInv
<1>7. CASE Get(r, m)
    <2> DEFINE f == disk[KeyOf(m, run[r].tree)]
    <2>1. f \in Part /\ disk' = disk
        BY <1>7 DEF Get, Found
    <2>2. Clean(f)
        BY <1>1, <1>3, <1>4, <2>1
    <2>3. Set(r, m, [NoJob EXCEPT !.step = "hit", !.facts = f])
        BY <1>7 DEF Get
    <2> HIDE DEF f
    <2> DEFINE s == [NoJob EXCEPT !.step = "hit", !.facts = f]
    <2>5. s \in JobType /\ s.facts = f
        BY <2>1, FactsJob
    <2>6. Set(r, m, s)
        BY <2>3
    <2> HIDE DEF s
    <2>4. CleanWork
        BY <2>2, <2>5, <2>6, CleanJobs
    <2> QED
        BY <1>6, <2>1, <2>4
<1>8. CASE Miss(r, m) \/ LoadFails(r, m) \/ PutFails(r, m) \/ WalkWithin(r, m) \/ EvictEnds(r, m)
    <2>1. /\ \E s \in {"miss", "done"} : Set(r, m, [NoJob EXCEPT !.step = s])
          /\ disk' = disk
        BY <1>8, Zenon DEF Miss, LoadFails, PutFails, WalkWithin, EvictEnds
    <2>2. CleanWork
        BY <2>1, IdleJob, CleanJobs
    <2> QED
        BY <1>6, <2>1, <2>2
<1>9. CASE Load(r, m)
    <2> DEFINE f == FactsOf(m, files)
    <2>1. disk' = disk
        BY <1>9 DEF Load
    <2>2. \/ Clean(f) /\ Set(r, m, [NoJob EXCEPT !.step = "loaded", !.facts = f])
          \/ Set(r, m, [NoJob EXCEPT !.step = "done"])
        BY <1>9, Zenon DEF Load
    <2> HIDE DEF f
    <2>3. CASE Clean(f) /\ Set(r, m, [NoJob EXCEPT !.step = "loaded", !.facts = f])
        <3>1. f \in Part
            BY <1>3 DEF f
        <3> DEFINE s == [NoJob EXCEPT !.step = "loaded", !.facts = f]
        <3>3. s \in JobType /\ s.facts = f
            BY <3>1, FactsJob
        <3>4. Set(r, m, s) /\ Clean(f)
            BY <2>3
        <3> HIDE DEF s
        <3>2. CleanWork
            BY <3>3, <3>4, CleanJobs
        <3> QED
            BY <1>6, <2>1, <3>2
    <2>4. CASE Set(r, m, [NoJob EXCEPT !.step = "done"])
        <3>1. CleanWork
            BY <2>4, IdleJob, CleanJobs
        <3> QED
            BY <1>6, <2>1, <3>1
    <2> QED
        BY <2>2, <2>3, <2>4
<1>10. ASSUME NEW t \in Temps, WriteTemp(r, m, t) PROVE CleanInv'
    <2>1. CleanWork
        BY <1>10, TempJob, CleanJobs DEF WriteTemp
    <2>2. disk' = [disk EXCEPT ![t] = job[<<r, m>>].facts]
        BY <1>10 DEF WriteTemp
    <2>3. CleanDisk
        BY <1>1, <1>4, <1>5, <2>2
    <2> QED
        BY <2>1, <2>3 DEF CleanInv
<1>11. CASE Rename(r, m)
    <2> DEFINE t == job[<<r, m>>].temp
               k == KeyOf(m, run[r].tree)
    <2>1. t \in Temps /\ t \in Names
        BY <1>1, <1>11, JobFields DEF Rename, Names
    <2>2. \E s \in {"done", "renamed"} : Set(r, m, [NoJob EXCEPT !.step = s])
        BY <1>11, Zenon DEF Rename
    <2>3. CleanWork
        BY <2>2, IdleJob, CleanJobs
    <2>4. disk' = disk \/ disk' = [disk EXCEPT ![k] = disk[t], ![t] = Gone]
        BY <1>11, Zenon DEF Rename
    <2> HIDE DEF t, k
    <2>5. CleanDisk
        BY <1>1, <1>4, <2>1, <2>4
    <2> QED
        BY <2>3, <2>5 DEF CleanInv
<1>12. CASE WalkOver(r, m)
    <2>1. Present \in SUBSET Names /\ Cardinality(Present) \in Nat
        BY PresentFinite DEF Present
    <2>2. CleanWork
        BY <1>12, <2>1, EvictJob, CleanJobs DEF WalkOver
    <2> QED
        BY <1>6, <1>12, <2>2 DEF WalkOver
<1>13. ASSUME NEW n \in Names, EvictOne(r, m, n) PROVE CleanInv'
    <2>1. disk' = [disk EXCEPT ![n] = Gone]
        BY <1>13 DEF EvictOne
    <2>2. CleanDisk
        BY <1>1, <1>4, <2>1
    <2>3. PICK j \in JobType : Set(r, m, j) /\ j.facts = Gone /\ j.temp = Gone
        BY <1>13, EvictSets
    <2>4. CleanWork
        BY <2>3, CleanJobs
    <2> QED
        BY <2>2, <2>4 DEF CleanInv
<1> QED
    BY <1>7, <1>8, <1>9, <1>10, <1>11, <1>12, <1>13 DEF Work

\* The end of a run leaves no facts in its jobs, and the facts of the others.
LEMMA EndsKeepFacts ==
    ASSUME TypeOK, NEW r \in Runs, Finish(r) \/ Crash(r)
    PROVE  /\ \A x \in Jobs : x[1] = r => job'[x] = NoJob
           /\ \A x \in Jobs : x[1] # r => /\ job'[x].step = job[x].step
                                       /\ job'[x].facts = job[x].facts
                                       /\ job'[x].temp = job[x].temp
           /\ run' = [run EXCEPT ![r] = NoRun]
           /\ UNCHANGED <<work, files, disk>>
<1>1. CASE Finish(r)
    <2>1. job' = [x \in Jobs |-> IF x[1] = r THEN NoJob ELSE job[x]]
        BY <1>1 DEF Finish, Jobs
    <2> QED
        BY <1>1, <2>1 DEF Finish
<1>2. CASE Crash(r)
    <2>1. job' = [x \in Jobs |-> Abandoned(x, r, Cardinality(WritesOf(r)))]
        BY <1>2 DEF Crash, Jobs
    <2>2. /\ \A x \in Jobs : x[1] = r => job'[x] = NoJob
          /\ \A x \in Jobs : x[1] # r => /\ job'[x].step = job[x].step
                                      /\ job'[x].facts = job[x].facts
                                      /\ job'[x].temp = job[x].temp
        BY <2>1, AbandonedType
    <2>3. run' = [run EXCEPT ![r] = NoRun] /\ UNCHANGED <<work, files, disk>>
        BY <1>2 DEF Crash
    <2> QED
        BY <2>2, <2>3
<1> QED
    BY <1>1, <1>2

LEMMA NextClean == TypeOK /\ CleanInv /\ [Next]_vars => CleanInv'
<1> SUFFICES ASSUME TypeOK, CleanInv, [Next]_vars PROVE CleanInv'
    OBVIOUS
<1>1. ASSUME NEW r \in Runs, NEW m \in Members, Work(r, m) PROVE CleanInv'
    BY <1>1, WorkClean
<1>2. ASSUME NEW r \in Runs, Finish(r) \/ Crash(r) PROVE CleanInv'
    BY <1>2, EndsKeepFacts, NoJobType DEF CleanInv
<1>3. ASSUME NEW r \in Runs, Start(r) PROVE CleanInv'
    BY <1>3 DEF Start, CleanInv
<1>4. ASSUME NEW t \in Trees, Edit(t) PROVE CleanInv'
    BY <1>4 DEF Edit, CleanInv
<1>5. CASE UNCHANGED vars
    BY <1>5 DEF vars, CleanInv
<1> QED
    BY <1>1, <1>2, <1>3, <1>4, <1>5 DEF Next

\* No hit replays the facts of a load with errors, whatever runs overlap, crash
\* or see the source change under them.
THEOREM HitsAreClean == Spec => []HitIsClean
<1>1. Init => CleanInv
    BY NoJobType DEF Init, CleanInv, Jobs
<1>2. TypeOK /\ CleanInv => HitIsClean
    <2> SUFFICES ASSUME TypeOK, CleanInv, NEW r \in Runs, NEW m \in Members,
                        job[r, m].step = "hit"
                 PROVE  Clean(job[r, m].facts)
        BY DEF HitIsClean
    <2>1. job[<<r, m>>] \in JobType /\ <<r, m>> \in Jobs
        BY DEF TypeOK, Jobs
    <2> QED
        BY <2>1, JobFields DEF CleanInv
<1> QED
    BY <1>1, <1>2, TypeCorrect, NextClean, PTL DEF Spec

-----------------------------------------------------------------------------
(* A hit is fresh.                                                          *)

\* The facts, the key and the cached members of a workspace w.
FactsIn(w, m, t) ==
    [n \in Source |-> IF n \in Closure(w.imports, m) THEN t[n] ELSE Unread]
KeyIn(w, m, t) ==
    <<m, [n \in Members |-> IF n \in Closure(w.requires, m) THEN t[n] ELSE Unread]>>
CachedIn(w) == {m \in Members : Closure(w.requires, m) \cap Foreign = {}}

LEMMA InWork ==
    /\ Cacheable = CachedIn(work)
    /\ \A m \in Members : \A t : FactsOf(m, t) = FactsIn(work, m, t) /\ KeyOf(m, t) = KeyIn(work, m, t)
    BY DEF Cacheable, CachedIn, FactsOf, FactsIn, KeyOf, KeyIn, Needs, Keyed

\* What is imported is keyed, when every import is required.
LEMMA ImportsAreKeyed ==
    ASSUME Tidy, NEW w \in Workspaces, NEW m \in Source
    PROVE  Closure(w.imports, m) \subseteq Closure(w.requires, m)
<1> SUFFICES ASSUME NEW n \in Closure(w.imports, m), NEW S \in SUBSET Source,
                    m \in S, \A k \in S : w.requires[k] \subseteq S
             PROVE  n \in S
    BY DEF Closure
<1>1. \A k \in S : w.imports[k] \subseteq S
    BY DEF Tidy
<1> QED
    BY <1>1 DEF Closure

\* A key names one set of facts.
LEMMA KeyNamesFacts ==
    ASSUME Tidy, NEW w \in Workspaces, NEW m \in CachedIn(w), NEW o \in Members,
           NEW t \in Trees, NEW u \in Trees, KeyIn(w, m, t) = KeyIn(w, o, u)
    PROVE  m = o /\ FactsIn(w, m, t) = FactsIn(w, o, u)
<1> DEFINE inputs(v) == [n \in Members |-> IF n \in Closure(w.requires, m) THEN v[n] ELSE Unread]
<1>1. m \in Members /\ Closure(w.requires, m) \cap Foreign = {}
    BY DEF CachedIn
<1>2. m = o
    BY DEF KeyIn
<1>3. inputs(t) = inputs(u)
    BY <1>2 DEF KeyIn
<1>4. Closure(w.requires, m) \subseteq Members
    BY <1>1 DEF Closure, Source
<1>5. Closure(w.imports, m) \subseteq Closure(w.requires, m)
    BY <1>1, ImportsAreKeyed DEF Source
<1>6. ASSUME NEW n \in Closure(w.imports, m) PROVE t[n] = u[n]
    <2>1. n \in Members /\ n \in Closure(w.requires, m)
        BY <1>4, <1>5
    <2>2. inputs(t)[n] = t[n] /\ inputs(u)[n] = u[n]
        BY <2>1
    <2> QED
        BY <1>3, <2>2
<1> QED
    BY <1>2, <1>6 DEF FactsIn

\* A run sees the tree it hashed, an idle one has no jobs under way, what jobs
\* and temporary files hold are the facts of that tree, no two jobs share a
\* temporary file, and every entry holds the facts that its key names.
FreshInv ==
    /\ \A r \in Runs : run[r].phase = "busy" => run[r].tree = files
    /\ \A x \in Jobs : run[x[1]].phase = "idle" => job[x].facts = Gone /\ job[x].temp = Gone
    /\ \A x \in Jobs : job[x].facts # Gone =>
            x[2] \in CachedIn(work) /\ job[x].facts = FactsIn(work, x[2], files)
    /\ \A x \in Jobs : job[x].temp # Gone =>
            /\ x[2] \in CachedIn(work)
            /\ disk[job[x].temp] \in {Gone, FactsIn(work, x[2], files)}
    /\ \A x, y \in Jobs : job[x].temp # Gone /\ job[x].temp = job[y].temp => x = y
    /\ \A m \in CachedIn(work), t \in Trees :
            disk[KeyIn(work, m, t)] \in {Gone, FactsIn(work, m, t)}

\* A job step keeps FreshInv when what it sets and what it leaves on disk is fresh.
LEMMA FreshStep ==
    ASSUME TypeOK, FreshInv, NEW r \in Runs, NEW m \in Members, NEW j \in JobType,
           Set(r, m, j), UNCHANGED <<work, files, run>>, run[r].phase = "busy",
           j.facts # Gone => m \in CachedIn(work) /\ j.facts = FactsIn(work, m, files),
           j.temp # Gone =>
                /\ m \in CachedIn(work)
                /\ disk'[j.temp] \in {Gone, FactsIn(work, m, files)}
                /\ \A x \in Jobs : x # <<r, m>> => job[x].temp # j.temp,
           \A x \in Jobs : x # <<r, m>> /\ job[x].temp # Gone =>
                disk'[job[x].temp] \in {Gone, disk[job[x].temp]},
           \A o \in CachedIn(work), t \in Trees :
                disk'[KeyIn(work, o, t)] \in {Gone, FactsIn(work, o, t)}
    PROVE  FreshInv'
<1>1. /\ job'[<<r, m>>] = j /\ <<r, m>> \in Jobs
      /\ \A x \in Jobs : x # <<r, m>> => job'[x] = job[x]
    BY SetType DEF Jobs
<1>2. work' = work /\ files' = files /\ run' = run
    OBVIOUS
<1>3. (\A o \in Runs : run[o].phase = "busy" => run[o].tree = files)'
    BY <1>2 DEF FreshInv
<1>4. (\A x \in Jobs : run[x[1]].phase = "idle" => job[x].facts = Gone /\ job[x].temp = Gone)'
    BY <1>1, <1>2 DEF FreshInv
<1>5. (\A x \in Jobs : job[x].facts # Gone =>
            x[2] \in CachedIn(work) /\ job[x].facts = FactsIn(work, x[2], files))'
    BY <1>1, <1>2 DEF FreshInv
<1>6. ASSUME NEW x \in Jobs, job'[x].temp # Gone
      PROVE  /\ x[2] \in CachedIn(work')
             /\ disk'[job'[x].temp] \in {Gone, FactsIn(work', x[2], files')}
    <2>1. CASE x = <<r, m>>
        BY <1>1, <1>2, <1>6, <2>1
    <2>2. CASE x # <<r, m>>
        BY <1>1, <1>2, <1>6, <2>2 DEF FreshInv
    <2> QED
        BY <2>1, <2>2
<1>7. ASSUME NEW x \in Jobs, NEW y \in Jobs, job'[x].temp # Gone, job'[x].temp = job'[y].temp
      PROVE  x = y
    BY <1>1, <1>7 DEF FreshInv
<1>8. (\A o \in CachedIn(work), t \in Trees :
            disk[KeyIn(work, o, t)] \in {Gone, FactsIn(work, o, t)})'
    BY <1>2
<1> QED
    BY <1>3, <1>4, <1>5, <1>6, <1>7, <1>8 DEF FreshInv

\* A step that writes no file and holds none.
LEMMA FreshIdle ==
    ASSUME TypeOK, FreshInv, NEW r \in Runs, NEW m \in Members, NEW j \in JobType,
           Set(r, m, j), UNCHANGED <<work, files, run>>, run[r].phase = "busy",
           j.facts # Gone => m \in CachedIn(work) /\ j.facts = FactsIn(work, m, files),
           j.temp = Gone, disk' = disk
    PROVE  FreshInv'
<1>1. \A o \in CachedIn(work), t \in Trees :
            disk'[KeyIn(work, o, t)] \in {Gone, FactsIn(work, o, t)}
    BY DEF FreshInv
<1> QED
    BY <1>1, FreshStep

\* Keys are files of the cache, and no key is a temporary file.
LEMMA KeysAreNames ==
    ASSUME TypeOK, NEW m \in Members, NEW t \in Part
    PROVE  KeyIn(work, m, t) \in Names /\ KeyIn(work, m, t) \notin Temps
    BY TreeTypes, InWork DEF Names

LEMMA WorkFresh ==
    ASSUME Tidy, TypeOK, FreshInv, NEW r \in Runs, NEW m \in Members, Work(r, m)
    PROVE  FreshInv'
<1>1. /\ disk \in [Names -> Part \cup {Gone}] /\ Gone \notin Part
      /\ job[<<r, m>>] \in JobType /\ <<r, m>> \in Jobs
      /\ files \in Trees /\ files \in Part /\ work \in Workspaces
    BY TreesArePart DEF TypeOK, Jobs
<1>2. run[r].phase = "busy" /\ UNCHANGED <<work, files, run>>
    BY DEF Work, Get, Miss, Load, LoadFails, PutFails, Turn, WriteTemp, Rename, WalkWithin,
           WalkOver, EvictOne, EvictEnds
<1>3. run[r].tree = files
    BY <1>2 DEF FreshInv
<1> DEFINE f == FactsIn(work, m, files)
           k == KeyIn(work, m, files)
<1>4. f \in Part /\ k \in Names /\ k \notin Temps
    BY <1>1, TreeTypes, InWork, KeysAreNames
<1>5. FactsOf(m, files) = f /\ KeyOf(m, run[r].tree) = k /\ Cacheable = CachedIn(work)
    BY <1>3, InWork
<1>6. \A o \in CachedIn(work), t \in Trees :
            disk[KeyIn(work, o, t)] \in {Gone, FactsIn(work, o, t)}
    BY DEF FreshInv
<1>7. job[<<r, m>>].facts # Gone => m \in CachedIn(work) /\ job[<<r, m>>].facts = f
    BY <1>1 DEF FreshInv
<1> HIDE DEF f, k
<1>8. CASE Get(r, m)
    <2> DEFINE s == [NoJob EXCEPT !.step = "hit", !.facts = disk[k]]
    <2>1. m \in CachedIn(work) /\ disk[k] \in Part /\ disk' = disk
        BY <1>5, <1>8 DEF Get, Found
    <2>2. disk[k] = f
        BY <1>1, <1>6, <2>1 DEF f, k
    <2>3. s \in JobType /\ s.facts = f /\ s.temp = Gone
        BY <2>1, <2>2, FactsJob
    <2>4. Set(r, m, s)
        BY <1>5, <1>8 DEF Get
    <2> HIDE DEF s
    <2> QED
        BY <1>2, <2>1, <2>3, <2>4, FreshIdle DEF f
<1>9. CASE Miss(r, m) \/ LoadFails(r, m) \/ PutFails(r, m) \/ WalkWithin(r, m) \/ EvictEnds(r, m)
    <2>1. /\ \E s \in {"miss", "done"} : Set(r, m, [NoJob EXCEPT !.step = s])
          /\ disk' = disk
        BY <1>9, Zenon DEF Miss, LoadFails, PutFails, WalkWithin, EvictEnds
    <2>2. PICK j \in JobType : Set(r, m, j) /\ j.facts = Gone /\ j.temp = Gone
        BY <2>1, IdleJob
    <2> QED
        BY <1>2, <2>1, <2>2, FreshIdle
<1>10. CASE Load(r, m)
    <2>1. disk' = disk
        BY <1>10 DEF Load
    <2>2. \/ m \in CachedIn(work) /\ Set(r, m, [NoJob EXCEPT !.step = "loaded", !.facts = f])
          \/ Set(r, m, [NoJob EXCEPT !.step = "done"])
        BY <1>5, <1>10, Zenon DEF Load
    <2>3. CASE m \in CachedIn(work) /\ Set(r, m, [NoJob EXCEPT !.step = "loaded", !.facts = f])
        <3> DEFINE s == [NoJob EXCEPT !.step = "loaded", !.facts = f]
        <3>1. s \in JobType /\ s.facts = f /\ s.temp = Gone
            BY <1>4, FactsJob
        <3>2. Set(r, m, s) /\ m \in CachedIn(work)
            BY <2>3
        <3> HIDE DEF s
        <3> QED
            BY <1>2, <2>1, <3>1, <3>2, FreshIdle DEF f
    <2>4. CASE Set(r, m, [NoJob EXCEPT !.step = "done"])
        <3>1. PICK j \in JobType : Set(r, m, j) /\ j.facts = Gone /\ j.temp = Gone
            BY <2>4, IdleJob
        <3> QED
            BY <1>2, <2>1, <3>1, FreshIdle
    <2> QED
        BY <2>2, <2>3, <2>4
<1>11. ASSUME NEW t \in Temps, WriteTemp(r, m, t) PROVE FreshInv'
    <2> DEFINE s == [NoJob EXCEPT !.step = "temp", !.temp = t]
    <2>1. s \in JobType /\ s.facts = Gone /\ s.temp = t
        BY TempJob
    <2>2. Set(r, m, s) /\ disk' = [disk EXCEPT ![t] = job[<<r, m>>].facts]
          /\ \A x \in Jobs : job[x].temp # t
        BY <1>11 DEF WriteTemp, Jobs
    <2>3. job[<<r, m>>].facts # Gone
        BY <1>1, <1>11, JobFields DEF WriteTemp
    <2>4. t \in Names
        BY DEF Names
    <2>5. disk'[t] = f /\ \A n \in Names : n # t => disk'[n] = disk[n]
        BY <1>1, <1>7, <2>2, <2>3, <2>4
    <2>6. \A o \in CachedIn(work), u \in Trees :
              disk'[KeyIn(work, o, u)] \in {Gone, FactsIn(work, o, u)}
        BY <1>6, <2>5, KeysAreNames, TreesArePart DEF CachedIn
    <2>7. \A x \in Jobs : job[x].temp # Gone => job[x].temp \in Names
        BY JobFields DEF TypeOK, Jobs, Names
    <2>8. \A x \in Jobs : x # <<r, m>> /\ job[x].temp # Gone =>
              disk'[job[x].temp] \in {Gone, disk[job[x].temp]}
        BY <2>2, <2>5, <2>7
    <2> HIDE DEF s
    <2> QED
        BY <1>2, <1>7, <2>1, <2>2, <2>3, <2>5, <2>6, <2>8, FreshStep DEF f
<1>12. CASE Rename(r, m)
    <2> DEFINE t == job[<<r, m>>].temp
    <2>1. t \in Temps /\ t \in Names /\ t # Gone
        BY <1>1, <1>12, JobFields DEF Rename, Names
    <2>2. m \in CachedIn(work) /\ disk[t] \in {Gone, f}
        BY <1>1, <2>1 DEF FreshInv, f
    <2>3. \E s \in {"done", "renamed"} : Set(r, m, [NoJob EXCEPT !.step = s])
        BY <1>12, Zenon DEF Rename
    <2>4. PICK j \in JobType : Set(r, m, j) /\ j.facts = Gone /\ j.temp = Gone
        BY <2>3, IdleJob
    <2>9. \/ disk' = disk
          \/ /\ disk[t] # Gone
             /\ disk' = [disk EXCEPT ![KeyOf(m, run[r].tree)] = disk[t], ![t] = Gone]
        BY <1>12, Zenon DEF Rename
    <2>5. \/ disk' = disk
          \/ disk[t] # Gone /\ disk' = [disk EXCEPT ![k] = disk[t], ![t] = Gone]
        BY <1>5, <2>9, Zenon
    <2>6. \A x \in Jobs : x # <<r, m>> /\ job[x].temp # Gone => job[x].temp \in Temps /\ job[x].temp # t
        BY <1>1, <2>1, JobFields DEF TypeOK, Jobs, FreshInv
    <2> HIDE DEF t
    <2>7. CASE disk' = disk
        BY <1>2, <2>4, <2>7, FreshIdle
    <2>8. CASE disk[t] # Gone /\ disk' = [disk EXCEPT ![k] = disk[t], ![t] = Gone]
        <3>1. disk'[k] = f /\ \A n \in Names : n # k /\ n # t => disk'[n] = disk[n]
            BY <1>1, <1>4, <2>1, <2>2, <2>8
        <3>2. \A x \in Jobs : x # <<r, m>> /\ job[x].temp # Gone =>
                  disk'[job[x].temp] \in {Gone, disk[job[x].temp]}
            BY <1>4, <2>6, <3>1 DEF Names
        <3>3. ASSUME NEW o \in CachedIn(work), NEW u \in Trees
              PROVE  disk'[KeyIn(work, o, u)] \in {Gone, FactsIn(work, o, u)}
            <4>1. KeyIn(work, o, u) \in Names /\ KeyIn(work, o, u) # t
                BY <2>1, KeysAreNames, TreesArePart DEF CachedIn
            <4>2. CASE KeyIn(work, o, u) = k
                <5>1. f = FactsIn(work, o, u)
                    BY <1>1, <2>2, <4>2, KeyNamesFacts DEF CachedIn, f, k
                <5> QED
                    BY <3>1, <4>2, <5>1
            <4>3. CASE KeyIn(work, o, u) # k
                BY <1>6, <3>1, <4>1, <4>3
            <4> QED
                BY <4>2, <4>3
        <3> QED
            BY <1>2, <2>4, <3>2, <3>3, FreshStep
    <2> QED
        BY <2>5, <2>7, <2>8
<1>13. CASE WalkOver(r, m)
    <2>1. Present \in SUBSET Names /\ Cardinality(Present) \in Nat
        BY PresentFinite DEF Present
    <2> DEFINE s == [NoJob EXCEPT !.step = "evicting", !.left = Present,
                                  !.total = Cardinality(Present)]
    <2>2. s \in JobType /\ s.facts = Gone /\ s.temp = Gone
        BY <2>1, EvictJob
    <2>3. Set(r, m, s) /\ disk' = disk
        BY <1>13 DEF WalkOver
    <2> HIDE DEF s
    <2> QED
        BY <1>2, <2>2, <2>3, FreshIdle
<1>14. ASSUME NEW n \in Names, EvictOne(r, m, n) PROVE FreshInv'
    <2>1. PICK j \in JobType : Set(r, m, j) /\ j.facts = Gone /\ j.temp = Gone
        BY <1>14, EvictSets
    <2>2. disk' = [disk EXCEPT ![n] = Gone]
        BY <1>14 DEF EvictOne
    <2>3. \A o \in Names : disk'[o] \in {Gone, disk[o]}
        BY <1>1, <2>2
    <2>4. \A x \in Jobs : job[x].temp # Gone => job[x].temp \in Names
        BY JobFields DEF TypeOK, Jobs, Names
    <2>5. \A o \in CachedIn(work), u \in Trees :
              disk'[KeyIn(work, o, u)] \in {Gone, FactsIn(work, o, u)}
        BY <1>6, <2>3, KeysAreNames, TreesArePart DEF CachedIn
    <2> QED
        BY <1>2, <2>1, <2>3, <2>4, <2>5, FreshStep
<1> QED
    BY <1>8, <1>9, <1>10, <1>11, <1>12, <1>13, <1>14 DEF Work

LEMMA NextFresh ==
    ASSUME Tidy, ~EditsInRun, TypeOK, FreshInv, [Next]_vars
    PROVE  FreshInv'
<1>1. ASSUME NEW r \in Runs, NEW m \in Members, Work(r, m) PROVE FreshInv'
    BY <1>1, WorkFresh
<1>2. ASSUME NEW r \in Runs, Finish(r) \/ Crash(r) PROVE FreshInv'
    <2>1. /\ \A x \in Jobs : x[1] = r => job'[x] = NoJob
          /\ \A x \in Jobs : x[1] # r => /\ job'[x].step = job[x].step
                                     /\ job'[x].facts = job[x].facts
                                     /\ job'[x].temp = job[x].temp
          /\ run' = [run EXCEPT ![r] = NoRun] /\ NoRun.phase = "idle"
          /\ work' = work /\ files' = files /\ disk' = disk
        BY <1>2, EndsKeepFacts DEF NoRun
    <2>2. \A x \in Jobs : job'[x].facts \in {Gone, job[x].facts} /\ job'[x].temp \in {Gone, job[x].temp}
        BY <2>1, NoJobType
    <2>3. run \in [Runs -> RunType] /\ \A x \in Jobs : x[1] \in Runs
        BY DEF TypeOK, Jobs
    <2>4. (\A o \in Runs : run[o].phase = "busy" => run[o].tree = files)'
        BY <2>1, <2>3 DEF FreshInv
    <2>5. (\A x \in Jobs : run[x[1]].phase = "idle" => job[x].facts = Gone /\ job[x].temp = Gone)'
        BY <2>1, <2>3, NoJobType DEF FreshInv
    <2>6. (\A x \in Jobs : job[x].facts # Gone =>
              x[2] \in CachedIn(work) /\ job[x].facts = FactsIn(work, x[2], files))'
        BY <2>1, <2>2 DEF FreshInv
    <2>7. (\A x \in Jobs : job[x].temp # Gone =>
              /\ x[2] \in CachedIn(work)
              /\ disk[job[x].temp] \in {Gone, FactsIn(work, x[2], files)})'
        BY <2>1, <2>2 DEF FreshInv
    <2>8. (\A x, y \in Jobs : job[x].temp # Gone /\ job[x].temp = job[y].temp => x = y)'
        BY <2>2 DEF FreshInv
    <2>9. (\A m \in CachedIn(work), t \in Trees :
              disk[KeyIn(work, m, t)] \in {Gone, FactsIn(work, m, t)})'
        BY <2>1 DEF FreshInv
    <2> QED
        BY <2>4, <2>5, <2>6, <2>7, <2>8, <2>9 DEF FreshInv
<1>3. ASSUME NEW r \in Runs, Start(r) PROVE FreshInv'
    <2>1. /\ run' = [run EXCEPT ![r] = [phase |-> "busy", tree |-> files]]
          /\ work' = work /\ files' = files /\ disk' = disk /\ job' = job
        BY <1>3 DEF Start
    <2>2. run \in [Runs -> RunType] /\ \A x \in Jobs : x[1] \in Runs
        BY DEF TypeOK, Jobs
    <2>3. (\A o \in Runs : run[o].phase = "busy" => run[o].tree = files)'
        BY <2>1, <2>2 DEF FreshInv
    <2>4. (\A x \in Jobs : run[x[1]].phase = "idle" => job[x].facts = Gone /\ job[x].temp = Gone)'
        BY <2>1, <2>2 DEF FreshInv
    <2> QED
        BY <2>1, <2>3, <2>4 DEF FreshInv
<1>4. ASSUME NEW t \in Trees, Edit(t) PROVE FreshInv'
    <2>1. (\A r \in Runs : run[r].phase = "idle") /\ UNCHANGED <<work, disk, run, job>>
        BY <1>4 DEF Edit
    <2>2. \A x \in Jobs : job[x].facts = Gone /\ job[x].temp = Gone
        BY <2>1 DEF FreshInv, Jobs
    <2> QED
        BY <2>1, <2>2 DEF FreshInv
<1>5. CASE UNCHANGED vars
    BY <1>5 DEF vars, FreshInv
<1> QED
    BY <1>1, <1>2, <1>3, <1>4, <1>5 DEF Next

\* When no source changes under a run and every import is required, a hit is
\* what a load of the tree that the run hashed would give.
THEOREM HitsAreFresh ==
    ASSUME Tidy, ~EditsInRun
    PROVE  Spec => []HitIsFresh
<1>1. Init => FreshInv
    <2> SUFFICES ASSUME Init PROVE FreshInv
        OBVIOUS
    <2>1. /\ \A n \in Names : disk[n] = Gone
          /\ \A r \in Runs : run[r].phase = "idle"
          /\ \A x \in Jobs : job[x].facts = Gone /\ job[x].temp = Gone
        BY NoJobType DEF Init, NoRun, Jobs
    <2>2. \A m \in CachedIn(work), t \in Trees : disk[KeyIn(work, m, t)] = Gone
        BY <2>1, InitType, KeysAreNames, TreesArePart DEF CachedIn
    <2> QED
        BY <2>1, <2>2 DEF FreshInv
<1>2. TypeOK /\ FreshInv /\ [Next]_vars => FreshInv'
    BY NextFresh
<1>3. TypeOK /\ FreshInv => HitIsFresh
    <2> SUFFICES ASSUME TypeOK, FreshInv, NEW r \in Runs, NEW m \in Members,
                        job[r, m].step = "hit"
                 PROVE  job[r, m].facts = FactsOf(m, run[r].tree)
        BY DEF HitIsFresh
    <2>1. job[<<r, m>>] \in JobType /\ <<r, m>> \in Jobs /\ run[r] \in RunType
        BY DEF TypeOK, Jobs
    <2>2. job[<<r, m>>].facts # Gone
        BY <2>1, JobFields
    <2>3. run[r].phase = "busy"
        BY <2>1, <2>2 DEF FreshInv, RunType
    <2>4. job[<<r, m>>].facts = FactsIn(work, m, run[r].tree)
        BY <2>1, <2>2, <2>3 DEF FreshInv
    <2> QED
        BY <2>4, InWork
<1> QED
    BY <1>1, <1>2, <1>3, TypeCorrect, PTL DEF Spec

-----------------------------------------------------------------------------
(* The cap of the cache: whatever evictions overlap and whatever crashes   *)
(* leave behind, the files above the cap are writes under way, or writes   *)
(* that a crash cut short since the last complete eviction.                *)
(*                                                                         *)
(* An eviction knows the files it listed, and other runs write and remove  *)
(* files meanwhile: what it brings down is not what is there when it ends. *)
(* The invariant says what there is for each file above the cap.  A writer *)
(* backs the file it put until its own walk, which makes it an evictor.    *)
(* The evictors are ordered by their walks, and each answers for itself    *)
(* and the later ones: what its list misses is backed, or was put by a     *)
(* later one, so that the cap is kept without it once it has ended.        *)

HIDE FactCacheAssumption

-----------------------------------------------------------------------------
(* Counting.                                                                *)

LEMMA CountSubset ==
    ASSUME NEW T, IsFiniteSet(T), NEW S \in SUBSET T
    PROVE  /\ IsFiniteSet(S) /\ Cardinality(S) \in Nat /\ Cardinality(T) \in Nat
           /\ Cardinality(S) <= Cardinality(T)
    BY FS_Subset, FS_CardinalityType

\* A set with at most one element more.
LEMMA CountOneMore ==
    ASSUME NEW T, IsFiniteSet(T), NEW x, NEW S \in SUBSET (T \cup {x})
    PROVE  /\ Cardinality(S) \in Nat /\ Cardinality(T) \in Nat
           /\ Cardinality(S) <= Cardinality(T) + 1
<1>0. Cardinality(T) \in Nat
    BY FS_CardinalityType
<1>1. IsFiniteSet(T \cup {x}) /\ Cardinality(T \cup {x}) <= Cardinality(T) + 1
    BY <1>0, FS_AddElement
<1>2. Cardinality(S) <= Cardinality(T \cup {x}) /\ Cardinality(S) \in Nat
    BY <1>1, CountSubset
<1>3. Cardinality(T) \in Nat /\ Cardinality(T \cup {x}) \in Nat
    BY <1>1, FS_CardinalityType
<1> QED
    BY <1>1, <1>2, <1>3

\* A set with at least one element more.
LEMMA CountOneLess ==
    ASSUME NEW T, IsFiniteSet(T), NEW x \in T, NEW S \in SUBSET (T \ {x})
    PROVE  /\ Cardinality(S) \in Nat /\ Cardinality(T) \in Nat
           /\ Cardinality(S) + 1 <= Cardinality(T)
<1>1. IsFiniteSet(T \ {x}) /\ Cardinality(T \ {x}) = Cardinality(T) - 1
    BY FS_RemoveElement
<1>2. Cardinality(S) <= Cardinality(T \ {x}) /\ Cardinality(S) \in Nat
    BY <1>1, CountSubset
<1>3. Cardinality(T) \in Nat
    BY FS_CardinalityType
<1> QED
    BY <1>1, <1>2, <1>3

\* A set is no larger than two that cover it.
LEMMA CountCover ==
    ASSUME NEW T, IsFiniteSet(T), NEW U, IsFiniteSet(U), NEW S \in SUBSET (T \cup U)
    PROVE  /\ Cardinality(S) \in Nat /\ Cardinality(T) \in Nat /\ Cardinality(U) \in Nat
           /\ Cardinality(S) <= Cardinality(T) + Cardinality(U)
<1>1. /\ IsFiniteSet(T \cup U) /\ IsFiniteSet(T \cap U)
      /\ Cardinality(T \cup U) = Cardinality(T) + Cardinality(U) - Cardinality(T \cap U)
    BY FS_Union, FS_Subset
<1>2. Cardinality(S) <= Cardinality(T \cup U) /\ Cardinality(S) \in Nat
    BY <1>1, CountSubset
<1>3. Cardinality(T) \in Nat /\ Cardinality(U) \in Nat /\ Cardinality(T \cap U) \in Nat
    BY <1>1, FS_CardinalityType
<1> QED
    BY <1>1, <1>2, <1>3

\* What is counted goes from A to A2, what backs it from B to B2.
LEMMA PaidByNone ==
    ASSUME NEW A, IsFiniteSet(A), NEW B2, IsFiniteSet(B2),
           NEW A2 \in SUBSET A, NEW B \in SUBSET B2
    PROVE  Cardinality(A2) + Cardinality(B) <= Cardinality(A) + Cardinality(B2)
<1>1. /\ Cardinality(A2) <= Cardinality(A) /\ Cardinality(B) <= Cardinality(B2)
      /\ Cardinality(A2) \in Nat /\ Cardinality(A) \in Nat
      /\ Cardinality(B) \in Nat /\ Cardinality(B2) \in Nat
    BY CountSubset
<1> QED
    BY <1>1

LEMMA PaidByOneMore ==
    ASSUME NEW A, IsFiniteSet(A), NEW B2, IsFiniteSet(B2), NEW n, NEW x \in B2,
           NEW A2 \in SUBSET (A \cup {n}), NEW B \in SUBSET (B2 \ {x})
    PROVE  Cardinality(A2) + Cardinality(B) <= Cardinality(A) + Cardinality(B2)
<1>1. /\ Cardinality(A2) <= Cardinality(A) + 1
      /\ Cardinality(A2) \in Nat /\ Cardinality(A) \in Nat
    BY CountOneMore
<1>2. /\ Cardinality(B) + 1 <= Cardinality(B2)
      /\ Cardinality(B) \in Nat /\ Cardinality(B2) \in Nat
    BY CountOneLess
<1> QED
    BY <1>1, <1>2

LEMMA PaidByOneLess ==
    ASSUME NEW A, IsFiniteSet(A), NEW B2, IsFiniteSet(B2), NEW n \in A, NEW x,
           NEW A2 \in SUBSET (A \ {n}), NEW B \in SUBSET (B2 \cup {x})
    PROVE  Cardinality(A2) + Cardinality(B) <= Cardinality(A) + Cardinality(B2)
<1>1. /\ Cardinality(A2) + 1 <= Cardinality(A)
      /\ Cardinality(A2) \in Nat /\ Cardinality(A) \in Nat
    BY CountOneLess
<1>2. /\ Cardinality(B) <= Cardinality(B2) + 1
      /\ Cardinality(B) \in Nat /\ Cardinality(B2) \in Nat
    BY CountOneMore
<1> QED
    BY <1>1, <1>2

LEMMA PaidBySwap ==
    ASSUME NEW A, IsFiniteSet(A), NEW B2, IsFiniteSet(B2), NEW n \in A, NEW k,
           NEW A2 \in SUBSET ((A \ {n}) \cup {k}), NEW B \in SUBSET B2
    PROVE  Cardinality(A2) + Cardinality(B) <= Cardinality(A) + Cardinality(B2)
<1>1. IsFiniteSet(A \ {n})
    BY FS_Subset
<1>2. /\ Cardinality(A \ {n}) + 1 <= Cardinality(A)
      /\ Cardinality(A \ {n}) \in Nat /\ Cardinality(A) \in Nat
    BY CountOneLess
<1>3. /\ Cardinality(A2) <= Cardinality(A \ {n}) + 1 /\ Cardinality(A2) \in Nat
    BY <1>1, CountOneMore
<1>4. /\ Cardinality(B) <= Cardinality(B2)
      /\ Cardinality(B) \in Nat /\ Cardinality(B2) \in Nat
    BY CountSubset
<1> QED
    BY <1>2, <1>3, <1>4

\* There are finitely many jobs.
LEMMA JobsFinite == IsFiniteSet(Jobs)
<1>1. IsFiniteSet(Runs) /\ IsFiniteSet(Members)
    BY FactCacheAssumption
<1> QED
    BY <1>1, FS_Product, Zenon DEF Jobs

LEMMA Bounds == MaxFiles \in Nat /\ EvictTo \in Nat /\ EvictTo <= MaxFiles /\ MaxLost \in Nat
    BY FactCacheAssumption

\* The lesser of two numbers is one of them, and no greater than either.
LEMMA MinIsLesser ==
    ASSUME NEW x \in Nat, NEW y \in Nat
    PROVE  /\ Min({x, y}) \in Nat /\ Min({x, y}) \in {x, y}
           /\ Min({x, y}) <= x /\ Min({x, y}) <= y
<1>1. \E z \in {x, y} : \A w \in {x, y} : z <= w
    OBVIOUS
<1>2. Min({x, y}) \in {x, y} /\ \A w \in {x, y} : Min({x, y}) <= w
    BY <1>1 DEF Min
<1> QED
    BY <1>2

-----------------------------------------------------------------------------
(* The invariant.                                                           *)

\* A writer backs the file it put: its temporary file while that is there, and
\* what it renamed until its walk.
Backing(j) == (j.step = "temp" /\ disk[j.temp] # Gone) \/ j.step = "renamed"

Backers == {z \in Jobs : Backing(job[z])}
Evictors == {z \in Jobs : job[z].step = "evicting"}

\* The backers whose file the walk of x did not list.
Fresh(x) == {z \in Backers : job[z].step = "temp" => job[z].temp \notin job[x].left}

\* The order in which the evictions that are under way walked the cache: a later
\* one has outlived no more interrupted writes.
Order(R) ==
    /\ R \in SUBSET (Evictors \X Evictors)
    /\ \A x \in Evictors : <<x, x>> \notin R
    /\ \A x, y, z \in Evictors : <<x, y>> \in R /\ <<y, z>> \in R => <<x, z>> \in R
    /\ \A x, y \in Evictors : x # y => <<x, y>> \in R \/ <<y, x>> \in R
    /\ \A x, y \in Evictors : <<x, y>> \in R => job[y].after <= job[x].after

Later(R, x) == {z \in Evictors : <<x, z>> \in R}

\* The cache is within its cap but for s lost writes, the backers and L.
WithinCap(L, s) == Cardinality(Present) <= MaxFiles + s + Cardinality(Backers \cup L)

\* What x does not remove is s lost writes, or backed since its walk, or of L.
Reclaimed(x, L, s) ==
    Cardinality(Present \ job[x].left) <= s + Cardinality(Fresh(x) \cup L)

\* What x has to answer for once it ends and `lost' is set back to what it outlived.
Covered(R, x) ==
    \/ WithinCap(Later(R, x), lost) /\ WithinCap(Later(R, x), job[x].after)
    \/ Reclaimed(x, Later(R, x), lost) /\ Reclaimed(x, Later(R, x), job[x].after)

TempsAreOwn ==
    \A x, y \in Jobs : job[x].step = "temp" /\ job[y].step = "temp" /\ job[x].temp = job[y].temp
        => x = y

CapInv ==
    /\ lost <= MaxLost
    /\ TempsAreOwn
    /\ WithinCap(Evictors, lost)
    /\ \A x \in Evictors : Cardinality(job[x].left) <= job[x].total
    /\ \E R : Order(R) /\ \A x \in Evictors : Covered(R, x)

\* The sets that are counted are finite.
LEMMA CountedFinite ==
    /\ IsFiniteSet(Backers) /\ IsFiniteSet(Evictors)
    /\ \A x : IsFiniteSet(Fresh(x)) /\ IsFiniteSet(Present \ job[x].left)
    /\ \A L \in SUBSET Jobs : IsFiniteSet(Backers \cup L) /\ \A x : IsFiniteSet(Fresh(x) \cup L)
<1>1. \A S \in SUBSET Jobs : IsFiniteSet(S)
    BY JobsFinite, FS_Subset
<1>2. Backers \subseteq Jobs /\ Evictors \subseteq Jobs /\ \A x : Fresh(x) \subseteq Jobs
    BY DEF Backers, Evictors, Fresh
<1>3. \A x : IsFiniteSet(Present \ job[x].left)
    BY PresentFinite, FS_Subset
<1> QED
    BY <1>1, <1>2, <1>3

LEMMA CountedFiniteAfter ==
    /\ IsFiniteSet(Present')
    /\ \A x : IsFiniteSet(Present' \ job'[x].left)
    /\ \A L \in SUBSET Jobs : IsFiniteSet(Backers' \cup L) /\ \A x : IsFiniteSet(Fresh(x)' \cup L)
<1> DEFINE P == /\ IsFiniteSet(Present)
                /\ \A x : IsFiniteSet(Present \ job[x].left)
                /\ \A L \in SUBSET Jobs : IsFiniteSet(Backers \cup L) /\ \A x : IsFiniteSet(Fresh(x) \cup L)
<1>1. P
    BY PresentFinite, CountedFinite
<1>2. P'
    BY <1>1, PTL
<1> QED
    BY <1>2

\* What a well-typed job's fields are.
LEMMA JobOf ==
    ASSUME TypeOK, NEW x \in Jobs
    PROVE  /\ job[x] \in JobType
           /\ job[x].left \in SUBSET Names /\ job[x].total \in Nat /\ job[x].after \in Nat
           /\ job[x].temp # Gone <=> job[x].step = "temp"
           /\ job[x].temp \in Temps \cup {Gone}
<1>1. job[x] \in JobType
    BY DEF TypeOK, Jobs
<1> QED
    BY <1>1, JobFields

\* The cap holds: whoever backs a file or evicts is writing.
LEMMA CapFollows == TypeOK /\ CapInv => CapHolds
<1> SUFFICES ASSUME TypeOK, CapInv PROVE CapHolds
    OBVIOUS
<1> DEFINE writing == {x \in Runs \X Members : job[x].step \in Writing}
<1>1. writing \subseteq Jobs /\ Backers \cup Evictors \subseteq writing
    BY DEF Jobs, Backers, Evictors, Backing, Writing
<1>2. IsFiniteSet(writing)
    BY <1>1, JobsFinite, FS_Subset
<1>3. Cardinality(Backers \cup Evictors) <= Cardinality(writing)
      /\ Cardinality(Backers \cup Evictors) \in Nat /\ Cardinality(writing) \in Nat
    BY <1>1, <1>2, CountSubset
<1>4. Cardinality(Present) <= MaxFiles + lost + Cardinality(Backers \cup Evictors)
    BY DEF CapInv, WithinCap
<1>5. lost \in Nat /\ Cardinality(Present) \in Nat
    BY PresentFinite DEF TypeOK
<1> HIDE DEF writing
<1>6. Cardinality(Present) <= MaxFiles + lost + Cardinality(writing)
    BY <1>3, <1>4, <1>5, Bounds
<1> QED
    BY <1>6 DEF CapHolds, Present, writing

-----------------------------------------------------------------------------
(* Steps that leave the evictions under way as they are.                     *)

\* Every count is a number, before and after a step.
CountsAreNumbers ==
    /\ Cardinality(Present) \in Nat
    /\ \A L \in SUBSET Jobs : Cardinality(Backers \cup L) \in Nat
    /\ \A x : Cardinality(Present \ job[x].left) \in Nat
    /\ \A x : \A L \in SUBSET Jobs : Cardinality(Fresh(x) \cup L) \in Nat

LEMMA Counted == CountsAreNumbers
BY PresentFinite, CountedFinite, FS_CardinalityType DEF CountsAreNumbers

LEMMA CountedAfter == CountsAreNumbers'
BY Counted, PTL

\* Enough of what was put stays backed: no count of files grows by more than
\* the count of what backs them.
LEMMA StepKeepsCap ==
    ASSUME TypeOK, TypeOK', CapInv, lost' = lost, TempsAreOwn', Evictors' = Evictors,
           \A x \in Evictors : /\ job'[x].after = job[x].after
                               /\ Cardinality(job'[x].left) <= job'[x].total,
           \A L \in SUBSET Evictors :
               Cardinality(Present') + Cardinality(Backers \cup L)
                   <= Cardinality(Present) + Cardinality(Backers' \cup L),
           \A x \in Evictors : \A L \in SUBSET Evictors :
               Cardinality(Present' \ job'[x].left) + Cardinality(Fresh(x) \cup L)
                   <= Cardinality(Present \ job[x].left) + Cardinality(Fresh(x)' \cup L)
    PROVE  CapInv'
<1>0. Evictors \subseteq Jobs /\ lost \in Nat
    BY DEF Evictors, TypeOK
<1>1. ASSUME NEW L \in SUBSET Evictors, NEW s \in Nat, WithinCap(L, s) PROVE WithinCap(L, s)'
    <2>1. /\ Cardinality(Present) \in Nat /\ Cardinality(Present') \in Nat
          /\ Cardinality(Backers \cup L) \in Nat /\ Cardinality(Backers' \cup L) \in Nat
        BY <1>0, Counted, CountedAfter DEF CountsAreNumbers
    <2>2. Cardinality(Present') + Cardinality(Backers \cup L)
              <= Cardinality(Present) + Cardinality(Backers' \cup L)
        OBVIOUS
    <2>3. Cardinality(Present) <= MaxFiles + s + Cardinality(Backers \cup L)
        BY <1>1 DEF WithinCap
    <2>4. Cardinality(Present') <= MaxFiles + s + Cardinality(Backers' \cup L)
        BY <2>1, <2>2, <2>3, Bounds
    <2> QED
        BY <2>4 DEF WithinCap
<1>2. ASSUME NEW x \in Evictors, NEW L \in SUBSET Evictors, NEW s \in Nat, Reclaimed(x, L, s)
      PROVE  Reclaimed(x, L, s)'
    <2>1. /\ Cardinality(Present \ job[x].left) \in Nat
          /\ Cardinality(Present' \ job'[x].left) \in Nat
          /\ Cardinality(Fresh(x) \cup L) \in Nat /\ Cardinality(Fresh(x)' \cup L) \in Nat
        BY <1>0, Counted, CountedAfter DEF CountsAreNumbers
    <2>2. Cardinality(Present' \ job'[x].left) + Cardinality(Fresh(x) \cup L)
              <= Cardinality(Present \ job[x].left) + Cardinality(Fresh(x)' \cup L)
        OBVIOUS
    <2>3. Cardinality(Present \ job[x].left) <= s + Cardinality(Fresh(x) \cup L)
        BY <1>2 DEF Reclaimed
    <2>4. Cardinality(Present' \ job'[x].left) <= s + Cardinality(Fresh(x)' \cup L)
        BY <2>1, <2>2, <2>3
    <2> QED
        BY <2>4 DEF Reclaimed
<1>3. PICK R : Order(R) /\ \A x \in Evictors : Covered(R, x)
    BY DEF CapInv
<1>4. Order(R)'
    BY <1>3 DEF Order
<1>5. ASSUME NEW x \in Evictors PROVE Covered(R, x)'
    <2>1. Later(R, x)' = Later(R, x) /\ Later(R, x) \in SUBSET Evictors
        BY DEF Later
    <2>2. job[x].after \in Nat /\ job'[x].after = job[x].after
        BY <1>0, JobOf
    <2> QED
        BY <1>0, <1>1, <1>2, <1>3, <2>1, <2>2 DEF Covered
<1>6. WithinCap(Evictors, lost)'
    BY <1>0, <1>1 DEF CapInv
<1> QED
    BY <1>4, <1>5, <1>6 DEF CapInv

\* A step that moves no writer and no evictor.
LEMMA QuietKeepsCap ==
    ASSUME TypeOK, TypeOK', CapInv, disk' = disk, lost' = lost,
           \A y \in Jobs : \/ job'[y] = job[y]
                           \/ /\ ~Backing(job[y]) /\ job[y].step # "evicting"
                              /\ job'[y].step \notin Writing
    PROVE  CapInv'
<1>1. Backers' = Backers /\ Evictors' = Evictors /\ Present' = Present
    BY DEF Backers, Evictors, Present, Backing, Writing
<1>2. \A z \in Backers \cup Evictors : job'[z] = job[z]
    BY DEF Backers, Evictors
<1>3. \A x \in Evictors : Fresh(x)' = Fresh(x)
    BY <1>1, <1>2 DEF Fresh
<1>4. TempsAreOwn'
    BY DEF CapInv, TempsAreOwn, Writing
<1>5. Evictors \subseteq Jobs
    BY DEF Evictors
<1>6. \A x \in Evictors : /\ job'[x].after = job[x].after
                          /\ Cardinality(job'[x].left) <= job'[x].total
    BY <1>2 DEF CapInv
<1>7. \A L \in SUBSET Evictors :
          Cardinality(Present') + Cardinality(Backers \cup L)
              <= Cardinality(Present) + Cardinality(Backers' \cup L)
    BY <1>1, <1>5, PaidByNone, PresentFinite, CountedFinite
<1>8. ASSUME NEW x \in Evictors, NEW L \in SUBSET Evictors
      PROVE  Cardinality(Present' \ job'[x].left) + Cardinality(Fresh(x) \cup L)
                 <= Cardinality(Present \ job[x].left) + Cardinality(Fresh(x)' \cup L)
    <2>1. Present' \ job'[x].left \subseteq Present \ job[x].left
          /\ Fresh(x) \cup L \subseteq Fresh(x)' \cup L
        BY <1>1, <1>2, <1>3
    <2>2. IsFiniteSet(Present \ job[x].left) /\ IsFiniteSet(Fresh(x)' \cup L)
        BY <1>5, CountedFinite, CountedFiniteAfter
    <2> QED
        BY <2>1, <2>2, PaidByNone
<1> QED
    BY <1>1, <1>4, <1>6, <1>7, <1>8, StepKeepsCap

\* A temporary file comes with its writer.
LEMMA WriteKeepsCap ==
    ASSUME TypeOK, TypeOK', CapInv, NEW x \in Jobs, NEW t \in Temps, lost' = lost,
           job[x].step = "loaded", disk[t] = Gone, \A y \in Jobs : job[y].temp # t,
           disk'[t] # Gone, \A n \in Names \ {t} : disk'[n] = disk[n],
           job'[x].step = "temp", job'[x].temp = t,
           \A y \in Jobs \ {x} : job'[y] = job[y]
    PROVE  CapInv'
<1>1. Evictors' = Evictors /\ Evictors \subseteq Jobs /\ x \notin Evictors
    BY DEF Evictors
<1>2. Present' = Present \cup {t} /\ t \notin Present
    BY DEF Present, Names
<1>3. Backers' = Backers \cup {x} /\ x \notin Backers
    <2>1. ASSUME NEW y \in Jobs \ {x} PROVE Backing(job[y])' <=> Backing(job[y])
        <3>1. job'[y] = job[y] /\ job[y].temp # t
            OBVIOUS
        <3>2. job[y].step = "temp" => job[y].temp \in Names
            BY JobOf DEF Names
        <3> QED
            BY <3>1, <3>2 DEF Backing
    <2> QED
        BY <2>1 DEF Backers, Backing
<1>4. TempsAreOwn'
    BY DEF CapInv, TempsAreOwn
<1>5. \A y \in Evictors : /\ job'[y] = job[y]
                          /\ Cardinality(job'[y].left) <= job'[y].total
    BY <1>1 DEF CapInv
<1>6. ASSUME NEW L \in SUBSET Evictors
      PROVE  Cardinality(Present') + Cardinality(Backers \cup L)
                 <= Cardinality(Present) + Cardinality(Backers' \cup L)
    <2>1. Backers \cup L \subseteq (Backers' \cup L) \ {x} /\ x \in Backers' \cup L
        BY <1>1, <1>3
    <2>2. IsFiniteSet(Backers' \cup L)
        BY <1>1, CountedFiniteAfter
    <2>3. Present' \subseteq Present \cup {t}
        BY <1>2
    <2> QED
        BY <2>1, <2>2, <2>3, PresentFinite, PaidByOneMore
<1>7. ASSUME NEW e \in Evictors, NEW L \in SUBSET Evictors
      PROVE  Cardinality(Present' \ job'[e].left) + Cardinality(Fresh(e) \cup L)
                 <= Cardinality(Present \ job[e].left) + Cardinality(Fresh(e)' \cup L)
    <2>0. Backers \subseteq Jobs
        BY DEF Backers
    <2>1. job'[e] = job[e] /\ \A z \in Backers : job'[z] = job[z]
        BY <1>3, <1>5, <2>0
    <2>2. IsFiniteSet(Present \ job[e].left) /\ IsFiniteSet(Fresh(e)' \cup L)
        BY <1>1, CountedFinite, CountedFiniteAfter
    <2>3. CASE t \in job[e].left
        <3>1. Present' \ job'[e].left \subseteq Present \ job[e].left
            BY <1>2, <2>1, <2>3
        <3>2. Fresh(e) \cup L \subseteq Fresh(e)' \cup L
            BY <1>3, <2>1, <2>3 DEF Fresh
        <3> QED
            BY <2>2, <3>1, <3>2, PaidByNone
    <2>4. CASE t \notin job[e].left
        <3>1. Present' \ job'[e].left \subseteq (Present \ job[e].left) \cup {t}
            BY <1>2, <2>1
        <3>2. Fresh(e)' = Fresh(e) \cup {x} /\ x \notin Fresh(e)
            BY <1>3, <2>1, <2>4 DEF Fresh
        <3>3. Fresh(e) \cup L \subseteq (Fresh(e)' \cup L) \ {x} /\ x \in Fresh(e)' \cup L
            BY <1>1, <3>2
        <3> QED
            BY <2>2, <3>1, <3>3, PaidByOneMore
    <2> QED
        BY <2>3, <2>4
<1> QED
    BY <1>1, <1>4, <1>5, <1>6, <1>7, StepKeepsCap

\* A rename gives a temporary file the name of an entry, which may be there.
LEMMA RenameKeepsCap ==
    ASSUME TypeOK, TypeOK', CapInv, NEW x \in Jobs, NEW t \in Temps, NEW k \in Key, lost' = lost,
           job[x].step = "temp", job[x].temp = t, disk[t] # Gone,
           disk'[t] = Gone, disk'[k] # Gone, \A n \in Names \ {t, k} : disk'[n] = disk[n],
           job'[x].step = "renamed", \A y \in Jobs \ {x} : job'[y] = job[y]
    PROVE  CapInv'
<1>1. Evictors' = Evictors /\ Evictors \subseteq Jobs /\ x \notin Evictors
    BY DEF Evictors
<1>2. k # t /\ t \in Present /\ Present' \subseteq (Present \ {t}) \cup {k}
    BY FactCacheAssumption DEF Present, Names
<1>3. Backers' = Backers /\ x \in Backers /\ Backers \subseteq Jobs
    <2>1. ASSUME NEW y \in Jobs \ {x} PROVE Backing(job[y])' <=> Backing(job[y])
        <3>1. job'[y] = job[y]
            OBVIOUS
        <3>2. job[y].step = "temp" => job[y].temp \in Names \ {t, k}
            BY JobOf, FactCacheAssumption DEF Names, CapInv, TempsAreOwn
        <3> QED
            BY <3>1, <3>2 DEF Backing
    <2>2. Backing(job[x]) /\ Backing(job[x])'
        BY DEF Backing
    <2> QED
        BY <2>1, <2>2 DEF Backers
<1>4. TempsAreOwn'
    BY DEF CapInv, TempsAreOwn
<1>5. \A y \in Evictors : /\ job'[y] = job[y]
                          /\ Cardinality(job'[y].left) <= job'[y].total
    BY <1>1 DEF CapInv
<1>6. ASSUME NEW L \in SUBSET Evictors
      PROVE  Cardinality(Present') + Cardinality(Backers \cup L)
                 <= Cardinality(Present) + Cardinality(Backers' \cup L)
    <2>1. Backers \cup L \subseteq Backers' \cup L /\ IsFiniteSet(Backers' \cup L)
        BY <1>1, <1>3, CountedFiniteAfter
    <2> QED
        BY <1>2, <2>1, PresentFinite, PaidBySwap
<1>7. ASSUME NEW e \in Evictors, NEW L \in SUBSET Evictors
      PROVE  Cardinality(Present' \ job'[e].left) + Cardinality(Fresh(e) \cup L)
                 <= Cardinality(Present \ job[e].left) + Cardinality(Fresh(e)' \cup L)
    <2>1. job'[e] = job[e] /\ \A z \in Backers \ {x} : job'[z] = job[z]
        BY <1>3, <1>5
    <2>2. IsFiniteSet(Present \ job[e].left) /\ IsFiniteSet(Fresh(e)' \cup L)
        BY <1>1, CountedFinite, CountedFiniteAfter
    <2>3. Fresh(e)' = Fresh(e) \cup {x}
        BY <1>3, <2>1 DEF Fresh
    <2>4. CASE t \in job[e].left
        <3>1. Present' \ job'[e].left \subseteq (Present \ job[e].left) \cup {k}
            BY <1>2, <2>1
        <3>2. x \notin Fresh(e)
            BY <2>4 DEF Fresh
        <3>3. Fresh(e) \cup L \subseteq (Fresh(e)' \cup L) \ {x} /\ x \in Fresh(e)' \cup L
            BY <1>1, <2>3, <3>2
        <3> QED
            BY <2>2, <3>1, <3>3, PaidByOneMore
    <2>5. CASE t \notin job[e].left
        <3>1. /\ t \in Present \ job[e].left
              /\ Present' \ job'[e].left \subseteq ((Present \ job[e].left) \ {t}) \cup {k}
            BY <1>2, <2>1, <2>5
        <3>2. Fresh(e) \cup L \subseteq Fresh(e)' \cup L
            BY <2>3
        <3> QED
            BY <2>2, <3>1, <3>2, PaidBySwap
    <2> QED
        BY <2>4, <2>5
<1> QED
    BY <1>1, <1>4, <1>5, <1>6, <1>7, StepKeepsCap

\* An eviction removes a file of its list, which may back a writer.
LEMMA EvictOneKeepsCap ==
    ASSUME TypeOK, TypeOK', CapInv, NEW x \in Jobs, NEW n \in Names, lost' = lost,
           job[x].step = "evicting", n \in job[x].left,
           disk'[n] = Gone, \A o \in Names \ {n} : disk'[o] = disk[o],
           job'[x].step = "evicting", job'[x].after = job[x].after,
           job'[x].left = job[x].left \ {n}, job'[x].total >= job[x].total - 1,
           \A y \in Jobs \ {x} : job'[y] = job[y]
    PROVE  CapInv'
<1> DEFINE Hit(y) == job[y].step = "temp" /\ job[y].temp = n
<1>1. Evictors' = Evictors /\ Evictors \subseteq Jobs /\ x \in Evictors
    BY DEF Evictors
<1>2. Present' = Present \ {n}
    BY DEF Present
<1>3. Backers \subseteq Jobs /\ x \notin Backers /\ \A y \in Backers : job'[y] = job[y]
    BY DEF Backers, Backing
<1>4. \A y \in Backers : ~Hit(y) => y \in Backers'
    <2> SUFFICES ASSUME NEW y \in Backers, ~Hit(y) PROVE Backing(job[y])'
        BY DEF Backers
    <2>1. y \in Jobs /\ Backing(job[y]) /\ job'[y] = job[y]
        BY <1>3 DEF Backers
    <2>2. job[y].step = "temp" => job[y].temp \in Names \ {n}
        BY <2>1, JobOf DEF Names
    <2> QED
        BY <2>1, <2>2 DEF Backing
<1>5. \E z : \A y \in Backers : Hit(y) => y = z
    <2>1. \A y, z \in Backers : Hit(y) /\ Hit(z) => y = z
        BY <1>3 DEF CapInv, TempsAreOwn
    <2> QED
        BY <2>1
<1>6. \A y \in Backers : Hit(y) => n \in Present
    BY <1>3 DEF Backers, Backing, Present
<1> HIDE DEF Hit
<1>7. PICK z : \A y \in Backers : Hit(y) => y = z
    BY <1>5
<1>8. TempsAreOwn'
    BY DEF CapInv, TempsAreOwn
<1>9. \A y \in Evictors : /\ job'[y].after = job[y].after
                          /\ Cardinality(job'[y].left) <= job'[y].total
    <2>1. \A y \in Evictors \ {x} : job'[y] = job[y]
        BY <1>1
    <2>2. Cardinality(job'[x].left) <= job'[x].total
        <3>1. IsFiniteSet(job[x].left)
            BY JobOf, FactCacheAssumption, FS_Subset
        <3>2. /\ Cardinality(job'[x].left) + 1 <= Cardinality(job[x].left)
              /\ Cardinality(job'[x].left) \in Nat /\ Cardinality(job[x].left) \in Nat
            BY <3>1, CountOneLess
        <3>3. Cardinality(job[x].left) <= job[x].total
            BY <1>1 DEF CapInv
        <3>4. job[x].total \in Nat /\ job'[x].total \in Nat
            BY JobOf DEF TypeOK, Jobs, JobType, Job
        <3> QED
            BY <3>2, <3>3, <3>4
    <2> QED
        BY <2>1, <2>2 DEF CapInv
<1>10. ASSUME NEW L \in SUBSET Evictors
      PROVE  Cardinality(Present') + Cardinality(Backers \cup L)
                 <= Cardinality(Present) + Cardinality(Backers' \cup L)
    <2>1. IsFiniteSet(Backers' \cup L)
        BY <1>1, CountedFiniteAfter
    <2>2. CASE n \in Present
        <3>1. Backers \cup L \subseteq (Backers' \cup L) \cup {z}
            BY <1>4, <1>7
        <3> QED
            BY <1>2, <2>1, <2>2, <3>1, PresentFinite, PaidByOneLess
    <2>3. CASE n \notin Present
        <3>1. Backers \cup L \subseteq Backers' \cup L
            BY <1>4, <1>6, <2>3
        <3>2. Present' \subseteq Present
            BY <1>2
        <3> QED
            BY <2>1, <3>1, <3>2, PresentFinite, PaidByNone
    <2> QED
        BY <2>2, <2>3
<1>11. ASSUME NEW e \in Evictors, NEW L \in SUBSET Evictors
      PROVE  Cardinality(Present' \ job'[e].left) + Cardinality(Fresh(e) \cup L)
                 <= Cardinality(Present \ job[e].left) + Cardinality(Fresh(e)' \cup L)
    <2>1. job'[e].left = job[e].left \/ (n \in job[e].left /\ job'[e].left = job[e].left \ {n})
        BY <1>1
    <2>2. IsFiniteSet(Present \ job[e].left) /\ IsFiniteSet(Fresh(e)' \cup L)
        BY <1>1, CountedFinite, CountedFiniteAfter
    <2>3. \A y \in Fresh(e) : ~Hit(y) => y \in Fresh(e)'
        BY <1>3, <1>4, <2>1 DEF Fresh
    <2>4. CASE n \in job[e].left \/ n \notin Present
        <3>1. Present' \ job'[e].left \subseteq Present \ job[e].left
            BY <1>2, <2>1
        <3>2. \A y \in Fresh(e) : ~Hit(y)
            BY <1>6, <2>4 DEF Fresh, Hit
        <3>3. Fresh(e) \cup L \subseteq Fresh(e)' \cup L
            BY <2>3, <3>2
        <3> QED
            BY <2>2, <3>1, <3>3, PaidByNone
    <2>5. CASE n \notin job[e].left /\ n \in Present
        <3>1. /\ n \in Present \ job[e].left
              /\ Present' \ job'[e].left \subseteq (Present \ job[e].left) \ {n}
            BY <1>2, <2>1, <2>5
        <3>2. Fresh(e) \subseteq Backers
            BY DEF Fresh
        <3>3. Fresh(e) \cup L \subseteq (Fresh(e)' \cup L) \cup {z}
            BY <1>7, <2>3, <3>2
        <3> QED
            BY <2>2, <3>1, <3>3, PaidByOneLess
    <2> QED
        BY <2>4, <2>5
<1> QED
    BY <1>1, <1>8, <1>9, <1>10, <1>11, StepKeepsCap

-----------------------------------------------------------------------------
(* Steps that change what there is to answer for.                            *)

\* A bound carries over to more of what backs it, and more lost writes.
LEMMA BoundCarries ==
    ASSUME NEW P \in SUBSET Names, NEW C \in SUBSET Jobs, NEW B \in SUBSET C,
           NEW s \in Nat, NEW q \in Nat, s <= q
    PROVE  /\ Cardinality(P) <= MaxFiles + s + Cardinality(B)
                => Cardinality(P) <= MaxFiles + q + Cardinality(C)
           /\ Cardinality(P) <= s + Cardinality(B) => Cardinality(P) <= q + Cardinality(C)
<1>1. IsFiniteSet(C) /\ IsFiniteSet(P)
    BY JobsFinite, FactCacheAssumption, FS_Subset
<1>2. /\ Cardinality(B) <= Cardinality(C)
      /\ Cardinality(B) \in Nat /\ Cardinality(C) \in Nat
    BY <1>1, CountSubset
<1>3. Cardinality(P) \in Nat
    BY <1>1, FS_CardinalityType
<1> QED
    BY <1>2, <1>3, Bounds

\* What backed it goes, and its writes are lost.
LEMMA BoundOutlasts ==
    ASSUME NEW P \in SUBSET Names, NEW C \in SUBSET Jobs, NEW W \in SUBSET Jobs,
           NEW B \in SUBSET (C \cup W), NEW s \in Nat, NEW n \in Nat, Cardinality(W) <= n
    PROVE  /\ Cardinality(P) <= MaxFiles + s + Cardinality(B)
                => Cardinality(P) <= MaxFiles + (s + n) + Cardinality(C)
           /\ Cardinality(P) <= s + Cardinality(B) => Cardinality(P) <= (s + n) + Cardinality(C)
<1>1. IsFiniteSet(C) /\ IsFiniteSet(W) /\ IsFiniteSet(P)
    BY JobsFinite, FactCacheAssumption, FS_Subset
<1>2. /\ Cardinality(B) <= Cardinality(C) + Cardinality(W)
      /\ Cardinality(B) \in Nat /\ Cardinality(C) \in Nat /\ Cardinality(W) \in Nat
    BY <1>1, CountCover
<1>3. Cardinality(P) \in Nat
    BY <1>1, FS_CardinalityType
<1> QED
    BY <1>2, <1>3, Bounds

\* A walk that finds the cache within its cap makes up for every lost write.
LEMMA WalkWithinKeepsCap ==
    ASSUME TypeOK, TypeOK', CapInv, NEW x \in Jobs, disk' = disk, lost' = 0,
           job[x].step = "renamed", Cardinality(Present) <= MaxFiles,
           job'[x].step = "done", \A y \in Jobs \ {x} : job'[y] = job[y]
    PROVE  CapInv'
<1>1. /\ Evictors' = Evictors /\ Evictors \subseteq Jobs
      /\ \A y \in Evictors : job'[y] = job[y]
    BY DEF Evictors
<1>2. Cardinality(Present') <= MaxFiles /\ Cardinality(Present') \in Nat
    <2>1. Present' = Present
        BY DEF Present
    <2> QED
        BY <2>1, PresentFinite, Zenon
<1>3. ASSUME NEW L \in SUBSET Jobs, NEW s \in Nat PROVE WithinCap(L, s)'
    <2>1. Cardinality(Backers' \cup L) \in Nat
        BY CountedAfter DEF CountsAreNumbers
    <2>2. Cardinality(Present') <= MaxFiles + s + Cardinality(Backers' \cup L)
        BY <1>2, <2>1, Bounds
    <2> QED
        BY <2>2 DEF WithinCap
<1>4. TempsAreOwn'
    BY DEF CapInv, TempsAreOwn
<1>5. PICK R : Order(R) /\ \A y \in Evictors : Covered(R, y)
    BY DEF CapInv
<1>6. Order(R)'
    BY <1>1, <1>5 DEF Order
<1>7. ASSUME NEW y \in Evictors PROVE Covered(R, y)'
    <2>1. Later(R, y)' = Later(R, y) /\ Later(R, y) \in SUBSET Jobs
        BY <1>1 DEF Later
    <2>2. job'[y].after \in Nat
        BY <1>1, JobOf
    <2>3. /\ Cardinality(Present') <= MaxFiles + lost' + Cardinality(Backers' \cup Later(R, y))
          /\ Cardinality(Present') <= MaxFiles + job'[y].after + Cardinality(Backers' \cup Later(R, y))
        BY <1>3, <2>1, <2>2 DEF WithinCap
    <2> QED
        BY <2>1, <2>3 DEF Covered, WithinCap
<1>8. WithinCap(Evictors, lost)'
    BY <1>1, <1>3 DEF WithinCap
<1>9. \A y \in Evictors : Cardinality(job'[y].left) <= job'[y].total
    BY <1>1 DEF CapInv
<1> QED
    BY <1>1, <1>4, <1>6, <1>7, <1>8, <1>9, Bounds DEF CapInv

\* A walk that finds the cache over its cap: a backer becomes the latest evictor,
\* and nothing is present that its list does not name.
LEMMA WalkOverKeepsCap ==
    ASSUME TypeOK, TypeOK', CapInv, NEW x \in Jobs, disk' = disk, lost' = lost,
           job[x].step = "renamed", job'[x].step = "evicting", job'[x].left = Present,
           job'[x].total = Cardinality(Present), job'[x].after = 0,
           \A y \in Jobs \ {x} : job'[y] = job[y]
    PROVE  CapInv'
<1>1. /\ Evictors \subseteq Jobs /\ x \notin Evictors /\ Evictors' = Evictors \cup {x}
      /\ \A y \in Evictors : job'[y] = job[y]
    BY DEF Evictors
<1>2. Present' = Present
    BY DEF Present
<1>3. x \in Backers /\ Backers \subseteq Jobs /\ Backers' = Backers \ {x}
    BY DEF Backers, Backing
<1>4. TempsAreOwn'
    BY DEF CapInv, TempsAreOwn
<1>5. PICK R : Order(R) /\ \A y \in Evictors : Covered(R, y)
    BY DEF CapInv
<1>6. PICK Q : Q = R \cup (Evictors \X {x})
    OBVIOUS
<1>7. /\ R \in SUBSET (Evictors \X Evictors)
       /\ \A y, z : <<y, z>> \in Q <=> <<y, z>> \in R \/ (y \in Evictors /\ z = x)
    BY <1>5, <1>6 DEF Order
<1>8. \A y \in Evictors : <<y, x>> \notin R /\ <<x, y>> \notin R
    BY <1>1, <1>7
<1>9. Order(Q)'
    <2>1. Q \in SUBSET (Evictors' \X Evictors')
        BY <1>1, <1>6, <1>7
    <2>2. \A y \in Evictors' : <<y, y>> \notin Q
        <3>1. \A y \in Evictors : <<y, y>> \notin R
            BY <1>5 DEF Order
        <3> QED
            BY <1>1, <1>7, <3>1
    <2>3. ASSUME NEW u \in Evictors', NEW y \in Evictors', NEW z \in Evictors',
                 <<u, y>> \in Q, <<y, z>> \in Q
          PROVE  <<u, z>> \in Q
        <3>1. u \in Evictors /\ y \in Evictors
            BY <1>1, <1>7, <2>3
        <3>2. <<u, y>> \in R
            BY <1>1, <1>7, <2>3, <3>1
        <3> QED
            BY <1>1, <1>5, <1>7, <2>3, <3>1, <3>2 DEF Order
    <2>4. \A y, z \in Evictors' : y # z => <<y, z>> \in Q \/ <<z, y>> \in Q
        BY <1>1, <1>5, <1>7 DEF Order
    <2>5. ASSUME NEW y \in Evictors', NEW z \in Evictors', <<y, z>> \in Q
          PROVE  job'[z].after <= job'[y].after
        <3>1. y \in Evictors
            BY <1>1, <1>7, <2>5
        <3>2. CASE <<y, z>> \in R
            BY <1>1, <1>5, <1>7, <3>1, <3>2 DEF Order
        <3>3. CASE z = x
            BY <1>1, <3>1, <3>3, JobOf
        <3> QED
            BY <1>7, <2>5, <3>2, <3>3
    <2> QED
        BY <2>1, <2>2, <2>3, <2>4, <2>5 DEF Order
<1>10. ASSUME NEW e \in Evictors PROVE Covered(Q, e)'
    <2>1. Later(Q, e)' = Later(R, e) \cup {x} /\ Later(R, e) \subseteq Jobs
        BY <1>1, <1>7 DEF Later
    <2>2. Backers' \cup Later(Q, e)' = Backers \cup Later(R, e)
        BY <1>3, <2>1
    <2>3. Fresh(e)' \cup Later(Q, e)' = Fresh(e) \cup Later(R, e)
        <3>1. Fresh(e)' = Fresh(e) \ {x} /\ x \in Fresh(e)
            BY <1>1, <1>3 DEF Fresh
        <3> QED
            BY <2>1, <3>1
    <2>4. Present' \ job'[e].left = Present \ job[e].left
        BY <1>1, <1>2
    <2>5. job'[e].after = job[e].after
        BY <1>1
    <2>6. /\ Cardinality(Present') = Cardinality(Present)
          /\ Cardinality(Present' \ job'[e].left) = Cardinality(Present \ job[e].left)
          /\ Cardinality(Backers' \cup Later(Q, e)') = Cardinality(Backers \cup Later(R, e))
          /\ Cardinality(Fresh(e)' \cup Later(Q, e)') = Cardinality(Fresh(e) \cup Later(R, e))
        BY <1>2, <2>2, <2>3, <2>4, Zenon
    <2>7. Covered(R, e)
        BY <1>5
    <2> QED
        BY <2>5, <2>6, <2>7 DEF Covered, WithinCap, Reclaimed
<1>11. Covered(Q, x)'
    <2>1. Present' \ job'[x].left = {}
        BY <1>2
    <2>2. Cardinality(Present' \ job'[x].left) = 0
        BY <2>1, FS_EmptySet, Zenon
    <2>3. Later(Q, x)' \subseteq Jobs
        BY <1>1 DEF Later
    <2>4. Cardinality(Fresh(x)' \cup Later(Q, x)') \in Nat
        BY <2>3, CountedAfter DEF CountsAreNumbers
    <2>5. lost' \in Nat /\ job'[x].after \in Nat
        BY DEF TypeOK
    <2>6. /\ Cardinality(Present' \ job'[x].left) <= lost' + Cardinality(Fresh(x)' \cup Later(Q, x)')
          /\ Cardinality(Present' \ job'[x].left)
                 <= job'[x].after + Cardinality(Fresh(x)' \cup Later(Q, x)')
        BY <2>2, <2>4, <2>5
    <2> QED
        BY <2>6 DEF Covered, Reclaimed
<1>12. WithinCap(Evictors, lost)'
    <2>1. Backers' \cup Evictors' = Backers \cup Evictors
        BY <1>1, <1>3
    <2>2. /\ Cardinality(Backers' \cup Evictors') = Cardinality(Backers \cup Evictors)
          /\ Cardinality(Present') = Cardinality(Present)
        BY <1>2, <2>1, Zenon
    <2>3. WithinCap(Evictors, lost)
        BY DEF CapInv
    <2> QED
        BY <2>2, <2>3 DEF WithinCap
<1>13. \A y \in Evictors' : Cardinality(job'[y].left) <= job'[y].total
    <2>1. Cardinality(job'[x].left) = job'[x].total
        BY Zenon
    <2>2. \A y \in Evictors : Cardinality(job'[y].left) <= job'[y].total
        BY <1>1 DEF CapInv
    <2>3. job'[x].total \in Nat
        BY PresentFinite
    <2> QED
        BY <1>1, <2>1, <2>2, <2>3
<1>14. \A y \in Evictors' : Covered(Q, y)'
    BY <1>1, <1>10, <1>11
<1>15. \E S : (Order(S) /\ \A y \in Evictors : Covered(S, y))'
    BY <1>9, <1>14
<1>16. lost' <= MaxLost
    BY DEF CapInv
<1> QED
    BY <1>4, <1>12, <1>13, <1>15, <1>16 DEF CapInv

\* An eviction that ends has brought the cache within its cap, but for what was
\* put since its walk and the writes lost since.
LEMMA EvictEndsKeepsCap ==
    ASSUME TypeOK, TypeOK', CapInv, NEW x \in Jobs, disk' = disk,
           job[x].step = "evicting", job[x].total <= EvictTo \/ job[x].left = {},
           lost' = Min({lost, job[x].after}), job'[x].step = "done",
           \A y \in Jobs \ {x} : job'[y] = job[y]
    PROVE  CapInv'
<1>1. /\ Evictors \subseteq Jobs /\ x \in Evictors /\ Evictors' = Evictors \ {x}
      /\ \A y \in Evictors' : job'[y] = job[y]
    BY DEF Evictors
<1>2. Present' = Present
    BY DEF Present
<1>3. /\ Backers' = Backers /\ Backers \subseteq Jobs
      /\ \A y \in Backers : job'[y] = job[y]
    BY DEF Backers, Backing
<1>4. \A y \in Evictors' : Fresh(y)' = Fresh(y) /\ Fresh(y) \subseteq Jobs
    BY <1>1, <1>3 DEF Fresh
<1>5. TempsAreOwn'
    BY DEF CapInv, TempsAreOwn
<1>6. PICK R : Order(R) /\ \A y \in Evictors : Covered(R, y)
    BY DEF CapInv
<1>7. \A y : Later(R, y) \subseteq Evictors /\ Later(R, y) \subseteq Jobs
    BY <1>1 DEF Later
<1>8. /\ lost \in Nat /\ job[x].after \in Nat
      /\ lost' \in Nat /\ lost' \in {lost, job[x].after}
      /\ lost' <= lost /\ lost' <= job[x].after
    <2>1. lost \in Nat /\ job[x].after \in Nat
        BY JobOf DEF TypeOK
    <2> QED
        BY <2>1, MinIsLesser
<1>9. ASSUME NEW s \in {lost, job[x].after}
      PROVE  Cardinality(Present) <= MaxFiles + s + Cardinality(Backers \cup Later(R, x))
    <2>1. Covered(R, x)
        BY <1>1, <1>6
    <2>2. CASE WithinCap(Later(R, x), lost) /\ WithinCap(Later(R, x), job[x].after)
        BY <2>2 DEF WithinCap
    <2>3. CASE Reclaimed(x, Later(R, x), lost) /\ Reclaimed(x, Later(R, x), job[x].after)
        <3>1. Cardinality(Present \ job[x].left) <= s + Cardinality(Fresh(x) \cup Later(R, x))
            BY <2>3 DEF Reclaimed
        <3>2. IsFiniteSet(job[x].left) /\ IsFiniteSet(Present \ job[x].left)
            BY JobOf, FactCacheAssumption, FS_Subset, CountedFinite
        <3>3. /\ Cardinality(Present) <= Cardinality(Present \ job[x].left) + Cardinality(job[x].left)
              /\ Cardinality(Present) \in Nat /\ Cardinality(job[x].left) \in Nat
              /\ Cardinality(Present \ job[x].left) \in Nat
            BY <3>2, CountCover
        <3>4. Cardinality(job[x].left) <= MaxFiles
            <4>1. CASE job[x].total <= EvictTo
                BY <1>1, <3>3, <4>1, Bounds, JobOf DEF CapInv
            <4>2. CASE job[x].left = {}
                BY <4>2, FS_EmptySet, Bounds
            <4> QED
                BY <4>1, <4>2
        <3>5. /\ Cardinality(Fresh(x) \cup Later(R, x)) <= Cardinality(Backers \cup Later(R, x))
              /\ Cardinality(Fresh(x) \cup Later(R, x)) \in Nat
              /\ Cardinality(Backers \cup Later(R, x)) \in Nat
            <4>1. Fresh(x) \cup Later(R, x) \subseteq Backers \cup Later(R, x)
                BY DEF Fresh
            <4> QED
                BY <1>7, <4>1, CountedFinite, CountSubset
        <3>6. s \in Nat
            BY <1>8
        <3> QED
            BY <3>1, <3>3, <3>4, <3>5, <3>6, Bounds
    <2> QED
        BY <2>1, <2>2, <2>3 DEF Covered
<1>10. PICK Q : Q = R \cap (Evictors' \X Evictors')
    OBVIOUS
<1>11. \A y, z \in Evictors' : <<y, z>> \in Q <=> <<y, z>> \in R
    BY <1>10
<1>12. Order(Q)'
    <2>1. Q \in SUBSET (Evictors' \X Evictors') /\ Evictors' \subseteq Evictors
        BY <1>1, <1>10
    <2> QED
        BY <1>1, <1>6, <1>11, <2>1 DEF Order
<1>13. ASSUME NEW e \in Evictors' PROVE Covered(Q, e)'
    <2>1. /\ e \in Evictors /\ e # x /\ e \in Jobs /\ job'[e] = job[e]
          /\ job[e].after \in Nat
        BY <1>1, JobOf
    <2>2. Later(Q, e)' = Later(R, e) \ {x} /\ Later(Q, e)' \subseteq Jobs
        BY <1>1, <1>11, <2>1 DEF Later
    <2>3. CASE <<e, x>> \in R
        <3>1. Later(R, x) \subseteq Later(Q, e)'
            BY <1>1, <1>6, <2>1, <2>2, <2>3 DEF Later, Order
        <3>2. /\ Backers' \cup Later(Q, e)' \in SUBSET Jobs
              /\ Backers \cup Later(R, x) \in SUBSET (Backers' \cup Later(Q, e)')
              /\ Present \in SUBSET Names
            BY <1>3, <2>2, <3>1 DEF Present
        <3>3. job[x].after <= job[e].after
            BY <1>1, <1>6, <2>1, <2>3 DEF Order
        <3>4. Cardinality(Present) <= MaxFiles + lost' + Cardinality(Backers' \cup Later(Q, e)')
            BY <1>8, <1>9, <3>2, BoundCarries
        <3>5. Cardinality(Present)
                  <= MaxFiles + job[e].after + Cardinality(Backers' \cup Later(Q, e)')
            BY <1>8, <1>9, <2>1, <3>2, <3>3, BoundCarries
        <3>6. Cardinality(Present') = Cardinality(Present) /\ job'[e].after = job[e].after
            BY <1>2, <2>1, Zenon
        <3> QED
            BY <3>4, <3>5, <3>6 DEF Covered, WithinCap
    <2>4. CASE <<x, e>> \in R
        <3>1. <<e, x>> \notin R
            BY <1>1, <1>6, <2>1, <2>4 DEF Order
        <3>2. Later(Q, e)' = Later(R, e)
            BY <2>2, <3>1 DEF Later
        <3>3. job[e].after <= job[x].after
            BY <1>1, <1>6, <2>1, <2>4 DEF Order
        <3>4. /\ Cardinality(Present') = Cardinality(Present)
              /\ Cardinality(Present' \ job'[e].left) = Cardinality(Present \ job[e].left)
              /\ Cardinality(Backers' \cup Later(Q, e)') = Cardinality(Backers \cup Later(R, e))
              /\ Cardinality(Fresh(e)' \cup Later(Q, e)') = Cardinality(Fresh(e) \cup Later(R, e))
            BY <1>2, <1>3, <1>4, <2>1, <3>2, Zenon
        <3>5. /\ Cardinality(Backers \cup Later(R, e)) \in Nat
              /\ Cardinality(Fresh(e) \cup Later(R, e)) \in Nat
              /\ Cardinality(Present) \in Nat /\ Cardinality(Present \ job[e].left) \in Nat
            BY <1>7, Counted DEF CountsAreNumbers
        <3>6. lost' = lost \/ (lost' \in Nat /\ job[e].after <= lost')
            BY <1>8, <3>3
        <3>7. Covered(R, e)
            BY <1>6, <2>1
        <3>8. CASE WithinCap(Later(R, e), lost) /\ WithinCap(Later(R, e), job[e].after)
            <4>1. /\ Cardinality(Present) <= MaxFiles + lost + Cardinality(Backers \cup Later(R, e))
                  /\ Cardinality(Present)
                         <= MaxFiles + job[e].after + Cardinality(Backers \cup Later(R, e))
                BY <3>8 DEF WithinCap
            <4>2. Cardinality(Present) <= MaxFiles + lost' + Cardinality(Backers \cup Later(R, e))
                BY <2>1, <3>5, <3>6, <4>1, Bounds
            <4> QED
                BY <2>1, <3>4, <4>1, <4>2 DEF Covered, WithinCap
        <3>9. CASE Reclaimed(e, Later(R, e), lost) /\ Reclaimed(e, Later(R, e), job[e].after)
            <4>1. /\ Cardinality(Present \ job[e].left) <= lost + Cardinality(Fresh(e) \cup Later(R, e))
                  /\ Cardinality(Present \ job[e].left)
                         <= job[e].after + Cardinality(Fresh(e) \cup Later(R, e))
                BY <3>9 DEF Reclaimed
            <4>2. Cardinality(Present \ job[e].left) <= lost' + Cardinality(Fresh(e) \cup Later(R, e))
                BY <2>1, <3>5, <3>6, <4>1
            <4> QED
                BY <2>1, <3>4, <4>1, <4>2 DEF Covered, Reclaimed
        <3> QED
            BY <3>7, <3>8, <3>9 DEF Covered
    <2>5. <<e, x>> \in R \/ <<x, e>> \in R
        BY <1>1, <1>6, <2>1 DEF Order
    <2> QED
        BY <2>3, <2>4, <2>5
<1>14. WithinCap(Evictors, lost)'
    <2>1. Later(R, x) \subseteq Evictors'
        BY <1>1, <1>6 DEF Later, Order
    <2>2. /\ Backers' \cup Evictors' \in SUBSET Jobs
          /\ Backers \cup Later(R, x) \in SUBSET (Backers' \cup Evictors')
          /\ Present \in SUBSET Names
        BY <1>1, <1>3, <2>1 DEF Present
    <2>3. Cardinality(Present) <= MaxFiles + lost' + Cardinality(Backers' \cup Evictors')
        BY <1>8, <1>9, <2>2, BoundCarries
    <2>4. Cardinality(Present') = Cardinality(Present)
        BY <1>2, Zenon
    <2> QED
        BY <2>3, <2>4 DEF WithinCap
<1>15. \A y \in Evictors' : Cardinality(job'[y].left) <= job'[y].total
    BY <1>1 DEF CapInv
<1>16. \E S : (Order(S) /\ \A y \in Evictors : Covered(S, y))'
    BY <1>12, <1>13
<1>17. lost' <= MaxLost
    BY <1>8, Bounds DEF CapInv
<1> QED
    BY <1>5, <1>14, <1>15, <1>16, <1>17 DEF CapInv

\* The jobs of r that write, which are as many as the members it writes.
WriterJobs(r) == {y \in Jobs : y[1] = r /\ job[y].step \in Writing}

LEMMA WritersCounted ==
    ASSUME NEW r \in Runs
    PROVE  Cardinality(WriterJobs(r)) <= Cardinality(WritesOf(r))
<1> DEFINE f == [m \in WritesOf(r) |-> <<r, m>>]
<1>1. IsFiniteSet(WritesOf(r))
    BY FactCacheAssumption, FS_Subset DEF WritesOf
<1>2. f \in Surjection(WritesOf(r), WriterJobs(r))
    <2>1. ASSUME NEW m \in WritesOf(r) PROVE f[m] \in WriterJobs(r)
        BY DEF WritesOf, WriterJobs, Jobs
    <2>2. ASSUME NEW y \in WriterJobs(r) PROVE \E m \in WritesOf(r) : f[m] = y
        <3>1. PICK m \in Members : y = <<r, m>>
            BY DEF WriterJobs, Jobs
        <3>2. m \in WritesOf(r)
            BY <3>1 DEF WriterJobs, WritesOf
        <3> QED
            BY <3>1, <3>2
    <2>3. f \in [WritesOf(r) -> WriterJobs(r)]
        BY <2>1
    <2> QED
        BY <2>2, <2>3 DEF Surjection
<1> HIDE DEF f
<1> QED
    BY <1>1, <1>2, FS_Surjection

\* What a crash leaves of the jobs of other runs: only how much an eviction has
\* outlived changes.
LEMMA CrashLeaves ==
    ASSUME TypeOK, NEW r \in Runs, NEW y \in Jobs, NEW n \in Nat, y[1] # r
    PROVE  /\ Abandoned(y, r, n).step = job[y].step
           /\ Abandoned(y, r, n).temp = job[y].temp
           /\ Abandoned(y, r, n).left = job[y].left
           /\ Abandoned(y, r, n).total = job[y].total
           /\ job[y].step = "evicting" =>
                  Abandoned(y, r, n).after = Min({MaxLost, job[y].after + n})
<1>1. job[y] \in Job
    BY JobOf, JobFields
<1> DEFINE a == Min({MaxLost, job[y].after + n})
<1>2. CASE job[y].step = "evicting"
    <2>1. Abandoned(y, r, n) = [job[y] EXCEPT !.after = a]
        BY <1>2 DEF Abandoned
    <2> HIDE DEF a
    <2>2. /\ [job[y] EXCEPT !.after = a].step = job[y].step
          /\ [job[y] EXCEPT !.after = a].temp = job[y].temp
          /\ [job[y] EXCEPT !.after = a].left = job[y].left
          /\ [job[y] EXCEPT !.after = a].total = job[y].total
          /\ [job[y] EXCEPT !.after = a].after = a
        BY <1>1 DEF Job
    <2> QED
        BY <2>1, <2>2 DEF a
<1>3. CASE job[y].step # "evicting"
    BY <1>3 DEF Abandoned
<1> QED
    BY <1>2, <1>3

\* A crash loses what its run was writing, and every eviction outlives it.
LEMMA CrashKeepsCap ==
    ASSUME TypeOK, TypeOK', CapInv, NEW r \in Runs, Crash(r)
    PROVE  CapInv'
<1>1. PICK n : n = Cardinality(WritesOf(r))
    OBVIOUS
<1>2. /\ n \in Nat /\ lost \in Nat /\ lost' = lost + n /\ lost' <= MaxLost /\ disk' = disk
    BY <1>1, WritesFinite DEF Crash, TypeOK
<1>3. \A y \in Jobs : job'[y] = Abandoned(y, r, n)
    BY <1>1 DEF Crash, Jobs
<1>4. \A y \in Jobs : y[1] = r => job'[y].step = "todo"
    BY <1>3, NoJobType DEF Abandoned
<1>5. \A y \in Jobs : y[1] # r =>
          /\ job'[y].step = job[y].step /\ job'[y].temp = job[y].temp
          /\ job'[y].left = job[y].left /\ job'[y].total = job[y].total
          /\ job[y].step = "evicting" => job'[y].after = Min({MaxLost, job[y].after + n})
    BY <1>2, <1>3, CrashLeaves
<1>6. PICK W : W = WriterJobs(r)
    OBVIOUS
<1>7. W \in SUBSET Jobs /\ Cardinality(W) <= n
    BY <1>1, <1>6, WritersCounted DEF WriterJobs
<1>8. Present' = Present /\ Present \in SUBSET Names
    BY <1>2 DEF Present
<1>9. /\ Evictors \subseteq Jobs /\ Backers \subseteq Jobs
      /\ Evictors' = {y \in Evictors : y[1] # r}
      /\ Backers' = {y \in Backers : y[1] # r}
    BY <1>2, <1>4, <1>5 DEF Evictors, Backers, Backing
<1>10. /\ \A y \in Evictors : y[1] = r => y \in W
       /\ \A y \in Backers : y[1] = r => y \in W
    BY <1>6, <1>9 DEF Evictors, Backers, Backing, WriterJobs, Writing
<1>11. TempsAreOwn'
    <2> SUFFICES ASSUME NEW y \in Jobs, NEW z \in Jobs, job'[y].step = "temp",
                        job'[z].step = "temp", job'[y].temp = job'[z].temp
                 PROVE  y = z
        BY DEF TempsAreOwn
    <2>1. y[1] # r /\ z[1] # r
        BY <1>4
    <2>2. /\ job[y].step = "temp" /\ job[z].step = "temp"
          /\ job[y].temp = job[z].temp
        BY <1>5, <2>1
    <2> QED
        BY <2>2 DEF CapInv, TempsAreOwn
<1>12. PICK R : Order(R) /\ \A y \in Evictors : Covered(R, y)
    BY DEF CapInv
<1>13. PICK Q : Q = R \cap (Evictors' \X Evictors')
    OBVIOUS
<1>14. \A y, z \in Evictors' : <<y, z>> \in Q <=> <<y, z>> \in R
    BY <1>13
<1>15. ASSUME NEW e \in Evictors'
       PROVE  /\ e \in Evictors /\ e \in Jobs /\ e[1] # r
              /\ job[e].after \in Nat /\ job'[e].after \in Nat
              /\ job'[e].after \in {MaxLost, job[e].after + n}
              /\ job'[e].after <= MaxLost /\ job'[e].after <= job[e].after + n
    <2>1. e \in Evictors /\ e \in Jobs /\ e[1] # r /\ job[e].step = "evicting"
        BY <1>9 DEF Evictors
    <2>2. job'[e].after = Min({MaxLost, job[e].after + n})
        BY <1>5, <2>1
    <2>3. job[e].after \in Nat /\ job[e].after + n \in Nat
        BY <1>2, <2>1, JobOf
    <2> QED
        BY <2>1, <2>2, <2>3, Bounds, MinIsLesser
<1>16. Order(Q)'
    <2>1. Q \in SUBSET (Evictors' \X Evictors') /\ Evictors' \subseteq Evictors
        BY <1>9, <1>13
    <2>2. ASSUME NEW y \in Evictors', NEW z \in Evictors', <<y, z>> \in Q
          PROVE  job'[z].after <= job'[y].after
        <3>1. <<y, z>> \in R /\ y \in Evictors /\ z \in Evictors
            BY <1>14, <2>1, <2>2
        <3>2. job[z].after <= job[y].after
            BY <1>12, <3>1 DEF Order
        <3>3. /\ job'[y].after \in {MaxLost, job[y].after + n}
              /\ job'[z].after <= MaxLost /\ job'[z].after <= job[z].after + n
              /\ job[z].after \in Nat /\ job[y].after \in Nat /\ job'[z].after \in Nat
            BY <1>15
        <3> QED
            BY <1>2, <3>2, <3>3, Bounds
    <2> QED
        BY <1>12, <1>14, <2>1, <2>2 DEF Order
<1>17. ASSUME NEW e \in Evictors' PROVE Covered(Q, e)'
    <2>1. Later(Q, e)' = Later(R, e) \cap Evictors' /\ Later(R, e) \subseteq Evictors
        BY <1>9, <1>14 DEF Later
    <2>2. /\ Backers' \cup Later(Q, e)' \in SUBSET Jobs
          /\ Backers \cup Later(R, e) \in SUBSET ((Backers' \cup Later(Q, e)') \cup W)
        BY <1>9, <1>10, <2>1
    <2>3. /\ Fresh(e)' \cup Later(Q, e)' \in SUBSET Jobs
          /\ Fresh(e) \cup Later(R, e) \in SUBSET ((Fresh(e)' \cup Later(Q, e)') \cup W)
        <3>1. Fresh(e)' \subseteq Backers' /\ Fresh(e) \subseteq Backers
            BY DEF Fresh
        <3>2. \A y \in Fresh(e) : y[1] # r => y \in Fresh(e)'
            BY <1>5, <1>9, <1>15, <3>1 DEF Fresh
        <3>3. \A y \in Fresh(e) : y[1] = r => y \in W
            BY <1>10, <3>1
        <3> QED
            BY <1>9, <1>10, <2>1, <3>1, <3>2, <3>3
    <2>4. Present' \ job'[e].left = Present \ job[e].left
        BY <1>5, <1>8, <1>15
    <2>5. /\ Cardinality(Present') = Cardinality(Present)
          /\ Cardinality(Present' \ job'[e].left) = Cardinality(Present \ job[e].left)
        BY <1>8, <2>4, Zenon
    <2>6. /\ Present \ job[e].left \in SUBSET Names
          /\ job[e].after \in Nat /\ job'[e].after \in {MaxLost, job[e].after + n}
        BY <1>8, <1>15
    <2>7. Covered(R, e)
        BY <1>12, <1>15
    <2>8. CASE WithinCap(Later(R, e), lost) /\ WithinCap(Later(R, e), job[e].after)
        <3>1. Cardinality(Present) <= MaxFiles + (lost + n) + Cardinality(Backers' \cup Later(Q, e)')
            <4>1. Cardinality(Present) <= MaxFiles + lost + Cardinality(Backers \cup Later(R, e))
                BY <2>8 DEF WithinCap
            <4> QED
                BY <1>2, <1>7, <1>8, <2>2, <4>1, BoundOutlasts
        <3>2. Cardinality(Present)
                  <= MaxFiles + (job[e].after + n) + Cardinality(Backers' \cup Later(Q, e)')
            <4>1. Cardinality(Present)
                      <= MaxFiles + job[e].after + Cardinality(Backers \cup Later(R, e))
                BY <2>8 DEF WithinCap
            <4> QED
                BY <1>2, <1>7, <1>8, <2>2, <2>6, <4>1, BoundOutlasts
        <3>3. Cardinality(Backers' \cup Later(Q, e)') \in Nat /\ Cardinality(Present) \in Nat
            BY <2>2, PresentFinite, CountedAfter DEF CountsAreNumbers
        <3>4. Cardinality(Present)
                  <= MaxFiles + job'[e].after + Cardinality(Backers' \cup Later(Q, e)')
            BY <1>2, <2>6, <3>1, <3>2, <3>3, Bounds
        <3> QED
            BY <1>2, <2>5, <3>1, <3>4 DEF Covered, WithinCap
    <2>9. CASE Reclaimed(e, Later(R, e), lost) /\ Reclaimed(e, Later(R, e), job[e].after)
        <3>1. Cardinality(Present \ job[e].left)
                  <= (lost + n) + Cardinality(Fresh(e)' \cup Later(Q, e)')
            <4>1. Cardinality(Present \ job[e].left) <= lost + Cardinality(Fresh(e) \cup Later(R, e))
                BY <2>9 DEF Reclaimed
            <4> QED
                BY <1>2, <1>7, <2>3, <2>6, <4>1, BoundOutlasts
        <3>2. Cardinality(Present \ job[e].left)
                  <= (job[e].after + n) + Cardinality(Fresh(e)' \cup Later(Q, e)')
            <4>1. Cardinality(Present \ job[e].left)
                      <= job[e].after + Cardinality(Fresh(e) \cup Later(R, e))
                BY <2>9 DEF Reclaimed
            <4> QED
                BY <1>2, <1>7, <2>3, <2>6, <4>1, BoundOutlasts
        <3>3. /\ Cardinality(Fresh(e)' \cup Later(Q, e)') \in Nat
              /\ Cardinality(Present \ job[e].left) \in Nat
            BY <2>3, Counted, CountedAfter, <2>5 DEF CountsAreNumbers
        <3>4. Cardinality(Present \ job[e].left)
                  <= job'[e].after + Cardinality(Fresh(e)' \cup Later(Q, e)')
            BY <1>2, <2>6, <3>1, <3>2, <3>3, Bounds
        <3> QED
            BY <1>2, <2>5, <3>1, <3>4 DEF Covered, Reclaimed
    <2> QED
        BY <2>7, <2>8, <2>9 DEF Covered
<1>18. WithinCap(Evictors, lost)'
    <2>1. /\ Backers' \cup Evictors' \in SUBSET Jobs
          /\ Backers \cup Evictors \in SUBSET ((Backers' \cup Evictors') \cup W)
        BY <1>9, <1>10
    <2>2. Cardinality(Present) <= MaxFiles + lost + Cardinality(Backers \cup Evictors)
        BY DEF CapInv, WithinCap
    <2>3. Cardinality(Present) <= MaxFiles + (lost + n) + Cardinality(Backers' \cup Evictors')
        BY <1>2, <1>7, <1>8, <2>1, <2>2, BoundOutlasts
    <2>4. Cardinality(Present') = Cardinality(Present)
        BY <1>8, Zenon
    <2> QED
        BY <1>2, <2>3, <2>4 DEF WithinCap
<1>19. \A y \in Evictors' : Cardinality(job'[y].left) <= job'[y].total
    BY <1>5, <1>15 DEF CapInv
<1>20. \E S : (Order(S) /\ \A y \in Evictors : Covered(S, y))'
    BY <1>16, <1>17
<1> QED
    BY <1>2, <1>11, <1>18, <1>19, <1>20 DEF CapInv

-----------------------------------------------------------------------------
(* Every step keeps the invariant.                                           *)

\* A step of a job leaves the others.
LEMMA OneJobSet ==
    ASSUME TypeOK, NEW r \in Runs, NEW m \in Members, NEW j \in JobType, Set(r, m, j)
    PROVE  /\ <<r, m>> \in Jobs /\ job'[<<r, m>>] = j
           /\ \A y \in Jobs \ {<<r, m>>} : job'[y] = job[y]
<1>1. <<r, m>> \in Jobs
    BY DEF Jobs
<1> QED
    BY <1>1, SetType

\* The fields of the job that a step sets.
LEMMA WaitsAfter ==
    ASSUME TypeOK, NEW r \in Runs, NEW m \in Members, NEW s \in {"miss", "done", "renamed"},
           Set(r, m, [NoJob EXCEPT !.step = s])
    PROVE  /\ <<r, m>> \in Jobs /\ job'[<<r, m>>].step = s
           /\ \A y \in Jobs \ {<<r, m>>} : job'[y] = job[y]
<1> DEFINE j == [NoJob EXCEPT !.step = s]
<1>1. j \in JobType /\ j.step = s /\ Set(r, m, j)
    BY IdleJob
<1> HIDE DEF j
<1> QED
    BY <1>1, OneJobSet

LEMMA TempAfter ==
    ASSUME TypeOK, NEW r \in Runs, NEW m \in Members, NEW t \in Temps,
           Set(r, m, [NoJob EXCEPT !.step = "temp", !.temp = t])
    PROVE  /\ job'[<<r, m>>].step = "temp" /\ job'[<<r, m>>].temp = t
           /\ \A y \in Jobs \ {<<r, m>>} : job'[y] = job[y]
<1> DEFINE j == [NoJob EXCEPT !.step = "temp", !.temp = t]
<1>1. j.step = "temp" /\ j.temp = t
    BY DEF NoJob
<1>2. j \in JobType /\ Set(r, m, j)
    BY TempJob
<1> HIDE DEF j
<1> QED
    BY <1>1, <1>2, OneJobSet

LEMMA HoldsAfter ==
    ASSUME TypeOK, NEW r \in Runs, NEW m \in Members, NEW s \in {"hit", "loaded"}, NEW f \in Part,
           Set(r, m, [NoJob EXCEPT !.step = s, !.facts = f])
    PROVE  /\ <<r, m>> \in Jobs /\ job'[<<r, m>>].step = s
           /\ \A y \in Jobs \ {<<r, m>>} : job'[y] = job[y]
<1> DEFINE j == [NoJob EXCEPT !.step = s, !.facts = f]
<1>1. j \in JobType /\ j.step = s /\ Set(r, m, j)
    BY FactsJob
<1> HIDE DEF j
<1> QED
    BY <1>1, OneJobSet

LEMMA EvictsAfter ==
    ASSUME TypeOK, NEW r \in Runs, NEW m \in Members, WalkOver(r, m)
    PROVE  /\ <<r, m>> \in Jobs /\ job'[<<r, m>>].step = "evicting"
           /\ job'[<<r, m>>].left = Present /\ job'[<<r, m>>].total = Cardinality(Present)
           /\ job'[<<r, m>>].after = 0
           /\ \A y \in Jobs \ {<<r, m>>} : job'[y] = job[y]
<1>1. PICK P : P = Present
    OBVIOUS
<1>2. PICK c : c = Cardinality(Present)
    OBVIOUS
<1> DEFINE j == [NoJob EXCEPT !.step = "evicting", !.left = P, !.total = c]
<1>3. P \in SUBSET Names /\ c \in Nat
    BY <1>1, <1>2, PresentFinite DEF Present
<1>4. Set(r, m, j)
    BY <1>1, <1>2 DEF WalkOver
<1>5. j.step = "evicting" /\ j.left = P /\ j.total = c /\ j.after = 0
    BY DEF NoJob
<1>6. j \in JobType
    BY <1>3, EvictJob
<1> HIDE DEF j
<1>7. /\ <<r, m>> \in Jobs /\ job'[<<r, m>>] = j
      /\ \A y \in Jobs \ {<<r, m>>} : job'[y] = job[y]
    BY <1>4, <1>6, OneJobSet
<1> QED
    BY <1>1, <1>2, <1>5, <1>7

LEMMA EvictsOnAfter ==
    ASSUME TypeOK, NEW r \in Runs, NEW m \in Members, NEW n \in Names, EvictOne(r, m, n)
    PROVE  /\ <<r, m>> \in Jobs /\ job'[<<r, m>>].step = "evicting"
           /\ job'[<<r, m>>].left = job[<<r, m>>].left \ {n}
           /\ job'[<<r, m>>].total >= job[<<r, m>>].total - 1
           /\ job'[<<r, m>>].after = job[<<r, m>>].after
           /\ \A y \in Jobs \ {<<r, m>>} : job'[y] = job[y]
<1>1. PICK j \in JobType : j = job[<<r, m>>]
    BY DEF TypeOK
<1> DEFINE L == j.left \ {n}
           k == IF disk[n] = Gone THEN j.total ELSE j.total - 1
<1>2. j \in Job /\ j.left \in SUBSET Names /\ j.total \in Nat
    BY JobFields
<1>3. j.total > EvictTo /\ j.step = "evicting"
    BY <1>1 DEF EvictOne
<1>4. L \in SUBSET Names /\ k \in Nat /\ k >= j.total - 1
    BY <1>2, <1>3, Bounds
<1>5. Set(r, m, Evicted(j, L, k))
    BY <1>1 DEF EvictOne, Evicted
<1> HIDE DEF L, k
<1>6. Evicted(j, L, k) \in JobType /\ Evicted(j, L, k).step = "evicting"
    BY <1>3, <1>4, EvictsOn
<1>7. /\ Evicted(j, L, k).left = L /\ Evicted(j, L, k).total = k
      /\ Evicted(j, L, k).after = j.after
    BY <1>2 DEF Evicted, Job
<1>8. /\ <<r, m>> \in Jobs /\ job'[<<r, m>>] = Evicted(j, L, k)
      /\ \A y \in Jobs \ {<<r, m>>} : job'[y] = job[y]
    BY <1>5, <1>6, OneJobSet
<1> QED
    BY <1>1, <1>4, <1>6, <1>7, <1>8 DEF L

\* The steps of a job.
LEMMA WorkKeepsCap ==
    ASSUME TypeOK, TypeOK', CapInv, NEW r \in Runs, NEW m \in Members, Work(r, m)
    PROVE  CapInv'
<1>1. PICK x : x = <<r, m>>
    OBVIOUS
<1>2. x \in Jobs /\ job[r, m] = job[x]
    BY <1>1 DEF Jobs
<1>3. job[x] \in JobType /\ run[r].tree \in Part
    BY <1>2, JobOf DEF TypeOK, RunType
<1>4. CASE Get(r, m)
    <2>1. PICK f \in Part : Set(r, m, [NoJob EXCEPT !.step = "hit", !.facts = f])
        BY <1>4 DEF Get, Found
    <2>2. job'[x].step = "hit" /\ \A y \in Jobs \ {x} : job'[y] = job[y]
        BY <1>1, <2>1, HoldsAfter
    <2>3. job[x].step = "todo" /\ disk' = disk /\ lost' = lost
        BY <1>2, <1>4 DEF Get
    <2> QED
        BY <2>2, <2>3, QuietKeepsCap DEF Backing, Writing
<1>5. CASE Miss(r, m)
    <2>1. job'[x].step = "miss" /\ \A y \in Jobs \ {x} : job'[y] = job[y]
        BY <1>1, <1>5, WaitsAfter DEF Miss
    <2>2. job[x].step = "todo" /\ disk' = disk /\ lost' = lost
        BY <1>2, <1>5 DEF Miss
    <2> QED
        BY <2>1, <2>2, QuietKeepsCap DEF Backing, Writing
<1>6. CASE Load(r, m)
    <2>1. FactsOf(m, files) \in Part
        BY <1>3, TreeTypes, TreesArePart DEF TypeOK
    <2>2. /\ job'[x].step \in {"loaded", "done"}
          /\ \A y \in Jobs \ {x} : job'[y] = job[y]
        <3>1. \/ Set(r, m, [NoJob EXCEPT !.step = "loaded", !.facts = FactsOf(m, files)])
              \/ Set(r, m, [NoJob EXCEPT !.step = "done"])
            BY <1>6 DEF Load
        <3> QED
            BY <1>1, <2>1, <3>1, HoldsAfter, WaitsAfter
    <2>3. job[x].step = "miss" /\ disk' = disk /\ lost' = lost
        BY <1>2, <1>6 DEF Load, Turn
    <2> QED
        BY <2>2, <2>3, QuietKeepsCap DEF Backing, Writing
<1>7. CASE LoadFails(r, m) \/ PutFails(r, m)
    <2>1. job'[x].step = "done" /\ \A y \in Jobs \ {x} : job'[y] = job[y]
        BY <1>1, <1>7, WaitsAfter DEF LoadFails, PutFails
    <2>2. job[x].step \in {"miss", "loaded"} /\ disk' = disk /\ lost' = lost
        BY <1>2, <1>7 DEF LoadFails, PutFails, Turn
    <2> QED
        BY <2>1, <2>2, QuietKeepsCap DEF Backing, Writing
<1>8. ASSUME NEW t \in Temps, WriteTemp(r, m, t) PROVE CapInv'
    <2>1. /\ job'[x].step = "temp" /\ job'[x].temp = t
          /\ \A y \in Jobs \ {x} : job'[y] = job[y]
        BY <1>1, <1>8, TempAfter DEF WriteTemp
    <2>2. /\ job[x].step = "loaded" /\ disk[t] = Gone /\ lost' = lost
          /\ \A y \in Jobs : job[y].temp # t
        BY <1>2, <1>8 DEF WriteTemp, Jobs
    <2>3. job[x].facts \in Part
        BY <1>3, <2>2, JobFields
    <2>4. disk'[t] # Gone /\ \A n \in Names \ {t} : disk'[n] = disk[n]
        BY <1>2, <1>8, <2>3, FactCacheAssumption DEF WriteTemp, TypeOK, Names
    <2> QED
        BY <1>2, <2>1, <2>2, <2>4, WriteKeepsCap
<1>9. CASE Rename(r, m)
    <2>1. PICK t : t = job[x].temp
        OBVIOUS
    <2>2. PICK k : k = KeyOf(m, run[r].tree)
        OBVIOUS
    <2>3. t \in Temps /\ k \in Key /\ job[x].step = "temp" /\ lost' = lost
        BY <1>2, <1>3, <1>9, <2>1, <2>2, JobFields, TreeTypes DEF Rename
    <2>4. CASE disk[t] = Gone
        <3>1. job'[x].step = "done" /\ \A y \in Jobs \ {x} : job'[y] = job[y]
            BY <1>1, <1>2, <1>9, <2>1, <2>4, WaitsAfter DEF Rename
        <3>2. disk' = disk
            BY <1>2, <1>9, <2>1, <2>4 DEF Rename
        <3>3. ~Backing(job[x]) /\ job[x].step # "evicting"
            BY <2>1, <2>3, <2>4 DEF Backing
        <3> QED
            BY <2>3, <3>1, <3>2, <3>3, QuietKeepsCap DEF Writing
    <2>5. CASE disk[t] # Gone
        <3>1. job'[x].step = "renamed" /\ \A y \in Jobs \ {x} : job'[y] = job[y]
            BY <1>1, <1>2, <1>9, <2>1, <2>5, WaitsAfter DEF Rename
        <3>2. disk' = [disk EXCEPT ![k] = disk[t], ![t] = Gone]
            BY <1>2, <1>9, <2>1, <2>2, <2>5 DEF Rename
        <3>3. k # t /\ k \in Names /\ t \in Names
            BY <2>3, FactCacheAssumption DEF Names
        <3>4. /\ disk'[t] = Gone /\ disk'[k] # Gone
              /\ \A n \in Names \ {t, k} : disk'[n] = disk[n]
            BY <2>5, <3>2, <3>3 DEF TypeOK
        <3> QED
            BY <1>2, <2>1, <2>3, <2>5, <3>1, <3>4, RenameKeepsCap
    <2> QED
        BY <2>4, <2>5
<1>10. CASE WalkWithin(r, m)
    <2>1. job'[x].step = "done" /\ \A y \in Jobs \ {x} : job'[y] = job[y]
        BY <1>1, <1>10, WaitsAfter DEF WalkWithin
    <2>2. /\ job[x].step = "renamed" /\ Cardinality(Present) <= MaxFiles
          /\ disk' = disk /\ lost' = 0
        BY <1>2, <1>10 DEF WalkWithin
    <2> QED
        BY <1>2, <2>1, <2>2, WalkWithinKeepsCap
<1>11. CASE WalkOver(r, m)
    <2>1. job[x].step = "renamed" /\ disk' = disk /\ lost' = lost
        BY <1>2, <1>11 DEF WalkOver
    <2> QED
        BY <1>1, <1>2, <1>11, <2>1, EvictsAfter, WalkOverKeepsCap
<1>12. CASE EvictEnds(r, m)
    <2>1. job'[x].step = "done" /\ \A y \in Jobs \ {x} : job'[y] = job[y]
        BY <1>1, <1>12, WaitsAfter DEF EvictEnds
    <2>2. /\ job[x].step = "evicting"
          /\ job[x].total <= EvictTo \/ job[x].left = {}
          /\ disk' = disk /\ lost' = Min({lost, job[x].after})
        BY <1>2, <1>12 DEF EvictEnds
    <2> QED
        BY <1>2, <2>1, <2>2, EvictEndsKeepsCap
<1>13. ASSUME NEW n \in Names, EvictOne(r, m, n) PROVE CapInv'
    <2>1. job[x].step = "evicting" /\ n \in job[x].left /\ lost' = lost
        BY <1>2, <1>13 DEF EvictOne
    <2>2. disk'[n] = Gone /\ \A o \in Names \ {n} : disk'[o] = disk[o]
        BY <1>13 DEF EvictOne, TypeOK
    <2>3. /\ job'[x].step = "evicting" /\ job'[x].after = job[x].after
          /\ job'[x].left = job[x].left \ {n} /\ job'[x].total >= job[x].total - 1
          /\ \A y \in Jobs \ {x} : job'[y] = job[y]
        BY <1>1, <1>13, EvictsOnAfter
    <2> QED
        BY <1>2, <2>1, <2>2, <2>3, EvictOneKeepsCap
<1> QED
    BY <1>4, <1>5, <1>6, <1>7, <1>8, <1>9, <1>10, <1>11, <1>12, <1>13 DEF Work

LEMMA NextCap == TypeOK /\ TypeOK' /\ CapInv /\ [Next]_vars => CapInv'
<1> SUFFICES ASSUME TypeOK, TypeOK', CapInv, [Next]_vars PROVE CapInv'
    OBVIOUS
<1>1. ASSUME NEW r \in Runs, Start(r) PROVE CapInv'
    <2>1. disk' = disk /\ lost' = lost /\ job' = job
        BY <1>1 DEF Start
    <2> QED
        BY <2>1, QuietKeepsCap
<1>2. ASSUME NEW r \in Runs, NEW m \in Members, Work(r, m) PROVE CapInv'
    BY <1>2, WorkKeepsCap
<1>3. ASSUME NEW r \in Runs, Finish(r) PROVE CapInv'
    <2>1. disk' = disk /\ lost' = lost
        BY <1>3 DEF Finish
    <2>2. ASSUME NEW y \in Jobs
          PROVE  \/ job'[y] = job[y]
                 \/ /\ ~Backing(job[y]) /\ job[y].step # "evicting"
                    /\ job'[y].step \notin Writing
        <3>1. job'[y] = IF y[1] = r THEN NoJob ELSE job[y]
            BY <1>3 DEF Finish, Jobs
        <3>2. ASSUME y[1] = r PROVE job[y].step \in {"hit", "done"}
            <4>1. PICK m \in Members : y = <<r, m>>
                BY <3>2 DEF Jobs
            <4> QED
                BY <1>3, <4>1 DEF Finish
        <3> QED
            BY <3>1, <3>2, NoJobType DEF Backing, Writing
    <2> QED
        BY <2>1, <2>2, QuietKeepsCap
<1>4. ASSUME NEW r \in Runs, Crash(r) PROVE CapInv'
    BY <1>4, CrashKeepsCap
<1>5. ASSUME NEW t \in Trees, Edit(t) PROVE CapInv'
    <2>1. disk' = disk /\ lost' = lost /\ job' = job
        BY <1>5 DEF Edit
    <2> QED
        BY <2>1, QuietKeepsCap
<1>6. CASE UNCHANGED vars
    <2>1. disk' = disk /\ lost' = lost /\ job' = job
        BY <1>6 DEF vars
    <2> QED
        BY <2>1, QuietKeepsCap
<1> QED
    BY <1>1, <1>2, <1>3, <1>4, <1>5, <1>6 DEF Next

LEMMA InitCap == Init => CapInv
<1> SUFFICES ASSUME Init PROVE CapInv
    OBVIOUS
<1>1. \A y \in Jobs : job[y] = NoJob
    BY DEF Init, Jobs
<1>2. Evictors = {} /\ Present = {} /\ lost = 0 /\ TempsAreOwn
    BY <1>1, NoJobType DEF Evictors, Present, Init, TempsAreOwn
<1>3. Cardinality(Present) = 0
    BY <1>2, FS_EmptySet, Zenon
<1>4. Cardinality(Backers \cup Evictors) \in Nat
    BY <1>2, Counted DEF CountsAreNumbers
<1>5. Cardinality(Present) <= MaxFiles + lost + Cardinality(Backers \cup Evictors)
    BY <1>2, <1>3, <1>4, Bounds
<1>6. Order({})
    BY <1>2 DEF Order
<1> QED
    BY <1>2, <1>5, <1>6, Bounds DEF CapInv, WithinCap

\* The cache exceeds its cap by no more than the writes under way and the writes
\* that crashes cut short since the last complete eviction, for any number of
\* runs, members and files, and whatever evictions overlap (cache.go's Put and
\* evict, which take no lock).
THEOREM CapIsKept == Spec => []CapHolds
<1>1. TypeOK /\ CapInv /\ [Next]_vars /\ TypeOK' => CapInv'
    BY NextCap
<1> QED
    BY <1>1, InitCap, TypeCorrect, CapFollows, PTL DEF Spec

=============================================================================
