-------------------------- MODULE HookSessionProofs --------------------------
(***************************************************************************)
(* For every set of files, imports and processes, and under every          *)
(* interleaving of the hook processes: nothing is marked as reported, and  *)
(* no tree as blocked on, that the agent was not shown.                    *)
(*                                                                         *)
(* Then what an agent is promised whose hook events come one at a time: a  *)
(* block is suppressed only when it was earned, a denial is not shown      *)
(* twice while it stays, and one that comes back is shown again.  The      *)
(* session file is shared without a lock, so that none of these three      *)
(* holds of two hook processes that overlap.                               *)
(***************************************************************************)
EXTENDS HookSession, SequenceTheorems, TLAPS

-----------------------------------------------------------------------------
(* Types.                                                                   *)

LEMMA EmptySessionType == EmptySession \in SessionType
  BY SessionAssumption DEF EmptySession, SessionType, NoDenials, Content

LEMMA IdleProcType == IdleProc \in ProcType
  BY EmptySessionType DEF IdleProc, ProcType, Kinds

LEMMA LoadedType == TypeOK => Loaded \in SessionType
  BY DEF TypeOK, Loaded, SessionType, HeadCommit

\* The session after post-tool-use has the type of a session.
LEMMA NewSessionType ==
  ASSUME NEW s \in SessionType, NEW t \in Tree, NEW base
  PROVE  [s EXCEPT !.files = NewFiles(s, t, base),
                   !.reported = NewReported(s, t, base)] \in SessionType
  <1>1. NewFiles(s, t, base) \in [Files -> Content]
    BY DEF NewFiles, Tree, Content
  <1>2. \A f \in Files : Held(t, base, f) \subseteq Imports
    BY SessionAssumption DEF Held
  <1>3. NewReported(s, t, base) \in [Files -> SUBSET Imports]
    BY <1>2 DEF NewReported, SessionType
  <1>4. QED
    BY <1>1, <1>3 DEF SessionType

Phases == {"idle", "opened", "judged", "exit"}
Todos == {"exit", "save", "block", "forget", "suppress", "again"}

\* What each of the three hooks sets in its record keeps the record's type.
LEMMA JudgedType ==
  ASSUME NEW q \in ProcType, NEW phase \in Phases, NEW todo \in Todos,
         NEW tree \in Tree, NEW msgs \in SUBSET Denial, NEW sess \in SessionType,
         NEW v \in {"none", "fail", "pass", "unknown"}
  PROVE  /\ [q EXCEPT !.phase = phase, !.todo = todo] \in ProcType
         /\ [q EXCEPT !.phase = phase, !.todo = todo, !.tree = tree,
                      !.msgs = msgs, !.sess = sess] \in ProcType
         /\ [q EXCEPT !.phase = phase, !.tree = tree, !.verdict = v,
                      !.todo = todo, !.sess = sess] \in ProcType
  <1> USE DEF ProcType, Phases, Todos
  <1>1. [q EXCEPT !.phase = phase, !.todo = todo] \in ProcType
    OBVIOUS
  <1>2. [q EXCEPT !.phase = phase, !.todo = todo, !.tree = tree,
                  !.msgs = msgs, !.sess = sess] \in ProcType
    OBVIOUS
  <1>3. [q EXCEPT !.phase = phase, !.tree = tree, !.verdict = v,
                  !.todo = todo, !.sess = sess] \in ProcType
    OBVIOUS
  <1>4. QED
    BY <1>1, <1>2, <1>3

\* Only the process that took a step changes its record.
LEMMA OneProc ==
  ASSUME TypeOK, NEW p \in Procs, NEW q \in ProcType,
         q.todo \in {"block", "again"} => q.tree \in Tree,
         proc' = [proc EXCEPT ![p] = q]
  PROVE  /\ proc' \in [Procs -> ProcType]
         /\ \A x \in Procs : proc'[x].todo \in {"block", "again"} => proc'[x].tree \in Tree
         /\ proc'[p] = q
         /\ \A x \in Procs \ {p} : proc'[x] = proc[x]
  BY DEF TypeOK

LEMMA TypeInductive == TypeOK /\ [Next]_vars => TypeOK'
  <1> SUFFICES ASSUME TypeOK, [Next]_vars PROVE TypeOK'
    OBVIOUS
  <1>0. /\ disk \in Tree
        /\ trees \in Seq(Tree) /\ trees # <<>>
        /\ session \in SessionType
        /\ \A p \in Procs : proc[p] \in ProcType
        /\ everTold \subseteq Denial /\ stay \subseteq Denial /\ told \subseteq Denial
        /\ blocks \subseteq Tree /\ earned \subseteq Tree
        /\ muted \subseteq Denial /\ mutedBlocks \subseteq Tree
        /\ \A p \in Procs : proc[p].todo \in {"block", "again"} => proc[p].tree \in Tree
    BY DEF TypeOK
  <1>1. ASSUME NEW p \in Procs, NEW kind \in Kinds, NEW sub \in BOOLEAN,
               NEW active \in BOOLEAN, Open(p, kind, sub, active)
        PROVE  TypeOK'
    <2> DEFINE made == earned \cup PendingBlocks
               q == [IdleProc EXCEPT !.phase = "opened", !.kind = kind, !.sub = sub,
                                     !.active = active, !.sess = Loaded, !.made = made]
    <2>1. made \in SUBSET Tree
      BY <1>0 DEF PendingBlocks
    <2>2. Loaded \in SessionType
      BY LoadedType
    <2> HIDE DEF made
    <2>3. q \in ProcType /\ q.todo = "exit"
      BY <2>1, <2>2, IdleProcType DEF ProcType, IdleProc
    <2>4. proc' = [proc EXCEPT ![p] = q]
      BY <1>1 DEF Open, made
    <2> HIDE DEF q
    <2>5. QED
      BY <1>0, <1>1, <2>3, <2>4, OneProc DEF Open, ghost, TypeOK
  <1>2. ASSUME NEW p \in Procs, JudgeStart(p) PROVE TypeOK'
    <2> DEFINE todo == IF proc[p].sess.exists THEN "exit" ELSE "save"
               phase == AfterJudge(todo)
               q == [proc[p] EXCEPT !.phase = phase, !.todo = todo]
    <2>1. proc[p] \in ProcType /\ todo \in Todos /\ phase \in Phases
      BY <1>0 DEF AfterJudge, Phases, Todos
    <2>3. todo \in {"exit", "save"}
      OBVIOUS
    <2> HIDE DEF todo, phase
    <2>4. q \in ProcType
      BY <1>0, <2>1, EmptySessionType, JudgedType
    <2>5. q.todo = todo
      BY <2>1 DEF ProcType
    <2>2. proc' = [proc EXCEPT ![p] = q]
      BY <1>2 DEF JudgeStart, todo, phase
    <2> HIDE DEF q
    <2>6. QED
      BY <1>0, <1>2, <2>2, <2>3, <2>4, <2>5, OneProc DEF JudgeStart, ghost, TypeOK
  <1>3. ASSUME NEW p \in Procs, JudgePost(p) PROVE TypeOK'
    <2> DEFINE s == proc[p].sess
               base == trees[s.base]
               s2 == [s EXCEPT !.files = NewFiles(s, disk, base),
                               !.reported = NewReported(s, disk, base)]
               m == NewDenials(s, disk, base)
               q == [proc[p] EXCEPT !.phase = "judged", !.todo = "save", !.tree = disk,
                                    !.msgs = m, !.sess = s2]
    <2>1. s2 \in SessionType
      BY <1>0, NewSessionType DEF ProcType
    <2>2. m \in SUBSET Denial
      BY DEF NewDenials
    <2>3. proc' = [proc EXCEPT ![p] = q]
      BY <1>3 DEF JudgePost
    <2> HIDE DEF s2, m
    <2>4. q \in ProcType /\ q.todo = "save"
      <3>1. proc[p] \in ProcType /\ "save" \in Todos /\ "judged" \in Phases
        BY <1>0 DEF Phases, Todos
      <3>2. q \in ProcType
        BY <1>0, <2>1, <2>2, <3>1, JudgedType
      <3>3. q.todo = "save"
        BY <3>1 DEF ProcType
      <3>4. QED
        BY <3>2, <3>3
    <2> HIDE DEF q
    <2>5. QED
      BY <1>0, <1>3, <2>3, <2>4, OneProc DEF JudgePost, ghost, TypeOK
  <1>4. ASSUME NEW p \in Procs, NEW v \in {"fail", "pass", "unknown"}, JudgeStop(p, v)
        PROVE  TypeOK'
    <2> DEFINE todo == StopTodo(proc[p], disk, v)
               s == proc[p].sess
               s2 == [s EXCEPT !.digest = NewDigest(todo, s.digest, disk)]
               phase == AfterJudge(todo)
               q == [proc[p] EXCEPT !.phase = phase, !.tree = disk,
                                    !.verdict = v, !.todo = todo, !.sess = s2]
    <2>1. proc' = [proc EXCEPT ![p] = q]
      BY <1>4 DEF JudgeStop
    <2>2. /\ todo \in {"exit", "block", "forget", "suppress", "again"}
          /\ phase \in {"judged", "exit"}
      BY DEF StopTodo, AfterJudge
    <2> HIDE DEF todo, phase
    <2>3. s2 \in SessionType
      BY <1>0, <2>2 DEF ProcType, SessionType, NewDigest
    <2> HIDE DEF s2
    <2>4. q \in ProcType /\ q.tree = disk
      <3>1. proc[p] \in ProcType /\ todo \in Todos /\ phase \in Phases
        BY <1>0, <2>2 DEF Phases, Todos
      <3>2. q \in ProcType
        BY <1>0, <2>3, <3>1, JudgedType
      <3>3. q.tree = disk
        BY <3>1 DEF ProcType
      <3>4. QED
        BY <3>2, <3>3
    <2> HIDE DEF q
    <2>5. QED
      BY <1>0, <1>4, <2>1, <2>4, OneProc DEF JudgeStop, ghost, TypeOK
  <1>5. ASSUME NEW p \in Procs, Save(p) PROVE TypeOK'
    <2> DEFINE q == [proc[p] EXCEPT !.phase = "exit"]
    <2>1. q \in ProcType /\ q.todo = proc[p].todo /\ q.tree = proc[p].tree
      BY <1>0 DEF ProcType
    <2>2. proc' = [proc EXCEPT ![p] = q] /\ session' \in SessionType
      BY <1>0, <1>5 DEF Save, ProcType, SessionType
    <2> HIDE DEF q
    <2>3. QED
      BY <1>0, <1>5, <2>1, <2>2, OneProc DEF Save, ghost, TypeOK
  <1>6. ASSUME NEW p \in Procs, SaveFails(p) PROVE TypeOK'
    <2> DEFINE q == IF proc[p].todo = "block"
                    THEN [proc[p] EXCEPT !.phase = "exit", !.todo = "again"] ELSE IdleProc
    <2>1. q \in ProcType /\ (q.todo \in {"block", "again"} => q.tree \in Tree)
      BY <1>0, IdleProcType DEF ProcType, IdleProc
    <2>2. proc' = [proc EXCEPT ![p] = q]
      BY <1>6 DEF SaveFails
    <2> HIDE DEF q
    <2>3. QED
      BY <1>0, <1>6, <2>1, <2>2, OneProc DEF SaveFails, ghost, TypeOK
  <1>7. ASSUME NEW p \in Procs, Abort(p) PROVE TypeOK'
    <2>1. IdleProc.todo = "exit"
      BY DEF IdleProc
    <2>2. QED
      BY <1>0, <1>7, <2>1, IdleProcType, OneProc DEF Abort, ghost, TypeOK
  <1>8. ASSUME NEW p \in Procs, Exit(p) PROVE TypeOK'
    <2>1. proc[p].msgs \subseteq Denial
      BY <1>0 DEF ProcType
    <2>2. IdleProc.todo = "exit"
      BY DEF IdleProc
    <2>3. BlockOf(proc[p], {"block", "again"}) \subseteq Tree
      BY <1>0 DEF BlockOf
    <2>4. StillSeen(proc[p]) \subseteq Denial
      BY <1>0 DEF StillSeen
    <2>5. /\ everTold' \subseteq Denial /\ stay' \subseteq Denial /\ told' \subseteq Denial
          /\ blocks' \subseteq Tree /\ earned' \subseteq Tree
          /\ muted' \subseteq Denial /\ mutedBlocks' \subseteq Tree
      BY <1>0, <1>8, <2>1, <2>3, <2>4 DEF Exit
    <2>6. QED
      BY <1>0, <1>8, <2>2, <2>5, IdleProcType, OneProc DEF Exit, TypeOK
  <1>13. ASSUME NEW p \in Procs, KilledUnheard(p) PROVE TypeOK'
    <2>1. proc[p].msgs \subseteq Denial
      BY <1>0 DEF ProcType
    <2>2. IdleProc.todo = "exit"
      BY DEF IdleProc
    <2>3. BlockOf(proc[p], {"block"}) \subseteq Tree
      BY <1>0 DEF BlockOf
    <2>4. StillSeen(proc[p]) \subseteq Denial
      BY <1>0 DEF StillSeen
    <2>5. /\ told' \subseteq Denial /\ earned' \subseteq Tree
          /\ muted' \subseteq Denial /\ mutedBlocks' \subseteq Tree
      BY <1>0, <1>13, <2>1, <2>3, <2>4 DEF KilledUnheard
    <2>6. QED
      BY <1>0, <1>13, <2>2, <2>5, IdleProcType, OneProc DEF KilledUnheard, TypeOK
  <1>9. ASSUME NEW f \in Files, NEW c \in {Absent} \cup Contents[f], Edit(f, c)
        PROVE  TypeOK'
    <2>1. c \in Content
      BY SessionAssumption DEF Content
    <2>2. disk' \in Tree
      BY <1>0, <1>9, <2>1 DEF Edit, Tree
    <2>3. stay' \subseteq Denial
      BY <1>0, <1>9 DEF Edit
    <2>4. QED
      BY <1>9, <2>2, <2>3 DEF Edit, TypeOK
  <1>10. CASE Commit
    <2>1. trees' \in Seq(Tree) /\ trees' # <<>>
      BY <1>0, <1>10 DEF Commit
    <2>2. QED
      BY <1>10, <2>1 DEF Commit, ghost, TypeOK
  <1>11. CASE UNCHANGED vars
    BY <1>11 DEF vars, ghost, TypeOK
  <1>12. QED
    BY <1>1, <1>2, <1>3, <1>4, <1>5, <1>6, <1>7, <1>8, <1>9, <1>10, <1>11, <1>13
    DEF Next, Step

LEMMA TypeInit == Init => TypeOK
  <1> SUFFICES ASSUME Init PROVE TypeOK
    OBVIOUS
  <1>1. BaseTree \in Tree
    BY SessionAssumption
  <1>2. <<BaseTree>> \in Seq(Tree) /\ <<BaseTree>> # <<>>
    BY <1>1
  <1>3. IdleProc.todo = "exit"
    BY DEF IdleProc
  <1>4. QED
    BY <1>1, <1>2, <1>3, EmptySessionType, IdleProcType DEF Init, TypeOK

\* Every state of the hooks is well-typed, whatever files, imports and
\* processes there are, and however the processes interleave.
THEOREM TypeCorrect == Spec => []TypeOK
  BY TypeInit, TypeInductive, PTL DEF Spec

-----------------------------------------------------------------------------
(* No denial is recorded that the agent was not shown, but for those whose   *)
(* hook was killed between its save and its output.                          *)

Known == everTold \cup Pending \cup muted

Reported(s) == {x \in Denial : x[2] \in s.reported[x[1]]}

\* The copies that processes hold say no more than the file may: what is
\* known, and what the process itself will show once it has saved.
ToldInv ==
    /\ Reported(session) \subseteq Known
    /\ \A p \in Procs :
        /\ proc[p].phase = "opened" => Reported(proc[p].sess) \subseteq Known
        /\ proc[p].phase = "judged" => Reported(proc[p].sess) \subseteq Known \cup proc[p].msgs

\* A step that shows, keeps or mutes every pending denial loses nothing known.
LEMMA KnownGrows ==
  ASSUME TypeOK, TypeOK', NEW p \in Procs, NEW q \in ProcType,
         proc' = [proc EXCEPT ![p] = q],
         \/ everTold' = everTold /\ muted' = muted /\ proc[p].phase # "exit"
         \/ everTold' = everTold \cup proc[p].msgs /\ muted' = muted \ proc[p].msgs
         \/ everTold' = everTold /\ muted' = muted \cup proc[p].msgs
  PROVE  Known \subseteq Known'
  <1> SUFFICES ASSUME NEW x \in Known PROVE x \in Known'
    OBVIOUS
  <1>1. CASE x \in everTold \cup muted
    BY <1>1 DEF Known
  <1>2. CASE x \in Pending
    <2>1. PICK r \in Procs : proc[r].phase = "exit" /\ x \in proc[r].msgs
      BY <1>2 DEF Pending
    <2>2. CASE r = p
      BY <2>1, <2>2 DEF Known
    <2>3. CASE r # p
      <3>1. proc'[r] = proc[r]
        BY <2>3 DEF TypeOK
      <3>2. QED
        BY <2>1, <3>1 DEF Known, Pending
    <2>4. QED
      BY <2>2, <2>3
  <1>3. QED
    BY <1>1, <1>2 DEF Known

\* What a post-tool-use newly records is what it is about to show.
LEMMA NewReportedAreShown ==
  ASSUME NEW s \in SessionType, NEW t \in Tree, NEW base,
         NEW s2 \in SessionType, s2.reported = NewReported(s, t, base)
  PROVE  Reported(s2) \subseteq Reported(s) \cup NewDenials(s, t, base)
  <1> SUFFICES ASSUME NEW x \in Reported(s2)
               PROVE  x \in Reported(s) \cup NewDenials(s, t, base)
    OBVIOUS
  <1>1. x \in Denial /\ x[1] \in Files /\ x[2] \in NewReported(s, t, base)[x[1]]
    BY DEF Reported, Denial
  <1>2. CASE x[1] \in ReadAgain(s, t, base)
    BY <1>1, <1>2 DEF NewReported, ReadAgain, Reported, NewDenials
  <1>3. CASE x[1] \notin ReadAgain(s, t, base)
    BY <1>1, <1>3 DEF NewReported, Reported
  <1>4. QED
    BY <1>2, <1>3

\* The invariant survives a step of p that leaves the file as it was.
LEMMA ToldStep ==
  ASSUME TypeOK, TypeOK', ToldInv, NEW p \in Procs, NEW q \in ProcType,
         proc' = [proc EXCEPT ![p] = q], session' = session,
         Known \subseteq Known',
         q.phase = "opened" => Reported(q.sess) \subseteq Known,
         q.phase = "judged" => Reported(q.sess) \subseteq Known \cup q.msgs
  PROVE  ToldInv'
  <1>1. Reported(session)' \subseteq Known'
    BY DEF ToldInv, Reported
  <1>2. ASSUME NEW r \in Procs
        PROVE  /\ proc'[r].phase = "opened" => Reported(proc'[r].sess) \subseteq Known'
               /\ proc'[r].phase = "judged" => Reported(proc'[r].sess) \subseteq Known' \cup proc'[r].msgs
    <2>1. CASE r = p
      <3>1. proc'[r] = q
        BY <2>1 DEF TypeOK
      <3>2. QED
        BY <3>1
    <2>2. CASE r # p
      <3>1. proc'[r] = proc[r]
        BY <2>2 DEF TypeOK
      <3>2. QED
        BY <3>1 DEF ToldInv
    <2>3. QED
      BY <2>1, <2>2
  <1>3. QED
    BY <1>1, <1>2 DEF ToldInv, Reported

LEMMA ToldInductive == TypeOK /\ TypeOK' /\ ToldInv /\ [Next]_vars => ToldInv'
  <1> SUFFICES ASSUME TypeOK, TypeOK', ToldInv, [Next]_vars PROVE ToldInv'
    OBVIOUS
  <1>0. /\ \A p \in Procs : proc[p] \in ProcType /\ proc'[p] \in ProcType
        /\ session \in SessionType /\ disk \in Tree
    BY DEF TypeOK
  <1>e. Reported(EmptySession) = {} /\ IdleProc.phase = "idle" /\ IdleProc \in ProcType
    BY IdleProcType DEF Reported, EmptySession, NoDenials, IdleProc, Denial
  <1>1. ASSUME NEW p \in Procs, NEW kind \in Kinds, NEW sub \in BOOLEAN,
               NEW active \in BOOLEAN, Open(p, kind, sub, active)
        PROVE  ToldInv'
    <2> DEFINE made == earned \cup PendingBlocks
               q == [IdleProc EXCEPT !.phase = "opened", !.kind = kind, !.sub = sub,
                                     !.active = active, !.sess = Loaded, !.made = made]
    <2> HIDE DEF made
    <2>1. proc' = [proc EXCEPT ![p] = q] /\ session' = session
      BY <1>1 DEF Open, made
    <2>2. q = proc'[p]
      BY <2>1 DEF TypeOK
    <2>3. q.phase = "opened" /\ q.sess = Loaded
      BY DEF IdleProc
    <2>4. Reported(Loaded) \subseteq Known
      BY <1>0 DEF Reported, Loaded, SessionType, ToldInv
    <2>5. everTold' = everTold /\ muted' = muted /\ proc[p].phase # "exit"
      BY <1>1 DEF Open, ghost
    <2> HIDE DEF q
    <2>6. QED
      BY <1>0, <2>1, <2>2, <2>3, <2>4, <2>5, KnownGrows, ToldStep
  <1>2. ASSUME NEW p \in Procs, JudgeStart(p) PROVE ToldInv'
    <2>1. PICK q : /\ proc' = [proc EXCEPT ![p] = q]
                   /\ q.sess = proc[p].sess /\ q.phase # "opened"
      <3> DEFINE todo == IF proc[p].sess.exists THEN "exit" ELSE "save"
                 q == [proc[p] EXCEPT !.phase = AfterJudge(todo), !.todo = todo]
      <3>1. proc' = [proc EXCEPT ![p] = q]
        BY <1>2 DEF JudgeStart
      <3>2. q.sess = proc[p].sess /\ q.phase = AfterJudge(todo)
        BY <1>0 DEF ProcType
      <3>3. AfterJudge(todo) # "opened"
        BY DEF AfterJudge
      <3>4. QED
        BY <3>1, <3>2, <3>3
    <2>2. q = proc'[p]
      BY <2>1 DEF TypeOK
    <2>3. everTold' = everTold /\ muted' = muted /\ session' = session /\ proc[p].phase = "opened"
      BY <1>2 DEF JudgeStart, ghost
    <2>4. Reported(q.sess) \subseteq Known
      BY <2>1, <2>3 DEF ToldInv
    <2>5. QED
      BY <1>0, <2>1, <2>2, <2>3, <2>4, KnownGrows, ToldStep
  <1>3. ASSUME NEW p \in Procs, JudgePost(p) PROVE ToldInv'
    <2> DEFINE s == proc[p].sess
               base == trees[s.base]
               s2 == [s EXCEPT !.files = NewFiles(s, disk, base),
                               !.reported = NewReported(s, disk, base)]
               m == NewDenials(s, disk, base)
    <2>1. s2 \in SessionType /\ s \in SessionType
      BY <1>0, NewSessionType DEF ProcType
    <2>2. s2.reported = NewReported(s, disk, base)
      BY <2>1 DEF SessionType
    <2>3. Reported(s2) \subseteq Reported(s) \cup m
      BY <1>0, <2>1, <2>2, NewReportedAreShown
    <2> HIDE DEF s2, m
    <2>4. PICK q : /\ proc' = [proc EXCEPT ![p] = q]
                   /\ q.sess = s2 /\ q.msgs = m /\ q.phase # "opened"
      <3> DEFINE q == [proc[p] EXCEPT !.phase = "judged", !.todo = "save", !.tree = disk,
                                      !.msgs = m, !.sess = s2]
      <3>1. proc' = [proc EXCEPT ![p] = q]
        BY <1>3 DEF JudgePost, s2, m
      <3>2. q.sess = s2 /\ q.msgs = m /\ q.phase # "opened"
        BY <1>0 DEF ProcType
      <3>3. QED
        BY <3>1, <3>2
    <2>5. q = proc'[p]
      BY <2>4 DEF TypeOK
    <2>6. everTold' = everTold /\ muted' = muted /\ session' = session /\ proc[p].phase = "opened"
      BY <1>3 DEF JudgePost, ghost
    <2>7. Reported(q.sess) \subseteq Known \cup q.msgs
      BY <2>3, <2>4, <2>6 DEF ToldInv
    <2>8. QED
      BY <1>0, <2>4, <2>5, <2>6, <2>7, KnownGrows, ToldStep
  <1>4. ASSUME NEW p \in Procs, NEW v \in {"fail", "pass", "unknown"}, JudgeStop(p, v)
        PROVE  ToldInv'
    <2>1. PICK q : /\ proc' = [proc EXCEPT ![p] = q]
                   /\ Reported(q.sess) = Reported(proc[p].sess) /\ q.phase # "opened"
      <3> DEFINE todo == StopTodo(proc[p], disk, v)
                 s == proc[p].sess
                 s2 == [s EXCEPT !.digest = NewDigest(todo, s.digest, disk)]
                 q == [proc[p] EXCEPT !.phase = AfterJudge(todo), !.tree = disk,
                                      !.verdict = v, !.todo = todo, !.sess = s2]
      <3>1. proc' = [proc EXCEPT ![p] = q]
        BY <1>4 DEF JudgeStop
      <3>2. s2.reported = s.reported
        BY <1>0 DEF ProcType, SessionType
      <3>3. AfterJudge(todo) # "opened"
        BY DEF AfterJudge
      <3> HIDE DEF s2, todo
      <3>4. q.sess = s2 /\ q.phase = AfterJudge(todo)
        BY <1>0 DEF ProcType
      <3>5. QED
        BY <3>1, <3>2, <3>3, <3>4 DEF Reported
    <2>2. q = proc'[p]
      BY <2>1 DEF TypeOK
    <2>3. everTold' = everTold /\ muted' = muted /\ session' = session /\ proc[p].phase = "opened"
      BY <1>4 DEF JudgeStop, ghost
    <2>4. Reported(q.sess) \subseteq Known
      BY <2>1, <2>3 DEF ToldInv
    <2>5. QED
      BY <1>0, <2>1, <2>2, <2>3, <2>4, KnownGrows, ToldStep
  <1>5. ASSUME NEW p \in Procs, Save(p) PROVE ToldInv'
    <2>1. PICK q : /\ proc' = [proc EXCEPT ![p] = q]
                   /\ q.phase = "exit" /\ q.msgs = proc[p].msgs
      <3>1. [proc[p] EXCEPT !.phase = "exit"].msgs = proc[p].msgs
        BY <1>0 DEF ProcType
      <3>2. [proc[p] EXCEPT !.phase = "exit"].phase = "exit"
        BY <1>0 DEF ProcType
      <3>3. QED
        BY <1>5, <3>1, <3>2 DEF Save
    <2>2. q = proc'[p]
      BY <2>1 DEF TypeOK
    <2>3. everTold' = everTold /\ muted' = muted /\ proc[p].phase = "judged"
      BY <1>5 DEF Save, ghost
    <2>4. Known \subseteq Known'
      BY <1>0, <2>1, <2>2, <2>3, KnownGrows
    <2>5. proc[p].msgs \subseteq Known'
      BY <2>1, <2>2 DEF Known, Pending
    <2>6. Reported(session') = Reported(proc[p].sess)
      BY <1>0, <1>5 DEF Save, Reported, ProcType, SessionType
    <2>7. Reported(session') \subseteq Known'
      BY <2>3, <2>4, <2>5, <2>6 DEF ToldInv
    <2>8. ASSUME NEW r \in Procs
          PROVE  /\ proc'[r].phase = "opened" => Reported(proc'[r].sess) \subseteq Known'
                 /\ proc'[r].phase = "judged" =>
                       Reported(proc'[r].sess) \subseteq Known' \cup proc'[r].msgs
      <3>1. r = p \/ proc'[r] = proc[r]
        BY <2>1 DEF TypeOK
      <3>2. QED
        BY <2>1, <2>2, <2>4, <3>1 DEF ToldInv
    <2>9. QED
      BY <2>7, <2>8 DEF ToldInv, Reported
  <1>6. ASSUME NEW p \in Procs, SaveFails(p) PROVE ToldInv'
    <2>1. PICK q : proc' = [proc EXCEPT ![p] = q] /\ q.phase \in {"exit", "idle"}
      <3>1. [proc[p] EXCEPT !.phase = "exit", !.todo = "again"].phase = "exit"
        BY <1>0 DEF ProcType
      <3>2. QED
        BY <1>6, <1>e, <3>1 DEF SaveFails
    <2>2. q = proc'[p]
      BY <2>1 DEF TypeOK
    <2>3. everTold' = everTold /\ muted' = muted /\ session' = session /\ proc[p].phase = "judged"
      BY <1>6 DEF SaveFails, ghost
    <2>4. QED
      BY <1>0, <2>1, <2>2, <2>3, KnownGrows, ToldStep
  <1>7. ASSUME NEW p \in Procs, Abort(p) PROVE ToldInv'
    <2>1. everTold' = everTold /\ muted' = muted /\ session' = session /\ proc[p].phase # "exit"
      BY <1>7 DEF Abort, ghost
    <2>2. QED
      BY <1>7, <1>e, <2>1, KnownGrows, ToldStep DEF Abort
  <1>8. ASSUME NEW p \in Procs, Exit(p) PROVE ToldInv'
    <2>1. /\ everTold' = everTold \cup proc[p].msgs /\ muted' = muted \ proc[p].msgs
          /\ session' = session
      BY <1>8 DEF Exit
    <2>2. QED
      BY <1>8, <1>e, <2>1, KnownGrows, ToldStep DEF Exit
  <1>9. CASE UNCHANGED <<session, proc, everTold, muted>>
    BY <1>9 DEF ToldInv, Known, Pending, Reported
  <1>10. ASSUME NEW p \in Procs, KilledUnheard(p) PROVE ToldInv'
    <2>1. /\ everTold' = everTold /\ muted' = muted \cup proc[p].msgs
          /\ session' = session
      BY <1>10 DEF KilledUnheard
    <2>2. QED
      BY <1>10, <1>e, <2>1, KnownGrows, ToldStep DEF KilledUnheard
  <1>11. QED
    BY <1>1, <1>2, <1>3, <1>4, <1>5, <1>6, <1>7, <1>8, <1>9, <1>10
    DEF Next, Step, Edit, Commit, vars, ghost

\* Whatever the interleaving: post-tool-use keeps silent about a denial only
\* if the agent was shown it, or is about to be, or the hook that recorded it
\* was killed before its output (RecordedWasTold).
THEOREM NothingSilencedUnseen == Spec => []RecordedWasTold
  <1>1. Init => ToldInv
    <2> SUFFICES ASSUME Init PROVE ToldInv
      OBVIOUS
    <2>1. Reported(session) = {}
      BY DEF Init, Reported, EmptySession, NoDenials, Denial
    <2>2. \A p \in Procs : proc[p].phase = "idle"
      BY DEF Init, IdleProc
    <2>3. QED
      BY <2>1, <2>2 DEF ToldInv
  <1>2. TypeOK /\ ToldInv => RecordedWasTold
    BY DEF ToldInv, RecordedWasTold, Reported, Known, Denial, TypeOK, SessionType
  <1>3. QED
    BY <1>1, <1>2, TypeCorrect, ToldInductive, PTL DEF Spec

-----------------------------------------------------------------------------
(* No tree is recorded that the main agent was not blocked on, but for one   *)
(* whose stop was killed between its save and its output.                    *)

KnownBlocks == {NoTree} \cup blocks \cup PendingBlocks \cup mutedBlocks

IsMainBlock(q) == q.kind = "stop" /\ ~q.sub /\ q.todo = "block"

\* A copy's digest is of a known block, or of the block its process makes.
BlockInv ==
    /\ session.digest \in KnownBlocks
    /\ \A p \in Procs :
        /\ proc[p].phase = "opened" => proc[p].sess.digest \in KnownBlocks
        /\ proc[p].phase = "judged" =>
              \/ proc[p].sess.digest \in KnownBlocks
              \/ IsMainBlock(proc[p]) /\ proc[p].sess.digest = proc[p].tree

LEMMA BlocksGrow ==
  ASSUME TypeOK, NEW p \in Procs, NEW q, proc' = [proc EXCEPT ![p] = q],
         blocks \subseteq blocks', mutedBlocks \subseteq blocks' \cup mutedBlocks',
         proc[p].phase = "exit" /\ IsMainBlock(proc[p]) =>
             proc[p].tree \in blocks' \cup mutedBlocks'
  PROVE  KnownBlocks \subseteq KnownBlocks'
  <1> SUFFICES ASSUME NEW x \in PendingBlocks PROVE x \in KnownBlocks'
    BY DEF KnownBlocks
  <1>1. PICK r \in Procs : /\ proc[r].phase = "exit" /\ IsMainBlock(proc[r])
                           /\ x = proc[r].tree
    BY DEF PendingBlocks, IsMainBlock
  <1>2. CASE r = p
    BY <1>1, <1>2 DEF KnownBlocks
  <1>3. CASE r # p
    <2>1. proc'[r] = proc[r]
      BY <1>3 DEF TypeOK
    <2>2. QED
      BY <1>1, <2>1 DEF KnownBlocks, PendingBlocks, IsMainBlock
  <1>4. QED
    BY <1>2, <1>3

LEMMA BlockStep ==
  ASSUME TypeOK, BlockInv, NEW p \in Procs, NEW q, proc' = [proc EXCEPT ![p] = q],
         KnownBlocks \subseteq KnownBlocks', session'.digest \in KnownBlocks',
         q.phase = "opened" => q.sess.digest \in KnownBlocks,
         q.phase = "judged" => \/ q.sess.digest \in KnownBlocks
                               \/ IsMainBlock(q) /\ q.sess.digest = q.tree
  PROVE  BlockInv'
  <1>1. ASSUME NEW r \in Procs
        PROVE  /\ proc'[r].phase = "opened" => proc'[r].sess.digest \in KnownBlocks'
               /\ proc'[r].phase = "judged" =>
                    \/ proc'[r].sess.digest \in KnownBlocks'
                    \/ IsMainBlock(proc'[r]) /\ proc'[r].sess.digest = proc'[r].tree
    <2>1. (r = p /\ proc'[r] = q) \/ proc'[r] = proc[r]
      BY DEF TypeOK
    <2>2. QED
      BY <2>1 DEF BlockInv
  <1>2. QED
    BY <1>1 DEF BlockInv, IsMainBlock

LEMMA BlockInductive == TypeOK /\ BlockInv /\ [Next]_vars => BlockInv'
  <1> SUFFICES ASSUME TypeOK, BlockInv, [Next]_vars PROVE BlockInv'
    OBVIOUS
  <1>0. /\ \A p \in Procs : proc[p] \in ProcType
        /\ session \in SessionType
    BY DEF TypeOK
  <1>e. IdleProc.phase = "idle"
    BY DEF IdleProc
  <1>1. ASSUME NEW p \in Procs, NEW kind \in Kinds, NEW sub \in BOOLEAN,
               NEW active \in BOOLEAN, Open(p, kind, sub, active)
        PROVE  BlockInv'
    <2>1. PICK q : proc' = [proc EXCEPT ![p] = q] /\ q.phase = "opened" /\ q.sess = Loaded
      <3> DEFINE made == earned \cup PendingBlocks
                 q == [IdleProc EXCEPT !.phase = "opened", !.kind = kind, !.sub = sub,
                                       !.active = active, !.sess = Loaded, !.made = made]
      <3> HIDE DEF made
      <3>1. proc' = [proc EXCEPT ![p] = q]
        BY <1>1 DEF Open, made
      <3>2. q.phase = "opened" /\ q.sess = Loaded
        BY DEF IdleProc
      <3>3. QED
        BY <3>1, <3>2
    <2>2. Loaded.digest \in KnownBlocks
      BY <1>0 DEF Loaded, SessionType, BlockInv
    <2>3. UNCHANGED <<blocks, mutedBlocks>> /\ session' = session /\ proc[p].phase = "idle"
      BY <1>1 DEF Open, ghost
    <2>4. KnownBlocks \subseteq KnownBlocks'
      BY <2>1, <2>3, BlocksGrow
    <2>5. QED
      BY <2>1, <2>2, <2>3, <2>4, BlockStep DEF BlockInv
  <1>2. ASSUME NEW p \in Procs, JudgeStart(p) PROVE BlockInv'
    <2>1. PICK q : /\ proc' = [proc EXCEPT ![p] = q]
                   /\ q.sess = proc[p].sess /\ q.phase # "opened"
      <3> DEFINE todo == IF proc[p].sess.exists THEN "exit" ELSE "save"
                 q == [proc[p] EXCEPT !.phase = AfterJudge(todo), !.todo = todo]
      <3>1. proc' = [proc EXCEPT ![p] = q]
        BY <1>2 DEF JudgeStart
      <3>2. q.sess = proc[p].sess /\ q.phase = AfterJudge(todo)
        BY <1>0 DEF ProcType
      <3>3. AfterJudge(todo) # "opened"
        BY DEF AfterJudge
      <3>4. QED
        BY <3>1, <3>2, <3>3
    <2>2. UNCHANGED <<blocks, mutedBlocks>> /\ session' = session /\ proc[p].phase = "opened"
      BY <1>2 DEF JudgeStart, ghost
    <2>3. KnownBlocks \subseteq KnownBlocks'
      BY <2>1, <2>2, BlocksGrow
    <2>4. QED
      BY <2>1, <2>2, <2>3, BlockStep DEF BlockInv
  <1>3. ASSUME NEW p \in Procs, JudgePost(p) PROVE BlockInv'
    <2> DEFINE s == proc[p].sess
               base == trees[s.base]
               s2 == [s EXCEPT !.files = NewFiles(s, disk, base),
                               !.reported = NewReported(s, disk, base)]
               m == NewDenials(s, disk, base)
    <2>1. s2.digest = s.digest
      BY <1>0 DEF ProcType, SessionType
    <2> HIDE DEF s2, m
    <2>2. PICK q : /\ proc' = [proc EXCEPT ![p] = q]
                   /\ q.sess = s2 /\ q.phase # "opened"
      <3> DEFINE q == [proc[p] EXCEPT !.phase = "judged", !.todo = "save", !.tree = disk,
                                      !.msgs = m, !.sess = s2]
      <3>1. proc' = [proc EXCEPT ![p] = q]
        BY <1>3 DEF JudgePost, s2, m
      <3>2. q.sess = s2 /\ q.phase # "opened"
        BY <1>0 DEF ProcType
      <3>3. QED
        BY <3>1, <3>2
    <2>3. UNCHANGED <<blocks, mutedBlocks>> /\ session' = session /\ proc[p].phase = "opened"
      BY <1>3 DEF JudgePost, ghost
    <2>4. KnownBlocks \subseteq KnownBlocks'
      BY <2>2, <2>3, BlocksGrow
    <2>5. QED
      BY <2>1, <2>2, <2>3, <2>4, BlockStep DEF BlockInv
  <1>4. ASSUME NEW p \in Procs, NEW v \in {"fail", "pass", "unknown"}, JudgeStop(p, v)
        PROVE  BlockInv'
    <2> DEFINE todo == StopTodo(proc[p], disk, v)
               s == proc[p].sess
               s2 == [s EXCEPT !.digest = NewDigest(todo, s.digest, disk)]
               q == [proc[p] EXCEPT !.phase = AfterJudge(todo), !.tree = disk,
                                    !.verdict = v, !.todo = todo, !.sess = s2]
    <2>1. proc' = [proc EXCEPT ![p] = q]
      BY <1>4 DEF JudgeStop
    <2>2. UNCHANGED <<blocks, mutedBlocks>> /\ session' = session /\ proc[p].phase = "opened"
          /\ proc[p].kind = "stop"
      BY <1>4 DEF JudgeStop, ghost
    <2>3. s2.digest = NewDigest(todo, s.digest, disk)
      BY <1>0 DEF ProcType, SessionType
    <2>4. todo = "block" => ~proc[p].sub
      BY DEF StopTodo
    <2>5. todo = "block" => s2.digest = disk
      BY <2>3 DEF NewDigest
    <2>6. todo # "block" => s2.digest \in {s.digest, NoTree}
      BY <2>3 DEF NewDigest
    <2>7. AfterJudge(todo) # "opened"
      BY DEF AfterJudge
    <2> HIDE DEF s2, todo
    <2>8. /\ q.sess = s2 /\ q.tree = disk /\ q.todo = todo /\ q.kind = proc[p].kind
          /\ q.sub = proc[p].sub /\ q.phase = AfterJudge(todo)
      BY <1>0 DEF ProcType
    <2> HIDE DEF q
    <2>9. KnownBlocks \subseteq KnownBlocks'
      BY <2>1, <2>2, BlocksGrow
    <2>10. CASE todo = "block"
      BY <2>1, <2>2, <2>4, <2>5, <2>7, <2>8, <2>9, <2>10, BlockStep DEF BlockInv, IsMainBlock
    <2>11. CASE todo # "block"
      <3>1. s.digest \in KnownBlocks /\ NoTree \in KnownBlocks
        BY <2>2 DEF BlockInv, KnownBlocks
      <3>2. QED
        BY <2>1, <2>2, <2>6, <2>7, <2>8, <2>9, <2>11, <3>1, BlockStep DEF BlockInv
    <2>12. QED
      BY <2>10, <2>11
  <1>5. ASSUME NEW p \in Procs, Save(p) PROVE BlockInv'
    <2> DEFINE q == [proc[p] EXCEPT !.phase = "exit"]
    <2>1. /\ q.phase = "exit" /\ q.kind = proc[p].kind /\ q.sub = proc[p].sub
          /\ q.todo = proc[p].todo /\ q.tree = proc[p].tree
      BY <1>0 DEF ProcType
    <2>2. proc' = [proc EXCEPT ![p] = q] /\ UNCHANGED <<blocks, mutedBlocks>> /\ proc[p].phase = "judged"
      BY <1>5 DEF Save, ghost
    <2> HIDE DEF q
    <2>3. proc'[p] = q
      BY <2>2 DEF TypeOK
    <2>4. KnownBlocks \subseteq KnownBlocks'
      BY <2>2, BlocksGrow
    <2>5. session'.digest = proc[p].sess.digest
      BY <1>0, <1>5 DEF Save, ProcType, SessionType
    <2>6. IsMainBlock(proc[p]) => proc[p].tree \in KnownBlocks'
      BY <2>1, <2>3 DEF IsMainBlock, KnownBlocks, PendingBlocks
    <2>7. session'.digest \in KnownBlocks'
      BY <2>2, <2>4, <2>5, <2>6 DEF BlockInv
    <2>8. QED
      BY <2>1, <2>2, <2>4, <2>7, BlockStep
  <1>6. ASSUME NEW p \in Procs, SaveFails(p) PROVE BlockInv'
    <2>1. PICK q : proc' = [proc EXCEPT ![p] = q] /\ q.phase \in {"exit", "idle"}
      <3>1. [proc[p] EXCEPT !.phase = "exit", !.todo = "again"].phase = "exit"
        BY <1>0 DEF ProcType
      <3>2. QED
        BY <1>6, <1>e, <3>1 DEF SaveFails
    <2>2. UNCHANGED <<blocks, mutedBlocks>> /\ session' = session /\ proc[p].phase = "judged"
      BY <1>6 DEF SaveFails, ghost
    <2>3. KnownBlocks \subseteq KnownBlocks'
      BY <2>1, <2>2, BlocksGrow
    <2>4. QED
      BY <2>1, <2>2, <2>3, BlockStep DEF BlockInv
  <1>7. ASSUME NEW p \in Procs, Abort(p) PROVE BlockInv'
    <2>1. UNCHANGED <<blocks, mutedBlocks>> /\ session' = session /\ proc[p].phase # "exit"
          /\ proc' = [proc EXCEPT ![p] = IdleProc]
      BY <1>7 DEF Abort, ghost
    <2>2. KnownBlocks \subseteq KnownBlocks'
      BY <2>1, BlocksGrow
    <2>3. QED
      BY <1>e, <2>1, <2>2, BlockStep DEF BlockInv
  <1>8. ASSUME NEW p \in Procs, Exit(p) PROVE BlockInv'
    <2>1. /\ blocks \subseteq blocks' /\ session' = session
          /\ mutedBlocks \subseteq blocks' \cup mutedBlocks'
          /\ proc' = [proc EXCEPT ![p] = IdleProc]
          /\ IsMainBlock(proc[p]) => proc[p].tree \in blocks'
      BY <1>8 DEF Exit, IsMainBlock, BlockOf
    <2>2. KnownBlocks \subseteq KnownBlocks'
      BY <2>1, BlocksGrow
    <2>3. QED
      BY <1>e, <2>1, <2>2, BlockStep DEF BlockInv
  <1>9. CASE UNCHANGED <<session, proc, blocks, mutedBlocks>>
    BY <1>9 DEF BlockInv, KnownBlocks, PendingBlocks, IsMainBlock
  <1>10. ASSUME NEW p \in Procs, KilledUnheard(p) PROVE BlockInv'
    <2>1. /\ blocks' = blocks /\ session' = session
          /\ mutedBlocks \subseteq mutedBlocks'
          /\ proc' = [proc EXCEPT ![p] = IdleProc]
          /\ IsMainBlock(proc[p]) => proc[p].tree \in mutedBlocks'
      BY <1>10 DEF KilledUnheard, IsMainBlock, BlockOf
    <2>2. KnownBlocks \subseteq KnownBlocks'
      BY <2>1, BlocksGrow
    <2>3. QED
      BY <1>e, <2>1, <2>2, BlockStep DEF BlockInv
  <1>11. QED
    BY <1>1, <1>2, <1>3, <1>4, <1>5, <1>6, <1>7, <1>8, <1>9, <1>10
    DEF Next, Step, Edit, Commit, vars, ghost

\* Whatever the interleaving: a stop is compared only with a tree the main
\* agent's stop was blocked on, or is about to be, or would have been had that
\* stop not been killed before its output (RecordedWasBlocked); a subagent's
\* stop never uses up the main agent's block.
THEOREM NothingSuppressedUnseen == Spec => []RecordedWasBlocked
  <1>1. Init => BlockInv
    BY DEF Init, BlockInv, IdleProc, EmptySession, KnownBlocks
  <1>2. BlockInv => RecordedWasBlocked
    BY DEF BlockInv, KnownBlocks, RecordedWasBlocked
  <1>3. QED
    BY <1>1, <1>2, TypeCorrect, BlockInductive, PTL DEF Spec

\* Whatever the interleaving, nothing the hooks keep silent about went unseen,
\* but for what a hook killed between its save and its output took with it.
THEOREM NothingHidden == Spec => []NothingHiddenUnseen
BY NothingSilencedUnseen, NothingSuppressedUnseen, PTL DEF NothingHiddenUnseen

-----------------------------------------------------------------------------
(* One hook event at a time.                                                *)

OneAtATime == \A p, q \in Procs : p = q

-----------------------------------------------------------------------------
(* What each step leaves in the record of the process that takes it.        *)

LEMMA Opens ==
  ASSUME TypeOK, OneAtATime, NEW p \in Procs, NEW kind \in Kinds, NEW sub \in BOOLEAN,
         NEW active \in BOOLEAN, Open(p, kind, sub, active)
  PROVE  LET q == proc'[p]
         IN  /\ proc[p].phase = "idle" /\ q.phase = "opened" /\ q.kind = kind
             /\ q.sess = Loaded /\ q.made = earned
             /\ q.msgs = {} /\ q.verdict = "none" /\ q.todo = "exit"
  <1>1. PendingBlocks = {} /\ proc[p].phase = "idle"
    BY DEF Open, PendingBlocks, OneAtATime
  <1> DEFINE made == earned \cup PendingBlocks
             q == [IdleProc EXCEPT !.phase = "opened", !.kind = kind, !.sub = sub,
                                   !.active = active, !.sess = Loaded, !.made = made]
  <1>2. made = earned
    BY <1>1
  <1>3. proc'[p] = q
    BY DEF Open, TypeOK
  <1> HIDE DEF made
  <1>4. /\ q.phase = "opened" /\ q.kind = kind /\ q.sess = Loaded /\ q.made = made
        /\ q.msgs = {} /\ q.verdict = "none" /\ q.todo = "exit"
    BY DEF IdleProc
  <1>5. QED
    BY <1>1, <1>2, <1>3, <1>4

LEMMA JudgesStart ==
  ASSUME TypeOK, NEW p \in Procs, JudgeStart(p)
  PROVE  LET q == proc'[p]
         IN  /\ proc[p].phase = "opened" /\ proc[p].kind = "session-start"
             /\ q.kind = proc[p].kind /\ q.sess = proc[p].sess /\ q.made = proc[p].made
             /\ q.msgs = proc[p].msgs /\ q.verdict = proc[p].verdict
             /\ \/ q.phase = "exit" /\ q.todo = "exit"
                \/ q.phase = "judged" /\ q.todo = "save"
  <1> DEFINE todo == IF proc[p].sess.exists THEN "exit" ELSE "save"
             phase == AfterJudge(todo)
             q == [proc[p] EXCEPT !.phase = phase, !.todo = todo]
  <1>1. proc'[p] = q /\ proc[p] \in ProcType
    BY DEF JudgeStart, TypeOK
  <1>2. (phase = "exit" /\ todo = "exit") \/ (phase = "judged" /\ todo = "save")
    BY DEF AfterJudge
  <1> HIDE DEF todo, phase
  <1>3. /\ q.phase = phase /\ q.todo = todo /\ q.kind = proc[p].kind
        /\ q.sess = proc[p].sess /\ q.made = proc[p].made
        /\ q.msgs = proc[p].msgs /\ q.verdict = proc[p].verdict
    BY <1>1 DEF ProcType
  <1>4. QED
    BY <1>1, <1>2, <1>3 DEF JudgeStart

LEMMA JudgesPost ==
  ASSUME TypeOK, NEW p \in Procs, JudgePost(p)
  PROVE  LET q == proc'[p]
             s == proc[p].sess
             base == trees[s.base]
         IN  /\ proc[p].phase = "opened" /\ proc[p].kind = "post-tool-use"
             /\ q.phase = "judged" /\ q.todo = "save" /\ q.kind = proc[p].kind
             /\ q.made = proc[p].made /\ q.verdict = proc[p].verdict
             /\ q.tree = disk /\ q.msgs = NewDenials(s, disk, base)
             /\ q.sess.base = s.base /\ q.sess.exists = s.exists
             /\ q.sess.digest = s.digest
             /\ q.sess.files = NewFiles(s, disk, base)
             /\ q.sess.reported = NewReported(s, disk, base)
  <1> DEFINE s == proc[p].sess
             base == trees[s.base]
             files == NewFiles(s, disk, base)
             reported == NewReported(s, disk, base)
             s2 == [s EXCEPT !.files = files, !.reported = reported]
             m == NewDenials(s, disk, base)
             q == [proc[p] EXCEPT !.phase = "judged", !.todo = "save", !.tree = disk,
                                  !.msgs = m, !.sess = s2]
  <1>1. proc'[p] = q /\ proc[p] \in ProcType
    BY DEF JudgePost, TypeOK
  <1> HIDE DEF files, reported, m
  <1>2. /\ s2.base = s.base /\ s2.exists = s.exists /\ s2.digest = s.digest
        /\ s2.files = files /\ s2.reported = reported
    BY <1>1 DEF ProcType, SessionType
  <1> HIDE DEF s2
  <1>3. /\ q.phase = "judged" /\ q.todo = "save" /\ q.kind = proc[p].kind
        /\ q.made = proc[p].made /\ q.verdict = proc[p].verdict
        /\ q.tree = disk /\ q.msgs = m /\ q.sess = s2
    BY <1>1 DEF ProcType
  <1>4. q.sess.base = s.base /\ q.sess.exists = s.exists /\ q.sess.digest = s.digest
        /\ q.sess.files = files /\ q.sess.reported = reported
    BY <1>2, <1>3
  <1>5. proc[p].phase = "opened" /\ proc[p].kind = "post-tool-use"
    BY DEF JudgePost
  <1> HIDE DEF q
  <1>6. QED
    BY <1>1, <1>3, <1>4, <1>5 DEF files, reported, m

LEMMA JudgesStop ==
  ASSUME TypeOK, NEW p \in Procs, NEW v \in {"fail", "pass", "unknown"}, JudgeStop(p, v)
  PROVE  LET q == proc'[p]
             s == proc[p].sess
             todo == StopTodo(proc[p], disk, v)
         IN  /\ proc[p].phase = "opened" /\ proc[p].kind = "stop"
             /\ q.phase = AfterJudge(todo) /\ q.todo = todo /\ q.kind = proc[p].kind
             /\ q.sub = proc[p].sub /\ q.made = proc[p].made /\ q.verdict = v
             /\ q.tree = disk /\ q.msgs = proc[p].msgs
             /\ q.sess.base = s.base /\ q.sess.exists = s.exists
             /\ q.sess.digest = NewDigest(todo, s.digest, disk)
             /\ q.sess.files = s.files /\ q.sess.reported = s.reported
  <1> DEFINE s == proc[p].sess
             todo == StopTodo(proc[p], disk, v)
             digest == NewDigest(todo, s.digest, disk)
             phase == AfterJudge(todo)
             s2 == [s EXCEPT !.digest = digest]
             q == [proc[p] EXCEPT !.phase = phase, !.tree = disk,
                                  !.verdict = v, !.todo = todo, !.sess = s2]
  <1>1. proc'[p] = q /\ proc[p] \in ProcType
    BY DEF JudgeStop, TypeOK
  <1> HIDE DEF digest, phase, todo
  <1>2. /\ s2.base = s.base /\ s2.exists = s.exists /\ s2.digest = digest
        /\ s2.files = s.files /\ s2.reported = s.reported
    BY <1>1 DEF ProcType, SessionType
  <1> HIDE DEF s2
  <1>3. /\ q.phase = phase /\ q.todo = todo /\ q.kind = proc[p].kind
        /\ q.sub = proc[p].sub /\ q.made = proc[p].made /\ q.verdict = v
        /\ q.tree = disk /\ q.msgs = proc[p].msgs /\ q.sess = s2
    BY <1>1 DEF ProcType
  <1>4. QED
    BY <1>1, <1>2, <1>3 DEF JudgeStop, digest, phase, todo

LEMMA Saves ==
  ASSUME TypeOK, NEW p \in Procs, Save(p)
  PROVE  LET q == proc'[p]
             old == proc[p]
         IN  /\ old.phase = "judged" /\ q.phase = "exit" /\ q.todo = old.todo
             /\ q.kind = old.kind /\ q.sub = old.sub /\ q.made = old.made
             /\ q.verdict = old.verdict /\ q.tree = old.tree /\ q.msgs = old.msgs
             /\ q.sess = old.sess /\ session'.exists
             /\ session'.base = old.sess.base /\ session'.digest = old.sess.digest
             /\ session'.files = old.sess.files /\ session'.reported = old.sess.reported
  <1>1. proc'[p] = [proc[p] EXCEPT !.phase = "exit"] /\ proc[p] \in ProcType
    BY DEF Save, TypeOK
  <1>2. session' = [proc[p].sess EXCEPT !.exists = TRUE] /\ proc[p].sess \in SessionType
    BY <1>1 DEF Save, ProcType
  <1>3. /\ session'.exists
        /\ session'.base = proc[p].sess.base /\ session'.digest = proc[p].sess.digest
        /\ session'.files = proc[p].sess.files /\ session'.reported = proc[p].sess.reported
    BY <1>2 DEF SessionType
  <1>4. QED
    BY <1>1, <1>3 DEF Save, ProcType

\* Only a block outlives a save that fails.
LEMMA SavesNot ==
  ASSUME TypeOK, NEW p \in Procs, SaveFails(p)
  PROVE  LET q == proc'[p]
             old == proc[p]
         IN  /\ old.phase = "judged"
             /\ \/ old.todo # "block" /\ q.phase = "idle"
                \/ /\ old.todo = "block" /\ q.phase = "exit" /\ q.todo = "again"
                   /\ q.kind = old.kind /\ q.sub = old.sub /\ q.made = old.made
                   /\ q.verdict = old.verdict /\ q.tree = old.tree
                   /\ q.msgs = old.msgs /\ q.sess = old.sess
  <1>1. proc[p].phase = "judged" /\ proc[p] \in ProcType
    BY DEF SaveFails, TypeOK
  <1>2. CASE proc[p].todo # "block"
    BY <1>1, <1>2 DEF SaveFails, IdleProc, TypeOK
  <1>3. CASE proc[p].todo = "block"
    <2>1. proc'[p] = [proc[p] EXCEPT !.phase = "exit", !.todo = "again"]
      BY <1>3 DEF SaveFails, TypeOK
    <2>2. QED
      BY <1>1, <1>3, <2>1 DEF ProcType
  <1>4. QED
    BY <1>2, <1>3

-----------------------------------------------------------------------------
(* A stop is suppressed only on a tree the main agent was blocked on since   *)
(* its last stop that passed or was unknown.                                 *)

Earned == {NoTree} \cup earned \cup mutedBlocks

\* Between two hook events the recorded digest was earned.  A block is recorded
\* before it is shown, and a pass forgets the record before it is over.
EarnedBy(q) ==
    /\ q.phase # "exit" => session.digest \in Earned
    /\ q.phase \in {"opened", "judged"} => q.made = earned
    /\ q.phase = "opened" => q.sess.digest = session.digest /\ q.verdict = "none"
    /\ q.phase = "judged" =>
          \/ q.todo = "save" /\ q.verdict = "none" /\ q.sess.digest = session.digest
          \/ IsMainBlock(q) /\ q.verdict = "fail" /\ q.sess.digest = q.tree
          \/ q.todo = "forget" /\ q.sess.digest = NoTree
    /\ q.phase = "exit" =>
          /\ \/ session.digest \in Earned
             \/ IsMainBlock(q) /\ q.verdict = "fail" /\ session.digest = q.tree
          /\ q.verdict \in {"pass", "unknown"} => session.digest = NoTree
          /\ q.todo = "suppress" => q.tree \in q.made \cup mutedBlocks

EarnedInv == \A p \in Procs : EarnedBy(proc[p])

LEMMA EarnedInductive == OneAtATime /\ TypeOK /\ EarnedInv /\ [Next]_vars => EarnedInv'
  <1> SUFFICES ASSUME OneAtATime, TypeOK, EarnedInv, [Next]_vars PROVE EarnedInv'
    OBVIOUS
  <1>0. ASSUME NEW p \in Procs, EarnedBy(proc[p])' PROVE EarnedInv'
    BY <1>0 DEF OneAtATime, EarnedInv, EarnedBy, IsMainBlock, Earned
  <1>1. ASSUME NEW p \in Procs, NEW kind \in Kinds, NEW sub \in BOOLEAN,
               NEW active \in BOOLEAN, Open(p, kind, sub, active)
        PROVE  EarnedInv'
    <2>1. session' = session /\ UNCHANGED <<earned, mutedBlocks>>
      BY <1>1 DEF Open, ghost
    <2>2. Loaded.digest = session.digest
      BY DEF Loaded, TypeOK, SessionType
    <2>3. QED
      BY <1>0, <1>1, <2>1, <2>2, Opens DEF EarnedInv, EarnedBy, Earned
  <1>2. ASSUME NEW p \in Procs, JudgeStart(p) PROVE EarnedInv'
    <2>1. session' = session /\ UNCHANGED <<earned, mutedBlocks>>
      BY <1>2 DEF JudgeStart, ghost
    <2>2. QED
      BY <1>0, <1>2, <2>1, JudgesStart DEF EarnedInv, EarnedBy, Earned
  <1>3. ASSUME NEW p \in Procs, JudgePost(p) PROVE EarnedInv'
    <2>1. session' = session /\ UNCHANGED <<earned, mutedBlocks>>
      BY <1>3 DEF JudgePost, ghost
    <2>2. QED
      BY <1>0, <1>3, <2>1, JudgesPost DEF EarnedInv, EarnedBy, Earned
  <1>4. ASSUME NEW p \in Procs, NEW v \in {"fail", "pass", "unknown"}, JudgeStop(p, v)
        PROVE  EarnedInv'
    <2> DEFINE todo == StopTodo(proc[p], disk, v)
               s == proc[p].sess
    <2>1. session' = session /\ UNCHANGED <<earned, mutedBlocks>> /\ disk \in Tree /\ disk # NoTree
      BY <1>4, SessionAssumption DEF JudgeStop, ghost, TypeOK
    <2>2. /\ proc[p].phase = "opened" /\ proc[p].kind = "stop"
          /\ s.digest = session.digest /\ proc[p].made = earned
      BY <1>4 DEF EarnedInv, EarnedBy, JudgeStop
    <2>3. CASE todo = "block"
      <3>1. ~proc[p].sub /\ v = "fail"
        BY <2>3 DEF StopTodo
      <3>2. AfterJudge(todo) = "judged" /\ NewDigest(todo, s.digest, disk) = disk
        BY <2>3 DEF AfterJudge, NewDigest
      <3>3. QED
        BY <1>0, <1>4, <2>1, <2>2, <2>3, <3>1, <3>2, JudgesStop
        DEF EarnedInv, EarnedBy, Earned, IsMainBlock
    <2>4. CASE todo = "forget"
      <3>1. AfterJudge(todo) = "judged" /\ NewDigest(todo, s.digest, disk) = NoTree
        BY <2>4 DEF AfterJudge, NewDigest
      <3>2. QED
        BY <1>0, <1>4, <2>1, <2>2, <2>4, <3>1, JudgesStop
        DEF EarnedInv, EarnedBy, Earned
    <2>5. CASE todo \in {"exit", "suppress", "again"}
      <3>1. AfterJudge(todo) = "exit"
        BY <2>5 DEF AfterJudge
      <3>2. v # "fail" => session.digest = NoTree
        BY <2>2, <2>5 DEF StopTodo
      <3>3. todo = "suppress" => disk \in proc[p].made \cup mutedBlocks
        BY <2>1, <2>2 DEF StopTodo, EarnedInv, EarnedBy, Earned
      <3>4. QED
        BY <1>0, <1>4, <2>1, <2>2, <2>5, <3>1, <3>2, <3>3, JudgesStop
        DEF EarnedInv, EarnedBy, Earned
    <2>6. QED
      BY <2>3, <2>4, <2>5 DEF StopTodo
  <1>5. ASSUME NEW p \in Procs, Save(p) PROVE EarnedInv'
    <2>1. UNCHANGED <<earned, mutedBlocks>>
      BY <1>5 DEF Save, ghost
    <2>2. QED
      BY <1>0, <1>5, <2>1, Saves DEF EarnedInv, EarnedBy, Earned, IsMainBlock
  <1>6. ASSUME NEW p \in Procs, SaveFails(p) PROVE EarnedInv'
    <2>1. session' = session /\ UNCHANGED <<earned, mutedBlocks>>
      BY <1>6 DEF SaveFails, ghost
    <2>2. QED
      BY <1>0, <1>6, <2>1, SavesNot DEF EarnedInv, EarnedBy, Earned, IsMainBlock
  <1>7. ASSUME NEW p \in Procs, Abort(p) PROVE EarnedInv'
    <2>1. /\ session' = session /\ UNCHANGED <<earned, mutedBlocks>>
          /\ proc'[p].phase = "idle" /\ proc[p].phase \in {"opened", "judged"}
      BY <1>7 DEF Abort, ghost, IdleProc, TypeOK
    <2>2. QED
      BY <1>0, <1>7, <2>1 DEF EarnedInv, EarnedBy, Earned
  <1>8. ASSUME NEW p \in Procs, Exit(p) PROVE EarnedInv'
    <2> DEFINE q == proc[p]
               blocked == BlockOf(q, {"block", "again"})
    <2>1. /\ session' = session /\ q.phase = "exit" /\ proc'[p].phase = "idle"
          /\ earned' = (earned \ Forgotten(q)) \cup blocked
          /\ mutedBlocks' = mutedBlocks \ blocked
      BY <1>8 DEF Exit, IdleProc, TypeOK
    <2>2. \/ session.digest \in Earned
          \/ IsMainBlock(q) /\ q.verdict = "fail" /\ session.digest = q.tree
      BY <2>1 DEF EarnedInv, EarnedBy
    <2>3. q.verdict \in {"pass", "unknown"} => session.digest = NoTree
      BY <2>1 DEF EarnedInv, EarnedBy
    <2>4. session.digest \in Earned'
      BY <2>1, <2>2, <2>3 DEF Earned, IsMainBlock, BlockOf, Forgotten
    <2>5. QED
      BY <1>0, <2>1, <2>4 DEF EarnedBy
  <1>9. CASE UNCHANGED <<session, proc, earned, mutedBlocks>>
    BY <1>9 DEF EarnedInv, EarnedBy, Earned, IsMainBlock
  <1>10. ASSUME NEW p \in Procs, KilledUnheard(p) PROVE EarnedInv'
    <2> DEFINE q == proc[p]
    <2>1. /\ session' = session /\ q.phase = "exit" /\ proc'[p].phase = "idle"
          /\ earned' = earned \ Forgotten(q)
          /\ mutedBlocks' = mutedBlocks \cup BlockOf(q, {"block"})
      BY <1>10 DEF KilledUnheard, IdleProc, TypeOK
    <2>2. \/ session.digest \in Earned
          \/ IsMainBlock(q) /\ q.verdict = "fail" /\ session.digest = q.tree
      BY <2>1 DEF EarnedInv, EarnedBy
    <2>3. q.verdict \in {"pass", "unknown"} => session.digest = NoTree
      BY <2>1 DEF EarnedInv, EarnedBy
    <2>4. session.digest \in Earned'
      BY <2>1, <2>2, <2>3 DEF Earned, IsMainBlock, BlockOf, Forgotten
    <2>5. QED
      BY <1>0, <2>1, <2>4 DEF EarnedBy
  <1>11. QED
    BY <1>1, <1>2, <1>3, <1>4, <1>5, <1>6, <1>7, <1>8, <1>9, <1>10
    DEF Next, Step, Edit, Commit, vars, ghost

\* With one hook at a time: a stop is let through as suppressed only on a tree
\* the main agent was blocked on since the last stop that passed or was unknown
\* (stopHook, forgetBlock), or on one whose block a stop recorded and was killed
\* before showing.
THEOREM SuppressionIsEarned ==
  ASSUME OneAtATime
  PROVE  Spec => []SuppressionEarned
  <1>1. Init => EarnedInv
    BY DEF Init, EarnedInv, EarnedBy, IdleProc, EmptySession, Earned
  <1>2. EarnedInv => SuppressionEarned
    BY DEF EarnedInv, EarnedBy, SuppressionEarned
  <1>3. TypeOK /\ EarnedInv /\ [Next]_vars => EarnedInv'
    BY EarnedInductive
  <1>4. QED
    BY <1>1, <1>2, <1>3, TypeCorrect, PTL DEF Spec

-----------------------------------------------------------------------------
(* What post-tool-use makes of a session.                                    *)

\* A file that holds a denial differs from the base, and exists.
LEMMA DeniedIsTouched ==
  ASSUME NEW t \in Tree, NEW base \in Tree, NEW x \in Denials(t, base)
  PROVE  /\ x[1] \in Files /\ x[1] \in Touched(t, base) /\ t[x[1]] # Absent
         /\ x[2] \in AddedImports(t, base, x[1]) /\ x[2] \in Held(t, base, x[1])
  <1>1. x[1] \in Files /\ x[2] \in Held(t, base, x[1])
    BY DEF Denials, Denial
  <1>2. x[2] \in AddedImports(t, base, x[1])
    BY <1>1 DEF Held, Targets
  <1>3. t[x[1]] # Absent /\ t[x[1]] # base[x[1]]
    BY <1>1, <1>2 DEF AddedImports
  <1>4. QED
    BY <1>1, <1>2, <1>3 DEF Touched

\* What was on record stays there while the tree holds it.
LEMMA HeldStaysReported ==
  ASSUME NEW t \in Tree, NEW base \in Tree, NEW s \in SessionType,
         NEW x \in Denials(t, base) \cap Reported(s)
  PROVE  x[2] \in NewReported(s, t, base)[x[1]]
  <1>1. x[1] \in Files /\ x[1] \in Touched(t, base) /\ x[2] \in Held(t, base, x[1])
    BY DeniedIsTouched
  <1>2. x[2] \in s.reported[x[1]]
    BY DEF Reported
  <1>3. QED
    BY <1>1, <1>2 DEF NewReported

\* A new denial is not on record yet, and goes on record.
LEMMA NewDenialsAreReported ==
  ASSUME NEW t \in Tree, NEW base \in Tree, NEW s \in SessionType,
         NEW x \in NewDenials(s, t, base)
  PROVE  /\ x \in Denial /\ x \notin Reported(s)
         /\ x[2] \in NewReported(s, t, base)[x[1]]
  <1>1. /\ x \in Denial /\ x[1] \in Files /\ x[1] \in ReadAgain(s, t, base)
        /\ x[2] \in Held(t, base, x[1]) /\ x[2] \notin s.reported[x[1]]
    BY DEF NewDenials, Denial
  <1>2. x[1] \in Touched(t, base)
    BY <1>1 DEF ReadAgain
  <1>3. QED
    BY <1>1, <1>2 DEF NewReported, Reported

LEMMA LoadedBase ==
  ASSUME TypeOK, session.exists => session.base \in 1 .. Len(trees)
  PROVE  /\ Loaded.base \in 1 .. Len(trees)
         /\ session.exists => Loaded.base = session.base
         /\ Loaded.reported = session.reported /\ Loaded.files = session.files
  <1>1. Len(trees) \in 1 .. Len(trees)
    BY EmptySeq, LenProperties DEF TypeOK
  <1>2. QED
    BY <1>1 DEF TypeOK, Loaded, HeadCommit, SessionType

\* A commit adds a tree and changes none.
LEMMA CommitKeepsTrees ==
  ASSUME TypeOK, Commit
  PROVE  /\ trees' \in Seq(Tree) /\ Len(trees') = Len(trees) + 1
         /\ trees'[Len(trees')] = disk
         /\ \A k \in 1 .. Len(trees) : k \in 1 .. Len(trees') /\ trees'[k] = trees[k]
  BY DEF TypeOK, Commit

-----------------------------------------------------------------------------
(* A denial is not shown again while the import stays in the file.           *)

\* What a hook holds of the denials that stay: they are on record in its copy,
\* what it shows is not among them, and what it is about to show is saved.
ShownOnce(q) ==
    /\ q.phase # "idle" =>
          /\ q.sess.base \in 1 .. Len(trees)
          /\ session.exists => q.sess.base = session.base
          /\ q.todo = "block" => q.msgs = {}
    /\ q.phase = "opened" => q.sess.reported = session.reported /\ q.msgs = {}
    /\ q.phase \in {"judged", "exit"} =>
          q.msgs \cap stay = {} /\ q.msgs \subseteq Reported(q.sess)
    /\ q.phase = "judged" => stay \subseteq Reported(q.sess)
    /\ q.phase = "exit" /\ q.msgs # {} =>
          /\ session.exists /\ session.base = q.sess.base
          /\ session.reported = q.sess.reported

RepeatInv ==
    /\ session.exists => session.base \in 1 .. Len(trees)
    /\ stay \subseteq StillThere(disk)
    /\ stay \subseteq Reported(session)
    /\ \A p \in Procs : ShownOnce(proc[p])

LEMMA RepeatInductive == OneAtATime /\ TypeOK /\ RepeatInv /\ [Next]_vars => RepeatInv'
  <1> SUFFICES ASSUME OneAtATime, TypeOK, RepeatInv, [Next]_vars PROVE RepeatInv'
    OBVIOUS
  <1>a. ASSUME NEW p \in Procs, ShownOnce(proc[p])', UNCHANGED <<disk, trees, session, stay>>
        PROVE  RepeatInv'
    <2>1. \A r \in Procs : ShownOnce(proc[r])'
      BY <1>a DEF OneAtATime
    <2>2. StillThere(disk)' = StillThere(disk) /\ Reported(session)' = Reported(session)
      BY <1>a DEF StillThere, Denials, Held, Targets, AddedImports, Resolves, Reported
    <2>3. QED
      BY <1>a, <2>1, <2>2 DEF RepeatInv
  <1>1. ASSUME NEW p \in Procs, NEW kind \in Kinds, NEW sub \in BOOLEAN,
               NEW active \in BOOLEAN, Open(p, kind, sub, active)
        PROVE  RepeatInv'
    <2>1. UNCHANGED <<disk, trees, session, stay>>
      BY <1>1 DEF Open, ghost
    <2>2. QED
      BY <1>a, <1>1, <2>1, Opens, LoadedBase DEF RepeatInv, ShownOnce
  <1>2. ASSUME NEW p \in Procs, JudgeStart(p) PROVE RepeatInv'
    <2>1. UNCHANGED <<disk, trees, session, stay>>
      BY <1>2 DEF JudgeStart, ghost
    <2>2. proc'[p].msgs = {} /\ Reported(proc'[p].sess) = Reported(session)
      BY <1>2, JudgesStart DEF RepeatInv, ShownOnce, Reported
    <2>3. QED
      BY <1>a, <1>2, <2>1, <2>2, JudgesStart DEF RepeatInv, ShownOnce
  <1>3. ASSUME NEW p \in Procs, JudgePost(p) PROVE RepeatInv'
    <2> DEFINE s == proc[p].sess
               base == trees[s.base]
    <2>1. UNCHANGED <<disk, trees, session, stay>>
      BY <1>3 DEF JudgePost, ghost
    <2>2. /\ proc[p].phase = "opened" /\ s.base \in 1 .. Len(trees)
          /\ session.exists => s.base = session.base
          /\ s.reported = session.reported
      BY <1>3 DEF JudgePost, RepeatInv, ShownOnce
    <2>3. disk \in Tree /\ base \in Tree /\ s \in SessionType
      BY <2>2 DEF TypeOK, ProcType
    <2>4. stay \subseteq Denials(disk, base) /\ stay \subseteq Reported(s)
      BY <2>2 DEF RepeatInv, StillThere, Reported
    <2>5. stay \subseteq Reported(proc'[p].sess)
      BY <1>3, <2>3, <2>4, JudgesPost, HeldStaysReported DEF Reported
    <2>6. proc'[p].msgs \cap stay = {}
      BY <1>3, <2>3, <2>4, JudgesPost, NewDenialsAreReported
    <2>7. proc'[p].msgs \subseteq Reported(proc'[p].sess)
      BY <1>3, <2>3, JudgesPost, NewDenialsAreReported DEF Reported
    <2>8. QED
      BY <1>a, <1>3, <2>1, <2>2, <2>5, <2>6, <2>7, JudgesPost DEF ShownOnce
  <1>4. ASSUME NEW p \in Procs, NEW v \in {"fail", "pass", "unknown"}, JudgeStop(p, v)
        PROVE  RepeatInv'
    <2>1. UNCHANGED <<disk, trees, session, stay>>
      BY <1>4 DEF JudgeStop, ghost
    <2>2. proc'[p].msgs = {} /\ Reported(proc'[p].sess) = Reported(session)
      BY <1>4, JudgesStop DEF RepeatInv, ShownOnce, Reported
    <2>3. proc'[p].phase \in {"judged", "exit"}
      BY <1>4, JudgesStop DEF AfterJudge
    <2>4. proc[p].phase = "opened" /\ proc'[p].sess.base = proc[p].sess.base
      BY <1>4, JudgesStop
    <2>5. QED
      BY <1>a, <2>1, <2>2, <2>3, <2>4 DEF RepeatInv, ShownOnce
  <1>5. ASSUME NEW p \in Procs, Save(p) PROVE RepeatInv'
    <2>1. UNCHANGED <<disk, trees, stay>>
      BY <1>5 DEF Save, ghost
    <2>2. /\ proc[p].sess.base \in 1 .. Len(trees)
          /\ session.exists => proc[p].sess.base = session.base
          /\ stay \subseteq Reported(proc[p].sess)
          /\ proc[p].msgs \cap stay = {} /\ proc[p].msgs \subseteq Reported(proc[p].sess)
          /\ proc[p].todo = "block" => proc[p].msgs = {}
      BY <1>5, Saves DEF RepeatInv, ShownOnce
    <2>3. Reported(session') = Reported(proc[p].sess)
      BY <1>5, Saves DEF Reported
    <2>4. stay \subseteq StillThere(disk)'
      <3>1. stay = {} \/ session.exists
        BY DEF RepeatInv, StillThere
      <3>2. CASE session.exists
        <4>1. session'.exists /\ session'.base = session.base
          BY <1>5, <2>2, <3>2, Saves
        <4>2. Denials(disk', trees'[session'.base]) = Denials(disk, trees[session.base])
          BY <2>1, <4>1
        <4>3. QED
          BY <2>1, <3>2, <4>1, <4>2 DEF RepeatInv, StillThere
      <3>3. QED
        BY <3>1, <3>2
    <2>5. ShownOnce(proc[p])'
      BY <1>5, <2>1, <2>2, Saves DEF ShownOnce, Reported
    <2>6. \A r \in Procs : ShownOnce(proc[r])'
      BY <2>5 DEF OneAtATime
    <2>7. session'.base \in 1 .. Len(trees') /\ stay' \subseteq Reported(session)'
      BY <1>5, <2>1, <2>2, <2>3, Saves DEF Reported
    <2>8. QED
      BY <2>1, <2>4, <2>6, <2>7 DEF RepeatInv
  <1>6. ASSUME NEW p \in Procs, SaveFails(p) PROVE RepeatInv'
    <2>1. UNCHANGED <<disk, trees, session, stay>>
      BY <1>6 DEF SaveFails, ghost
    <2>2. QED
      BY <1>a, <1>6, <2>1, SavesNot DEF RepeatInv, ShownOnce
  <1>7. ASSUME NEW p \in Procs, Abort(p) PROVE RepeatInv'
    <2>1. UNCHANGED <<disk, trees, session, stay>> /\ proc'[p].phase = "idle"
      BY <1>7 DEF Abort, ghost, IdleProc, TypeOK
    <2>2. QED
      BY <1>a, <1>7, <2>1 DEF RepeatInv, ShownOnce
  <1>8. ASSUME NEW p \in Procs, Exit(p) PROVE RepeatInv'
    <2> DEFINE q == proc[p]
               shown == q.msgs \cap Denials(disk, trees[q.sess.base])
    <2>1. /\ UNCHANGED <<disk, trees, session>> /\ stay' = stay \cup shown
          /\ q.phase = "exit" /\ proc'[p].phase = "idle"
      BY <1>8 DEF Exit, IdleProc, TypeOK
    <2>2. shown \subseteq StillThere(disk) /\ shown \subseteq Reported(session)
      BY <2>1 DEF RepeatInv, ShownOnce, StillThere, Reported
    <2>3. StillThere(disk)' = StillThere(disk) /\ Reported(session)' = Reported(session)
      BY <2>1 DEF StillThere, Denials, Held, Targets, AddedImports, Resolves, Reported
    <2>4. \A r \in Procs : ShownOnce(proc[r])'
      BY <2>1 DEF OneAtATime, ShownOnce
    <2>5. QED
      BY <2>1, <2>2, <2>3, <2>4 DEF RepeatInv
  <1>9. ASSUME NEW f \in Files, NEW c \in {Absent} \cup Contents[f], Edit(f, c)
        PROVE  RepeatInv'
    <2>1. UNCHANGED <<trees, session, proc>> /\ stay' = stay \cap StillThere(disk')
      BY <1>9 DEF Edit
    <2>2. stay' \subseteq StillThere(disk)'
      BY <2>1 DEF StillThere
    <2>3. \A r \in Procs : ShownOnce(proc[r])'
      BY <2>1 DEF RepeatInv, ShownOnce, Reported
    <2>4. QED
      BY <2>1, <2>2, <2>3 DEF RepeatInv, Reported
  <1>10. CASE Commit
    <2>1. UNCHANGED <<disk, session, proc, stay>>
      BY <1>10 DEF Commit, ghost
    <2>2. StillThere(disk)' = StillThere(disk)
      BY <1>10, <2>1, CommitKeepsTrees DEF StillThere, RepeatInv
    <2>3. \A r \in Procs : ShownOnce(proc[r])'
      BY <1>10, <2>1, CommitKeepsTrees DEF RepeatInv, ShownOnce, Reported
    <2>4. session'.exists => session'.base \in 1 .. Len(trees')
      BY <1>10, <2>1, CommitKeepsTrees DEF RepeatInv
    <2>5. QED
      BY <2>1, <2>2, <2>3, <2>4 DEF RepeatInv, Reported
  <1>11. CASE UNCHANGED vars
    BY <1>11 DEF RepeatInv, ShownOnce, StillThere, Reported, vars, ghost
  <1>12. ASSUME NEW p \in Procs, KilledUnheard(p) PROVE RepeatInv'
    <2>1. UNCHANGED <<disk, trees, session, stay>> /\ proc'[p].phase = "idle"
      BY <1>12 DEF KilledUnheard, IdleProc, TypeOK
    <2>2. QED
      BY <1>a, <1>12, <2>1 DEF RepeatInv, ShownOnce
  <1>13. QED
    BY <1>1, <1>2, <1>3, <1>4, <1>5, <1>6, <1>7, <1>8, <1>9, <1>10, <1>11, <1>12
    DEF Next, Step

\* With one hook at a time: post-tool-use shows no denial again while the
\* import stays in the file (newDenials), whatever else is edited or committed
\* and whichever hooks fail.
THEOREM NothingRepeated ==
  ASSUME OneAtATime
  PROVE  Spec => []NoRepeat
  <1>1. Init => RepeatInv
    BY DEF Init, RepeatInv, ShownOnce, StillThere, IdleProc, EmptySession
  <1>2. RepeatInv => NoRepeat
    BY DEF RepeatInv, ShownOnce, NoRepeat
  <1>3. TypeOK /\ RepeatInv /\ [Next]_vars => RepeatInv'
    BY RepeatInductive
  <1>4. QED
    BY <1>1, <1>2, <1>3, TypeCorrect, PTL DEF Spec

-----------------------------------------------------------------------------
(* A denial that comes back is reported again, while no file that a commit   *)
(* holds is deleted: post-tool-use passes over a deleted file and keeps its  *)
(* entry.                                                                    *)

KeepsCommitted ==
    \A f \in Files : disk[f] # Absent /\ disk'[f] = Absent =>
        \A k \in 1 .. Len(trees) : trees[k][f] = Absent

NoneMissing ==
    \A f \in Files : disk[f] = Absent => \A k \in 1 .. Len(trees) : trees[k][f] = Absent

\* A hash is kept only of a file all of whose added denials are on record, and
\* no other import is.
Remembers(s) ==
    \A f \in Files : s.files[f] # Absent =>
        s.reported[f] = AddedImports(s.files, trees[s.base], f) \cap Denied

\* What was shown and the run of post-tool-use finds in the tree, or shows.
Seen(q) ==
    q.msgs \cup muted
    \cup {x \in told : x[2] \in AddedImports(q.tree, trees[q.sess.base], x[1])}

Answered(q) ==
    /\ q.phase # "idle" => q.sess.base \in 1 .. Len(trees) /\ Remembers(q.sess)
    /\ q.phase # "exit" => Reported(session) \subseteq told \cup muted
    /\ q.phase = "opened" => q.sess.reported = session.reported /\ q.msgs = {}
    /\ q.phase \in {"judged", "exit"} /\ q.kind = "post-tool-use" =>
          /\ q.todo = "save"
          /\ Reported(q.sess) \subseteq Seen(q)
          /\ Denials(q.tree, trees[q.sess.base]) \subseteq told \cup q.msgs \cup muted
          /\ q.phase = "exit" => session.reported = q.sess.reported
    /\ q.phase \in {"judged", "exit"} /\ q.kind # "post-tool-use" =>
          /\ q.msgs = {} /\ Reported(session) \subseteq told \cup muted
          /\ q.phase = "judged" => q.sess.reported = session.reported

AnswerInv ==
    /\ NoneMissing
    /\ session.exists => session.base \in 1 .. Len(trees) /\ Remembers(session)
    /\ ~session.exists => \A f \in Files : session.files[f] = Absent
    /\ \A p \in Procs : Answered(proc[p])

\* Post-tool-use keeps the hashes and the record in step.
LEMMA NewSessionRemembers ==
  ASSUME TypeOK, NEW s \in SessionType, NEW t \in Tree, NEW s2,
         s.base \in 1 .. Len(trees), Remembers(s), s2.base = s.base,
         s2.files = NewFiles(s, t, trees[s.base]),
         s2.reported = NewReported(s, t, trees[s.base])
  PROVE  Remembers(s2)
  <1> DEFINE base == trees[s.base]
  <1> SUFFICES ASSUME NEW f \in Files, s2.files[f] # Absent
               PROVE  s2.reported[f] = AddedImports(s2.files, base, f) \cap Denied
    BY DEF Remembers
  <1>1. /\ f \in Touched(t, base) /\ s2.files[f] = t[f] /\ t[f] # Absent
        /\ ~(f \in ReadAgain(s, t, base) /\ Unresolved(t, base, f))
    BY DEF NewFiles
  <1>2. AddedImports(s2.files, base, f) = AddedImports(t, base, f)
    BY <1>1 DEF AddedImports
  <1>3. CASE f \in ReadAgain(s, t, base)
    BY <1>1, <1>2, <1>3 DEF NewReported, Unresolved, Held
  <1>4. CASE f \notin ReadAgain(s, t, base)
    <2>1. s.files[f] = t[f]
      BY <1>1, <1>4 DEF ReadAgain
    <2>2. s.reported[f] = AddedImports(s.files, base, f) \cap Denied
      BY <1>1, <2>1 DEF Remembers
    <2>3. QED
      BY <1>1, <1>2, <1>4, <2>1, <2>2 DEF NewReported, AddedImports
  <1>5. QED
    BY <1>3, <1>4

\* What post-tool-use leaves on record the tree holds, and was shown or is now.
LEMMA NewRecordIsSeen ==
  ASSUME TypeOK, NoneMissing, NEW s \in SessionType, s.base \in 1 .. Len(trees),
         Remembers(s), Reported(s) \subseteq told \cup muted, NEW x \in Denial,
         x[2] \in NewReported(s, disk, trees[s.base])[x[1]]
  PROVE  \/ x \in NewDenials(s, disk, trees[s.base])
         \/ x \in told \cup muted /\ x[2] \in AddedImports(disk, trees[s.base], x[1])
  <1> DEFINE base == trees[s.base]
             f == x[1]
  <1>1. f \in Files /\ f \in Touched(disk, base)
    BY DEF NewReported, Denial
  <1>2. x[2] \in s.reported[f] => x \in told \cup muted
    BY DEF Reported
  <1>3. CASE f \in ReadAgain(s, disk, base)
    <2>1. x[2] \in Held(disk, base, f)
      BY <1>1, <1>3 DEF NewReported
    <2>2. x[2] \in AddedImports(disk, base, f)
      BY <2>1 DEF Held, Targets
    <2>3. QED
      BY <1>2, <1>3, <2>1, <2>2 DEF NewDenials
  <1>4. CASE f \notin ReadAgain(s, disk, base)
    <2>1. x[2] \in s.reported[f]
      BY <1>1, <1>4 DEF NewReported
    <2>2. disk[f] # Absent
      BY <1>1 DEF NoneMissing, Touched
    <2>3. s.files[f] = disk[f]
      BY <1>1, <1>4, <2>2 DEF ReadAgain
    <2>4. x[2] \in AddedImports(disk, base, f)
      BY <1>1, <2>1, <2>2, <2>3 DEF Remembers, AddedImports
    <2>5. QED
      BY <1>2, <2>1, <2>4
  <1>5. QED
    BY <1>3, <1>4

\* Every denial of the tree was shown, or is now.
LEMMA DenialsAreTold ==
  ASSUME TypeOK, NEW s \in SessionType, s.base \in 1 .. Len(trees),
         Remembers(s), Reported(s) \subseteq told \cup muted,
         NEW x \in Denials(disk, trees[s.base])
  PROVE  x \in told \cup muted \cup NewDenials(s, disk, trees[s.base])
  <1> DEFINE base == trees[s.base]
             f == x[1]
  <1>1. disk \in Tree /\ base \in Tree /\ x \in Denial
    BY DEF TypeOK, Denials
  <1>2. /\ f \in Files /\ f \in Touched(disk, base) /\ disk[f] # Absent
        /\ x[2] \in AddedImports(disk, base, f) /\ x[2] \in Held(disk, base, f)
    BY <1>1, DeniedIsTouched
  <1>3. x[2] \in s.reported[f] => x \in told \cup muted
    BY <1>1 DEF Reported
  <1>4. CASE f \in ReadAgain(s, disk, base)
    BY <1>1, <1>2, <1>3, <1>4 DEF NewDenials
  <1>5. CASE f \notin ReadAgain(s, disk, base)
    <2>1. s.files[f] = disk[f]
      BY <1>2, <1>5 DEF ReadAgain
    <2>2. x[2] \in AddedImports(s.files, base, f) \cap Denied
      BY <1>2, <2>1 DEF AddedImports, Held
    <2>3. x[2] \in s.reported[f]
      BY <1>2, <2>1, <2>2 DEF Remembers
    <2>4. QED
      BY <1>3, <2>3
  <1>6. QED
    BY <1>4, <1>5

LEMMA AnswerInductive ==
  OneAtATime /\ TypeOK /\ AnswerInv /\ [Next]_vars /\ [KeepsCommitted]_vars => AnswerInv'
  <1> SUFFICES ASSUME OneAtATime, TypeOK, AnswerInv, [Next]_vars, [KeepsCommitted]_vars
               PROVE  AnswerInv'
    OBVIOUS
  <1>a. ASSUME NEW p \in Procs, Answered(proc[p])', UNCHANGED <<disk, trees, session>>
        PROVE  AnswerInv'
    <2>1. \A r \in Procs : Answered(proc[r])'
      BY <1>a DEF OneAtATime
    <2>2. QED
      BY <1>a, <2>1 DEF AnswerInv, NoneMissing, Remembers
  <1>1. ASSUME NEW p \in Procs, NEW kind \in Kinds, NEW sub \in BOOLEAN,
               NEW active \in BOOLEAN, Open(p, kind, sub, active)
        PROVE  AnswerInv'
    <2>1. UNCHANGED <<disk, trees, session, told, muted>>
      BY <1>1 DEF Open, ghost
    <2>2. /\ Loaded.base \in 1 .. Len(trees)
          /\ session.exists => Loaded.base = session.base
          /\ Loaded.reported = session.reported /\ Loaded.files = session.files
      BY LoadedBase DEF AnswerInv
    <2>3. Remembers(Loaded)
      BY <2>2 DEF AnswerInv, Remembers, AddedImports
    <2>4. Reported(session) \subseteq told \cup muted
      BY <1>1, Opens DEF AnswerInv, Answered
    <2>5. QED
      BY <1>a, <1>1, <2>1, <2>2, <2>3, <2>4, Opens DEF Answered, Remembers, Reported
  <1>2. ASSUME NEW p \in Procs, JudgeStart(p) PROVE AnswerInv'
    <2>1. UNCHANGED <<disk, trees, session, told, muted>>
      BY <1>2 DEF JudgeStart, ghost
    <2>2. proc[p].phase = "opened" /\ Answered(proc[p])
      BY <1>2 DEF JudgeStart, AnswerInv
    <2>3. QED
      BY <1>a, <1>2, <2>1, <2>2, JudgesStart DEF Answered, Remembers, Reported
  <1>3. ASSUME NEW p \in Procs, JudgePost(p) PROVE AnswerInv'
    <2> DEFINE s == proc[p].sess
               base == trees[s.base]
               q == proc'[p]
    <2>1. UNCHANGED <<disk, trees, session, told, muted>>
      BY <1>3 DEF JudgePost, ghost
    <2>2. /\ proc[p].phase = "opened" /\ proc[p] \in ProcType
          /\ s.base \in 1 .. Len(trees) /\ Remembers(s)
          /\ Reported(session) \subseteq told \cup muted /\ s.reported = session.reported
      BY <1>3 DEF JudgePost, AnswerInv, Answered, TypeOK
    <2>3. s \in SessionType /\ disk \in Tree /\ NoneMissing /\ Reported(s) \subseteq told \cup muted
      BY <2>2 DEF TypeOK, ProcType, AnswerInv, Reported
    <2>4. /\ q.phase = "judged" /\ q.todo = "save" /\ q.kind = "post-tool-use"
          /\ q.tree = disk /\ q.msgs = NewDenials(s, disk, base)
          /\ q.sess.base = s.base
          /\ q.sess.files = NewFiles(s, disk, base)
          /\ q.sess.reported = NewReported(s, disk, base)
      BY <1>3, JudgesPost
    <2> HIDE DEF q
    <2>5. Remembers(q.sess)
      BY <2>2, <2>3, <2>4, NewSessionRemembers
    <2>6. Remembers(proc[p].sess)'
      BY <2>1, <2>5 DEF Remembers, q
    <2>7. Reported(q.sess) \subseteq
            q.msgs \cup muted \cup {x \in told : x[2] \in AddedImports(disk, base, x[1])}
      BY <2>2, <2>3, <2>4, NewRecordIsSeen DEF Reported
    <2>8. Denials(disk, base) \subseteq told \cup q.msgs \cup muted
      BY <2>2, <2>3, <2>4, DenialsAreTold
    <2>9. Answered(proc[p])'
      BY <2>1, <2>2, <2>4, <2>6, <2>7, <2>8 DEF Answered, Seen, Reported, q
    <2>10. QED
      BY <1>a, <2>1, <2>9
  <1>4. ASSUME NEW p \in Procs, NEW v \in {"fail", "pass", "unknown"}, JudgeStop(p, v)
        PROVE  AnswerInv'
    <2>1. UNCHANGED <<disk, trees, session, told, muted>>
      BY <1>4 DEF JudgeStop, ghost
    <2>2. proc[p].phase = "opened" /\ proc[p].kind = "stop" /\ Answered(proc[p])
      BY <1>4 DEF JudgeStop, AnswerInv
    <2>3. /\ proc'[p].phase \in {"judged", "exit"} /\ proc'[p].kind = "stop"
          /\ proc'[p].msgs = {}
          /\ proc'[p].sess.base = proc[p].sess.base
          /\ proc'[p].sess.files = proc[p].sess.files
          /\ proc'[p].sess.reported = proc[p].sess.reported
      BY <1>4, <2>2, JudgesStop DEF AfterJudge, Answered
    <2>4. Remembers(proc[p].sess)'
      BY <2>1, <2>2, <2>3 DEF Answered, Remembers, AddedImports
    <2>5. Answered(proc[p])'
      BY <2>1, <2>2, <2>3, <2>4 DEF Answered, Reported
    <2>6. QED
      BY <1>a, <2>1, <2>5
  <1>5. ASSUME NEW p \in Procs, Save(p) PROVE AnswerInv'
    <2>1. UNCHANGED <<disk, trees, told, muted>>
      BY <1>5 DEF Save, ghost
    <2>2. proc[p].phase = "judged" /\ Answered(proc[p])
      BY <1>5 DEF Save, AnswerInv
    <2>3. Remembers(session') /\ session'.base \in 1 .. Len(trees)
      BY <1>5, <2>2, Saves DEF Answered, Remembers, AddedImports
    <2>4. Remembers(session)' /\ Remembers(proc[p].sess)'
      BY <1>5, <2>1, <2>2, <2>3, Saves DEF Answered, Remembers
    <2>5. Answered(proc[p])'
      BY <1>5, <2>1, <2>2, <2>4, Saves DEF Answered, Seen, Reported
    <2>6. \A r \in Procs : Answered(proc[r])'
      BY <2>5 DEF OneAtATime
    <2>7. QED
      BY <1>5, <2>1, <2>3, <2>4, <2>6, Saves DEF AnswerInv, NoneMissing
  <1>6. ASSUME NEW p \in Procs, SaveFails(p) PROVE AnswerInv'
    <2>1. UNCHANGED <<disk, trees, session, told, muted>>
      BY <1>6 DEF SaveFails, ghost
    <2>2. proc[p].phase = "judged" /\ Answered(proc[p])
      BY <1>6 DEF SaveFails, AnswerInv
    <2>3. QED
      BY <1>a, <1>6, <2>1, <2>2, SavesNot DEF Answered, Remembers, Reported
  <1>7. ASSUME NEW p \in Procs, Abort(p) PROVE AnswerInv'
    <2>1. UNCHANGED <<disk, trees, session, told, muted>> /\ proc'[p].phase = "idle"
          /\ proc[p].phase \in {"opened", "judged"}
      BY <1>7 DEF Abort, ghost, IdleProc, TypeOK
    <2>2. Answered(proc[p])'
      BY <2>1 DEF Answered, AnswerInv, Reported
    <2>3. QED
      BY <1>a, <2>1, <2>2
  <1>8. ASSUME NEW p \in Procs, Exit(p) PROVE AnswerInv'
    <2> DEFINE q == proc[p]
    <2>1. /\ UNCHANGED <<disk, trees, session>>
          /\ q.phase = "exit" /\ proc'[p].phase = "idle"
          /\ told' = StillSeen(q) \cup q.msgs /\ muted' = muted \ q.msgs
      BY <1>8 DEF Exit, IdleProc, TypeOK
    <2>2. Answered(q)
      BY DEF AnswerInv
    <2>3. Reported(session) \subseteq told' \cup muted'
      BY <2>1, <2>2 DEF Answered, Seen, Reported, StillSeen
    <2>4. Answered(proc[p])'
      BY <2>1, <2>3 DEF Answered, Reported
    <2>5. QED
      BY <1>a, <2>1, <2>4
  <1>9. ASSUME NEW f \in Files, NEW c \in {Absent} \cup Contents[f], Edit(f, c)
        PROVE  AnswerInv'
    <2>1. /\ UNCHANGED <<trees, session, proc, told, muted>>
          /\ disk' = [disk EXCEPT ![f] = c] /\ c # disk[f]
      BY <1>9 DEF Edit
    <2>2. KeepsCommitted
      BY <2>1 DEF vars, TypeOK, Tree
    <2>3. NoneMissing'
      BY <2>1, <2>2 DEF KeepsCommitted, AnswerInv, NoneMissing, TypeOK, Tree
    <2>4. QED
      BY <2>1, <2>3 DEF AnswerInv, Answered, Remembers, Seen, Reported
  <1>10. CASE Commit
    <2>1. UNCHANGED <<disk, session, proc, told, muted>>
      BY <1>10 DEF Commit, ghost
    <2>2. NoneMissing'
      <3> SUFFICES ASSUME NEW f \in Files, disk[f] = Absent, NEW k \in 1 .. Len(trees')
                   PROVE  trees'[k][f] = Absent
        BY <2>1 DEF NoneMissing
      <3>1. k \in 1 .. Len(trees) \/ trees'[k] = disk
        BY <1>10, CommitKeepsTrees DEF TypeOK
      <3>2. QED
        BY <1>10, <3>1, CommitKeepsTrees DEF AnswerInv, NoneMissing
    <2>3. session'.exists => session'.base \in 1 .. Len(trees') /\ Remembers(session)'
      BY <1>10, <2>1, CommitKeepsTrees DEF AnswerInv, Remembers
    <2>4. ASSUME NEW r \in Procs PROVE Answered(proc[r])'
      <3>1. proc'[r] = proc[r] /\ Answered(proc[r])
        BY <2>1 DEF AnswerInv
      <3>2. CASE proc[r].phase = "idle"
        BY <2>1, <3>1, <3>2 DEF Answered, Reported
      <3>3. CASE proc[r].phase # "idle"
        <4>1. /\ proc[r].sess.base \in 1 .. Len(trees')
              /\ trees'[proc[r].sess.base] = trees[proc[r].sess.base]
          BY <1>10, <3>1, <3>3, CommitKeepsTrees DEF Answered
        <4>2. Seen(proc[r])' = Seen(proc[r]) /\ (Remembers(proc[r].sess) => Remembers(proc[r].sess)')
          BY <2>1, <3>1, <4>1 DEF Seen, Remembers
        <4>3. QED
          BY <2>1, <3>1, <3>3, <4>1, <4>2 DEF Answered, Reported
      <3>4. QED
        BY <3>2, <3>3
    <2>5. QED
      BY <2>1, <2>2, <2>3, <2>4 DEF AnswerInv
  <1>11. CASE UNCHANGED vars
    BY <1>11 DEF AnswerInv, Answered, NoneMissing, Remembers, Seen, Reported, vars, ghost
  <1>12. ASSUME NEW p \in Procs, KilledUnheard(p) PROVE AnswerInv'
    <2> DEFINE q == proc[p]
    <2>1. /\ UNCHANGED <<disk, trees, session>>
          /\ q.phase = "exit" /\ proc'[p].phase = "idle"
          /\ told' = StillSeen(q) /\ muted' = muted \cup q.msgs
      BY <1>12 DEF KilledUnheard, IdleProc, TypeOK
    <2>2. Answered(q)
      BY DEF AnswerInv
    <2>3. Reported(session) \subseteq told' \cup muted'
      BY <2>1, <2>2 DEF Answered, Seen, Reported, StillSeen
    <2>4. Answered(proc[p])'
      BY <2>1, <2>3 DEF Answered, Reported
    <2>5. QED
      BY <1>a, <2>1, <2>4
  <1>13. QED
    BY <1>1, <1>2, <1>3, <1>4, <1>5, <1>6, <1>7, <1>8, <1>9, <1>10, <1>11, <1>12
    DEF Next, Step

\* With one hook at a time, and no file of a commit deleted: when post-tool-use
\* finishes, every denial of the tree it read was shown since a finished run
\* last found the import gone, or is shown now, or was recorded by a hook
\* killed before its output (importEdits, newDenials).
THEOREM ComingBackReported ==
  ASSUME OneAtATime
  PROVE  Spec /\ [][KeepsCommitted]_vars => []ComingBackIsReported
  <1>1. Init => AnswerInv
    BY DEF Init, AnswerInv, Answered, NoneMissing, IdleProc, EmptySession,
           NoDenials, Reported, Denial
  <1>2. AnswerInv => ComingBackIsReported
    BY DEF AnswerInv, Answered, ComingBackIsReported
  <1>3. TypeOK /\ AnswerInv /\ [Next]_vars /\ [KeepsCommitted]_vars => AnswerInv'
    BY AnswerInductive
  <1>4. QED
    BY <1>1, <1>2, <1>3, TypeCorrect, PTL DEF Spec

=============================================================================
