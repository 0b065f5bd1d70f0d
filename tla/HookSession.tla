----------------------------- MODULE HookSession -----------------------------
(***************************************************************************)
(* The session hooks of cmd/archfit (hook.go, hook_session.go).            *)
(*                                                                         *)
(* Every hook event is a process of its own.  Processes of one agent       *)
(* session share the file .archfit-cache/session/<id>.json and take no     *)
(* lock: each one reads the whole file, computes on its copy, and writes   *)
(* the whole file back.  Each of the three is a step here, so the          *)
(* processes of a main agent and its subagents interleave.                 *)
(*                                                                         *)
(* A file's content is the set of imports it names; two contents hash      *)
(* alike exactly when they are equal.  A tree maps every path to its       *)
(* content or to Absent.                                                   *)
(***************************************************************************)
EXTENDS Naturals, Sequences, FiniteSets

CONSTANTS
    Files,      \* the source files whose imports the hooks read
    Imports,    \* what a source line can import
    Denied,     \* the imports the policy denies (can-import, hook_session.go)
    RelativeTo, \* the file a relative import names, NoFile for any other import
    BaseTree,   \* the tree of the commit the session finds
    Contents,   \* the contents an edit may write to each file
    Events,     \* the hook events each process may be run for
    Deletable,  \* the files an edit may delete
    Procs,      \* the hook processes that may run at a time
    MaxCommits, \* bound on the commits made during the session
    MaxMuted,   \* bound on what killed hooks recorded and nothing showed since
    Absent, NoFile, NoTree

Content == {Absent} \cup SUBSET Imports
Tree == [Files -> Content]

Kinds == {"session-start", "post-tool-use", "stop"}

ASSUME SessionAssumption ==
    /\ Denied \subseteq Imports
    /\ RelativeTo \in [Imports -> Files \cup {NoFile}]
    /\ BaseTree \in Tree
    /\ Contents \in [Files -> SUBSET (SUBSET Imports)]
    /\ Events \in [Procs -> SUBSET Kinds]
    /\ Deletable \subseteq Files
    /\ MaxCommits \in Nat /\ MaxMuted \in Nat
    /\ \A c \in SUBSET Imports : c # Absent
    /\ NoFile \notin Files
    /\ \A t \in Tree : t # NoTree

VARIABLES
    disk,     \* the working tree
    trees,    \* the trees of the commits on HEAD's branch, HEAD last
    session,  \* the session file
    proc,     \* the hook processes
    (***********************************************************************)
    (* What the agent has seen: history, read by no action's guard.        *)
    (***********************************************************************)
    everTold, \* the denials ever shown
    stay,     \* the denials shown that never left the tree since
    told,     \* the denials shown that no finished hook found gone since
    blocks,   \* the trees the main agent's stop was blocked on
    earned,   \* those of them made since the last stop that passed or was unknown
    (***********************************************************************)
    (* What a hook recorded that was killed before its output, and nothing  *)
    (* showed the agent since.                                             *)
    (***********************************************************************)
    muted,       \* denials
    mutedBlocks  \* trees of blocks

ghost == <<everTold, stay, told, blocks, earned, muted, mutedBlocks>>
vars == <<disk, trees, session, proc, ghost>>

Denial == Files \X Imports

\* hookSession: files holds the content last read, Absent for none.
SessionType ==
    [exists: BOOLEAN, base: Nat, files: [Files -> Content],
     reported: [Files -> SUBSET Imports], digest: {NoTree} \cup Tree]

NoDenials == [f \in Files |-> {}]

EmptySession ==
    [exists |-> FALSE, base |-> 0, files |-> [f \in Files |-> Absent],
     reported |-> NoDenials, digest |-> NoTree]

ProcType ==
    [phase: {"idle", "opened", "judged", "exit"}, kind: Kinds,
     sub: BOOLEAN, active: BOOLEAN, sess: SessionType, made: SUBSET Tree,
     tree: {NoTree} \cup Tree, msgs: SUBSET Denial,
     verdict: {"none", "fail", "pass", "unknown"},
     todo: {"exit", "save", "block", "forget", "suppress", "again"}]

IdleProc ==
    [phase |-> "idle", kind |-> "stop", sub |-> FALSE, active |-> FALSE,
     sess |-> EmptySession, made |-> {}, tree |-> NoTree, msgs |-> {},
     verdict |-> "none", todo |-> "exit"]

TypeOK ==
    /\ disk \in Tree
    /\ trees \in Seq(Tree) /\ trees # <<>>
    /\ session \in SessionType
    /\ proc \in [Procs -> ProcType]
    /\ \A p \in Procs : proc[p].todo \in {"block", "again"} => proc[p].tree \in Tree
    /\ everTold \subseteq Denial
    /\ stay \subseteq Denial
    /\ told \subseteq Denial
    /\ blocks \subseteq Tree
    /\ earned \subseteq Tree
    /\ muted \subseteq Denial
    /\ mutedBlocks \subseteq Tree

-----------------------------------------------------------------------------
(* What git and the import reader say of a tree.                            *)

HeadCommit == Len(trees)

\* touchedFiles: what differs from the base, untracked files included.
Touched(t, base) == {f \in Files : t[f] # base[f]}

\* addedLines: the imports of f on lines the base does not have.
AddedImports(t, base, f) ==
    IF t[f] = Absent THEN {}
    ELSE IF base[f] = Absent THEN t[f]
    ELSE t[f] \ base[f]

\* resolveRelative: a relative import resolves once its file exists.
Resolves(t, i) == RelativeTo[i] = NoFile \/ t[RelativeTo[i]] # Absent

Targets(t, base, f) == {i \in AddedImports(t, base, f) : Resolves(t, i)}

Unresolved(t, base, f) == Targets(t, base, f) # AddedImports(t, base, f)

Held(t, base, f) == Targets(t, base, f) \cap Denied

Denials(t, base) == {x \in Denial : x[2] \in Held(t, base, x[1])}

-----------------------------------------------------------------------------
(* post-tool-use                                                            *)

\* importEdits: the touched files to read again; a file that cannot be read
\* (deleted since the base) is passed over.
ReadAgain(s, t, base) ==
    {f \in Touched(t, base) : t[f] # Absent /\ t[f] # s.files[f]}

\* importEdits: the hash is withheld while a relative import is unresolved.
NewFiles(s, t, base) ==
    [f \in Files |->
        IF f \notin Touched(t, base) \/ (f \in ReadAgain(s, t, base) /\ Unresolved(t, base, f))
        THEN Absent ELSE t[f]]

\* A bug in its place: of a file read again only the new denials are recorded.
OnlyNewReported(s, t, base) ==
    [f \in Files |->
        IF f \notin Touched(t, base) THEN {}
        ELSE IF f \in ReadAgain(s, t, base) THEN Held(t, base, f) \ s.reported[f]
        ELSE s.reported[f]]

\* A bug in its place: (file, import) pairs instead of a file's imports.
PairsReported(s, t, base) == [f \in Files |-> {f} \X Held(t, base, f)]

\* importEdits drops a file that is no longer touched; newDenials keeps what
\* a file read again still holds; every other entry stays as it was.
NewReported(s, t, base) ==
    [f \in Files |->
        IF f \notin Touched(t, base) THEN {}
        ELSE IF f \in ReadAgain(s, t, base) THEN Held(t, base, f)
        ELSE s.reported[f]]

\* newDenials: what a file read again holds and was not reported on it.
NewDenials(s, t, base) ==
    {x \in Denial : x[1] \in ReadAgain(s, t, base)
                    /\ x[2] \in Held(t, base, x[1]) \ s.reported[x[1]]}

-----------------------------------------------------------------------------
(* stop                                                                     *)

Untouched(t, s) == s.base = HeadCommit /\ t = trees[HeadCommit]

\* outcomeOf over the change status of check: a change that adds a denied
\* import fails; an analyzer or policy-guard problem makes any change unknown.
Verdicts(t, s) ==
    IF Untouched(t, s) THEN {"pass"}
    ELSE {IF Denials(t, trees[s.base]) # {} THEN "fail" ELSE "pass", "unknown"}

\* A bug in its place: an unknown change does not forget the block.
UnknownKeepsBlock(p, t, v) ==
    IF v = "pass" THEN (IF p.sess.digest = NoTree THEN "exit" ELSE "forget")
    ELSE IF v = "unknown" \/ p.active THEN "exit"
    ELSE IF p.sub THEN "again"
    ELSE IF p.sess.digest = t THEN "suppress"
    ELSE "block"

\* A bug in its place: a subagent's stop records its block.
SubagentRecords(p, t, v) ==
    IF v # "fail" THEN (IF p.sess.digest = NoTree THEN "exit" ELSE "forget")
    ELSE IF p.active THEN "exit"
    ELSE IF p.sess.digest = t THEN "suppress"
    ELSE "block"

\* stopHook and forgetBlock: what a stop does with a verdict.
StopTodo(p, t, v) ==
    IF v # "fail" THEN (IF p.sess.digest = NoTree THEN "exit" ELSE "forget")
    ELSE IF p.active THEN "exit"
    ELSE IF p.sub THEN "again"
    ELSE IF p.sess.digest = t THEN "suppress"
    ELSE "block"

-----------------------------------------------------------------------------
(* The hook processes.                                                      *)

Init ==
    /\ disk = BaseTree
    /\ trees = <<BaseTree>>
    /\ session = EmptySession
    /\ proc = [p \in Procs |-> IdleProc]
    /\ everTold = {} /\ stay = {} /\ told = {} /\ blocks = {}
    /\ earned = {} /\ muted = {} /\ mutedBlocks = {}

\* openSession: with no file yet, the session starts now, at the current HEAD.
Loaded == IF session.exists THEN session ELSE [session EXCEPT !.base = HeadCommit]

\* The blocks that a process recorded and is about to show.
PendingBlocks ==
    {proc[p].tree : p \in {q \in Procs : proc[q].phase = "exit" /\ proc[q].kind = "stop"
                                         /\ ~proc[q].sub /\ proc[q].todo = "block"}}

\* HookRunCmd.Run: the event picks the hook; each begins with openSession.
Open(p, kind, sub, active) ==
    /\ proc[p].phase = "idle"
    /\ kind \in Events[p]
    /\ kind = "stop" \/ (~sub /\ ~active)
    /\ proc' = [proc EXCEPT ![p] =
            [IdleProc EXCEPT !.phase = "opened", !.kind = kind, !.sub = sub,
                             !.active = active, !.sess = Loaded, !.made = earned \cup PendingBlocks]]
    /\ UNCHANGED <<disk, trees, session, ghost>>

\* A block records the tree it judged; forgetBlock clears the record.
NewDigest(todo, digest, t) ==
    CASE todo = "block" -> t
      [] todo = "forget" -> NoTree
      [] OTHER -> digest

\* Only these end in a call of save.
AfterJudge(todo) == IF todo \in {"save", "block", "forget"} THEN "judged" ELSE "exit"

\* sessionStart: a session that has a file keeps it.
JudgeStart(p) ==
    LET todo == IF proc[p].sess.exists THEN "exit" ELSE "save"
    IN  /\ proc[p].phase = "opened" /\ proc[p].kind = "session-start"
        /\ proc' = [proc EXCEPT ![p] = [@ EXCEPT !.phase = AfterJudge(todo), !.todo = todo]]
        /\ UNCHANGED <<disk, trees, session, ghost>>

\* postToolUse: importEdits and newDenials over the tree as it is now.
JudgePost(p) ==
    LET s == proc[p].sess
        base == trees[s.base]
    IN  /\ proc[p].phase = "opened" /\ proc[p].kind = "post-tool-use"
        /\ proc' = [proc EXCEPT ![p] =
                [@ EXCEPT !.phase = "judged", !.todo = "save", !.tree = disk,
                          !.msgs = NewDenials(s, disk, base),
                          !.sess = [s EXCEPT !.files = NewFiles(s, disk, base),
                                             !.reported = NewReported(s, disk, base)]]]
        /\ UNCHANGED <<disk, trees, session, ghost>>

\* stopHook: untouched, sessionResult and outcomeOf over the tree as it is now.
JudgeStop(p, v) ==
    LET s == proc[p].sess
        todo == StopTodo(proc[p], disk, v)
    IN  /\ proc[p].phase = "opened" /\ proc[p].kind = "stop"
        /\ v \in Verdicts(disk, s)
        /\ proc' = [proc EXCEPT ![p] =
                [@ EXCEPT !.phase = AfterJudge(todo), !.tree = disk,
                          !.verdict = v, !.todo = todo,
                          !.sess = [s EXCEPT !.digest = NewDigest(todo, s.digest, disk)]]]
        /\ UNCHANGED <<disk, trees, session, ghost>>

\* save: the copy replaces the whole file, whatever was written meanwhile.
Save(p) ==
    /\ proc[p].phase = "judged"
    /\ session' = [proc[p].sess EXCEPT !.exists = TRUE]
    /\ proc' = [proc EXCEPT ![p] = [@ EXCEPT !.phase = "exit"]]
    /\ UNCHANGED <<disk, trees, ghost>>

\* A bug in its place: the denials are dropped and the save stays.
SilentSaveFailure(p) ==
    /\ proc[p].phase = "judged"
    /\ session' = [proc[p].sess EXCEPT !.exists = TRUE]
    /\ proc' = [proc EXCEPT ![p] = IdleProc]
    /\ UNCHANGED <<disk, trees, ghost>>

\* A save that fails: post-tool-use fails open and says nothing; a block still
\* stands, unrecorded; a forget leaves the digest; session-start is silent.
SaveFails(p) ==
    /\ proc[p].phase = "judged"
    /\ proc' = [proc EXCEPT ![p] =
            IF proc[p].todo = "block" THEN [@ EXCEPT !.phase = "exit", !.todo = "again"]
            ELSE IdleProc]
    /\ UNCHANGED <<disk, trees, session, ghost>>

\* A hook that fails open (git, config or analysis error), or is killed,
\* before it saved: nothing is written and no denial or block is shown.
Abort(p) ==
    /\ proc[p].phase \in {"opened", "judged"}
    /\ proc' = [proc EXCEPT ![p] = IdleProc]
    /\ UNCHANGED <<disk, trees, session, ghost>>

\* The block a main agent's stop shows: a block, or one whose save failed.
BlockOf(q, todos) ==
    IF q.kind = "stop" /\ ~q.sub /\ q.todo \in todos THEN {q.tree} ELSE {}

\* Of what was shown, what post-tool-use still finds in the tree it read.
StillSeen(q) ==
    IF q.kind = "post-tool-use"
    THEN {x \in told : x[2] \in AddedImports(q.tree, trees[q.sess.base], x[1])}
    ELSE told

\* The blocks that were earned before a stop that passed, or was unknown.
Forgotten(q) == IF q.verdict \in {"pass", "unknown"} THEN q.made ELSE {}

\* The process ends and its output reaches the agent: denials or a block
\* through exit 2, a suppressed block as a systemMessage.
Exit(p) ==
    LET q == proc[p]
        blocked == BlockOf(q, {"block", "again"})
    IN  /\ q.phase = "exit"
        /\ proc' = [proc EXCEPT ![p] = IdleProc]
        /\ everTold' = everTold \cup q.msgs
        /\ stay' = stay \cup (q.msgs \cap Denials(disk, trees[q.sess.base]))
        /\ told' = StillSeen(q) \cup q.msgs
        /\ blocks' = blocks \cup blocked
        /\ earned' = (earned \ Forgotten(q)) \cup blocked
        /\ muted' = muted \ q.msgs
        /\ mutedBlocks' = mutedBlocks \ blocked
        /\ UNCHANGED <<disk, trees, session>>

\* The harness kills the process after its save and before its output: what
\* it recorded stays in the session file, and the agent sees nothing.
KilledUnheard(p) ==
    LET q == proc[p]
    IN  /\ q.phase = "exit"
        /\ proc' = [proc EXCEPT ![p] = IdleProc]
        /\ told' = StillSeen(q)
        /\ earned' = earned \ Forgotten(q)
        /\ muted' = muted \cup q.msgs
        /\ mutedBlocks' = mutedBlocks \cup BlockOf(q, {"block"})
        /\ Cardinality(muted') + Cardinality(mutedBlocks') <= MaxMuted
        /\ UNCHANGED <<disk, trees, session, everTold, stay, blocks>>

-----------------------------------------------------------------------------
(* The agent and its tools.                                                 *)

\* The denials of a tree against whichever base the session holds.
StillThere(t) ==
    IF session.exists THEN Denials(t, trees[session.base]) ELSE {}

Edit(f, c) ==
    /\ c # disk[f]
    /\ c = Absent => f \in Deletable
    /\ disk' = [disk EXCEPT ![f] = c]
    /\ stay' = stay \cap StillThere(disk')
    /\ UNCHANGED <<trees, session, proc, everTold, told, blocks, earned, muted, mutedBlocks>>

Commit ==
    /\ disk # trees[HeadCommit]
    /\ HeadCommit <= MaxCommits
    /\ trees' = Append(trees, disk)
    /\ UNCHANGED <<disk, session, proc, ghost>>

Step(p) ==
    \/ \E kind \in Kinds, sub, active \in BOOLEAN : Open(p, kind, sub, active)
    \/ JudgeStart(p)
    \/ JudgePost(p)
    \/ \E v \in {"fail", "pass", "unknown"} : JudgeStop(p, v)
    \/ Save(p)
    \/ SaveFails(p)
    \/ Abort(p)
    \/ Exit(p)
    \/ KilledUnheard(p)

Next ==
    \/ \E p \in Procs : Step(p)
    \/ \E f \in Files : \E c \in {Absent} \cup Contents[f] : Edit(f, c)
    \/ Commit

Spec == Init /\ [][Next]_vars

-----------------------------------------------------------------------------
(* Properties.                                                              *)

\* What a process that already saved is about to show.
Pending == UNION {proc[p].msgs : p \in {q \in Procs : proc[q].phase = "exit"}}

\* Under any interleaving: a denial the session file marks as reported, so
\* that post-tool-use keeps silent about it, was shown to the agent or is
\* about to be by the process that recorded it, unless that process was killed
\* between its save and its output (hook_session.go, postToolUse).
RecordedWasTold ==
    \A f \in Files : \A i \in session.reported[f] : <<f, i>> \in everTold \cup Pending \cup muted

\* Under any interleaving: the digest that suppresses a stop is of a tree the
\* main agent's own stop blocked on.  A subagent's stop never uses up the
\* main agent's block, and nothing is suppressed that nobody saw, unless the
\* stop that blocked was killed between its save and its output (stopHook).
RecordedWasBlocked ==
    session.digest # NoTree => session.digest \in blocks \cup PendingBlocks \cup mutedBlocks

\* Under any interleaving, nothing the hooks keep silent about went unseen:
\* neither a denial nor the block of a stop, but for what a hook killed between
\* its save and its output took with it.
NothingHiddenUnseen == RecordedWasTold /\ RecordedWasBlocked

\* With one process at a time: a denial is not shown again while the import
\* stays in the file, edits elsewhere and failed hooks included.
NoRepeat ==
    \A p \in Procs : proc[p].phase \in {"judged", "exit"} => proc[p].msgs \cap stay = {}

\* With one process at a time: when post-tool-use finishes, every denial the
\* tree it read holds was shown since a finished post-tool-use last found the
\* import gone, or is shown now: none is lost to the hash cache, to a failed
\* run or to the reported list ("the import coming back is reported again").
\* What a hook recorded and was killed before showing is excepted until shown.
ComingBackIsReported ==
    \A p \in Procs :
        proc[p].phase = "exit" /\ proc[p].kind = "post-tool-use" =>
            Denials(proc[p].tree, trees[proc[p].sess.base]) \subseteq told \cup proc[p].msgs \cup muted

\* With one process at a time: a stop is suppressed only on a tree the main
\* agent was blocked on since the last passing or unknown stop, or on one whose
\* block was recorded by a stop killed before it could show it.
SuppressionEarned ==
    \A p \in Procs :
        proc[p].phase = "exit" /\ proc[p].todo = "suppress" =>
            proc[p].tree \in proc[p].made \cup mutedBlocks
=============================================================================
