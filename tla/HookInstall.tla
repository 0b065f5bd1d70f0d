----------------------------- MODULE HookInstall -----------------------------
(***************************************************************************)
(* archfit hook install and doctor.  An install reads the hook file of a     *)
(* harness, merges archfit's hooks into it and writes it back; between the    *)
(* two the person may edit the file.  Codex keys its trust in a hook by the   *)
(* hook's position.  doctor says which hooks the harness would run.           *)
(*                                                                         *)
(* A file maps an event to its groups, each a matcher and a sequence of       *)
(* entries.  An entry is archfit's, of the removed command, or a person's.    *)
(***************************************************************************)
EXTENDS Integers, FiniteSets, Sequences, SequencesExt, Lists

CONSTANTS
    OwnHooks,     \* hooks a person may add
    Installers,   \* processes that install
    HookConfigs,  \* config paths an install may pass
    MaxHookEdits, \* how often a person edits
    NoHooks, Garbage, OddGroup, NoHook

ASSUME InstallAssumption ==
    /\ MaxHookEdits \in Nat /\ OwnHooks \cap {"ours", "legacy"} = {}
    /\ OddGroup \notin {"own", "archfit"}

Harnesses == {"claude", "codex"}
HookEvents == {"SessionStart", "PostToolUse", "Stop", "SubagentStop"}
Wanted(harness) == IF harness = "claude" THEN HookEvents ELSE HookEvents \ {"SubagentStop"}
RunFor(event) == IF event = "SubagentStop" THEN "Stop" ELSE event

VARIABLES
    hookfiles,  \* the hook file of each harness
    installing, \* what an installer has read, and will write for
    trusted,    \* the entries Codex trusts, by event and position
    disables,   \* disableAllHooks in the two settings files of Claude Code
    hookEdits

installVars == <<hookfiles, installing, trusted, disables, hookEdits>>

InstallInit ==
    /\ hookfiles \in [Harnesses -> {NoHooks, Garbage}]
    /\ installing = [i \in Installers |-> NoHook]
    /\ trusted = <<>>
    /\ disables = [place \in {"local", "settings"} |-> "unset"]
    /\ hookEdits = 0

-----------------------------------------------------------------------------
(* Merging *)

Ours(run, config) == [by |-> "ours", run |-> run, config |-> config]
archfitGroup(want, config) == [matcher |-> "archfit", hooks |-> <<Ours(RunFor(want), config)>>]

\* What stays of a group: without a wanted hook only the removed command goes.
Staying(group, want) ==
    {k \in DOMAIN group.hooks : group.hooks[k].by # "legacy" /\ (want # NoHook => group.hooks[k].by # "ours")}
Intact(group, want) == group.matcher = OddGroup \/ Staying(group, want) = DOMAIN group.hooks
Remains(group, want) ==
    IF Intact(group, want) THEN group
    ELSE [group EXCEPT !.hooks = ItemsAt(group.hooks, Staying(group, want))]
HoldsOurs(group, want) == want # NoHook /\ \E k \in DOMAIN group.hooks : group.hooks[k].by = "ours"

\* Dropping archfit's entry where it stands and appending a fresh group.
mergeEventAtEnd(groups, want, config) ==
    LET kept == ItemsAt(groups, {g \in DOMAIN groups : Intact(groups[g], want)})
    IN  IF want = NoHook THEN kept ELSE Append(kept, archfitGroup(want, config))

\* A group that held only archfit's hooks is replaced in place, the first one.
Emptied(groups, want) == {g \in DOMAIN groups : ~Intact(groups[g], want) /\ Staying(groups[g], want) = {}}
Replaced(groups, want) ==
    LET ours == {g \in Emptied(groups, want) : HoldsOurs(groups[g], want)}
    IN  {g \in ours : \A j \in ours : g <= j}
mergeEvent(groups, want, config) ==
    LET first == Replaced(groups, want)
        each == [g \in DOMAIN groups |->
                   IF g \in first THEN archfitGroup(want, config) ELSE Remains(groups[g], want)]
        merged == ItemsAt(each, (DOMAIN groups \ Emptied(groups, want)) \cup first)
    IN  IF want = NoHook \/ first # {} THEN merged
        ELSE Append(merged, archfitGroup(want, config))

\* The groups of an event, and the files that hold them.
Entries == {[by |-> o, run |-> "none", config |-> "none"] : o \in OwnHooks \cup {"legacy"}}
InstalledEntries == {Ours(RunFor(e), c) : e \in HookEvents, c \in HookConfigs}
HookGroups ==
    [matcher : {"own", "archfit"}, hooks : Seq(Entries \cup InstalledEntries)]
        \cup {[matcher |-> OddGroup, hooks |-> <<>>]}
IsHookFile(file) == \E events \in SUBSET HookEvents : file \in [events -> Seq(HookGroups)]

ASSUME SentinelAssumption ==
    NoHooks # Garbage /\ ~IsHookFile(NoHooks) /\ ~IsHookFile(Garbage) /\ NoHook \notin HookEvents

GroupsOf(file, event) == IF event \in DOMAIN file THEN file[event] ELSE <<>>
\* The code merges without a hook first; what that drops, merging with the hook drops as well.
mergeHookConfig(file, harness, config) ==
    LET present == IF file = NoHooks THEN <<>> ELSE file
        merged(e) == mergeEvent(GroupsOf(present, e), IF e \in Wanted(harness) THEN e ELSE NoHook, config)
        gone == {e \in DOMAIN present : present[e] # <<>> /\ merged(e) = <<>>}
    IN  [e \in (DOMAIN present \ gone) \cup Wanted(harness) |-> merged(e)]

-----------------------------------------------------------------------------
(* Doctor *)

Positions(file) ==
    UNION {UNION {{<<e, g, k>> : k \in DOMAIN file[e][g].hooks} : g \in DOMAIN file[e]} : e \in DOMAIN file}
EntryAt(file, p) == file[p[1]][p[2]].hooks[p[3]]
Precedes(p, q) == p[2] < q[2] \/ (p[2] = q[2] /\ p[3] < q[3])

Unreadable(file) ==
    \/ file = Garbage
    \/ file # NoHooks /\ \E e \in DOMAIN file : \E g \in DOMAIN file[e] : file[e][g].matcher = OddGroup

\* Where archfit's hooks are; of several, the first counts.
installedHooks(file, event, run) ==
    LET S == {p \in Positions(file) : p[1] = event /\ EntryAt(file, p).by = "ours" /\ EntryAt(file, p).run = run}
    IN  {p \in S : \A q \in S \ {p} : Precedes(p, q)}

\* The local settings win.
claudeHooksDisabledBy ==
    IF disables["local"] # "unset" THEN disables["local"] = "on" ELSE disables["settings"] = "on"

harnessStatusOf(harness, event) ==
    LET file == hookfiles[harness]
        found == IF file \in {NoHooks, Garbage} THEN {} ELSE installedHooks(file, event, RunFor(event))
    IN  CASE Unreadable(file) -> "unreadable"
          [] ~Unreadable(file) /\ found = {} -> "not installed"
          [] ~Unreadable(file) /\ found # {} ->
               IF harness = "claude" THEN IF claudeHooksDisabledBy THEN "disabled" ELSE "active"
               ELSE IF found \subseteq DOMAIN trusted THEN "active" ELSE "not trusted"

-----------------------------------------------------------------------------
(* Actions *)

\* A file that is not a JSON object ends an install.
Begin(i, harness, config) ==
    /\ installing[i] = NoHook /\ hookfiles[harness] # Garbage
    /\ installing' = [installing EXCEPT ![i] = [harness |-> harness, config |-> config, read |-> hookfiles[harness]]]
    /\ UNCHANGED <<hookfiles, trusted, disables, hookEdits>>
installHarnessHooks(i) ==
    /\ installing[i] # NoHook
    /\ LET job == installing[i]
       IN  hookfiles' = [hookfiles EXCEPT ![job.harness] = mergeHookConfig(job.read, job.harness, job.config)]
    /\ installing' = [installing EXCEPT ![i] = NoHook]
    /\ UNCHANGED <<trusted, disables, hookEdits>>

\* A person, or an older archfit, changes a file.
PersonEdits == hookEdits < MaxHookEdits /\ hookEdits' = hookEdits + 1 /\ UNCHANGED installing
SetGroups(harness, event, groups) ==
    /\ PersonEdits /\ UNCHANGED <<trusted, disables>>
    /\ LET file == hookfiles[harness]
           rest == IF file = NoHooks THEN <<>> ELSE file
       IN  hookfiles' = [hookfiles EXCEPT ![harness] =
             [e \in DOMAIN rest \cup {event} |-> IF e = event THEN groups ELSE rest[e]]]
GroupsIn(harness, event) ==
    IF hookfiles[harness] = NoHooks THEN <<>> ELSE GroupsOf(hookfiles[harness], event)

AddGroup(harness, event, entry) ==
    /\ hookfiles[harness] # Garbage
    /\ LET groups == GroupsIn(harness, event)
           group == [matcher |-> "own", hooks |-> <<entry>>]
       IN  \/ SetGroups(harness, event, Append(groups, group))
           \/ SetGroups(harness, event, <<group>> \o groups)
JoinGroup(harness, event, entry) ==
    /\ hookfiles[harness] # Garbage
    /\ \E g \in DOMAIN GroupsIn(harness, event) :
         LET groups == GroupsIn(harness, event)
         IN  /\ groups[g].matcher # OddGroup
             /\ \/ SetGroups(harness, event, [groups EXCEPT ![g].hooks = Append(@, entry)])
                \/ SetGroups(harness, event, [groups EXCEPT ![g].hooks = <<entry>> \o @])
RemoveGroup(harness, event) ==
    /\ hookfiles[harness] # Garbage
    /\ \E g \in DOMAIN GroupsIn(harness, event) :
         SetGroups(harness, event, RemoveAt(GroupsIn(harness, event), g))
CopyGroup(harness, event) ==
    /\ hookfiles[harness] # Garbage
    /\ \E g \in DOMAIN GroupsIn(harness, event) :
         SetGroups(harness, event, Append(GroupsIn(harness, event), GroupsIn(harness, event)[g]))
OddGroupIn(harness, event) ==
    /\ hookfiles[harness] # Garbage
    /\ SetGroups(harness, event, Append(GroupsIn(harness, event), [matcher |-> OddGroup, hooks |-> <<>>]))
Break(harness) ==
    /\ PersonEdits /\ hookfiles' = [hookfiles EXCEPT ![harness] = Garbage] /\ UNCHANGED <<trusted, disables>>
Disable(place, value) ==
    /\ PersonEdits /\ disables' = [disables EXCEPT ![place] = value] /\ UNCHANGED <<hookfiles, trusted>>

\* Codex asks for, and keeps, trust in every hook of its file.
TrustFile ==
    /\ PersonEdits /\ hookfiles["codex"] \notin {NoHooks, Garbage}
    /\ trusted' = [p \in Positions(hookfiles["codex"]) |-> EntryAt(hookfiles["codex"], p)]
    /\ UNCHANGED <<hookfiles, disables>>

InstallNext ==
    \/ \E i \in Installers :
         \/ \E h \in Harnesses, c \in HookConfigs : Begin(i, h, c)
         \/ installHarnessHooks(i)
    \/ \E h \in Harnesses, e \in {"Stop", "SubagentStop"} :
         \/ \E x \in Entries : AddGroup(h, e, x) \/ JoinGroup(h, e, x)
         \/ RemoveGroup(h, e) \/ CopyGroup(h, e) \/ OddGroupIn(h, e)
    \/ \E h \in Harnesses : Break(h)
    \/ \E place \in DOMAIN disables, v \in {"on", "off"} : Disable(place, v)
    \/ TrustFile

InstallSpec == InstallInit /\ [][InstallNext]_installVars

-----------------------------------------------------------------------------
(* Properties *)

InstallTypeOK ==
    /\ DOMAIN hookfiles = Harnesses
    /\ \A h \in Harnesses : hookfiles[h] \in {NoHooks, Garbage} \/ IsHookFile(hookfiles[h])
    /\ DOMAIN installing = Installers
    /\ \A i \in Installers : installing[i] # NoHook =>
         /\ installing[i].harness \in Harnesses /\ installing[i].config \in HookConfigs
         /\ installing[i].read = NoHooks \/ IsHookFile(installing[i].read)
    /\ disables \in [{"local", "settings"} -> {"unset", "on", "off"}]
    /\ hookEdits \in 0..MaxHookEdits

\* The hooks of a person in an event, with their matchers, in order.
PersonsPlaces(file, event) == {p \in Positions(file) : p[1] = event /\ EntryAt(file, p).by \in OwnHooks}
PersonsIn(file, event) ==
    LET places == PersonsPlaces(file, event)
        hook(p) == <<file[p[1]][p[2]].matcher, EntryAt(file, p)>>
    IN  [n \in 1..Cardinality(places) |->
           hook(CHOOSE p \in places : Cardinality({q \in places : Precedes(q, p)}) = n - 1)]
OursIn(file, event) == {p \in Positions(file) : p[1] = event /\ EntryAt(file, p).by = "ours"}

\* archfit's hook stands alone in each event, and nothing of the removed command is left.
Tidy(file) ==
    \A e \in DOMAIN file :
      /\ \A p, q \in OursIn(file, e) : p = q
      /\ \A g \in DOMAIN file[e] : \A k \in DOMAIN file[e][g].hooks :
           /\ file[e][g].hooks[k].by # "legacy"
           /\ file[e][g].hooks[k].by = "ours" => Len(file[e][g].hooks) = 1

\* An install keeps every hook of a person, in its order and under its matcher, leaves one
\* hook of archfit in each event it wants and none of the removed command, and changes
\* nothing when repeated.  Hooks that stood in their own groups keep the position that
\* Codex's trust hangs on (mergeHookConfig, mergeEvent).
MergeIsSafe ==
    \A h \in Harnesses, c \in HookConfigs : hookfiles[h] # Garbage =>
      \A file \in {IF hookfiles[h] = NoHooks THEN <<>> ELSE hookfiles[h]} :
        \A merged \in {mergeHookConfig(file, h, c)} :
          /\ mergeHookConfig(merged, h, c) = merged
          /\ \A e \in HookEvents : PersonsIn(merged, e) = PersonsIn(file, e)
          /\ \A e \in Wanted(h) : \E p \in Positions(merged) :
               OursIn(merged, e) = {p} /\ EntryAt(merged, p) = Ours(RunFor(e), c)
          /\ \A p \in Positions(merged) : EntryAt(merged, p).by # "legacy"
          /\ Tidy(file) =>
               \A p \in Positions(file) :
                 /\ p \in Positions(merged)
                 /\ EntryAt(merged, p).by = EntryAt(file, p).by

\* What the harness would run: Claude Code whatever no settings file disables, Codex an
\* entry that stands where it was trusted.
HarnessRuns(harness, event) ==
    LET file == hookfiles[harness]
    IN  IF harness = "claude" THEN OursIn(file, event) # {} /\ ~claudeHooksDisabledBy
        ELSE \E p \in OursIn(file, event) : p \in DOMAIN trusted /\ trusted[p] = EntryAt(file, p)

\* On a file an install would leave as it is, doctor calls a hook active if the harness runs
\* it, and only then, except that doctor cannot see which entry Codex trusted at a position
\* (harnessStatusOf, installedHooks, codexTrusts).
DoctorIsRight ==
    \A h \in {x \in Harnesses : hookfiles[x] \notin {NoHooks, Garbage} /\ ~Unreadable(hookfiles[x])} :
      (\E c \in HookConfigs : mergeHookConfig(hookfiles[h], h, c) = hookfiles[h]) =>
        \A e \in Wanted(h) :
           /\ HarnessRuns(h, e) => harnessStatusOf(h, e) = "active"
           /\ harnessStatusOf(h, e) = "active" =>
                \/ HarnessRuns(h, e)
                \/ h = "codex" /\ \E p \in OursIn(hookfiles[h], e) : trusted[p] # EntryAt(hookfiles[h], p)

HooksAreInstalled == MergeIsSafe /\ DoctorIsRight
=============================================================================
