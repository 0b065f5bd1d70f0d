----------------------------- MODULE ConfigWork -----------------------------
(***************************************************************************)
(* The commands that edit the config file: `config init`, `config update    *)
(* --apply`, and `config enrich`, which drafts values for modules and pins   *)
(* those a person approved.  They run beside each other and beside a person  *)
(* with an editor, and share no lock: each reads the file, plans, and writes *)
(* through safeWriteConfig (stage, compare, back up, rename).               *)
(*                                                                         *)
(* A config is a map of modules to stanzas; a stanza claims directories and  *)
(* may have a value, which stands for its subdomain, volatility or owner.   *)
(***************************************************************************)
EXTENDS Integers, Sequences, FiniteSets

CONSTANTS
    Mods, Dirs, Values,
    Writers,     \* the commands
    MaxEdits,    \* bound: how often a person edits the config
    Workspaces,  \* the configs and trees to consider: what is written, what is found
    NoWorkspace,
    NoConfig     \* there is no config file

Commands == {"init", "force", "update", "draft", "pin"}
Unset == "unset"
Stanza == [paths : SUBSET Dirs, value : Values \cup {Unset}]

\* What discovery finds of a module: its paths, and its sources where it lists them.
Found == [paths : SUBSET Dirs, sources : SUBSET Dirs]

Contents == UNION {[S -> Stanza] : S \in SUBSET Mods}

ASSUME ConfigWorkAssumption ==
    /\ IsFiniteSet(Mods) /\ IsFiniteSet(Dirs) /\ IsFiniteSet(Writers)
    /\ MaxEdits \in Nat
    /\ Unset \notin Values
    /\ NoWorkspace \notin Workspaces /\ NoConfig \notin Contents
    /\ \A w \in Workspaces :
         /\ w.config = NoConfig \/ w.config \in Contents
         /\ \E S \in SUBSET Mods : w.found \in [S -> Found]

VARIABLES
    workspace, \* the tree, and the config it starts with
    config,    \* the config file
    backups,   \* the copies beside it
    temps,     \* the commands whose temporary file is there
    drafts,    \* the file of drafted values
    writer,    \* where each command is, and what it remembers
    edits,     \* how often the config was edited by hand
    reviewed,  \* the values a person wrote or approved, by module
    replaced   \* the contents commands replaced with nothing written in between

configVars == <<workspace, config, backups, temps, drafts, writer, edits, reviewed, replaced>>

NoContent == <<>>
Idle == [kind |-> "none", pc |-> "idle", loaded |-> NoContent, source |-> NoContent,
         edited |-> NoContent, noted |-> NoContent, late |-> FALSE]

-----------------------------------------------------------------------------
(* The report of `config update`: what the tree has and the config has not *)

Claimed(c) == UNION {c[m].paths : m \in DOMAIN c}
NewNames(c, found) == DOMAIN found \ DOMAIN c
GoneNames(c, found) == {m \in DOMAIN c : m \notin DOMAIN found}

\* A new name and a gone one with the same paths, each the only one to have them,
\* are one module renamed.
OnlyOne(P, m) == P[m] # {} /\ \A n \in DOMAIN P : P[n] = P[m] => n = m
Renamed(c, found) ==
    LET NewPaths == [m \in NewNames(c, found) |-> found[m].paths]
        GonePaths == [m \in GoneNames(c, found) |-> c[m].paths]
    IN  {m \in DOMAIN NewPaths : OnlyOne(NewPaths, m) /\
           \E g \in DOMAIN GonePaths : OnlyOne(GonePaths, g) /\ GonePaths[g] = NewPaths[m]}

\* A new name whose sources the config's modules own already is not new.
Covered(c, found) ==
    {m \in NewNames(c, found) \ Renamed(c, found) :
       found[m].sources # {} /\ found[m].sources \subseteq Claimed(c)}

Added(c, found) == NewNames(c, found) \ (Renamed(c, found) \cup Covered(c, found))
PathDrift(c, found) == {m \in DOMAIN c \cap DOMAIN found : c[m].paths # found[m].paths}
Pending(c, found) == Added(c, found) \cup PathDrift(c, found)

-----------------------------------------------------------------------------
(* Edits of the file's text.  They are planned on the config as loaded, and  *)
(* made on the text as read again.                                          *)

\* ApplyEdits of an update: a module that is there by now is skipped, one that is
\* gone is an error; the paths are replaced.
UpdateFails(text, plan, found) == PathDrift(plan, found) \ DOMAIN text # {}
UpdateTextKeeps(text, plan, found) ==
    [m \in DOMAIN text \cup Added(plan, found) |->
       IF m \in DOMAIN text
       THEN IF m \in PathDrift(plan, found)
            THEN [text[m] EXCEPT !.paths = @ \cup found[m].paths] ELSE text[m]
       ELSE [paths |-> found[m].paths, value |-> Unset]]
WithPaths(stanza, paths) == [stanza EXCEPT !.paths = paths]
UpdateText(text, plan, found) ==
    [m \in DOMAIN text \cup Added(plan, found) |->
       IF m \in DOMAIN text
       THEN IF m \in PathDrift(plan, found) THEN WithPaths(text[m], found[m].paths) ELSE text[m]
       ELSE [paths |-> found[m].paths, value |-> Unset]]

\* PinModuleValues and PinSubdomains: approved drafts of modules without a value in
\* the config as loaded; a field that is in the text is never overwritten.
Actionable(notes, plan) ==
    {m \in DOMAIN notes : notes[m].approved /\ (m \in DOMAIN plan => plan[m].value = Unset)}
PinFails(text, plan, notes) == Actionable(notes, plan) \ DOMAIN text # {}
PinTextOver(text, plan, notes) ==
    [m \in DOMAIN text |->
       IF m \in Actionable(notes, plan)
       THEN [text[m] EXCEPT !.value = notes[m].value] ELSE text[m]]
WithValue(stanza, value) == IF stanza.value = Unset THEN [stanza EXCEPT !.value = value] ELSE stanza
PinText(text, plan, notes) ==
    [m \in DOMAIN text |->
       IF m \in Actionable(notes, plan) THEN WithValue(text[m], notes[m].value) ELSE text[m]]

\* config init proposes every module of the tree.
InitText(found) == [m \in DOMAIN found |-> [paths |-> found[m].paths, value |-> Unset]]

\* New drafts replace old ones, but for the approved.
MergeDrafts(old, new) ==
    [m \in DOMAIN old \cup DOMAIN new |->
       IF m \in DOMAIN old /\ (m \notin DOMAIN new \/ old[m].approved) THEN old[m] ELSE new[m]]

-----------------------------------------------------------------------------
(* The commands *)

ConfigInit ==
    /\ workspace = NoWorkspace /\ config = NoConfig
    /\ backups = {} /\ temps = {} /\ drafts = NoContent
    /\ writer = [w \in Writers |-> Idle]
    /\ edits = 0 /\ reviewed = {} /\ replaced = {}

ReviewedIn(c) == {<<m, c[m].value>> : m \in {n \in DOMAIN c : c[n].value # Unset}}

SetUp(w) ==
    /\ workspace = NoWorkspace
    /\ workspace' = w /\ config' = w.config
    /\ reviewed' = IF w.config = NoConfig THEN {} ELSE ReviewedIn(w.config)
    /\ UNCHANGED <<backups, temps, drafts, writer, edits, replaced>>

At(w, pc) == writer[w].pc = pc
Step(w, pc) == writer' = [writer EXCEPT ![w].pc = pc]
End(w) == writer' = [writer EXCEPT ![w] = [Idle EXCEPT !.pc = "done"]]

Proposes(kind) == kind \in {"init", "force"}

\* The config is loaded and checked, but for init; pin reads its approved drafts first.
Load(w, kind) ==
    /\ workspace # NoWorkspace /\ At(w, "idle")
    /\ config = NoConfig => Proposes(kind)
    /\ kind = "pin" => \E m \in DOMAIN drafts : drafts[m].approved
    /\ writer' = [writer EXCEPT ![w] =
         [Idle EXCEPT !.kind = kind, !.pc = "loaded",
            !.loaded = IF Proposes(kind) THEN NoContent ELSE config,
            !.noted = IF kind = "pin" THEN drafts ELSE NoContent]]
    /\ UNCHANGED <<workspace, config, backups, temps, drafts, edits, reviewed, replaced>>

\* The text is read, for a second time but for init, and the plan made on it.  Without
\* --force init leaves a config alone.
Read(w) ==
    LET text == config
        plan == writer[w].loaded
        notes == writer[w].noted
        kind == writer[w].kind
        stops == CASE kind = "update" -> UpdateFails(text, plan, workspace.found)
                                           \/ Pending(plan, workspace.found) = {}
                   [] kind = "pin" -> PinFails(text, plan, notes) \/ Actionable(notes, plan) = {}
                   [] OTHER -> kind = "init" /\ config # NoConfig
        edited == CASE kind = "update" -> UpdateText(text, plan, workspace.found)
                    [] kind = "pin" -> PinText(text, plan, notes)
                    [] OTHER -> InitText(workspace.found)
    IN  /\ At(w, "loaded") /\ kind # "draft"
        /\ config = NoConfig => Proposes(kind)
        /\ IF stops THEN End(w)
           ELSE writer' = [writer EXCEPT ![w].pc = "planned", ![w].edited = edited,
                                         ![w].source = text]
        /\ UNCHANGED <<workspace, config, backups, temps, drafts, edits, reviewed, replaced>>

\* safeWriteConfig: the temporary file is written, and loads.
Stage(w) ==
    /\ At(w, "planned")
    /\ temps' = temps \cup {w}
    /\ Step(w, "staged")
    /\ UNCHANGED <<workspace, config, backups, drafts, edits, reviewed, replaced>>

\* The file must be as it was read, or still not be there.
Guard(w) ==
    /\ At(w, "staged")
    /\ IF config = writer[w].source
       THEN Step(w, "guarded") /\ UNCHANGED temps
       ELSE End(w) /\ temps' = temps \ {w}
    /\ UNCHANGED <<workspace, config, backups, drafts, edits, reviewed, replaced>>

\* A backup gets a name of its own: a new file, empty at first.
BackUp(w) ==
    /\ At(w, "guarded")
    /\ backups' = IF config = NoConfig THEN backups
                  ELSE backups \cup {[of |-> config, by |-> w, whole |-> FALSE]}
    /\ Step(w, IF config = NoConfig THEN "kept" ELSE "copying")
    /\ UNCHANGED <<workspace, config, temps, drafts, edits, reviewed, replaced>>

\* The copy opened the file that was there; a rename by another does not change it.
CopyEnds(w) ==
    /\ At(w, "copying")
    /\ backups' = {IF b.by = w /\ ~b.whole THEN [b EXCEPT !.whole = TRUE] ELSE b : b \in backups}
    /\ Step(w, "kept")
    /\ UNCHANGED <<workspace, config, temps, drafts, edits, reviewed, replaced>>

\* What others know of the file is old once it is written: those past their copy
\* cannot notice.
Written(w) ==
    [x \in Writers |-> IF x # w /\ writer[x].pc \in {"copying", "kept"}
                       THEN [writer[x] EXCEPT !.late = TRUE] ELSE writer[x]]

Rename(w) ==
    /\ At(w, "kept")
    /\ config' = writer[w].edited
    /\ temps' = temps \ {w}
    /\ replaced' = IF config = NoConfig \/ writer[w].late THEN replaced ELSE replaced \cup {config}
    /\ writer' = [Written(w) EXCEPT ![w].pc = "done"]
    /\ UNCHANGED <<workspace, backups, drafts, edits, reviewed>>

\* A step that fails ends the command, which removes its temporary file.
Abort(w) ==
    /\ writer[w].pc \in {"loaded", "planned", "staged", "guarded", "copying", "kept"}
    /\ End(w)
    /\ temps' = temps \ {w}
    /\ UNCHANGED <<workspace, config, backups, drafts, edits, reviewed, replaced>>

\* A command that is killed leaves what it wrote.
Crash(w) ==
    /\ writer[w].pc \in {"loaded", "planned", "staged", "guarded", "copying", "kept"}
    /\ End(w)
    /\ UNCHANGED <<workspace, config, backups, temps, drafts, edits, reviewed, replaced>>

\* The model drafts values for modules without one; drafts of others are dropped.
Judge(w) ==
    /\ At(w, "loaded") /\ writer[w].kind = "draft"
    /\ \E S \in SUBSET {m \in DOMAIN writer[w].loaded : writer[w].loaded[m].value = Unset} :
         \E v \in Values :
           writer' = [writer EXCEPT ![w].pc = "judged",
                        ![w].noted = [m \in S |-> [value |-> v, approved |-> FALSE]]]
    /\ UNCHANGED <<workspace, config, backups, temps, drafts, edits, reviewed, replaced>>

\* The drafts are loaded only now, merged, and written whole.
SaveDrafts(w) ==
    /\ At(w, "judged")
    /\ drafts' = MergeDrafts(drafts, writer[w].noted)
    /\ Step(w, "done")
    /\ UNCHANGED <<workspace, config, backups, temps, edits, reviewed, replaced>>

-----------------------------------------------------------------------------
(* The person *)

Approve(m) ==
    /\ m \in DOMAIN drafts /\ ~drafts[m].approved
    /\ drafts' = [drafts EXCEPT ![m].approved = TRUE]
    /\ reviewed' = reviewed \cup {<<m, drafts[m].value>>}
    /\ UNCHANGED <<workspace, config, backups, temps, writer, edits, replaced>>

OldText == IF config = NoConfig THEN NoContent ELSE config

\* The config is edited by hand.
ByHand(new) ==
    /\ workspace # NoWorkspace /\ edits < MaxEdits
    /\ new # OldText
    /\ config' = new
    /\ reviewed' = reviewed \cup ReviewedIn(new)
    /\ edits' = edits + 1
    /\ writer' = [w \in Writers |-> IF writer[w].pc \in {"copying", "kept"}
                                    THEN [writer[w] EXCEPT !.late = TRUE] ELSE writer[w]]
    /\ UNCHANGED <<workspace, backups, temps, drafts, replaced>>

Edit(m, stanza) ==
    ByHand([n \in DOMAIN OldText \cup {m} |-> IF n = m THEN stanza ELSE OldText[n]])

RemoveStanza(m) == ByHand([n \in DOMAIN OldText \ {m} |-> OldText[n]])

ConfigNext ==
    \/ \E w \in Workspaces : SetUp(w)
    \/ \E w \in Writers :
         \/ \E kind \in Commands : Load(w, kind)
         \/ Read(w) \/ Judge(w) \/ SaveDrafts(w)
         \/ Stage(w) \/ Guard(w) \/ BackUp(w) \/ CopyEnds(w) \/ Rename(w)
         \/ Abort(w) \/ Crash(w)
    \/ \E m \in Mods : Approve(m) \/ RemoveStanza(m) \/ (edits < MaxEdits /\ \E s \in Stanza : Edit(m, s))

ConfigSpec == ConfigInit /\ [][ConfigNext]_configVars

-----------------------------------------------------------------------------
(* Properties *)

\* Every variable has its type, and the temporary file of a command at work is there.
ConfigTypeOK ==
    /\ workspace = NoWorkspace \/ workspace \in Workspaces
    /\ config = NoConfig \/ config \in Contents
    /\ \A b \in backups : b.of \in Contents /\ b.by \in Writers /\ b.whole \in BOOLEAN
    /\ temps \subseteq Writers
    /\ DOMAIN drafts \subseteq Mods
    /\ \A w \in Writers : writer[w].pc \in {"staged", "guarded", "copying", "kept"} => w \in temps
    /\ edits \in 0..MaxEdits
    /\ reviewed \subseteq Mods \X Values
    /\ replaced \subseteq Contents

\* What a command replaced is in a whole backup, through crashes, aborts and other
\* commands, unless the file was written after the copy was begun (safeWriteConfig).
ReplacedIsKept ==
    \A c \in replaced : \E b \in backups : b.of = c /\ b.whole

\* A command's write leaves every stanza and value of the file it read, and adds only
\* values a person wrote or approved, though it planned on an earlier read
\* (resolveSetModuleFields, actionableConfigEnrichPins).
ValuesAreReviewed ==
    [][\A w \in Writers : writer[w].kind \in {"update", "pin"} /\ Rename(w) =>
         /\ DOMAIN writer[w].source \subseteq DOMAIN config'
         /\ \A m \in DOMAIN config' :
              IF m \in DOMAIN writer[w].source /\ writer[w].source[m].value # Unset
              THEN config'[m].value = writer[w].source[m].value
              ELSE config'[m].value = Unset \/ <<m, config'[m].value>> \in reviewed]_configVars

\* An update leaves nothing for the next one to edit, but for modules whose sources
\* lost their owner when the paths of its stanza were replaced (DiffModules).
SecondUpdateIsQuiet ==
    \A w \in Writers :
      writer[w].kind = "update" /\ writer[w].pc = "planned" /\ writer[w].loaded = writer[w].source =>
        Pending(writer[w].edited, workspace.found) \subseteq Covered(writer[w].loaded, workspace.found)

\* What a command writes over is kept, and what it writes needs no second run.
UpdateIsSafe == ReplacedIsKept /\ SecondUpdateIsQuiet
=============================================================================
