----------------------------- MODULE ReviewProofs -----------------------------
(***************************************************************************)
(* What people wrote, approved and accepted stays theirs, for any configs,    *)
(* labels and baselines, however many commands run beside each other, are      *)
(* killed or fail, and whoever edits the files meanwhile: the config           *)
(* (ConfigWork), the labels file (Labels) and the stored reference (Ratchets); *)
(* and a check is judged under the policy of its target (ScopeGuard).         *)
(***************************************************************************)
EXTENDS ConfigWork, Labels, Ratchets, ScopeGuard, FiniteSetTheorems, SequenceTheorems, TLAPS

-----------------------------------------------------------------------------
(* The config: what the variables are                                       *)

Draftings == [value : Values, approved : BOOLEAN]
DraftFiles == {NoContent} \cup UNION {[S -> Draftings] : S \in SUBSET Mods}
Texts == Contents \cup {NoConfig, NoContent}
Stages == {"idle", "loaded", "planned", "staged", "guarded", "copying", "kept", "judged", "done"}
Jobs == [kind : Commands \cup {"none"}, pc : Stages, loaded : Contents, source : Texts,
         edited : Texts, noted : DraftFiles, late : BOOLEAN]

Typed ==
    /\ workspace = NoWorkspace \/ workspace \in Workspaces
    /\ config \in Contents \cup {NoConfig}
    /\ backups \subseteq [of : Contents, by : Writers, whole : BOOLEAN]
    /\ drafts \in DraftFiles
    /\ writer \in [Writers -> Jobs]
    /\ workspace = NoWorkspace => drafts = NoContent /\ \A w \in Writers : writer[w] = Idle

LEMMA Empty == NoContent \in Contents /\ DOMAIN NoContent = {} /\ NoContent \in DraftFiles
<1>1. NoContent \in [{} -> Stanza] /\ DOMAIN NoContent = {}
    BY DEF NoContent
<1> QED
    BY <1>1 DEF Contents, DraftFiles

LEMMA IdleIsJob == Idle \in Jobs /\ [Idle EXCEPT !.pc = "done"] \in Jobs
    BY Empty DEF Idle, Jobs, Texts, DraftFiles, Stages

LEMMA ContentIs ==
    ASSUME NEW c \in Contents
    PROVE  DOMAIN c \subseteq Mods /\ c = [m \in DOMAIN c |-> c[m]] /\ \A m \in DOMAIN c : c[m] \in Stanza
    BY DEF Contents

LEMMA IsContent ==
    ASSUME NEW S \in SUBSET Mods, NEW c \in [S -> Stanza]
    PROVE  c \in Contents
    BY DEF Contents

LEMMA DraftsAre ==
    ASSUME NEW d \in DraftFiles
    PROVE  DOMAIN d \subseteq Mods /\ \A m \in DOMAIN d : d[m] \in Draftings
    BY Empty DEF DraftFiles

LEMMA FoundIs ==
    ASSUME NEW w \in Workspaces
    PROVE  /\ DOMAIN w.found \subseteq Mods /\ \A m \in DOMAIN w.found : w.found[m] \in Found
           /\ w.config \in Contents \cup {NoConfig}
    BY ConfigWorkAssumption

-----------------------------------------------------------------------------
(* The texts that commands write                                            *)

\* What ValuesAreReviewed asks of a text that takes the place of another.
Careful(old, new) ==
    /\ DOMAIN old \subseteq DOMAIN new
    /\ \A m \in DOMAIN new :
         IF m \in DOMAIN old /\ old[m].value # Unset
         THEN new[m].value = old[m].value
         ELSE new[m].value = Unset \/ <<m, new[m].value>> \in reviewed

Known(notes) == \A m \in DOMAIN notes : notes[m].approved => <<m, notes[m].value>> \in reviewed

LEMMA UpdateIsCareful ==
    ASSUME NEW text \in Contents, NEW plan, NEW found,
           DOMAIN found \subseteq Mods, \A m \in DOMAIN found : found[m] \in Found,
           PathDrift(plan, found) \subseteq DOMAIN text
    PROVE  UpdateText(text, plan, found) \in Contents /\ Careful(text, UpdateText(text, plan, found))
<1> DEFINE new == UpdateText(text, plan, found)
           S == DOMAIN text \cup Added(plan, found)
<1>1. S \in SUBSET Mods
    BY ContentIs DEF Added, NewNames
<1>2. PathDrift(plan, found) \subseteq DOMAIN found /\ Added(plan, found) \subseteq DOMAIN found
    BY DEF PathDrift, Added, NewNames
<1>3. ASSUME NEW m \in S
      PROVE  /\ new[m] \in Stanza
             /\ new[m].value = IF m \in DOMAIN text THEN text[m].value ELSE Unset
    <2>1. CASE m \notin DOMAIN text
        BY <2>1, <1>2, <1>3 DEF UpdateText, WithPaths, Stanza, Found
    <2>2. CASE m \in DOMAIN text
        <3>1. text[m] \in Stanza
            BY <2>2, ContentIs
        <3>2. CASE m \in PathDrift(plan, found)
            <4>1. found[m].paths \in SUBSET Dirs
                BY <1>2, <3>2 DEF Found
            <4>2. new[m] = [text[m] EXCEPT !.paths = found[m].paths]
                BY <2>2, <3>2 DEF UpdateText, WithPaths
            <4> QED
                BY <2>2, <3>1, <4>1, <4>2 DEF Stanza
        <3>3. CASE m \notin PathDrift(plan, found)
            BY <2>2, <3>1, <3>3 DEF UpdateText, WithPaths
        <3> QED
            BY <3>2, <3>3
    <2> QED
        BY <2>1, <2>2
<1>4. DOMAIN new = S /\ new \in [S -> Stanza]
    BY <1>3 DEF UpdateText
<1>5. new \in Contents
    BY <1>1, <1>4, IsContent
<1>6. Careful(text, new)
    BY <1>3, <1>4 DEF Careful
<1> QED
    BY <1>5, <1>6

LEMMA PinIsCareful ==
    ASSUME NEW text \in Contents, NEW plan, NEW notes \in DraftFiles, Known(notes)
    PROVE  PinText(text, plan, notes) \in Contents /\ Careful(text, PinText(text, plan, notes))
<1> DEFINE new == PinText(text, plan, notes)
           S == DOMAIN text
<1>1. \A m \in Actionable(notes, plan) : m \in DOMAIN notes /\ notes[m].approved
    BY DEF Actionable
<1>2. ASSUME NEW m \in S
      PROVE  /\ new[m] \in Stanza
             /\ new[m].value = text[m].value \/
                  (text[m].value = Unset /\ <<m, new[m].value>> \in reviewed)
    <2>1. text[m] \in Stanza
        BY ContentIs
    <2>2. CASE m \in Actionable(notes, plan) /\ text[m].value = Unset
        <3>1. notes[m].value \in Values /\ <<m, notes[m].value>> \in reviewed
            BY <1>1, <2>2, DraftsAre DEF Draftings, Known
        <3>2. new[m] = [text[m] EXCEPT !.value = notes[m].value]
            BY <2>2 DEF PinText, WithValue
        <3> QED
            BY <2>1, <2>2, <3>1, <3>2 DEF Stanza
    <2>3. CASE ~(m \in Actionable(notes, plan) /\ text[m].value = Unset)
        BY <2>1, <2>3 DEF PinText, WithValue
    <2> QED
        BY <2>2, <2>3
<1>3. DOMAIN new = S /\ new \in [S -> Stanza]
    BY <1>2 DEF PinText, WithValue
<1>4. new \in Contents
    BY <1>3, ContentIs, IsContent
<1>5. Careful(text, new)
    BY <1>2, <1>3 DEF Careful
<1> QED
    BY <1>4, <1>5

LEMMA InitIsContent ==
    ASSUME NEW found, DOMAIN found \subseteq Mods, \A m \in DOMAIN found : found[m] \in Found
    PROVE  InitText(found) \in Contents
<1>1. InitText(found) \in [DOMAIN found -> Stanza]
    BY DEF InitText, Stanza, Found
<1> QED
    BY <1>1, IsContent

LEMMA MergeIsDrafts ==
    ASSUME NEW old \in DraftFiles, NEW new \in DraftFiles, Known(old), Known(new)
    PROVE  MergeDrafts(old, new) \in DraftFiles /\ Known(MergeDrafts(old, new))
<1> DEFINE S == DOMAIN old \cup DOMAIN new
           merged == MergeDrafts(old, new)
<1>1. S \in SUBSET Mods
    BY DraftsAre
<1>2. ASSUME NEW m \in S
      PROVE  /\ merged[m] \in Draftings
             /\ \/ m \in DOMAIN old /\ merged[m] = old[m]
                \/ m \in DOMAIN new /\ merged[m] = new[m]
    BY DraftsAre DEF MergeDrafts
<1>3. DOMAIN merged = S /\ merged \in [S -> Draftings]
    BY <1>2 DEF MergeDrafts
<1>4. merged \in DraftFiles
    BY <1>1, <1>3 DEF DraftFiles
<1> QED
    BY <1>2, <1>3, <1>4 DEF Known


-----------------------------------------------------------------------------
(* A second update finds nothing                                            *)

LEMMA SecondIsQuiet ==
    ASSUME NEW c \in Contents, NEW found,
           DOMAIN found \subseteq Mods, \A m \in DOMAIN found : found[m] \in Found
    PROVE  Pending(UpdateText(c, c, found), found) \subseteq Covered(c, found)
<1> DEFINE e == UpdateText(c, c, found)
<1>1. /\ Added(c, found) \subseteq DOMAIN found /\ DOMAIN e = DOMAIN c \cup Added(c, found)
      /\ PathDrift(c, found) \subseteq DOMAIN c \cap DOMAIN found
    BY DEF UpdateText, Added, NewNames, PathDrift
<1>2. ASSUME NEW m \in DOMAIN e
      PROVE  e[m].paths = IF m \in DOMAIN found THEN found[m].paths ELSE c[m].paths
    <2>1. CASE m \notin DOMAIN c
        BY <1>1, <2>1 DEF UpdateText
    <2>2. CASE m \in PathDrift(c, found)
        <3>1. m \in DOMAIN c /\ m \in DOMAIN found
            BY <1>1, <2>2
        <3>2. c[m] \in Stanza
            BY <3>1, ContentIs
        <3>3. e[m] = [c[m] EXCEPT !.paths = found[m].paths]
            BY <2>2, <3>1 DEF UpdateText, WithPaths
        <3> QED
            BY <3>1, <3>2, <3>3 DEF Stanza
    <2>3. CASE m \in DOMAIN c /\ m \notin PathDrift(c, found)
        <3>1. e[m] = c[m]
            BY <2>3 DEF UpdateText
        <3> QED
            BY <2>3, <3>1 DEF PathDrift
    <2> QED
        BY <2>1, <2>2, <2>3
<1>3. PathDrift(e, found) = {}
    BY <1>2 DEF PathDrift
<1>4. /\ NewNames(e, found) \subseteq NewNames(c, found)
      /\ NewNames(e, found) \cap Added(c, found) = {}
      /\ GoneNames(e, found) = GoneNames(c, found)
    BY <1>1 DEF NewNames, GoneNames
<1>5. ASSUME NEW m \in Added(e, found), m \notin Covered(c, found)
      PROVE  FALSE
    <2> DEFINE NewIn(t) == [n \in NewNames(t, found) |-> found[n].paths]
               GoneIn(t) == [n \in GoneNames(t, found) |-> t[n].paths]
    <2>1. m \in NewNames(e, found) /\ m \in NewNames(c, found) /\ m \notin Renamed(e, found)
        BY <1>4, <1>5 DEF Added
    <2>2. m \in Renamed(c, found)
        BY <1>4, <1>5, <2>1 DEF Added
    <2>3. PICK g \in DOMAIN GoneIn(c) :
            OnlyOne(GoneIn(c), g) /\ GoneIn(c)[g] = NewIn(c)[m] /\ OnlyOne(NewIn(c), m)
        BY <2>2 DEF Renamed
    <2>4. OnlyOne(NewIn(e), m) /\ NewIn(e)[m] = NewIn(c)[m]
        BY <1>4, <2>1, <2>3 DEF OnlyOne
    <2>5. GoneIn(e) = GoneIn(c)
        <3>1. \A n \in GoneNames(c, found) : e[n].paths = c[n].paths
            BY <1>1, <1>2 DEF GoneNames
        <3> QED
            BY <1>4, <3>1
    <2>6. m \in Renamed(e, found)
        BY <2>1, <2>3, <2>4, <2>5 DEF Renamed
    <2> QED
        BY <2>1, <2>6
<1> QED
    BY <1>3, <1>5 DEF Pending

-----------------------------------------------------------------------------
(* The config: the invariant                                                *)

AtWork == {"planned", "staged", "guarded", "copying", "kept"}

\* A command that edits holds a text that keeps what the one it read has.
Planned(w) ==
    writer[w].pc \in AtWork /\ writer[w].kind \in {"update", "pin"} =>
      Careful(writer[w].source, writer[w].edited)

\* A text to write is a config.
Writes(w) == writer[w].pc \in AtWork => writer[w].edited \in Contents

\* SecondUpdateIsQuiet, of a command.
Quiet(w) ==
    writer[w].kind = "update" /\ writer[w].pc = "planned" /\ writer[w].loaded = writer[w].source =>
      Pending(writer[w].edited, workspace.found) \subseteq Covered(writer[w].loaded, workspace.found)

Backup(w, whole) == [of |-> config, by |-> w, whole |-> whole]

\* From its copy on a command has what it is about to replace, unless it is late.
Keeps(w) ==
    /\ writer[w].pc = "copying" /\ ~writer[w].late =>
         config # NoConfig /\ Backup(w, FALSE) \in backups
    /\ writer[w].pc = "kept" /\ ~writer[w].late =>
         (config # NoConfig => Backup(w, TRUE) \in backups)

ConfigInv ==
    /\ Typed
    /\ Known(drafts) /\ \A w \in Writers : Known(writer[w].noted)
    /\ \A w \in Writers : Planned(w) /\ Writes(w) /\ Quiet(w) /\ Keeps(w)
    /\ ReplacedIsKept

LEMMA ConfigStarts == ConfigInit => ConfigInv
<1> SUFFICES ASSUME ConfigInit PROVE ConfigInv
    OBVIOUS
<1>1. \A w \in Writers : writer[w] = Idle
    BY DEF ConfigInit
<1>2. Typed
    <2>1. writer \in [Writers -> Jobs]
        BY IdleIsJob DEF ConfigInit
    <2> QED
        BY <1>1, <2>1, Empty DEF ConfigInit, Typed, Idle
<1>3. Known(drafts) /\ \A w \in Writers : Known(writer[w].noted)
    BY <1>1, Empty DEF ConfigInit, Known, Idle
<1> QED
    BY <1>1, <1>2, <1>3 DEF ConfigInv, ConfigInit, Planned, Writes, Quiet, Keeps, Idle,
       AtWork, ReplacedIsKept

-----------------------------------------------------------------------------
(* The config: the steps                                                    *)

LEMMA JobIs ==
    ASSUME Typed, NEW w \in Writers
    PROVE  writer[w] \in Jobs /\ (writer[w].pc # "idle" => workspace \in Workspaces)
    BY DEF Typed, Idle

\* A step of one command that leaves the config alone, and every whole backup and those
\* of others: what it must show is about the command itself.
LEMMA OneMoves ==
    ASSUME ConfigInv, NEW w \in Writers, workspace \in Workspaces,
           writer' \in [Writers -> Jobs], \A x \in Writers \ {w} : writer'[x] = writer[x],
           UNCHANGED <<workspace, config, reviewed, replaced>>,
           drafts' \in DraftFiles, Known(drafts)', Known(writer[w].noted)',
           backups' \subseteq [of : Contents, by : Writers, whole : BOOLEAN],
           \A b \in backups : b.whole \/ b.by # w => b \in backups',
           Planned(w)', Writes(w)', Quiet(w)', Keeps(w)'
    PROVE  ConfigInv'
<1>1. Typed'
    BY ConfigWorkAssumption DEF ConfigInv, Typed
<1>2. \A x \in Writers : Known(writer[x].noted)'
    BY DEF ConfigInv, Known
<1>3. ASSUME NEW x \in Writers, x # w
      PROVE  Planned(x)' /\ Writes(x)' /\ Quiet(x)' /\ Keeps(x)'
    <2>1. writer'[x] = writer[x] /\ Planned(x) /\ Writes(x) /\ Quiet(x) /\ Keeps(x)
        BY <1>3 DEF ConfigInv
    <2>2. Planned(x)' /\ Writes(x)' /\ Quiet(x)'
        BY <2>1 DEF Planned, Writes, Quiet, Careful
    <2>3. Backup(x, FALSE) \in backups => Backup(x, FALSE) \in backups'
        BY <1>3 DEF Backup
    <2>4. Backup(x, TRUE) \in backups => Backup(x, TRUE) \in backups'
        BY DEF Backup
    <2>5. Backup(x, TRUE)' = Backup(x, TRUE) /\ Backup(x, FALSE)' = Backup(x, FALSE)
        BY DEF Backup
    <2>6. (Backup(x, FALSE) \in backups)' <=> Backup(x, FALSE) \in backups'
        BY <2>5
    <2>7. (Backup(x, TRUE) \in backups)' <=> Backup(x, TRUE) \in backups'
        BY <2>5
    <2>8. Keeps(x)'
        BY <2>1, <2>3, <2>4, <2>6, <2>7 DEF Keeps
    <2> QED
        BY <2>2, <2>8
<1>4. ReplacedIsKept'
    BY DEF ConfigInv, ReplacedIsKept
<1> QED
    BY <1>1, <1>2, <1>3, <1>4 DEF ConfigInv

\* The same, of a step that neither plans nor copies.
LEMMA Idles ==
    ASSUME ConfigInv, NEW w \in Writers, workspace \in Workspaces,
           NEW j \in Jobs, writer' = [writer EXCEPT ![w] = j],
           UNCHANGED <<workspace, config, backups, reviewed, replaced>>,
           drafts' \in DraftFiles, Known(drafts)', Known(j.noted),
           j.pc \notin AtWork
    PROVE  ConfigInv'
<1>1. writer \in [Writers -> Jobs]
    BY DEF ConfigInv, Typed
<1>2. writer' \in [Writers -> Jobs] /\ writer'[w] = j /\ \A x \in Writers \ {w} : writer'[x] = writer[x]
    BY <1>1
<1>3. Known(writer[w].noted)'
    BY <1>2 DEF Known
<1>4. Planned(w)' /\ Writes(w)' /\ Quiet(w)' /\ Keeps(w)'
    BY <1>2 DEF Planned, Writes, Quiet, Keeps, AtWork
<1> QED
    BY <1>2, <1>3, <1>4, OneMoves DEF ConfigInv, Typed

LEMMA EndKeeps ==
    ASSUME ConfigInv, NEW w \in Writers, writer[w].pc # "idle", End(w),
           UNCHANGED <<workspace, config, backups, drafts, reviewed, replaced>>
    PROVE  ConfigInv'
<1> DEFINE j == [Idle EXCEPT !.pc = "done"]
<1>1. j \in Jobs /\ j.pc = "done" /\ j.noted = NoContent
    BY IdleIsJob DEF Idle
<1>2. Known(j.noted)
    BY <1>1, Empty DEF Known
<1>3. drafts' \in DraftFiles /\ Known(drafts)'
    BY DEF ConfigInv, Typed, Known
<1>4. workspace \in Workspaces
    BY JobIs DEF ConfigInv
<1>5. writer' = [writer EXCEPT ![w] = j]
    BY DEF End
<1> HIDE DEF j
<1> QED
    BY <1>1, <1>2, <1>3, <1>4, <1>5, Idles DEF AtWork

LEMMA LoadKeeps ==
    ASSUME ConfigInv, NEW w \in Writers, NEW kind \in Commands, Load(w, kind)
    PROVE  ConfigInv'
<1> DEFINE j == [Idle EXCEPT !.kind = kind, !.pc = "loaded",
                   !.loaded = IF Proposes(kind) THEN NoContent ELSE config,
                   !.noted = IF kind = "pin" THEN drafts ELSE NoContent]
<1>1. workspace \in Workspaces /\ drafts \in DraftFiles /\ (config \in Contents \/ Proposes(kind))
    BY DEF Load, ConfigInv, Typed
<1>2. j \in Jobs /\ j.pc = "loaded" /\ (j.noted = drafts \/ j.noted = NoContent)
    BY <1>1, Empty DEF Idle, Jobs, Texts, Stages
<1>3. Known(j.noted)
    BY <1>2, Empty DEF ConfigInv, Known
<1>4. Known(drafts)'
    BY DEF Load, ConfigInv, Known
<1>5. writer' = [writer EXCEPT ![w] = j]
    BY DEF Load
<1> HIDE DEF j
<1> QED
    BY <1>1, <1>2, <1>3, <1>4, <1>5, Idles DEF AtWork, Load

LEMMA JudgeKeeps ==
    ASSUME ConfigInv, NEW w \in Writers, Judge(w)
    PROVE  ConfigInv'
<1>1. writer[w] \in Jobs /\ workspace \in Workspaces
    BY JobIs DEF ConfigInv, Judge, At
<1>2. PICK S \in SUBSET {m \in DOMAIN writer[w].loaded : writer[w].loaded[m].value = Unset} :
        \E v \in Values :
          writer' = [writer EXCEPT ![w].pc = "judged",
                       ![w].noted = [m \in S |-> [value |-> v, approved |-> FALSE]]]
    BY DEF Judge
<1>3. PICK v \in Values :
        writer' = [writer EXCEPT ![w].pc = "judged",
                     ![w].noted = [m \in S |-> [value |-> v, approved |-> FALSE]]]
    BY <1>2
<1> DEFINE d == [m \in S |-> [value |-> v, approved |-> FALSE]]
           j == [writer[w] EXCEPT !.pc = "judged", !.noted = d]
<1>4. DOMAIN writer[w].loaded \subseteq Mods
    <2>1. writer[w].loaded \in Contents
        BY <1>1 DEF Jobs
    <2> QED
        BY <2>1, ContentIs
<1>5. d \in DraftFiles
    <2>1. d \in [S -> Draftings] /\ S \in SUBSET Mods
        BY <1>4 DEF Draftings
    <2> QED
        BY <2>1 DEF DraftFiles
<1>6. Known(d)
    BY DEF Known
<1> HIDE DEF d
<1>7. j \in Jobs /\ j.pc = "judged" /\ j.noted = d
    BY <1>1, <1>5 DEF Jobs, Stages
<1>8. writer' = [writer EXCEPT ![w] = j]
    BY <1>3 DEF d
<1>9. drafts' \in DraftFiles /\ Known(drafts)'
    BY DEF Judge, ConfigInv, Typed, Known
<1> HIDE DEF j
<1> QED
    BY <1>1, <1>6, <1>7, <1>8, <1>9, Idles DEF AtWork, Judge

LEMMA SaveDraftsKeeps ==
    ASSUME ConfigInv, NEW w \in Writers, SaveDrafts(w)
    PROVE  ConfigInv'
<1> DEFINE j == [writer[w] EXCEPT !.pc = "done"]
<1>1. writer[w] \in Jobs /\ workspace \in Workspaces
    BY JobIs DEF ConfigInv, SaveDrafts, At
<1>2. drafts' = MergeDrafts(drafts, writer[w].noted) /\ UNCHANGED reviewed
    BY DEF SaveDrafts
<1>3. writer[w].noted \in DraftFiles /\ drafts \in DraftFiles /\ Known(drafts) /\ Known(writer[w].noted)
    BY <1>1 DEF ConfigInv, Typed, Jobs
<1>4. drafts' \in DraftFiles /\ Known(drafts')
    BY <1>2, <1>3, MergeIsDrafts
<1>5. Known(drafts)'
    BY <1>2, <1>4 DEF Known
<1>6. j \in Jobs /\ j.pc = "done" /\ j.noted = writer[w].noted
    BY <1>1 DEF Jobs, Stages
<1>7. writer' = [writer EXCEPT ![w] = j]
    BY DEF SaveDrafts, Step
<1> HIDE DEF j
<1> QED
    BY <1>1, <1>3, <1>4, <1>5, <1>6, <1>7, Idles DEF AtWork, SaveDrafts

LEMMA ReadKeeps ==
    ASSUME ConfigInv, NEW w \in Writers, Read(w)
    PROVE  ConfigInv'
<1> DEFINE text == config
           plan == writer[w].loaded
           notes == writer[w].noted
           kind == writer[w].kind
           found == workspace.found
           stops == CASE kind = "update" -> UpdateFails(text, plan, found) \/ Pending(plan, found) = {}
                      [] kind = "pin" -> PinFails(text, plan, notes) \/ Actionable(notes, plan) = {}
                      [] OTHER -> kind = "init" /\ config # NoConfig
           edited == CASE kind = "update" -> UpdateText(text, plan, found)
                       [] kind = "pin" -> PinText(text, plan, notes)
                       [] OTHER -> InitText(found)
           j == [writer[w] EXCEPT !.pc = "planned", !.edited = edited, !.source = text]
<1>1. /\ writer[w] \in Jobs /\ workspace \in Workspaces
      /\ writer[w].pc = "loaded"
      /\ UNCHANGED <<workspace, config, backups, temps, drafts, edits, reviewed, replaced>>
      /\ config \in Contents \/ Proposes(kind)
    BY JobIs DEF ConfigInv, Typed, Read, At
<1>2. CASE stops
    <2>1. End(w)
        BY <1>2 DEF Read
    <2> QED
        BY <1>1, <2>1, EndKeeps
<1>3. CASE ~stops
    <2>1. writer' = [writer EXCEPT ![w] = j]
        BY <1>3 DEF Read
    <2>2. DOMAIN found \subseteq Mods /\ \A m \in DOMAIN found : found[m] \in Found
        BY <1>1, FoundIs
    <2>3. notes \in DraftFiles /\ Known(notes) /\ plan \in Contents /\ text \in Texts
        BY <1>1 DEF ConfigInv, Typed, Jobs, Texts
    <2>4. /\ edited \in Contents
          /\ kind \in {"update", "pin"} => Careful(text, edited)
          /\ kind = "update" => text \in Contents /\ edited = UpdateText(text, plan, found)
        <3>1. CASE kind = "update"
            <4>1. PathDrift(plan, found) \subseteq DOMAIN text /\ text \in Contents
                BY <1>1, <1>3, <3>1 DEF UpdateFails, Proposes
            <4> QED
                BY <2>2, <3>1, <4>1, UpdateIsCareful
        <3>2. CASE kind = "pin"
            <4>1. text \in Contents
                BY <1>1, <3>2 DEF Proposes
            <4> QED
                BY <2>3, <3>2, <4>1, PinIsCareful
        <3>3. CASE kind \notin {"update", "pin"}
            BY <2>2, <3>3, InitIsContent
        <3> QED
            BY <3>1, <3>2, <3>3
    <2> HIDE DEF edited, stops
    <2>5. /\ j \in Jobs /\ j.pc = "planned" /\ j.edited = edited /\ j.source = text
          /\ j.noted = notes /\ j.kind = kind /\ j.loaded = plan
        BY <1>1, <2>3, <2>4 DEF Jobs, Stages, Texts
    <2> HIDE DEF j
    <2>6. writer \in [Writers -> Jobs]
        BY DEF ConfigInv, Typed
    <2>7. writer' \in [Writers -> Jobs] /\ writer'[w] = j /\ \A x \in Writers \ {w} : writer'[x] = writer[x]
        BY <2>1, <2>5, <2>6
    <2>8. Planned(w)' /\ Writes(w)' /\ Keeps(w)'
        BY <1>1, <2>4, <2>5, <2>7 DEF Planned, Writes, Keeps, Careful
    <2>9. Quiet(w)'
        <3>1. SUFFICES ASSUME kind = "update", plan = text
                       PROVE  Pending(edited, found) \subseteq Covered(plan, found)
            BY <1>1, <2>5, <2>7 DEF Quiet
        <3>2. edited = UpdateText(plan, plan, found)
            BY <2>4, <3>1
        <3> QED
            BY <2>2, <2>3, <3>2, SecondIsQuiet
    <2>10. Known(writer[w].noted)' /\ Known(drafts)' /\ drafts' \in DraftFiles
        BY <1>1, <2>3, <2>5, <2>7 DEF Known, ConfigInv, Typed
    <2> QED
        BY <1>1, <2>7, <2>8, <2>9, <2>10, OneMoves DEF ConfigInv, Typed
<1> QED
    BY <1>2, <1>3

\* A command goes on as it is.
LEMMA GoesOn ==
    ASSUME ConfigInv, NEW w \in Writers, NEW pc \in AtWork \ {"planned"}, Step(w, pc),
           writer[w].pc \in AtWork,
           UNCHANGED <<workspace, config, drafts, reviewed, replaced>>,
           backups' \subseteq [of : Contents, by : Writers, whole : BOOLEAN],
           \A b \in backups : b.whole \/ b.by # w => b \in backups',
           Keeps(w)'
    PROVE  ConfigInv'
<1> DEFINE j == [writer[w] EXCEPT !.pc = pc]
<1>1. writer[w] \in Jobs /\ workspace \in Workspaces /\ writer \in [Writers -> Jobs]
    BY JobIs DEF ConfigInv, Typed, AtWork
<1>2. /\ j \in Jobs /\ j.pc = pc /\ j.edited = writer[w].edited /\ j.source = writer[w].source
      /\ j.noted = writer[w].noted /\ j.kind = writer[w].kind
    BY <1>1 DEF Jobs, Stages, AtWork
<1>3. writer' = [writer EXCEPT ![w] = j]
    BY DEF Step
<1> HIDE DEF j
<1>4. writer' \in [Writers -> Jobs] /\ writer'[w] = j /\ \A x \in Writers \ {w} : writer'[x] = writer[x]
    BY <1>1, <1>2, <1>3
<1>5. Known(writer[w].noted)' /\ Known(drafts)' /\ drafts' \in DraftFiles
    BY <1>2, <1>4 DEF Known, ConfigInv, Typed
<1>6. Planned(w)' /\ Writes(w)'
    BY <1>2, <1>4 DEF Planned, Writes, Careful, ConfigInv
<1>7. Quiet(w)'
    BY <1>2, <1>4 DEF Quiet
<1> QED
    BY <1>1, <1>4, <1>5, <1>6, <1>7, OneMoves

LEMMA BackUpKeeps ==
    ASSUME ConfigInv, NEW w \in Writers, BackUp(w)
    PROVE  ConfigInv'
<1>1. /\ writer[w].pc = "guarded" /\ UNCHANGED <<workspace, config, drafts, reviewed, replaced>>
      /\ config \in Contents \cup {NoConfig}
      /\ backups \subseteq [of : Contents, by : Writers, whole : BOOLEAN]
      /\ writer \in [Writers -> Jobs]
    BY DEF BackUp, At, ConfigInv, Typed
<1>2. CASE config = NoConfig
    <2>1. Step(w, "kept") /\ UNCHANGED backups
        BY <1>2 DEF BackUp
    <2>2. writer'[w].pc = "kept"
        BY <1>1, <2>1 DEF Step, Jobs
    <2>3. Keeps(w)'
        BY <1>1, <1>2, <2>2 DEF Keeps
    <2> QED
        BY <1>1, <2>1, <2>3, GoesOn DEF AtWork
<1>3. CASE config # NoConfig
    <2>1. Step(w, "copying") /\ backups' = backups \cup {Backup(w, FALSE)}
        BY <1>3 DEF BackUp, Backup
    <2>2. writer'[w].pc = "copying"
        BY <1>1, <2>1 DEF Step, Jobs
    <2>3. Backup(w, FALSE)' = Backup(w, FALSE)
        BY <1>1 DEF Backup
    <2>4. Keeps(w)'
        BY <1>1, <1>3, <2>1, <2>2, <2>3 DEF Keeps
    <2>5. Backup(w, FALSE) \in [of : Contents, by : Writers, whole : BOOLEAN]
        BY <1>1, <1>3 DEF Backup
    <2> QED
        BY <1>1, <2>1, <2>4, <2>5, GoesOn DEF AtWork
<1> QED
    BY <1>2, <1>3

LEMMA CopyEndsKeeps ==
    ASSUME ConfigInv, NEW w \in Writers, CopyEnds(w)
    PROVE  ConfigInv'
<1> DEFINE whole(b) == IF b.by = w /\ ~b.whole THEN [b EXCEPT !.whole = TRUE] ELSE b
<1>1. /\ writer[w].pc = "copying" /\ UNCHANGED <<workspace, config, drafts, reviewed, replaced>>
      /\ backups \subseteq [of : Contents, by : Writers, whole : BOOLEAN]
      /\ writer \in [Writers -> Jobs] /\ Step(w, "kept")
    BY DEF CopyEnds, At, ConfigInv, Typed
<1>2. backups' = {whole(b) : b \in backups}
    BY DEF CopyEnds
<1>3. \A b \in backups : whole(b) \in [of : Contents, by : Writers, whole : BOOLEAN]
    BY <1>1
<1>4. \A b \in backups : b.whole \/ b.by # w => whole(b) = b
    OBVIOUS
<1>5. writer'[w] = [writer[w] EXCEPT !.pc = "kept"]
    BY <1>1 DEF Step
<1>6. writer'[w].pc = "kept" /\ writer'[w].late = writer[w].late
    BY <1>1, <1>5 DEF Jobs
<1>7. Backup(w, FALSE) \in backups => Backup(w, TRUE) \in backups'
    <2>1. Backup(w, FALSE) \in backups => whole(Backup(w, FALSE)) \in backups'
        BY <1>2
    <2>2. whole(Backup(w, FALSE)) = Backup(w, TRUE)
        BY DEF Backup
    <2> QED
        BY <2>1, <2>2
<1>8. Backup(w, TRUE)' = Backup(w, TRUE)
    BY <1>1 DEF Backup
<1>9. Keeps(w)'
    BY <1>1, <1>6, <1>7, <1>8 DEF Keeps, ConfigInv
<1>10. backups' \subseteq [of : Contents, by : Writers, whole : BOOLEAN]
    BY <1>2, <1>3
<1>11. \A b \in backups : b.whole \/ b.by # w => b \in backups'
    BY <1>2, <1>4
<1> HIDE DEF whole
<1> QED
    BY <1>1, <1>9, <1>10, <1>11, GoesOn DEF AtWork

LEMMA StageKeeps ==
    ASSUME ConfigInv, NEW w \in Writers, Stage(w)
    PROVE  ConfigInv'
<1>1. /\ writer[w].pc = "planned" /\ Step(w, "staged") /\ writer[w] \in Jobs
      /\ UNCHANGED <<workspace, config, backups, drafts, reviewed, replaced>>
      /\ backups \subseteq [of : Contents, by : Writers, whole : BOOLEAN]
      /\ writer \in [Writers -> Jobs]
    BY DEF Stage, At, ConfigInv, Typed
<1>2. writer'[w].pc = "staged"
    BY <1>1 DEF Step, Jobs
<1>3. Keeps(w)'
    BY <1>2 DEF Keeps
<1> QED
    BY <1>1, <1>3, GoesOn DEF AtWork

LEMMA GuardKeeps ==
    ASSUME ConfigInv, NEW w \in Writers, Guard(w)
    PROVE  ConfigInv'
<1>1. /\ writer[w].pc = "staged" /\ writer[w] \in Jobs
      /\ UNCHANGED <<workspace, config, backups, drafts, reviewed, replaced>>
      /\ backups \subseteq [of : Contents, by : Writers, whole : BOOLEAN]
      /\ writer \in [Writers -> Jobs]
    BY DEF Guard, At, ConfigInv, Typed
<1>2. CASE Step(w, "guarded")
    <2>1. writer'[w].pc = "guarded"
        BY <1>1, <1>2 DEF Step, Jobs
    <2>2. Keeps(w)'
        BY <2>1 DEF Keeps
    <2> QED
        BY <1>1, <1>2, <2>2, GoesOn DEF AtWork
<1>3. CASE End(w)
    BY <1>1, <1>3, EndKeeps
<1> QED
    BY <1>2, <1>3 DEF Guard

\* The config is written: by a command that is through with it, or by hand.  Those past
\* their copy are late.
LEMMA WrittenKeeps ==
    ASSUME ConfigInv, workspace \in Workspaces, writer' \in [Writers -> Jobs],
           \A x \in Writers :
             \/ writer'[x] = [writer[x] EXCEPT !.late = TRUE]
             \/ writer'[x] = writer[x] /\ writer[x].pc \notin {"copying", "kept"}
             \/ writer'[x].pc = "done" /\ writer'[x].noted = writer[x].noted,
           UNCHANGED <<workspace, backups, drafts>>,
           config' \in Contents, reviewed \subseteq reviewed', ReplacedIsKept'
    PROVE  ConfigInv'
<1>1. Typed'
    BY ConfigWorkAssumption DEF ConfigInv, Typed
<1>2. Known(drafts)'
    BY DEF ConfigInv, Known
<1>3. ASSUME NEW x \in Writers
      PROVE  Known(writer[x].noted)' /\ Planned(x)' /\ Writes(x)' /\ Quiet(x)' /\ Keeps(x)'
    <2>1. Known(writer[x].noted) /\ Planned(x) /\ Writes(x) /\ Quiet(x) /\ Keeps(x) /\ writer[x] \in Jobs
        BY DEF ConfigInv, Typed
    <2>2. CASE writer'[x] = [writer[x] EXCEPT !.late = TRUE]
        <3>1. /\ writer'[x].pc = writer[x].pc /\ writer'[x].kind = writer[x].kind
              /\ writer'[x].source = writer[x].source /\ writer'[x].edited = writer[x].edited
              /\ writer'[x].loaded = writer[x].loaded /\ writer'[x].noted = writer[x].noted
              /\ writer'[x].late
            BY <2>1, <2>2 DEF Jobs
        <3> QED
            BY <2>1, <3>1 DEF Known, Planned, Writes, Quiet, Keeps, Careful
    <2>3. CASE writer'[x] = writer[x] /\ writer[x].pc \notin {"copying", "kept"}
        BY <2>1, <2>3 DEF Known, Planned, Writes, Quiet, Keeps, Careful
    <2>4. CASE writer'[x].pc = "done" /\ writer'[x].noted = writer[x].noted
        BY <2>1, <2>4 DEF Known, Planned, Writes, Quiet, Keeps, AtWork
    <2> QED
        BY <2>2, <2>3, <2>4
<1> QED
    BY <1>1, <1>2, <1>3 DEF ConfigInv

LEMMA RenameKeeps ==
    ASSUME ConfigInv, NEW w \in Writers, Rename(w)
    PROVE  ConfigInv'
<1>1. /\ writer[w].pc = "kept" /\ config' = writer[w].edited /\ writer \in [Writers -> Jobs]
      /\ workspace \in Workspaces /\ UNCHANGED <<workspace, backups, drafts, edits, reviewed>>
      /\ writer' = [Written(w) EXCEPT ![w].pc = "done"]
    BY JobIs DEF Rename, At, ConfigInv, Typed
<1>2. \A x \in Writers : [writer[x] EXCEPT !.late = TRUE] \in Jobs /\ [writer[x] EXCEPT !.pc = "done"] \in Jobs
    BY <1>1 DEF Jobs, Stages
<1>3. Written(w) \in [Writers -> Jobs] /\ Written(w)[w] = writer[w]
    BY <1>1, <1>2 DEF Written
<1>4. writer' \in [Writers -> Jobs]
    BY <1>1, <1>2, <1>3
<1>5. ASSUME NEW x \in Writers
      PROVE  \/ writer'[x] = [writer[x] EXCEPT !.late = TRUE]
             \/ writer'[x] = writer[x] /\ writer[x].pc \notin {"copying", "kept"}
             \/ writer'[x].pc = "done" /\ writer'[x].noted = writer[x].noted
    <2>1. CASE x = w
        <3>1. writer'[x] = [writer[w] EXCEPT !.pc = "done"]
            BY <1>1, <1>3, <2>1
        <3> QED
            BY <1>1, <2>1, <3>1 DEF Jobs
    <2>2. CASE x # w
        BY <1>1, <1>3, <2>2 DEF Written
    <2> QED
        BY <2>1, <2>2
<1>6. config' \in Contents
    BY <1>1 DEF ConfigInv, Writes, AtWork
<1>7. ReplacedIsKept'
    <2>1. CASE replaced' = replaced
        BY <1>1, <2>1 DEF ConfigInv, ReplacedIsKept
    <2>2. CASE config # NoConfig /\ ~writer[w].late /\ replaced' = replaced \cup {config}
        <3>1. Backup(w, TRUE) \in backups
            BY <1>1, <2>2 DEF ConfigInv, Keeps
        <3>2. Backup(w, TRUE).of = config /\ Backup(w, TRUE).whole
            BY DEF Backup
        <3> QED
            BY <1>1, <2>2, <3>1, <3>2 DEF ConfigInv, ReplacedIsKept
    <2> QED
        BY <2>1, <2>2 DEF Rename
<1> QED
    BY <1>1, <1>4, <1>5, <1>6, <1>7, WrittenKeeps

LEMMA ByHandKeeps ==
    ASSUME ConfigInv, NEW new \in Contents, ByHand(new)
    PROVE  ConfigInv'
<1>1. /\ workspace \in Workspaces /\ config' = new /\ writer \in [Writers -> Jobs]
      /\ reviewed \subseteq reviewed' /\ UNCHANGED <<workspace, backups, drafts, replaced>>
      /\ writer' = [w \in Writers |-> IF writer[w].pc \in {"copying", "kept"}
                                      THEN [writer[w] EXCEPT !.late = TRUE] ELSE writer[w]]
    BY DEF ByHand, ConfigInv, Typed
<1>2. \A x \in Writers : [writer[x] EXCEPT !.late = TRUE] \in Jobs
    BY <1>1 DEF Jobs
<1>3. writer' \in [Writers -> Jobs]
    BY <1>1, <1>2
<1>4. \A x \in Writers :
        \/ writer'[x] = [writer[x] EXCEPT !.late = TRUE]
        \/ writer'[x] = writer[x] /\ writer[x].pc \notin {"copying", "kept"}
    BY <1>1
<1>5. ReplacedIsKept'
    BY <1>1 DEF ConfigInv, ReplacedIsKept
<1> QED
    BY <1>1, <1>3, <1>4, <1>5, WrittenKeeps

LEMMA OldTextIs == Typed => OldText \in Contents
    BY Empty DEF Typed, OldText

LEMMA EditKeeps ==
    ASSUME ConfigInv, NEW m \in Mods, NEW stanza \in Stanza, Edit(m, stanza)
    PROVE  ConfigInv'
<1>1. OldText \in Contents
    BY OldTextIs DEF ConfigInv
<1> DEFINE new == [n \in DOMAIN OldText \cup {m} |-> IF n = m THEN stanza ELSE OldText[n]]
<1>2. DOMAIN OldText \cup {m} \in SUBSET Mods /\ new \in [DOMAIN OldText \cup {m} -> Stanza]
    BY <1>1, ContentIs
<1>3. new \in Contents
    BY <1>2, IsContent
<1> QED
    BY <1>3, ByHandKeeps DEF Edit

LEMMA RemoveKeeps ==
    ASSUME ConfigInv, NEW m \in Mods, RemoveStanza(m)
    PROVE  ConfigInv'
<1>1. OldText \in Contents
    BY OldTextIs DEF ConfigInv
<1> DEFINE new == [n \in DOMAIN OldText \ {m} |-> OldText[n]]
<1>2. DOMAIN OldText \ {m} \in SUBSET Mods /\ new \in [DOMAIN OldText \ {m} -> Stanza]
    BY <1>1, ContentIs
<1>3. new \in Contents
    BY <1>2, IsContent
<1> QED
    BY <1>3, ByHandKeeps DEF RemoveStanza

LEMMA ApproveKeeps ==
    ASSUME ConfigInv, NEW m \in Mods, Approve(m)
    PROVE  ConfigInv'
<1>1. /\ m \in DOMAIN drafts /\ drafts' = [drafts EXCEPT ![m].approved = TRUE]
      /\ reviewed' = reviewed \cup {<<m, drafts[m].value>>}
      /\ UNCHANGED <<workspace, config, backups, temps, writer, edits, replaced>>
      /\ Known(drafts) /\ drafts \in DraftFiles /\ Typed
    BY DEF Approve, ConfigInv, Typed
<1>2. DOMAIN drafts \in SUBSET Mods /\ drafts \in [DOMAIN drafts -> Draftings]
    <2>1. drafts # NoContent
        BY <1>1, Empty
    <2>2. PICK S \in SUBSET Mods : drafts \in [S -> Draftings]
        BY <1>1, <2>1 DEF DraftFiles
    <2> QED
        BY <2>2
<1>3. /\ drafts' \in [DOMAIN drafts -> Draftings]
      /\ drafts'[m].value = drafts[m].value /\ \A n \in DOMAIN drafts \ {m} : drafts'[n] = drafts[n]
    BY <1>1, <1>2 DEF Draftings
<1>4. drafts' \in DraftFiles
    BY <1>2, <1>3 DEF DraftFiles
<1>5. Known(drafts)'
    BY <1>1, <1>2, <1>3 DEF Known
<1>6. Typed'
    BY <1>1, <1>4, Empty DEF Typed
<1>7. \A w \in Writers : Known(writer[w].noted)'
    BY <1>1 DEF ConfigInv, Known
<1>8. \A w \in Writers : Planned(w)' /\ Writes(w)' /\ Quiet(w)' /\ Keeps(w)'
    BY <1>1 DEF ConfigInv, Planned, Careful, Writes, Quiet, Keeps, Backup
<1>9. ReplacedIsKept'
    BY <1>1 DEF ConfigInv, ReplacedIsKept
<1> QED
    BY <1>5, <1>6, <1>7, <1>8, <1>9 DEF ConfigInv

LEMMA SetUpKeeps ==
    ASSUME ConfigInv, NEW w \in Workspaces, SetUp(w)
    PROVE  ConfigInv'
<1>1. /\ workspace' = w /\ config' = w.config /\ UNCHANGED <<backups, temps, drafts, writer, edits, replaced>>
      /\ drafts = NoContent /\ (\A x \in Writers : writer[x] = Idle) /\ Typed
    BY DEF SetUp, ConfigInv, Typed
<1>2. Typed'
    BY <1>1, FoundIs, ConfigWorkAssumption DEF Typed
<1>3. Known(drafts)' /\ \A x \in Writers : Known(writer[x].noted)'
    BY <1>1, Empty DEF Known, Idle
<1>4. \A x \in Writers : Planned(x)' /\ Writes(x)' /\ Quiet(x)' /\ Keeps(x)'
    <2>1. \A x \in Writers : writer'[x].pc = "idle"
        BY <1>1 DEF Idle
    <2> QED
        BY <2>1 DEF Planned, Writes, Quiet, Keeps, AtWork
<1>5. ReplacedIsKept'
    BY <1>1 DEF ConfigInv, ReplacedIsKept
<1> QED
    BY <1>2, <1>3, <1>4, <1>5 DEF ConfigInv

LEMMA ConfigSteps == ConfigInv /\ [ConfigNext]_configVars => ConfigInv'
<1> SUFFICES ASSUME ConfigInv, [ConfigNext]_configVars PROVE ConfigInv'
    OBVIOUS
<1>1. ASSUME NEW w \in Workspaces, SetUp(w) PROVE ConfigInv'
    BY <1>1, SetUpKeeps
<1>2. ASSUME NEW w \in Writers, NEW kind \in Commands, Load(w, kind) PROVE ConfigInv'
    BY <1>2, LoadKeeps
<1>3. ASSUME NEW w \in Writers, Abort(w) \/ Crash(w) PROVE ConfigInv'
    <2>1. writer[w].pc # "idle" /\ End(w) /\ UNCHANGED <<workspace, config, backups, drafts, reviewed, replaced>>
        BY <1>3 DEF Abort, Crash
    <2> QED
        BY <2>1, EndKeeps
<1>4. ASSUME NEW w \in Writers,
             \/ Read(w) \/ Judge(w) \/ SaveDrafts(w)
             \/ Stage(w) \/ Guard(w) \/ BackUp(w) \/ CopyEnds(w) \/ Rename(w)
      PROVE  ConfigInv'
    BY <1>4, ReadKeeps, JudgeKeeps, SaveDraftsKeeps, StageKeeps, GuardKeeps, BackUpKeeps, CopyEndsKeeps,
       RenameKeeps
<1>5. ASSUME NEW m \in Mods, Approve(m) \/ RemoveStanza(m) \/ \E s \in Stanza : Edit(m, s) PROVE ConfigInv'
    BY <1>5, ApproveKeeps, RemoveKeeps, EditKeeps
<1>6. CASE UNCHANGED configVars
    <2>1. \A x \in Writers : Planned(x)' /\ Writes(x)' /\ Quiet(x)' /\ Keeps(x)' /\ Known(writer[x].noted)'
        BY <1>6 DEF configVars, ConfigInv, Planned, Careful, Writes, Quiet, Keeps, Backup, Known
    <2> QED
        BY <1>6, <2>1 DEF configVars, ConfigInv, Typed, Known, ReplacedIsKept
<1> QED
    BY <1>1, <1>2, <1>3, <1>4, <1>5, <1>6 DEF ConfigNext

\* What a command replaced is in a whole backup, and an update leaves nothing to edit
\* (safeWriteConfig, DiffModules).
THEOREM UpdatesAreSafe == ConfigSpec => []UpdateIsSafe
<1>1. ConfigInv => UpdateIsSafe
    BY DEF ConfigInv, UpdateIsSafe, SecondUpdateIsQuiet, Quiet
<1> QED
    BY <1>1, ConfigStarts, ConfigSteps, PTL DEF ConfigSpec

\* A command's write keeps what the file had, and adds no value that nobody reviewed
\* (resolveSetModuleFields, actionableConfigEnrichPins).
THEOREM ReviewedValues == ConfigSpec => ValuesAreReviewed
<1> DEFINE Reviews ==
      \A w \in Writers : writer[w].kind \in {"update", "pin"} /\ Rename(w) =>
         /\ DOMAIN writer[w].source \subseteq DOMAIN config'
         /\ \A m \in DOMAIN config' :
              IF m \in DOMAIN writer[w].source /\ writer[w].source[m].value # Unset
              THEN config'[m].value = writer[w].source[m].value
              ELSE config'[m].value = Unset \/ <<m, config'[m].value>> \in reviewed
<1>1. ConfigInv /\ [ConfigNext]_configVars => [Reviews]_configVars
    <2> SUFFICES ASSUME ConfigInv, NEW w \in Writers, writer[w].kind \in {"update", "pin"}, Rename(w)
                 PROVE  Careful(writer[w].source, config')
        BY DEF Careful
    <2>1. writer[w].pc = "kept" /\ config' = writer[w].edited
        BY DEF Rename, At
    <2> QED
        BY <2>1 DEF ConfigInv, Planned, AtWork
<1> QED
    BY <1>1, ConfigStarts, ConfigSteps, PTL DEF ConfigSpec, ValuesAreReviewed

-----------------------------------------------------------------------------
(* The labels file: what the variables are                                  *)

LabelRecords == [strength : Grades, hash : SUBSET SUBSET PairEdges, approved : BOOLEAN,
                 llm : BOOLEAN, judged : SUBSET PairEdges]
LabelFiles == UNION {[S -> LabelRecords] : S \in SUBSET LabelPairs}
ReplyFiles == UNION {[S -> Grades] : S \in SUBSET LabelPairs}
Phases == {"new", "captured", "asking", "saving", "done"}
Sessions == [pc : Phases, kind : {"labels", "abstained"}, seen : SUBSET PairEdges, read : LabelFiles,
             asked : SUBSET LabelPairs, retry : BOOLEAN, reply : ReplyFiles]

\* A model's label was stamped with the edges it was judged on, and a person's has no stamp.
Stamped(label) == IF label.llm THEN label.hash = {label.judged} ELSE label.hash = {}

\* What is approved in a file, a person approved.
Vouched(file) ==
    /\ file \in LabelFiles
    /\ \A p \in DOMAIN file : Stamped(file[p]) /\ (file[p].approved => <<p, file[p]>> \in reviews)

LabelsInv ==
    /\ codeEdges \subseteq PairEdges
    /\ Vouched(labels)
    /\ enricher \in [Enrichers -> Sessions]
    /\ \A c \in Enrichers : Vouched(enricher[c].read)
    /\ \A q \in DOMAIN replies : replies[q] \in ReplyFiles \cup {Garbled}

LEMMA NoLabelsIs ==
    NoLabels \in LabelFiles /\ NoLabels \in ReplyFiles /\ DOMAIN NoLabels = {} /\ Vouched(NoLabels)
<1>1. DOMAIN NoLabels = {} /\ NoLabels \in [{} -> LabelRecords] /\ NoLabels \in [{} -> Grades]
    BY DEF NoLabels
<1> QED
    BY <1>1 DEF LabelFiles, ReplyFiles, Vouched

LEMMA LabelFileIs ==
    ASSUME NEW file \in LabelFiles
    PROVE  DOMAIN file \subseteq LabelPairs /\ \A p \in DOMAIN file : file[p] \in LabelRecords
    BY DEF LabelFiles

LEMMA IsLabelFile ==
    ASSUME NEW S \in SUBSET LabelPairs, NEW file \in [S -> LabelRecords]
    PROVE  file \in LabelFiles
    BY DEF LabelFiles

LEMMA ReplyFileIs ==
    ASSUME NEW file \in ReplyFiles
    PROVE  DOMAIN file \subseteq LabelPairs /\ \A p \in DOMAIN file : file[p] \in Grades
    BY DEF ReplyFiles

LEMMA NewSession == NotStarted \in Sessions /\ [NotStarted EXCEPT !.pc = "done"] \in Sessions
    BY NoLabelsIs DEF NotStarted, Sessions, Phases

-----------------------------------------------------------------------------
(* The labels file: the steps                                               *)

LEMMA LabelsStart == LabelsInit => LabelsInv
<1> SUFFICES ASSUME LabelsInit PROVE LabelsInv
    OBVIOUS
<1>1. \A c \in Enrichers : enricher[c] = NotStarted
    BY DEF LabelsInit
<1>2. enricher \in [Enrichers -> Sessions]
    BY NewSession DEF LabelsInit
<1>3. NotStarted.read = NoLabels
    BY DEF NotStarted
<1> QED
    BY <1>1, <1>2, <1>3, NoLabelsIs DEF LabelsInit, LabelsInv

\* A step of a session that leaves the file alone.
LEMMA SessionMoves ==
    ASSUME LabelsInv, NEW c \in Enrichers, NEW j \in Sessions, enricher' = [enricher EXCEPT ![c] = j],
           j.read \in {enricher[c].read, labels, NoLabels},
           UNCHANGED <<codeEdges, labels, reviews>>,
           \A q \in DOMAIN replies' : replies'[q] \in ReplyFiles \cup {Garbled}
    PROVE  LabelsInv'
<1>1. enricher' \in [Enrichers -> Sessions] /\ enricher'[c] = j
      /\ \A x \in Enrichers \ {c} : enricher'[x] = enricher[x]
    BY DEF LabelsInv
<1>2. \A x \in Enrichers : Vouched(enricher'[x].read)
    BY <1>1, NoLabelsIs DEF LabelsInv
<1>3. \A x \in Enrichers : Vouched(enricher[x].read)'
    BY <1>2 DEF Vouched
<1> QED
    BY <1>1, <1>3 DEF LabelsInv, Vouched

LEMMA QuitKeeps ==
    ASSUME LabelsInv, NEW c \in Enrichers, Quit(c),
           UNCHANGED <<codeEdges, labels, reviews>>,
           \A q \in DOMAIN replies' : replies'[q] \in ReplyFiles \cup {Garbled}
    PROVE  LabelsInv'
<1> DEFINE j == [NotStarted EXCEPT !.pc = "done"]
<1>1. j \in Sessions /\ j.read = NoLabels /\ enricher' = [enricher EXCEPT ![c] = j]
    BY NewSession DEF NotStarted, Quit
<1> HIDE DEF j
<1> QED
    BY <1>1, SessionMoves

LEMMA CaptureKeeps ==
    ASSUME LabelsInv, NEW c \in Enrichers, NEW kind \in {"labels", "abstained"}, Capture(c, kind)
    PROVE  LabelsInv'
<1> DEFINE j == [enricher[c] EXCEPT !.pc = "captured", !.kind = kind, !.seen = codeEdges]
<1>1. enricher[c] \in Sessions /\ codeEdges \subseteq PairEdges
    BY DEF LabelsInv
<1>2. j \in Sessions /\ j.read = enricher[c].read
    BY <1>1 DEF Sessions, Phases
<1>3. enricher' = [enricher EXCEPT ![c] = j]
    BY DEF Capture
<1> HIDE DEF j
<1> QED
    BY <1>2, <1>3, SessionMoves DEF Capture, LabelsInv

LEMMA SelectKeeps ==
    ASSUME LabelsInv, NEW c \in Enrichers, Select(c)
    PROVE  LabelsInv'
<1> DEFINE pairs == IF enricher[c].kind = "labels" THEN Refinable(enricher[c].seen, labels)
                    ELSE Abstained(enricher[c].seen, labels)
           j == [enricher[c] EXCEPT !.pc = "asking", !.read = labels, !.asked = pairs]
<1>1. enricher[c] \in Sessions /\ enricher[c].seen \subseteq PairEdges /\ labels \in LabelFiles
    BY DEF LabelsInv, Sessions, Vouched
<1>2. pairs \subseteq LabelPairs
    BY <1>1, LabelsAssumption DEF Refinable, Abstained, Reviewable
<1>3. CASE pairs = {}
    BY <1>3, QuitKeeps DEF Select, LabelsInv
<1>4. CASE pairs # {}
    <2>1. enricher' = [enricher EXCEPT ![c] = j]
        BY <1>4 DEF Select
    <2> HIDE DEF pairs
    <2>2. j \in Sessions /\ j.read = labels
        BY <1>1, <1>2 DEF Sessions, Phases
    <2> HIDE DEF j
    <2> QED
        BY <2>1, <2>2, SessionMoves DEF Select, LabelsInv
<1> QED
    BY <1>3, <1>4

LEMMA AskKeeps ==
    ASSUME LabelsInv, NEW c \in Enrichers, NEW refresh \in BOOLEAN, Ask(c, refresh)
    PROVE  LabelsInv'
<1>1. enricher[c] \in Sessions /\ enricher[c].asked \subseteq LabelPairs
    BY DEF LabelsInv, Sessions
<1>2. PICK reply \in Answered(c, refresh) :
        /\ replies' = Kept(c, reply)
        /\ \/ /\ reply # Garbled
              /\ enricher' = [enricher EXCEPT ![c].pc = "saving", ![c].reply = reply]
           \/ enricher' = [enricher EXCEPT ![c].retry = TRUE]
           \/ Quit(c)
    BY DEF Ask
<1>3. reply \in ReplyFiles \cup {Garbled}
    <2>1. Wellformed(c) \subseteq ReplyFiles
        <3>1. CASE enricher[c].kind = "labels"
            BY <1>1, <3>1 DEF Wellformed, ReplyFiles
        <3>2. CASE enricher[c].kind # "labels"
            BY <1>1, <3>2 DEF Wellformed, ReplyFiles
        <3> QED
            BY <3>1, <3>2
    <2> QED
        BY <2>1 DEF Answered, LabelsInv
<1>4. \A q \in DOMAIN replies' : replies'[q] \in ReplyFiles \cup {Garbled}
    BY <1>2, <1>3 DEF Kept, LabelsInv
<1>5. UNCHANGED <<codeEdges, labels, reviews>>
    BY DEF Ask
<1>6. CASE reply # Garbled /\ enricher' = [enricher EXCEPT ![c].pc = "saving", ![c].reply = reply]
    <2> DEFINE j == [enricher[c] EXCEPT !.pc = "saving", !.reply = reply]
    <2>1. j \in Sessions /\ j.read = enricher[c].read
        BY <1>1, <1>3, <1>6 DEF Sessions, Phases
    <2>2. enricher' = [enricher EXCEPT ![c] = j]
        BY <1>6
    <2> HIDE DEF j
    <2> QED
        BY <1>4, <1>5, <2>1, <2>2, SessionMoves
<1>7. CASE enricher' = [enricher EXCEPT ![c].retry = TRUE]
    <2> DEFINE j == [enricher[c] EXCEPT !.retry = TRUE]
    <2>1. j \in Sessions /\ j.read = enricher[c].read
        BY <1>1 DEF Sessions
    <2>2. enricher' = [enricher EXCEPT ![c] = j]
        BY <1>7
    <2> HIDE DEF j
    <2> QED
        BY <1>4, <1>5, <2>1, <2>2, SessionMoves
<1>8. CASE Quit(c)
    BY <1>4, <1>5, <1>8, QuitKeeps
<1> QED
    BY <1>2, <1>6, <1>7, <1>8

\* What a save writes is vouched for: what it kept as it was, what it drafted as a draft.
LEMMA MergedIsVouched ==
    ASSUME LabelsInv, NEW c \in Enrichers
    PROVE  Vouched(Merged(c))
<1> DEFINE file == enricher[c].read
           seen == enricher[c].seen
           drafts1 == DOMAIN enricher[c].reply \ Standing(file, seen)
           S == DOMAIN file \cup drafts1
<1>1. /\ file \in LabelFiles /\ seen \subseteq PairEdges /\ Vouched(file)
      /\ DOMAIN enricher[c].reply \subseteq LabelPairs
      /\ \A p \in DOMAIN enricher[c].reply : enricher[c].reply[p] \in Grades
    BY ReplyFileIs DEF LabelsInv, Sessions
<1>2. S \in SUBSET LabelPairs
    BY <1>1, LabelFileIs
<1>3. ASSUME NEW p \in drafts1
      PROVE  /\ Merged(c)[p] \in LabelRecords /\ Stamped(Merged(c)[p]) /\ ~Merged(c)[p].approved
    <2>1. Merged(c)[p] = Draft(enricher[c].reply[p], seen, p)
        BY <1>3 DEF Merged
    <2>2. Between(seen, p) \subseteq PairEdges
        BY <1>1 DEF Between
    <2> QED
        BY <1>1, <2>1, <2>2 DEF Draft, LabelRecords, Stamped, Stamp
<1>4. ASSUME NEW p \in DOMAIN file, p \notin drafts1
      PROVE  Merged(c)[p] = file[p] /\ file[p] \in LabelRecords
    BY <1>1, <1>4, LabelFileIs DEF Merged
<1>5. DOMAIN Merged(c) = S
    BY DEF Merged
<1>6. Merged(c) \in [S -> LabelRecords]
    <2>1. \A p \in S : Merged(c)[p] \in LabelRecords
        BY <1>3, <1>4
    <2>2. Merged(c) = [p \in S |-> Merged(c)[p]]
        BY DEF Merged
    <2> QED
        BY <2>1, <2>2
<1>7. Merged(c) \in LabelFiles
    BY <1>2, <1>6, IsLabelFile
<1> HIDE DEF drafts1
<1> QED
    BY <1>1, <1>3, <1>4, <1>5, <1>7 DEF Vouched

LEMMA SaveKeeps ==
    ASSUME LabelsInv, NEW c \in Enrichers, Save(c)
    PROVE  LabelsInv'
<1>1. UNCHANGED <<codeEdges, replies, reviews>> /\ labels' = Merged(c) /\ Quit(c)
    BY DEF Save
<1>2. Vouched(labels)'
    BY <1>1, MergedIsVouched DEF Vouched
<1> DEFINE j == [NotStarted EXCEPT !.pc = "done"]
<1>3. j \in Sessions /\ j.read = NoLabels /\ enricher' = [enricher EXCEPT ![c] = j]
    BY <1>1, NewSession DEF NotStarted, Quit
<1> HIDE DEF j
<1>4. enricher' \in [Enrichers -> Sessions] /\ \A x \in Enrichers : Vouched(enricher'[x].read)
    BY <1>3, NoLabelsIs DEF LabelsInv
<1>5. \A x \in Enrichers : Vouched(enricher[x].read)'
    BY <1>1, <1>4 DEF Vouched
<1> QED
    BY <1>1, <1>2, <1>4, <1>5 DEF LabelsInv

\* A person changes the file, and vouches for what she writes.
LEMMA HandKeeps ==
    ASSUME LabelsInv, UNCHANGED <<codeEdges, replies, enricher>>, reviews \subseteq reviews',
           Vouched(labels)'
    PROVE  LabelsInv'
<1>1. \A x \in Enrichers : Vouched(enricher[x].read)'
    BY DEF LabelsInv, Vouched
<1> QED
    BY <1>1 DEF LabelsInv

LEMMA PutKeeps ==
    ASSUME LabelsInv, NEW p \in LabelPairs, NEW label \in LabelRecords, Stamped(label), Put(p, label)
    PROVE  LabelsInv'
<1>1. /\ labels \in LabelFiles /\ Vouched(labels) /\ UNCHANGED <<codeEdges, replies, enricher>>
      /\ reviews' = reviews \cup {<<p, label>>}
      /\ labels' = [q \in DOMAIN labels \cup {p} |-> IF q = p THEN label ELSE labels[q]]
    BY DEF LabelsInv, Vouched, Put
<1>2. DOMAIN labels \cup {p} \in SUBSET LabelPairs /\ labels' \in [DOMAIN labels \cup {p} -> LabelRecords]
    BY <1>1, LabelFileIs
<1>3. labels' \in LabelFiles
    BY <1>2, IsLabelFile
<1>4. Vouched(labels)'
    BY <1>1, <1>3 DEF Vouched
<1> QED
    BY <1>1, <1>4, HandKeeps

LEMMA RejectKeeps ==
    ASSUME LabelsInv, NEW p \in LabelPairs, Reject(p)
    PROVE  LabelsInv'
<1>1. /\ labels \in LabelFiles /\ Vouched(labels) /\ UNCHANGED <<codeEdges, replies, enricher, reviews>>
      /\ labels' = [q \in DOMAIN labels \ {p} |-> labels[q]]
    BY DEF LabelsInv, Vouched, Reject
<1>2. DOMAIN labels \ {p} \in SUBSET LabelPairs /\ labels' \in [DOMAIN labels \ {p} -> LabelRecords]
    BY <1>1, LabelFileIs
<1>3. labels' \in LabelFiles
    BY <1>2, IsLabelFile
<1>4. Vouched(labels)'
    BY <1>1, <1>3 DEF Vouched
<1> QED
    BY <1>1, <1>4, HandKeeps

LEMMA LabelsSteps == LabelsInv /\ [LabelsNext]_labelVars => LabelsInv'
<1> SUFFICES ASSUME LabelsInv, [LabelsNext]_labelVars PROVE LabelsInv'
    OBVIOUS
<1>1. ASSUME NEW c \in Enrichers, NEW kind \in {"labels", "abstained"}, Capture(c, kind) PROVE LabelsInv'
    BY <1>1, CaptureKeeps
<1>2. ASSUME NEW c \in Enrichers, Select(c) \/ Save(c) PROVE LabelsInv'
    BY <1>2, SelectKeeps, SaveKeeps
<1>3. ASSUME NEW c \in Enrichers, NEW refresh \in BOOLEAN, Ask(c, refresh) PROVE LabelsInv'
    BY <1>3, AskKeeps
<1>4. ASSUME NEW c \in Enrichers, AskFails(c) PROVE LabelsInv'
    BY <1>4, QuitKeeps DEF AskFails, LabelsInv
<1>5. ASSUME NEW p \in LabelPairs, ApproveLabel(p) PROVE LabelsInv'
    <2> DEFINE label == [labels[p] EXCEPT !.approved = TRUE]
    <2>1. p \in DOMAIN labels /\ Put(p, label) /\ labels \in LabelFiles /\ Stamped(labels[p])
        BY <1>5 DEF ApproveLabel, LabelsInv, Vouched
    <2>2. labels[p] \in LabelRecords
        BY <2>1, LabelFileIs
    <2>3. label \in LabelRecords /\ Stamped(label)
        BY <2>1, <2>2 DEF LabelRecords, Stamped
    <2> QED
        BY <2>1, <2>3, PutKeeps
<1>6. ASSUME NEW p \in LabelPairs, NEW grade \in Grades, WriteLabel(p, grade) PROVE LabelsInv'
    <2> DEFINE label == [strength |-> grade, hash |-> {}, approved |-> TRUE, llm |-> FALSE, judged |-> {}]
    <2>1. label \in LabelRecords /\ Stamped(label)
        BY DEF LabelRecords, Stamped
    <2> QED
        BY <1>6, <2>1, PutKeeps DEF WriteLabel
<1>7. ASSUME NEW p \in LabelPairs, Reject(p) PROVE LabelsInv'
    BY <1>7, RejectKeeps
<1>8. ASSUME NEW e \in PairEdges, ChangeCode(e) PROVE LabelsInv'
    BY <1>8 DEF ChangeCode, LabelsInv, Vouched
<1>9. CASE UNCHANGED labelVars
    BY <1>9 DEF labelVars, LabelsInv, Vouched
<1> QED
    BY <1>1, <1>2, <1>3, <1>4, <1>5, <1>6, <1>7, <1>8, <1>9 DEF LabelsNext

-----------------------------------------------------------------------------
(* The labels file: what holds                                              *)

LEMMA StampConfirms == LabelsInv => \A p \in DOMAIN labels : StampIsConfirmed(p)
<1> SUFFICES ASSUME LabelsInv, NEW p \in DOMAIN labels, labels[p].approved, labels[p].llm,
                    \A e \in Between(codeEdges, p) : e.by = "glob"
             PROVE  Applied(p) <=> Between(codeEdges, p) \in {labels[p].judged, {}}
    BY DEF StampIsConfirmed
<1>1. Confirmed(codeEdges, p) = Between(codeEdges, p)
    BY DEF Confirmed
<1>2. labels[p].hash = {labels[p].judged}
    BY DEF LabelsInv, Vouched, Stamped
<1> QED
    BY <1>1, <1>2 DEF Applied, Stands

\* Only its own save takes a session from saving to done.
LEMMA OnlySaves ==
    ASSUME LabelsInv, LabelsNext, NEW c \in Enrichers, In(c, "saving"), enricher'[c].pc = "done"
    PROVE  Save(c)
<1>1. enricher \in [Enrichers -> Sessions] /\ enricher[c].pc = "saving"
    BY DEF LabelsInv, In
<1>2. ASSUME NEW x \in Enrichers, x # c, NEW j, enricher' = [enricher EXCEPT ![x] = j] PROVE FALSE
    BY <1>1, <1>2
<1>3. ASSUME NEW x \in Enrichers, NEW kind \in {"labels", "abstained"}, Capture(x, kind) PROVE FALSE
    <2>1. x # c
        BY <1>1, <1>3 DEF Capture, In
    <2> QED
        BY <1>1, <1>3, <2>1 DEF Capture
<1>4. ASSUME NEW x \in Enrichers, Select(x) PROVE FALSE
    <2>1. x # c
        BY <1>1, <1>4 DEF Select, In
    <2> QED
        BY <1>1, <1>4, <2>1 DEF Select, Quit
<1>5. ASSUME NEW x \in Enrichers, NEW refresh \in BOOLEAN, Ask(x, refresh) PROVE FALSE
    <2>1. x # c
        BY <1>1, <1>5 DEF Ask, In
    <2> QED
        BY <1>1, <1>5, <2>1 DEF Ask, Quit
<1>6. ASSUME NEW x \in Enrichers, AskFails(x) PROVE FALSE
    <2>1. x # c
        BY <1>1, <1>6 DEF AskFails, In
    <2> QED
        BY <1>1, <1>6, <2>1 DEF AskFails, Quit
<1>7. ASSUME NEW x \in Enrichers, Save(x) PROVE Save(c)
    <2>1. CASE x # c
        BY <1>1, <1>7, <2>1 DEF Save, Quit
    <2> QED
        BY <1>7, <2>1
<1>8. ASSUME UNCHANGED enricher PROVE FALSE
    BY <1>1, <1>8
<1> QED
    BY <1>3, <1>4, <1>5, <1>6, <1>7, <1>8
    DEF LabelsNext, ApproveLabel, WriteLabel, Put, Reject, ChangeCode

\* What a save may do to reviews.
LEMMA SaveIsCareful ==
    ASSUME LabelsInv, NEW c \in Enrichers, Save(c)
    PROVE  /\ \A p \in DOMAIN labels' : labels'[p].approved => <<p, labels'[p]>> \in reviews
           /\ \A p \in {q \in DOMAIN labels : labels[q].approved} :
                \/ p \in DOMAIN labels' /\ labels'[p] = labels[p]
                \/ labels[p].llm /\ labels[p].judged # Between(enricher[c].seen, p)
                \/ p \in DOMAIN enricher[c].read => enricher[c].read[p] # labels[p]
<1>1. labels' = Merged(c)
    BY DEF Save
<1>2. Vouched(Merged(c))
    BY MergedIsVouched
<1>3. ASSUME NEW p \in DOMAIN labels, labels[p].approved,
             ~labels[p].llm \/ labels[p].judged = Between(enricher[c].seen, p),
             p \in DOMAIN enricher[c].read, enricher[c].read[p] = labels[p]
      PROVE  p \in DOMAIN labels' /\ labels'[p] = labels[p]
    <2>1. Stamped(labels[p])
        BY DEF LabelsInv, Vouched
    <2>2. Stands(labels[p], Stamp(enricher[c].seen, p))
        BY <1>3, <2>1 DEF Stands, Stamp, Stamped
    <2>3. p \in Standing(enricher[c].read, enricher[c].seen)
        BY <1>3, <2>2 DEF Standing
    <2> QED
        BY <1>1, <1>3, <2>3 DEF Merged
<1> QED
    BY <1>1, <1>2, <1>3 DEF Vouched

\* A label a person approved is applied by every check of the code it was judged on, and no
\* run of enrich writes an approval of its own or takes one away that it has read and that
\* still stands (mergeEnrichmentLabels, PairEvidence, pairEvidence).
THEOREM ReviewedLabels == LabelsSpec => LabelsAreReviewed
<1> DEFINE Reviews ==
      \A c \in Enrichers : In(c, "saving") /\ enricher'[c].pc = "done" =>
         /\ \A p \in DOMAIN labels' : labels'[p].approved => <<p, labels'[p]>> \in reviews
         /\ \A p \in {q \in DOMAIN labels : labels[q].approved} :
              \/ p \in DOMAIN labels' /\ labels'[p] = labels[p]
              \/ labels[p].llm /\ labels[p].judged # Between(enricher[c].seen, p)
              \/ p \in DOMAIN enricher[c].read => enricher[c].read[p] # labels[p]
           Confirms == \A p \in DOMAIN labels : StampIsConfirmed(p)
<1>1. LabelsInv /\ [LabelsNext]_labelVars => [Reviews]_labelVars
    BY OnlySaves, SaveIsCareful
<1>2. LabelsInv => Confirms
    BY StampConfirms
<1> QED
    BY <1>1, <1>2, LabelsStart, LabelsSteps, PTL DEF LabelsSpec, LabelsAreReviewed, SaveKeepsReviews

-----------------------------------------------------------------------------
(* The stored reference: counting                                           *)

LEMMA ImageFinite ==
    ASSUME NEW S, IsFiniteSet(S), NEW f, DOMAIN f = S
    PROVE  IsFiniteSet({f[x] : x \in S})
<1> DEFINE T == {f[x] : x \in S}
<1>1. [x \in S |-> f[x]] \in Surjection(S, T)
    BY DEF Surjection
<1> QED
    BY <1>1, FS_Surjection

LEMMA NodesFinite ==
    ASSUME NEW E, IsFiniteSet(E)
    PROVE  IsFiniteSet(NodesOf(E))
<1>1. IsFiniteSet({[e \in E |-> e[1]][x] : x \in E}) /\ IsFiniteSet({[e \in E |-> e[2]][x] : x \in E})
    BY ImageFinite
<1>2. /\ {[e \in E |-> e[1]][x] : x \in E} = {e[1] : e \in E}
      /\ {[e \in E |-> e[2]][x] : x \in E} = {e[2] : e \in E}
    OBVIOUS
<1>3. IsFiniteSet({e[1] : e \in E}) /\ IsFiniteSet({e[2] : e \in E})
    BY <1>1, <1>2
<1> QED
    BY <1>3, FS_Union DEF NodesOf

\* The components of a finite graph are finitely many.
LEMMA ComponentsFinite ==
    ASSUME NEW E, IsFiniteSet(E)
    PROVE  IsFiniteSet(Components(E)) /\ Cardinality(Components(E)) \in Nat
<1>1. Inner(E) \in SUBSET E
    BY DEF Inner
<1>2. IsFiniteSet(Inner(E))
    BY <1>1, FS_Subset
<1>3. IsFiniteSet(SUBSET NodesOf(Inner(E)))
    BY <1>2, NodesFinite, FS_SUBSET
<1>4. Components(E) \subseteq SUBSET NodesOf(Inner(E))
    BY DEF Components, Unseparated, Closed
<1> QED
    BY <1>3, <1>4, FS_Subset, FS_CardinalityType

LEMMA Times ==
    ASSUME NEW x \in Int, NEW y \in Int, NEW z \in Nat, x >= y
    PROVE  x * z >= y * z
<1>1. (x - y) * z >= 0
    OBVIOUS
<1>2. (x - y) * z = x * z - y * z
    OBVIOUS
<1> QED
    BY <1>1, <1>2

LEMMA Cancel ==
    ASSUME NEW x \in Int, NEW y \in Int, NEW z \in Nat \ {0}, x * z >= y * z
    PROVE  x >= y
<1>1. SUFFICES ASSUME y - x >= 1 PROVE FALSE
    OBVIOUS
<1>2. (y - x) * z >= 1 * z
    BY <1>1, Times
<1>3. (y - x) * z = y * z - x * z
    OBVIOUS
<1> QED
    BY <1>2, <1>3

Fractions == Nat \X (Nat \ {0})

\* Being no less goes from fraction to fraction.
LEMMA NotLess ==
    ASSUME NEW a \in Fractions, NEW b \in Fractions, NEW c \in Fractions, ~Less(a, b), ~Less(b, c)
    PROVE  ~Less(a, c)
<1>1. PICK a1 \in Nat, a2 \in Nat \ {0}, b1 \in Nat, b2 \in Nat \ {0}, c1 \in Nat, c2 \in Nat \ {0} :
        a = <<a1, a2>> /\ b = <<b1, b2>> /\ c = <<c1, c2>>
  <2>1. /\ a[1] \in Nat /\ a[2] \in Nat \ {0} /\ a = <<a[1], a[2]>>
        /\ b[1] \in Nat /\ b[2] \in Nat \ {0} /\ b = <<b[1], b[2]>>
        /\ c[1] \in Nat /\ c[2] \in Nat \ {0} /\ c = <<c[1], c[2]>>
      BY DEF Fractions
  <2> QED
      BY <2>1
<1>2. a1 * b2 >= b1 * a2 /\ b1 * c2 >= c1 * b2
    BY <1>1 DEF Less
<1>3. (a1 * b2) * c2 >= (b1 * a2) * c2 /\ (b1 * c2) * a2 >= (c1 * b2) * a2
    BY <1>2, Times
<1>4. /\ (b1 * a2) * c2 = (b1 * c2) * a2 /\ (a1 * b2) * c2 = (a1 * c2) * b2
      /\ (c1 * b2) * a2 = (c1 * a2) * b2
    OBVIOUS
<1>5. (a1 * c2) * b2 >= (c1 * a2) * b2
    BY <1>3, <1>4
<1>6. a1 * c2 >= c1 * a2
    BY <1>5, Cancel
<1> QED
    BY <1>1, <1>6 DEF Less

LEMMA NotLessSelf ==
    ASSUME NEW a \in Fractions
    PROVE  ~Less(a, a)
    BY DEF Fractions, Less

-----------------------------------------------------------------------------
(* The stored reference: the invariant                                      *)

\* The metrics that no baseline accepts anything of.
Plain == {"encapsulation", "cycle", "coverage"}

\* Cycles are counted.
Metric(m, v) == v \in Fractions /\ (m = "cycle" => v[2] = 1)

NoWorse(m, now, then) == IF m \in HigherIsWorse THEN ~Less(then, now) ELSE ~Less(now, then)

\* What is stored of a metric is no worse than what the last capture measured.
Held(m) ==
    captured.metrics[m] = Unmeasured \/
      /\ Metric(m, captured.metrics[m])
      /\ m \in DOMAIN reference.metrics /\ reference.metrics[m].version = versions[m]
      /\ Metric(m, reference.metrics[m].value)
      /\ NoWorse(m, reference.metrics[m].value, captured.metrics[m])

RatchetsInv ==
    /\ relations \subseteq Relations /\ scan \in Scans /\ policy \in Policies
    /\ reference # NoReference => reference.seams \subseteq captured.seams
    /\ \A m \in held \cap Plain : Held(m)

LEMMA PlainMetrics ==
    /\ Plain \subseteq Metrics /\ Plain = RatchetNames \ {"unbalanced_edge"}
    /\ \A m \in Plain : m \in HigherIsWorse <=> m = "cycle"
    BY DEF Plain, Metrics, RatchetNames, HigherIsWorse

LEMMA RelationsFinite ==
    ASSUME relations \subseteq Relations, NEW S, S \subseteq relations
    PROVE  IsFiniteSet(S) /\ Cardinality(S) \in Nat
    BY RatchetsAssumption, FS_Subset, FS_CardinalityType

\* What is measured is a fraction, or is not measured.
LEMMA ValueIs ==
    ASSUME relations \subseteq Relations, scan \in Scans, NEW m \in Plain, NEW accepted
    PROVE  Value(m, accepted) = Unmeasured \/ Metric(m, Value(m, accepted))
<1>1. CASE m \in policy.off
    BY <1>1 DEF Value
<1>2. CASE m \notin policy.off /\ m = "encapsulation"
    <2> DEFINE S == Far("contract")
               T == Far("intrusive")
    <2>1. Value(m, accepted) = Encapsulation
        BY <1>2 DEF Value
    <2>2. S \subseteq relations /\ T \subseteq relations /\ S \cup T \subseteq relations
        BY DEF Far
    <2>3. Cardinality(S) \in Nat /\ Cardinality(S \cup T) \in Nat /\ IsFiniteSet(S \cup T)
        BY <2>2, RelationsFinite
    <2>4. CASE T # {}
        <3>1. S \cup T # {}
            BY <2>4
        <3>2. Cardinality(S \cup T) # 0
            BY <2>3, <3>1, FS_EmptySet
        <3> QED
            BY <1>2, <2>1, <2>3, <2>4, <3>2 DEF Encapsulation, Metric, Fractions
    <2> QED
        BY <2>1, <2>4 DEF Encapsulation
<1>3. CASE m \notin policy.off /\ m = "cycle"
    <2>1. Value(m, accepted) = <<Cardinality(Components(Pairs)), 1>>
        BY <1>3 DEF Value, Cycle, Number
    <2>2. IsFiniteSet({[r \in relations |-> <<r.from, r.to>>][x] : x \in relations})
        <3>1. IsFiniteSet(relations)
            BY RelationsFinite
        <3> DEFINE f == [r \in relations |-> <<r.from, r.to>>]
        <3>2. DOMAIN f = relations
            OBVIOUS
        <3> HIDE DEF f
        <3>3. IsFiniteSet({f[x] : x \in relations})
            BY <3>1, <3>2, ImageFinite
        <3> QED
            BY <3>3 DEF f
    <2>3. {[r \in relations |-> <<r.from, r.to>>][x] : x \in relations} = Pairs
        BY DEF Pairs
    <2>4. IsFiniteSet(Pairs)
        BY <2>2, <2>3
    <2>5. Cardinality(Components(Pairs)) \in Nat
        BY <2>4, ComponentsFinite
    <2> QED
        BY <2>1, <2>5 DEF Metric, Fractions
<1>4. CASE m \notin policy.off /\ m = "coverage"
    <2>1. Value(m, accepted) = Coverage
        BY <1>4 DEF Value
    <2>2. scan.seen \in Nat /\ scan.applicable \in Nat
        BY RatchetsAssumption
    <2> QED
        BY <1>4, <2>1, <2>2 DEF Coverage, Metric, Fractions
<1> QED
    BY <1>1, <1>2, <1>3, <1>4 DEF Plain

LEMMA NoWorseTrans ==
    ASSUME NEW m, NEW a \in Fractions, NEW b \in Fractions, NEW c \in Fractions,
           NoWorse(m, a, b), NoWorse(m, b, c)
    PROVE  NoWorse(m, a, c)
    BY NotLess DEF NoWorse

LEMMA RatchetsStart == RatchetsInit => RatchetsInv
    BY DEF RatchetsInit, RatchetsInv

LEMMA CaptureHolds ==
    ASSUME RatchetsInv, CaptureBaseline
    PROVE  RatchetsInv'
<1>1. /\ UNCHANGED <<relations, scan, policy, versions>>
      /\ captured' = [metrics |-> [m \in Metrics |-> Value(m, {})], seams |-> Seams]
      /\ reference'.seams = Seams /\ reference'.metrics = Measured({})
    BY DEF CaptureBaseline
<1>2. captured'.seams = Seams /\ \A m \in Plain : captured'.metrics[m] = Value(m, {})
    BY <1>1, PlainMetrics
<1>3. ASSUME NEW m \in Plain
      PROVE  Held(m)'
    <2>1. SUFFICES ASSUME Value(m, {}) # Unmeasured PROVE Held(m)'
        BY <1>2 DEF Held
    <2>2. Metric(m, Value(m, {}))
        BY <2>1, ValueIs DEF RatchetsInv
    <2>3. /\ m \in DOMAIN Measured({})
          /\ Measured({})[m].value = Value(m, {}) /\ Measured({})[m].version = versions[m]
        BY <2>1, PlainMetrics DEF Measured
    <2> DEFINE v == Value(m, {})
    <2>4. NoWorse(m, v, v)
        BY <2>2, NotLessSelf DEF NoWorse, Metric
    <2>5. /\ captured'.metrics[m] = v /\ m \in DOMAIN reference'.metrics
          /\ reference'.metrics[m].value = v /\ reference'.metrics[m].version = versions'[m]
        BY <1>1, <1>2, <2>3
    <2> HIDE DEF v
    <2>6. Metric(m, v)
        BY <2>2 DEF v
    <2> QED
        BY <2>4, <2>5, <2>6 DEF Held
<1> QED
    BY <1>1, <1>2, <1>3 DEF RatchetsInv

LEMMA ReanchorHolds ==
    ASSUME RatchetsInv, Reanchor
    PROVE  RatchetsInv'
<1>1. /\ UNCHANGED <<relations, scan, policy, versions, captured>> /\ reference # NoReference
      /\ reference'.seams = KeptSeams /\ reference'.metrics = Measured({})
      /\ held' = (held \ policy.off) \ (UnmeasuredMetrics \cup WorsenedMetrics)
    BY DEF Reanchor
<1>2. reference'.seams \subseteq captured'.seams
    BY <1>1 DEF KeptSeams, RatchetsInv
<1>3. ASSUME NEW m \in held' \cap Plain
      PROVE  Held(m)'
    <2> DEFINE v == Value(m, {})
               old == reference.metrics[m].value
               first == captured.metrics[m]
    <2>1. m \in held /\ m \notin policy.off /\ m \notin UnmeasuredMetrics /\ m \notin WorsenedMetrics /\ Held(m)
        BY <1>1, <1>3 DEF RatchetsInv
    <2>2. SUFFICES ASSUME first # Unmeasured PROVE Held(m)'
        BY <1>1 DEF Held
    <2>3. /\ Metric(m, first) /\ m \in DOMAIN reference.metrics /\ reference.metrics[m].version = versions[m]
          /\ Metric(m, old) /\ NoWorse(m, old, first)
        BY <2>1, <2>2 DEF Held
    <2>4. m \in Metrics /\ Stored(m)
        BY <1>3, <2>1, <2>3, PlainMetrics DEF Stored
    <2>5. v # Unmeasured
        BY <2>1, <2>4 DEF UnmeasuredMetrics
    <2>6. NoWorse(m, v, old)
        BY <2>1, <2>3, <2>4 DEF WorsenedMetrics, NoWorse
    <2>7. Metric(m, v)
        BY <1>3, <2>5, ValueIs DEF RatchetsInv
    <2>8. /\ m \in DOMAIN Measured({})
          /\ Measured({})[m].value = v /\ Measured({})[m].version = versions[m]
        BY <2>4, <2>5 DEF Measured
    <2>9. NoWorse(m, v, first)
        BY <2>3, <2>6, <2>7, NoWorseTrans DEF Metric
    <2>10. /\ m \in DOMAIN reference'.metrics /\ reference'.metrics[m].value = v
           /\ reference'.metrics[m].version = versions'[m] /\ captured'.metrics[m] = first
        BY <1>1, <2>8
    <2> HIDE DEF v, first, old
    <2> QED
        BY <2>3, <2>7, <2>9, <2>10 DEF Held
<1> QED
    BY <1>1, <1>2, <1>3 DEF RatchetsInv

LEMMA RatchetsSteps == RatchetsInv /\ [RatchetsNext]_ratchetVars => RatchetsInv'
<1> SUFFICES ASSUME RatchetsInv, [RatchetsNext]_ratchetVars PROVE RatchetsInv'
    OBVIOUS
<1>1. CASE CaptureBaseline
    BY <1>1, CaptureHolds
<1>2. CASE Reanchor
    BY <1>2, ReanchorHolds
<1>3. ASSUME relations' \subseteq Relations, scan' \in Scans, policy' \in Policies,
             UNCHANGED <<reference, captured>>, held' \subseteq held, \A m \in held' : versions'[m] = versions[m]
      PROVE  RatchetsInv'
    BY <1>3 DEF RatchetsInv, Held
<1>4. ASSUME NEW r \in Relations, Write(r) PROVE RatchetsInv'
    BY <1>3, <1>4 DEF Write, RatchetsInv
<1>5. ASSUME NEW s \in Scans, Rescan(s) PROVE RatchetsInv'
    BY <1>3, <1>5 DEF Rescan, RatchetsInv
<1>6. ASSUME NEW p \in Policies, Configure(p) PROVE RatchetsInv'
    BY <1>3, <1>6 DEF Configure, RatchetsInv
<1>7. ASSUME NEW m \in Metrics, Upgrade(m) PROVE RatchetsInv'
    BY <1>3, <1>7 DEF Upgrade, RatchetsInv
<1>8. ASSUME NEW r \in Relations, NEW status, Waive(r, status) PROVE RatchetsInv'
    BY <1>3, <1>8 DEF Waive, RatchetsInv
<1>9. ASSUME NEW m \in RatchetNames, NEW status, Excuse(m, status) PROVE RatchetsInv'
    BY <1>3, <1>9 DEF Excuse, RatchetsInv
<1>10. CASE UNCHANGED ratchetVars
    BY <1>3, <1>10 DEF ratchetVars, RatchetsInv
<1> QED
    BY <1>1, <1>2, <1>4, <1>5, <1>6, <1>7, <1>8, <1>9, <1>10 DEF RatchetsNext

-----------------------------------------------------------------------------
(* The stored reference: what holds                                         *)

LEMMA SeamsHold ==
    ASSUME RatchetsInv, Comparable, Passes, policy.seamMode = "fail"
    PROVE  Cardinality(Seams \ captured.seams) <= policy.maxSeams
<1>1. ~(Cardinality(NewSeams) > policy.maxSeams)
    BY DEF Passes, Fails, SeamGateBlocks
<1>2. Seams \ captured.seams \subseteq NewSeams /\ NewSeams \subseteq relations
    BY DEF RatchetsInv, Comparable, NewSeams, Seams
<1>3. IsFiniteSet(NewSeams) /\ Cardinality(NewSeams) \in Nat
    BY <1>2, RelationsFinite DEF RatchetsInv
<1>4. /\ Cardinality(Seams \ captured.seams) <= Cardinality(NewSeams)
      /\ Cardinality(Seams \ captured.seams) \in Nat
    BY <1>2, <1>3, FS_Subset, FS_CardinalityType
<1>5. policy.maxSeams \in Nat
    BY RatchetsAssumption DEF RatchetsInv
<1> QED
    BY <1>1, <1>3, <1>4, <1>5

LEMMA MetricsHold ==
    ASSUME RatchetsInv, Comparable, Passes, NEW m \in held \cap Plain, Gating(m)
    PROVE  NoSlip(m)
<1> DEFINE now == Value(m, Accepted)
           before == reference.metrics[m].value
           then == captured.metrics[m]
<1>1. SUFFICES ASSUME Unmeasured \notin {now, then}
               PROVE  IF m \in HigherIsWorse THEN now[1] - then[1] <= policy.maxNew ELSE ~Less(now, then)
    BY DEF NoSlip
<1>2. /\ Metric(m, then) /\ m \in DOMAIN reference.metrics /\ reference.metrics[m].version = versions[m]
      /\ Metric(m, before) /\ NoWorse(m, before, then)
    BY <1>1 DEF RatchetsInv, Held
<1>3. Metric(m, now)
    BY <1>1, ValueIs DEF RatchetsInv
<1>4. m \in RatchetNames
    BY PlainMetrics
<1>5. ~Breach(m)
    BY <1>4 DEF Passes, Fails, MetricBlocks, Gating
<1>6. HasDelta(m)
    BY <1>2 DEF HasDelta
<1>7. IF m \in HigherIsWorse THEN ~(now[1] - before[1] > policy.maxNew) ELSE ~Less(now, before)
    BY <1>1, <1>5, <1>6 DEF Breach, Gating
<1>8. CASE m \in HigherIsWorse
    <2>1. m = "cycle"
        BY <1>8, PlainMetrics
    <2>2. PICK n \in Nat, b \in Nat, t \in Nat : now = <<n, 1>> /\ before = <<b, 1>> /\ then = <<t, 1>>
        BY <1>2, <1>3, <2>1 DEF Metric, Fractions
    <2>3. b <= t
        <3>1. ~Less(then, before)
            BY <1>2, <1>8 DEF NoWorse
        <3>2. ~(t * 1 < b * 1)
            BY <2>2, <3>1 DEF Less
        <3> QED
            BY <3>2
    <2>4. policy.maxNew \in Nat
        BY RatchetsAssumption DEF RatchetsInv
    <2>5. ~(n - b > policy.maxNew)
        BY <1>7, <1>8, <2>2
    <2>6. n - t <= policy.maxNew
        BY <2>3, <2>4, <2>5
    <2> QED
        BY <1>8, <2>2, <2>6
<1>9. CASE m \notin HigherIsWorse
    <2>1. ~Less(now, before) /\ ~Less(before, then)
        BY <1>2, <1>7, <1>9 DEF NoWorse
    <2> QED
        BY <1>2, <1>3, <1>9, <2>1, NotLess DEF Metric
<1> QED
    BY <1>8, <1>9

\* No re-anchor, policy, engine or change of code lets a ratchet slip that gates: a check
\* that passes found it no worse than the last capture did, and no more seams than the
\* policy allows (reanchor, metricBreach, EvaluateSeamGate).
THEOREM RatchetsNeverSlip == RatchetsSpec => []RatchetsHold
<1>1. RatchetsInv => RatchetsHold
    BY SeamsHold, MetricsHold, PlainMetrics DEF RatchetsHold
<1> QED
    BY <1>1, RatchetsStart, RatchetsSteps, PTL DEF RatchetsSpec

-----------------------------------------------------------------------------
(* The policy guard: every clone of a repository, every edit and git command   *)

\* A target is none or the tip of a branch; what a scope says of the policy files is so
\* for as long as the clone keeps its commits.
IsTarget(c, t) == t = NoTarget \/ t.sha \in DOMAIN c.commits
IsTip(c, t) == t.sha \in DOMAIN c.commits
Differs(c, sha, p, files) == Protects(c, sha) /\ files[p] # FileAt(c, sha, p)
ScopeMeans(c, s, files) ==
    s = NoScope \/ s.unresolved
    \/ /\ s.target.sha \in DOMAIN c.commits
       /\ \A p \in PolicyPaths : Differs(c, s.target.sha, p, files) => p \in s.changed \cup s.stale
Outgrows(c, d) ==
    /\ d.tracked = c.tracked /\ DOMAIN c.commits \subseteq DOMAIN d.commits
    /\ \A k \in DOMAIN c.commits : d.commits[k] = c.commits[k]

CheckShape(scope, view) ==
           [pc : {"loaded", "read", "resolved", "scanning", "judged", "ended"}, kind : {"check", "unborn"},
              asked : Asked \cup {Unnamed}, base : Bases \cup {"auto"}, declared : BranchNames \cup {Unnamed}, policy : PolicyTrees, scope : {scope},
              config : {Missing} \cup ConfigTexts, under : PolicyTrees, view : {view},
              outcome : {"none", "pass", "warn", "fail", "error"},
              reason : {Unnamed, "changed", "stale", "unresolved"}, late : SUBSET PolicyPaths]
IsCheck(x) ==
    /\ x \in CheckShape(x.scope, x.view)
    /\ x.pc \in {"judged", "ended"} => x.outcome # "none"
    /\ x.scope.unresolved \in BOOLEAN

\* What a check read is what is on disk, but for what was edited late.
ReadHolds(x) ==
    /\ x.pc \in {"read", "resolved", "scanning"} => \A p \in PolicyPaths \ x.late : x.policy[p] = ondisk[p]
    /\ x.pc = "scanning" => "config" \in x.late \/ x.config = x.policy["config"]
JudgedHolds(x) ==
    x.pc = "judged" \/ (x.pc = "ended" /\ x.outcome # "error") =>
      \A p \in PolicyPaths \ x.late : x.under[p] = x.policy[p]
ReasonHolds(x) ==
    x.pc = "ended" /\ x.outcome # "error" /\ x.reason = Unnamed => x.scope.changed \cup x.scope.stale = {} /\ ~x.scope.unresolved
ScopeHolds(c, x) ==
    IF x.pc \in {"loaded", "read"} THEN x.scope = NoScope ELSE ScopeMeans(c, x.scope, x.policy)

GuardInv ==
    /\ IsClone(clone) /\ ondisk \in PolicyTrees
    /\ check # NoCheck => IsCheck(check)
    /\ check # NoCheck /\ check.kind = "check" =>
         ReadHolds(check) /\ JudgedHolds(check) /\ ReasonHolds(check) /\ ScopeHolds(clone, check)

LEMMA BranchIsTarget ==
    ASSUME NEW c, IsClone(c), NEW name \in BranchNames
    PROVE  IsTarget(c, lookupBranch(c, name))
<1>1. {c.local[name], c.remote[name]} \subseteq {Missing} \cup DOMAIN c.commits
    BY DEF IsClone
<1> QED
    BY <1>1 DEF lookupBranch, IsTarget

LEMMA DefaultIsTip ==
    ASSUME NEW c, IsClone(c), NEW d \in trustedDefault(c)
    PROVE  IsTip(c, d)
<1>1. CASE c.originHead # Unnamed /\ c.remote[c.originHead] # Missing
    <2>1. c.originHead \in BranchNames
        BY <1>1 DEF IsClone
    <2>2. c.remote[c.originHead] \in DOMAIN c.commits
        BY <2>1, <1>1 DEF IsClone
    <2>3. d = [ref |-> <<"origin", c.originHead>>, sha |-> c.remote[c.originHead]]
        BY <1>1 DEF trustedDefault
    <2> QED
        BY <2>2, <2>3 DEF IsTip
<1>2. CASE ~(c.originHead # Unnamed /\ c.remote[c.originHead] # Missing)
    <2>1. d # NoTarget /\ \E name \in {"main", "master"} : d = lookupBranch(c, name)
        BY <1>2 DEF trustedDefault
    <2> QED
        BY <2>1, BranchIsTarget, GuardAssumption DEF IsTarget, IsTip
<1> QED
    BY <1>1, <1>2

LEMMA DeclaredAtTip ==
    ASSUME NEW c, IsClone(c), NEW k \in DOMAIN c.commits
    PROVE  /\ FileAt(c, k, "config") \in {Missing} \cup ConfigTexts
           /\ TargetBranchAt(c, k) \in BranchNames \cup {Unnamed}
<1> DEFINE S == Commits
<1>1. c.commits \in Seq(S)
    BY DEF IsClone
<1> HIDE DEF S
<1>2. c.commits[k] \in S
    BY <1>1
<1>3. c.commits[k] \in Commits
    BY <1>2 DEF S
<1>4. c.commits[k].tree["config"] \in {Missing} \cup ConfigTexts
    BY <1>3 DEF Commits, PolicyTrees
<1> QED
    BY <1>4, GuardAssumption DEF FileAt, TargetBranchAt

LEMMA TargetIsTip ==
    ASSUME NEW c, IsClone(c), NEW asked \in Asked \cup {Unnamed}, NEW declared \in BranchNames \cup {Unnamed}
    PROVE  IsTarget(c, resolveTarget(c, asked, declared))
<1> DEFINE defaults == trustedDefault(c)
           default == TheOne(defaults)
           theirs == IF c.tracked THEN TargetBranchAt(c, default.sha) ELSE Unnamed
<1>1. asked # Unnamed => asked \in BranchNames
    BY GuardAssumption
<1>2. defaults # {} => IsTip(c, default) /\ theirs \in BranchNames \cup {Unnamed}
    <2> SUFFICES ASSUME defaults # {} PROVE IsTip(c, default) /\ theirs \in BranchNames \cup {Unnamed}
        OBVIOUS
    <2>1. default \in defaults
        BY DEF TheOne
    <2>2. IsTip(c, default)
        BY <2>1, DefaultIsTip
    <2> QED
        BY <2>2, DeclaredAtTip DEF IsTip
<1>3. defaults # {} => IsTarget(c, declaredByAll(c, defaults))
    <2> DEFINE all == DeclaredAt(c, defaults)
               name == TheOne(all)
    <2> SUFFICES ASSUME defaults # {}, Unnamed \notin all PROVE IsTarget(c, lookupBranch(c, name))
        BY DEF declaredByAll, IsTarget
    <2>1. all # {}
        BY DEF DeclaredAt
    <2>2. name \in all
        BY <2>1 DEF TheOne
    <2>3. \A d \in defaults : TargetBranchAt(c, d.sha) \in BranchNames \cup {Unnamed}
        BY DefaultIsTip, DeclaredAtTip DEF IsTip
    <2>4. name \in BranchNames
        BY <2>2, <2>3 DEF DeclaredAt
    <2> QED
        BY <2>4, BranchIsTarget
<1>4. IsTarget(c, NoTarget)
    BY DEF IsTarget
<1>5. CASE asked # Unnamed
    BY <1>1, <1>5, BranchIsTarget DEF resolveTarget
<1>6. CASE asked = Unnamed /\ (~c.tracked \/ defaults = {}) /\ declared # Unnamed
    BY <1>6, BranchIsTarget DEF resolveTarget
<1>7. CASE asked = Unnamed /\ ~((~c.tracked \/ defaults = {}) /\ declared # Unnamed) /\ defaults = {}
    BY <1>7, <1>4 DEF resolveTarget
<1>8. CASE asked = Unnamed /\ ~((~c.tracked \/ defaults = {}) /\ declared # Unnamed) /\ defaults # {} /\ Cardinality(defaults) > 1
    BY <1>8, <1>3 DEF resolveTarget
<1>9. CASE asked = Unnamed /\ ~((~c.tracked \/ defaults = {}) /\ declared # Unnamed) /\ defaults # {} /\ ~(Cardinality(defaults) > 1)
    <2>1. resolveTarget(c, asked, declared) = IF theirs # Unnamed THEN lookupBranch(c, theirs) ELSE default
        BY <1>9 DEF resolveTarget
    <2>2. theirs # Unnamed => IsTarget(c, lookupBranch(c, theirs))
        BY <1>2, <1>9, BranchIsTarget
    <2>3. IsTarget(c, default)
        BY <1>2, <1>9 DEF IsTarget, IsTip
    <2> HIDE DEF default, theirs
    <2> QED
        BY <2>1, <2>2, <2>3
<1> QED
    BY <1>5, <1>6, <1>7, <1>8, <1>9

\* A scope that is neither none nor unresolved names every file that differs at the target.
LEMMA GuardedScope ==
    ASSUME NEW c, NEW mode, NEW t, IsTip(c, t), NEW base, NEW fork, NEW files
    PROVE  /\ ScopeMeans(c, withPolicyGuard(c, mode, t, base, fork, files), files)
           /\ withPolicyGuard(c, mode, t, base, fork, files).unresolved \in BOOLEAN
    BY DEF ScopeMeans, withPolicyGuard, PolicyChanged, PolicyStale, Differs, IsTip

LEMMA ScopesMean ==
    ASSUME NEW c, IsClone(c), NEW asked \in Asked \cup {Unnamed}, NEW declared \in BranchNames \cup {Unnamed},
           NEW base \in Bases \cup {"auto"}, NEW files, NEW s \in ResolveScope(c, asked, declared, base, files)
    PROVE  ScopeMeans(c, s, files) /\ s.unresolved \in BOOLEAN
<1> DEFINE target == resolveTarget(c, asked, declared)
           lost == [NoScope EXCEPT !.target = target, !.unresolved = TRUE]
           named == [ref |-> <<"local", base>>, sha |-> BaseSHA(c, base)]
           against == IF target = NoTarget THEN named ELSE target
           head == HeadOf(c)
<1>1. IsTarget(c, target)
    BY TargetIsTip
<1>2. ScopeMeans(c, NoScope, files) /\ NoScope.unresolved \in BOOLEAN
    BY DEF ScopeMeans, NoScope
<1>3. ScopeMeans(c, lost, files) /\ lost.unresolved \in BOOLEAN
    BY DEF ScopeMeans, NoScope
<1>4. base # "auto" /\ BaseSHA(c, base) # Missing => IsTip(c, named)
    BY GuardAssumption DEF IsTip, BaseSHA, HeadOf, IsClone
<1>5. base # "auto" /\ BaseSHA(c, base) # Missing => IsTip(c, against)
    BY <1>4, <1>1 DEF IsTarget, IsTip
<1>6. target # NoTarget => IsTip(c, target)
    BY <1>1 DEF IsTarget, IsTip
<1> HIDE DEF target, named
<1>7. \/ s = NoScope \/ s = lost
      \/ /\ base # "auto" /\ BaseSHA(c, base) # Missing
         /\ \E f : s = withPolicyGuard(c, "explicit", against, named.sha, f, files)
      \/ /\ target # NoTarget
         /\ \E mode, b, f : s = withPolicyGuard(c, mode, target, b, f, files)
    <2> HIDE DEF head, lost, against
    <2>1. s \in IF head = Missing THEN {NoScope}
        ELSE IF base # "auto" THEN
             IF BaseSHA(c, base) = Missing THEN {lost}
             ELSE {withPolicyGuard(c, "explicit", against, named.sha, f, files) : f \in forkPoints(c, against.sha)}
        ELSE IF target = NoTarget THEN {lost}
        ELSE IF IsAncestor(c, head, target.sha) THEN {withPolicyGuard(c, "target_branch", target, Missing, head, files)}
        ELSE IF MergeBases(c, head, target.sha) = {} THEN {lost}
        ELSE {withPolicyGuard(c, "merge_base", target, f, f, files) : f \in MergeBases(c, head, target.sha)}
        BY Zenon DEF ResolveScope, target, lost, named, against, head
    <2> QED
        BY <2>1
<1> HIDE DEF against, lost
<1>8. CASE s = NoScope \/ s = lost
    BY <1>8, <1>2, <1>3
<1>9. CASE /\ base # "auto" /\ BaseSHA(c, base) # Missing
           /\ \E f : s = withPolicyGuard(c, "explicit", against, named.sha, f, files)
    BY <1>9, <1>5, GuardedScope
<1>10. CASE target # NoTarget /\ \E mode, b, f : s = withPolicyGuard(c, mode, target, b, f, files)
    BY <1>10, <1>6, GuardedScope
<1> QED
    BY <1>7, <1>8, <1>9, <1>10

\* What a scope means stays when the clone only gains commits.
LEMMA MeaningStays ==
    ASSUME NEW c, NEW d, Outgrows(c, d), NEW s, NEW files, ScopeMeans(c, s, files)
    PROVE  ScopeMeans(d, s, files)
    BY DEF Outgrows, ScopeMeans, Differs, Protects, FileAt

\* A new commit, and a branch that points to it, make a clone again.
LEMMA CloneGrows ==
    ASSUME NEW c, IsClone(c), NEW r \in Commits, r.parents \subseteq DOMAIN c.commits, NEW name \in BranchNames,
           NEW d, \/ d = [c EXCEPT !.commits = Append(c.commits, r), !.local[name] = Len(c.commits) + 1]
                  \/ d = [c EXCEPT !.commits = Append(c.commits, r), !.remote[name] = Len(c.commits) + 1]
    PROVE  IsClone(d) /\ Outgrows(c, d)
<1> DEFINE S == Commits
<1> HIDE DEF S
<1>1. c.commits \in Seq(S) /\ r \in S
    BY DEF S, IsClone
<1>2. /\ Append(c.commits, r) \in Seq(S)
      /\ DOMAIN Append(c.commits, r) = DOMAIN c.commits \cup {Len(c.commits) + 1}
      /\ \A k \in DOMAIN c.commits : Append(c.commits, r)[k] = c.commits[k]
      /\ Append(c.commits, r)[Len(c.commits) + 1] = r
      /\ DOMAIN c.commits = 1..Len(c.commits) /\ Len(c.commits) \in Nat
    BY <1>1
<1> DEFINE more == Append(c.commits, r)
<1> HIDE DEF more
<1>3. c.local \in BranchTips /\ c.remote \in BranchTips
    BY DEF IsClone
<1>4. \A f \in BranchTips : [f EXCEPT ![name] = Len(c.commits) + 1] \in BranchTips
    BY <1>2 DEF BranchTips
<1>5. /\ d.commits = more /\ d.tracked = c.tracked
      /\ d.local \in {c.local, [c.local EXCEPT ![name] = Len(c.commits) + 1]}
      /\ d.remote \in {c.remote, [c.remote EXCEPT ![name] = Len(c.commits) + 1]}
    BY DEF IsClone, more
<1>6. d \in [commits : Seq(Commits), local : BranchTips, remote : BranchTips,
             originHead : BranchNames \cup {Unnamed}, on : BranchNames, tracked : BOOLEAN]
    <2> DEFINE T == BranchTips  Q == Seq(S)
    <2>1. more \in Q
        BY <1>2 DEF more
    <2>2. c \in [commits : Q, local : T, remote : T,
             originHead : BranchNames \cup {Unnamed}, on : BranchNames, tracked : BOOLEAN]
        BY DEF IsClone, S
    <2>3. \A f \in T : [f EXCEPT ![name] = Len(c.commits) + 1] \in T
        BY <1>4
    <2>4. \/ d = [c EXCEPT !.commits = more, !.local = [c.local EXCEPT ![name] = Len(c.commits) + 1]]
          \/ d = [c EXCEPT !.commits = more, !.remote = [c.remote EXCEPT ![name] = Len(c.commits) + 1]]
        BY <2>2 DEF more
    <2> HIDE DEF T, Q
    <2>5. d \in [commits : Q, local : T, remote : T,
             originHead : BranchNames \cup {Unnamed}, on : BranchNames, tracked : BOOLEAN]
        BY <2>1, <2>2, <2>3, <2>4
    <2> QED
        BY <2>5 DEF Q, T, S
<1>7. \A k \in DOMAIN d.commits : d.commits[k].parents \subseteq 1..(k - 1)
    <2> SUFFICES ASSUME NEW k \in DOMAIN more PROVE more[k].parents \subseteq 1..(k - 1)
        BY <1>5
    <2>1. CASE k \in DOMAIN c.commits
        <3>1. more[k] = c.commits[k]
            BY <2>1, <1>2 DEF more
        <3>2. c.commits[k].parents \subseteq 1..(k - 1)
            BY <2>1 DEF IsClone
        <3> QED
            BY <3>1, <3>2
    <2>2. CASE k = Len(c.commits) + 1
        <3>1. more[k] = r /\ k - 1 = Len(c.commits)
            BY <2>2, <1>2 DEF more
        <3> QED
            BY <3>1, <1>2
    <2> QED
        BY <2>1, <2>2, <1>2 DEF more
<1>8. \A n \in BranchNames : {d.local[n], d.remote[n]} \subseteq {Missing} \cup DOMAIN d.commits
    <2> SUFFICES ASSUME NEW n \in BranchNames PROVE {d.local[n], d.remote[n]} \subseteq {Missing} \cup DOMAIN d.commits
        OBVIOUS
    <2>1. {c.local[n], c.remote[n]} \subseteq {Missing} \cup DOMAIN c.commits
        BY DEF IsClone
    <2>2. /\ d.local[n] \in {c.local[n], Len(c.commits) + 1}
          /\ d.remote[n] \in {c.remote[n], Len(c.commits) + 1}
        BY <1>3, <1>5 DEF BranchTips
    <2> QED
        BY <2>1, <2>2, <1>2, <1>5 DEF more
<1> QED
    BY <1>2, <1>5, <1>6, <1>7, <1>8 DEF IsClone, Outgrows, more

LEMMA TreesAreTyped ==
    ASSUME NEW c, IsClone(c), NEW k \in DOMAIN c.commits
    PROVE  /\ c.commits[k] \in Commits /\ c.commits[k].tree \in PolicyTrees
           /\ k \in Nat /\ k # Missing
<1> DEFINE S == Commits
<1>1. c.commits \in Seq(S)
    BY DEF IsClone
<1> HIDE DEF S
<1>2. c.commits[k] \in S /\ k \in Nat
    BY <1>1
<1>3. c.commits[k] \in Commits
    BY <1>2 DEF S
<1> QED
    BY <1>2, <1>3, GuardAssumption DEF Commits

LEMMA CloneStays ==
    ASSUME NEW c, NEW d, NEW x, c = d, ScopeHolds(c, x)
    PROVE  ScopeHolds(d, x)
    OBVIOUS

LEMMA HoldsGrown ==
    ASSUME NEW c, NEW d, Outgrows(c, d), NEW x, ScopeHolds(c, x)
    PROVE  ScopeHolds(d, x)
    BY MeaningStays DEF ScopeHolds

LEMMA GuardStarts == GuardInit => GuardInv
<1> SUFFICES ASSUME GuardInit PROVE GuardInv
    OBVIOUS
<1>1. IsClone(clone) /\ check = NoCheck
    BY GuardAssumption DEF GuardInit
<1>2. CASE HeadOf(clone) = Missing
    <2>1. ondisk = [p \in PolicyPaths |-> Missing]
        BY <1>2 DEF GuardInit
    <2> QED
        BY <2>1, <1>1 DEF GuardInv, PolicyTrees, PolicyPaths
<1>3. CASE HeadOf(clone) # Missing
    <2>1. ondisk = clone.commits[HeadOf(clone)].tree
        BY <1>3 DEF GuardInit
    <2>2. HeadOf(clone) \in DOMAIN clone.commits
        BY <1>1, <1>3 DEF IsClone, HeadOf
    <2> QED
        BY <2>1, <2>2, <1>1, TreesAreTyped DEF GuardInv
<1> QED
    BY <1>2, <1>3

\* The steps of a check leave the clone and the disk alone.
LEMMA ChecksProceed ==
    ASSUME GuardInv, NEW x, Proceed(x), IsCheck(x),
           x.kind = "check" => ReadHolds(x) /\ JudgedHolds(x) /\ ReasonHolds(x) /\ ScopeHolds(clone, x)
    PROVE  GuardInv'
<1>1. check' = x /\ clone' = clone /\ ondisk' = ondisk
    BY DEF Proceed
<1>2. IsCheck(check)'
    BY <1>1 DEF IsCheck
<1>3. (check.kind = "check" => ReadHolds(check))'
    BY <1>1 DEF ReadHolds
<1>4. (check.kind = "check" => JudgedHolds(check))'
    BY <1>1 DEF JudgedHolds
<1>5. (check.kind = "check" => ReasonHolds(check))'
    BY <1>1 DEF ReasonHolds
<1>6. (check.kind = "check" => ScopeHolds(clone, check))'
    BY <1>1 DEF ScopeHolds
<1>7. IsClone(clone)' /\ (ondisk \in PolicyTrees)'
    BY <1>1 DEF GuardInv
<1> QED
    BY <1>2, <1>3, <1>4, <1>5, <1>6, <1>7 DEF GuardInv

LEMMA GuardLoadKeeps ==
    ASSUME GuardInv, NEW kind \in {"check", "unborn"}, NEW asked \in Asked \cup {Unnamed}, NEW base \in Bases \cup {"auto"}, LoadConfig(kind, asked, base)
    PROVE  GuardInv'
<1> DEFINE x == [pc |-> IF kind = "unborn" THEN "resolved" ELSE "loaded", kind |-> kind, asked |-> asked, base |-> base,
                declared |-> DeclaredIn(ondisk["config"]), policy |-> ondisk, scope |-> NoScope,
                config |-> Missing, under |-> ondisk, view |-> Missing, outcome |-> "none", reason |-> Unnamed, late |-> {}]
<1>1. Proceed(x)
    BY DEF LoadConfig
<1>2. DeclaredIn(ondisk["config"]) \in BranchNames \cup {Unnamed}
    BY GuardAssumption DEF GuardInv, PolicyTrees, DeclaredIn
<1>3. IsCheck(x)
    BY <1>2 DEF IsCheck, CheckShape, GuardInv, NoScope
<1>4. x.kind = "check" => x.pc = "loaded" /\ x.scope = NoScope
    OBVIOUS
<1> HIDE DEF x
<1> QED
    BY <1>1, <1>3, <1>4, ChecksProceed DEF ReadHolds, JudgedHolds, ReasonHolds, ScopeHolds

LEMMA GuardReadKeeps == ASSUME GuardInv, ReadPolicy PROVE GuardInv'
<1> DEFINE x == [check EXCEPT !.pc = "read", !.policy = ondisk, !.late = {}]
<1>1. Proceed(x) /\ IsCheck(check) /\ ondisk \in PolicyTrees
    BY DEF ReadPolicy, Reached, GuardInv
<1>2. IsCheck(x) /\ x.pc = "read" /\ x.policy = ondisk
    BY <1>1 DEF IsCheck, CheckShape
<1>3. check.kind = "check" => check.scope = NoScope
    BY DEF ReadPolicy, Reached, GuardInv, ScopeHolds
<1>4. x.kind = check.kind /\ x.scope = check.scope
    BY <1>1 DEF IsCheck, CheckShape
<1> HIDE DEF x
<1> QED
    BY <1>1, <1>2, <1>3, <1>4, ChecksProceed DEF ReadHolds, JudgedHolds, ReasonHolds, ScopeHolds

LEMMA ResolveKeeps == ASSUME GuardInv, Resolve PROVE GuardInv'
<1>1. PICK s \in ResolveScope(clone, check.asked, check.declared, check.base, check.policy) :
         Proceed([check EXCEPT !.pc = "resolved", !.scope = s])
    BY DEF Resolve
<1> DEFINE x == [check EXCEPT !.pc = "resolved", !.scope = s]
<1>2. IsCheck(check) /\ check.pc = "read" /\ IsClone(clone)
    BY DEF Resolve, Reached, GuardInv
<1>3. ScopeMeans(clone, s, check.policy) /\ s.unresolved \in BOOLEAN
    BY <1>2, ScopesMean DEF IsCheck, CheckShape
<1>4. /\ x.pc = "resolved" /\ x.scope = s /\ x.policy = check.policy /\ x.late = check.late /\ x.kind = check.kind
      /\ IsCheck(x)
    BY <1>2, <1>3 DEF IsCheck, CheckShape
<1>5. x.kind = "check" => ReadHolds(x)
    BY <1>2, <1>4 DEF GuardInv, ReadHolds, Resolve, Reached
<1>6. JudgedHolds(x) /\ ReasonHolds(x) /\ ScopeHolds(clone, x)
    BY <1>3, <1>4 DEF JudgedHolds, ReasonHolds, ScopeHolds
<1>7. Proceed(x)
    BY <1>1
<1> HIDE DEF x
<1> QED
    BY <1>4, <1>5, <1>6, <1>7, ChecksProceed

LEMMA ScanKeeps == ASSUME GuardInv, executeScan PROVE GuardInv'
<1> DEFINE x == [check EXCEPT !.pc = "scanning", !.config = ondisk["config"]]
<1>1. IsCheck(check) /\ check.pc = "resolved" /\ ondisk["config"] \in {Missing} \cup ConfigTexts
    BY DEF executeScan, Reached, GuardInv, PolicyTrees
<1>2. check.kind = "check" => ReadHolds(check) /\ ScopeHolds(clone, check)
    BY DEF GuardInv, executeScan, Reached
<1>3. Proceed(x)
    BY DEF executeScan
<1>4. /\ IsCheck(x) /\ x.pc = "scanning" /\ x.config = ondisk["config"] /\ x.kind = check.kind
      /\ x.scope = check.scope /\ x.policy = check.policy /\ x.late = check.late
    BY <1>1 DEF IsCheck, CheckShape
<1>5. x.kind = "check" => ReadHolds(x) /\ JudgedHolds(x) /\ ReasonHolds(x) /\ ScopeHolds(clone, x)
    BY <1>4, <1>1, <1>2 DEF ReadHolds, JudgedHolds, ReasonHolds, ScopeHolds, PolicyPaths
<1> HIDE DEF x
<1> QED
    BY <1>3, <1>4, <1>5, ChecksProceed

LEMMA FailsKeeps == ASSUME GuardInv, CheckFails PROVE GuardInv'
<1> DEFINE x == [check EXCEPT !.pc = "ended", !.outcome = "error"]
<1>1. IsCheck(check) /\ Proceed(x)
    BY DEF CheckFails, GuardInv
<1>2. /\ IsCheck(x) /\ x.pc = "ended" /\ x.outcome = "error" /\ x.kind = check.kind
      /\ x.scope = check.scope /\ x.policy = check.policy
    BY <1>1 DEF IsCheck, CheckShape
<1> HIDE DEF x
<1>3. ReadHolds(x) /\ JudgedHolds(x) /\ ReasonHolds(x)
    BY <1>2 DEF ReadHolds, JudgedHolds, ReasonHolds
<1>4. x.kind = "check" => ScopeHolds(clone, x)
    BY <1>2 DEF GuardInv, CheckFails, ScopeHolds, ScopeMeans
<1> QED
    BY <1>1, <1>2, <1>3, <1>4, ChecksProceed

LEMMA AssessKeeps == ASSUME GuardInv, assess PROVE GuardInv'
<1> DEFINE under == [p \in PolicyPaths |-> IF p = "config" THEN check.config ELSE ondisk[p]]
<1>1. PICK o \in {"pass", "warn", "fail"} : Proceed([check EXCEPT !.pc = "judged", !.outcome = o, !.under = under])
    BY DEF assess
<1>2. IsCheck(check) /\ check.pc = "scanning" /\ ondisk \in PolicyTrees
    BY DEF assess, Reached, GuardInv
<1>3. check.kind = "check" => ReadHolds(check) /\ ScopeHolds(clone, check)
    BY DEF GuardInv, assess, Reached
<1>4. under \in PolicyTrees
    BY <1>2, GuardAssumption DEF IsCheck, CheckShape, PolicyTrees, PolicyPaths
<1>5. check.kind = "check" => \A p \in PolicyPaths \ check.late : under[p] = check.policy[p]
    BY <1>2, <1>3 DEF ReadHolds
<1> HIDE DEF under
<1> DEFINE x == [check EXCEPT !.pc = "judged", !.outcome = o, !.under = under]
<1>6. /\ IsCheck(x) /\ x.pc = "judged" /\ x.kind = check.kind /\ x.under = under
      /\ x.scope = check.scope /\ x.policy = check.policy /\ x.late = check.late
    BY <1>2, <1>4 DEF IsCheck, CheckShape
<1>7. x.kind = "check" => ReadHolds(x) /\ JudgedHolds(x) /\ ReasonHolds(x) /\ ScopeHolds(clone, x)
    BY <1>6, <1>2, <1>3, <1>5 DEF ReadHolds, JudgedHolds, ReasonHolds, ScopeHolds
<1>8. Proceed(x)
    BY <1>1
<1> HIDE DEF x
<1> QED
    BY <1>6, <1>7, <1>8, ChecksProceed

LEMMA ApplyKeeps == ASSUME GuardInv, applyScope PROVE GuardInv'
<1> DEFINE s == check.scope
           reason == IF s.changed # {} THEN "changed" ELSE IF s.stale # {} THEN "stale"
                     ELSE IF s.unresolved THEN "unresolved" ELSE Unnamed
           view == measureUnderTargetPolicy(s)
           x == [check EXCEPT !.pc = "ended", !.view = view, !.reason = reason]
<1>1. Proceed(x)
    BY DEF applyScope
<1>2. IsCheck(check) /\ check.pc = "judged"
    BY DEF applyScope, Reached, GuardInv
<1>3. check.kind = "check" => JudgedHolds(check) /\ ScopeHolds(clone, check)
    BY DEF GuardInv, applyScope, Reached
<1>4. /\ reason \in {Unnamed, "changed", "stale", "unresolved"}
      /\ reason = Unnamed => s.changed \cup s.stale = {} /\ ~s.unresolved
    <2>1. Unnamed \notin {"changed", "stale", "unresolved"}
        BY Zenon DEF Unnamed
    <2> QED
        BY <2>1
<1> HIDE DEF reason, view
<1>5. /\ x \in CheckShape(check.scope, view) /\ x.view = view /\ x.outcome = check.outcome
      /\ x.pc = "ended" /\ x.kind = check.kind /\ x.under = check.under /\ x.reason = reason
      /\ x.scope = check.scope /\ x.policy = check.policy /\ x.late = check.late
    BY <1>2, <1>4 DEF IsCheck, CheckShape
<1>6. IsCheck(x)
    BY <1>2, <1>5 DEF IsCheck
<1>7. x.kind = "check" => ReadHolds(x) /\ JudgedHolds(x) /\ ReasonHolds(x) /\ ScopeHolds(clone, x)
    BY <1>5, <1>2, <1>3, <1>4 DEF ReadHolds, JudgedHolds, ReasonHolds, ScopeHolds
<1> HIDE DEF x
<1> QED
    BY <1>1, <1>5, <1>6, <1>7, ChecksProceed

\* While the check stands as it is, the clone may grow.
LEMMA CloneMayGrow ==
    ASSUME GuardInv, UNCHANGED <<ondisk, check>>, IsClone(clone'), Outgrows(clone, clone')
    PROVE  GuardInv'
<1>1. (check # NoCheck => IsCheck(check))'
    BY DEF GuardInv, IsCheck
<1>2. (check # NoCheck /\ check.kind = "check" => ReadHolds(check) /\ JudgedHolds(check) /\ ReasonHolds(check))'
    BY DEF GuardInv, ReadHolds, JudgedHolds, ReasonHolds
<1>3. (check # NoCheck /\ check.kind = "check" => ScopeHolds(clone, check))'
    BY HoldsGrown DEF GuardInv
<1>4. IsClone(clone)' /\ (ondisk \in PolicyTrees)'
    BY DEF GuardInv
<1> QED
    BY <1>1, <1>2, <1>3, <1>4 DEF GuardInv

LEMMA GuardEditKeeps ==
    ASSUME GuardInv, NEW p \in PolicyPaths, NEW text, EditPolicy(p, text)
    PROVE  GuardInv'
<1>1. clone' = clone /\ ondisk' \in PolicyTrees /\ ondisk' = [ondisk EXCEPT ![p] = text]
    BY DEF EditPolicy
<1>2. CASE check = NoCheck
    BY <1>1, <1>2 DEF EditPolicy, GuardInv
<1>3. CASE check # NoCheck
    <2>0. PICK x : x = [check EXCEPT !.late = @ \cup {p}]
        OBVIOUS
    <2>1. check' = x /\ IsCheck(check)
        BY <1>3, <2>0 DEF EditPolicy, GuardInv
    <2>2. /\ IsCheck(x) /\ x.pc = check.pc /\ x.kind = check.kind /\ x.under = check.under /\ x.reason = check.reason
          /\ x.scope = check.scope /\ x.policy = check.policy /\ x.late = check.late \cup {p}
          /\ x.config = check.config /\ x.outcome = check.outcome
        BY <2>0, <2>1 DEF IsCheck, CheckShape
    <2>3. \A q \in PolicyPaths \ {p} : ondisk'[q] = ondisk[q]
        BY <1>1 DEF GuardInv, PolicyTrees
    <2>4. IsCheck(check)'
        BY <2>1, <2>2 DEF IsCheck
    <2>5. (check.kind = "check" => ReadHolds(check))'
        BY <1>3, <2>1, <2>2, <2>3 DEF GuardInv, ReadHolds
    <2>6. (check.kind = "check" => JudgedHolds(check))'
        BY <1>3, <2>1, <2>2 DEF GuardInv, JudgedHolds
    <2>7. (check.kind = "check" => ReasonHolds(check))'
        BY <1>3, <2>1, <2>2 DEF GuardInv, ReasonHolds
    <2>8. (check.kind = "check" => ScopeHolds(clone, check))'
        BY <1>1, <1>3, <2>1, <2>2 DEF GuardInv, ScopeHolds
    <2>9. IsClone(clone)' /\ (ondisk \in PolicyTrees)'
        BY <1>1 DEF GuardInv
    <2> QED
        BY <2>4, <2>5, <2>6, <2>7, <2>8, <2>9 DEF GuardInv
<1> QED
    BY <1>2, <1>3

LEMMA CommitKeeps == ASSUME GuardInv, CommitPolicy PROVE GuardInv'
<1> DEFINE head == HeadOf(clone)
           wrote == {p \in PolicyPaths : head = Missing \/ ondisk[p] # FileAt(clone, head, p)}
           parents == IF head = Missing THEN {} ELSE {head}
           r == [parents |-> parents, tree |-> ondisk, wrote |-> wrote]
<1>1. /\ clone' = [clone EXCEPT !.commits = Append(clone.commits, r), !.local[clone.on] = Len(clone.commits) + 1]
      /\ UNCHANGED <<ondisk, check>> /\ IsClone(clone)
    BY DEF CommitPolicy, Grow, GuardInv
<1>2. clone.on \in BranchNames /\ parents \subseteq DOMAIN clone.commits
    BY <1>1 DEF IsClone, HeadOf
<1>3. r \in Commits
    <2>1. parents \subseteq Nat
        BY <1>1, <1>2, TreesAreTyped
    <2> HIDE DEF parents
    <2> QED
        BY <2>1 DEF Commits, GuardInv
<1> DEFINE on == clone.on
<1> HIDE DEF r, on
<1>4. clone' = [clone EXCEPT !.commits = Append(clone.commits, r), !.local[on] = Len(clone.commits) + 1]
    BY <1>1 DEF on
<1>5. r.parents \subseteq DOMAIN clone.commits /\ on \in BranchNames
    BY <1>2 DEF r, on
<1>6. IsClone(clone') /\ Outgrows(clone, clone')
    BY <1>1, <1>3, <1>4, <1>5, CloneGrows
<1> QED
    BY <1>1, <1>6, CloneMayGrow

LEMMA FetchKeeps ==
    ASSUME GuardInv, NEW name \in BranchNames, NEW p \in PolicyPaths, NEW text, Fetch(name, p, text)
    PROVE  GuardInv'
<1> DEFINE tip == clone.remote[name]
           tree == [clone.commits[tip].tree EXCEPT ![p] = text]
           r == [parents |-> {tip}, tree |-> tree, wrote |-> {p}]
<1>1. /\ clone' = [clone EXCEPT !.commits = Append(clone.commits, r), !.remote[name] = Len(clone.commits) + 1]
      /\ UNCHANGED <<ondisk, check>> /\ IsClone(clone) /\ tree \in PolicyTrees /\ tip # Missing
    BY DEF Fetch, Grow, GuardInv
<1>2. tip \in DOMAIN clone.commits
    BY <1>1 DEF IsClone
<1>3. r \in Commits
    <2>1. tip \in Nat
        BY <1>1, <1>2, TreesAreTyped
    <2> HIDE DEF tree, tip
    <2> QED
        BY <2>1, <1>1 DEF Commits
<1>4. r.parents \subseteq DOMAIN clone.commits
    BY <1>2
<1> HIDE DEF r
<1>5. IsClone(clone') /\ Outgrows(clone, clone')
    BY <1>1, <1>3, <1>4, CloneGrows
<1> QED
    BY <1>1, <1>5, CloneMayGrow

\* A branch that moves to another commit.
LEMMA BranchMoves ==
    ASSUME NEW c, IsClone(c), NEW name \in BranchNames, NEW k \in DOMAIN c.commits,
           NEW d, d = [c EXCEPT !.local[name] = k] \/ d = [c EXCEPT !.remote[name] = k]
    PROVE  IsClone(d) /\ Outgrows(c, d)
<1>1. c.local \in BranchTips /\ c.remote \in BranchTips /\ k \in Nat
    BY TreesAreTyped DEF IsClone
<1>2. [c.local EXCEPT ![name] = k] \in BranchTips /\ [c.remote EXCEPT ![name] = k] \in BranchTips
    BY <1>1 DEF BranchTips
<1>3. /\ d.commits = c.commits /\ d.tracked = c.tracked
      /\ d.local \in {c.local, [c.local EXCEPT ![name] = k]}
      /\ d.remote \in {c.remote, [c.remote EXCEPT ![name] = k]}
    BY DEF IsClone
<1>4. d \in [commits : Seq(Commits), local : BranchTips, remote : BranchTips,
             originHead : BranchNames \cup {Unnamed}, on : BranchNames, tracked : BOOLEAN]
    <2> DEFINE T == BranchTips  Q == Seq(Commits)
    <2>1. c \in [commits : Q, local : T, remote : T,
             originHead : BranchNames \cup {Unnamed}, on : BranchNames, tracked : BOOLEAN]
        BY DEF IsClone
    <2>2. /\ [c.local EXCEPT ![name] = k] \in T /\ [c.remote EXCEPT ![name] = k] \in T
        BY <1>2
    <2>3. \/ d = [c EXCEPT !.local = [c.local EXCEPT ![name] = k]]
          \/ d = [c EXCEPT !.remote = [c.remote EXCEPT ![name] = k]]
        OBVIOUS
    <2> HIDE DEF T, Q
    <2>4. d \in [commits : Q, local : T, remote : T,
             originHead : BranchNames \cup {Unnamed}, on : BranchNames, tracked : BOOLEAN]
        BY <2>1, <2>2, <2>3
    <2> QED
        BY <2>4 DEF Q, T
<1>5. \A n \in BranchNames : {d.local[n], d.remote[n]} \subseteq {Missing} \cup DOMAIN d.commits
    <2> SUFFICES ASSUME NEW n \in BranchNames PROVE {d.local[n], d.remote[n]} \subseteq {Missing} \cup DOMAIN d.commits
        OBVIOUS
    <2>1. {c.local[n], c.remote[n]} \subseteq {Missing} \cup DOMAIN c.commits
        BY DEF IsClone
    <2>2. d.local[n] \in {c.local[n], k} /\ d.remote[n] \in {c.remote[n], k}
        BY <1>1, <1>3 DEF BranchTips
    <2> QED
        BY <2>1, <2>2, <1>3
<1>6. \A j \in DOMAIN d.commits : d.commits[j].parents \subseteq 1..(j - 1)
    BY <1>3 DEF IsClone
<1> QED
    BY <1>3, <1>4, <1>5, <1>6 DEF IsClone, Outgrows

LEMMA PushKeeps == ASSUME GuardInv, PushBranch PROVE GuardInv'
<1>1. IsClone(clone) /\ UNCHANGED <<ondisk, check>>
    BY DEF GuardInv, PushBranch
<1> DEFINE on == clone.on  head == HeadOf(clone)
<1>2. on \in BranchNames /\ head \in DOMAIN clone.commits
    BY <1>1 DEF PushBranch, IsClone, HeadOf
<1>3. clone' = [clone EXCEPT !.remote[on] = head]
    BY DEF PushBranch
<1> HIDE DEF on, head
<1>4. IsClone(clone') /\ Outgrows(clone, clone')
    BY <1>1, <1>2, <1>3, BranchMoves
<1> QED
    BY <1>1, <1>4, CloneMayGrow

LEMMA MergeKeeps ==
    ASSUME GuardInv, NEW sha \in DOMAIN clone.commits, MergeIn(sha)
    PROVE  GuardInv'
<1> DEFINE head == HeadOf(clone)  on == clone.on
           ours == clone.commits[head].tree
           theirs == clone.commits[sha].tree
<1>1. IsClone(clone) /\ check' = check /\ check = NoCheck /\ head # Missing
    BY DEF GuardInv, MergeIn
<1>2. on \in BranchNames /\ head \in DOMAIN clone.commits
    BY <1>1 DEF IsClone, HeadOf
<1>3. IF IsAncestor(clone, head, sha)
      THEN clone' = [clone EXCEPT !.local[on] = sha] /\ ondisk' = theirs
      ELSE \E tree \in PolicyTrees, wrote \in SUBSET PolicyPaths :
             /\ clone' = [clone EXCEPT !.commits = Append(clone.commits, [parents |-> {head, sha}, tree |-> tree, wrote |-> wrote]),
                                       !.local[on] = Len(clone.commits) + 1]
             /\ ondisk' = tree
    <2>1. CASE IsAncestor(clone, head, sha)
        BY <2>1 DEF MergeIn
    <2>2. CASE ~IsAncestor(clone, head, sha)
        <3> DEFINE settled == [p \in PolicyPaths |-> Settled(p, ours, theirs, ForkTexts(clone, MergeBases(clone, head, sha), p))]
                   wrote == {p \in PolicyPaths : Cardinality(settled[p]) > 1}
        <3>1. PICK tree \in PolicyTrees :
                 /\ clone' = [clone EXCEPT !.commits = Append(clone.commits, [parents |-> {head, sha}, tree |-> tree, wrote |-> wrote]),
                                           !.local[on] = Len(clone.commits) + 1]
                 /\ ondisk' = tree
            BY <2>2, Zenon DEF MergeIn, Grow
        <3>2. wrote \in SUBSET PolicyPaths
            OBVIOUS
        <3> HIDE DEF wrote
        <3> QED
            BY <2>2, <3>1, <3>2
    <2> QED
        BY <2>1, <2>2
<1>4. CASE IsAncestor(clone, head, sha)
    <2>1. clone' = [clone EXCEPT !.local[on] = sha] /\ ondisk' = theirs
        BY <1>3, <1>4
    <2> HIDE DEF on
    <2>2. IsClone(clone')
        BY <1>1, <1>2, <2>1, BranchMoves
    <2>3. ondisk' \in PolicyTrees
        BY <1>1, <2>1, TreesAreTyped
    <2> QED
        BY <1>1, <2>2, <2>3 DEF GuardInv
<1>5. CASE ~IsAncestor(clone, head, sha)
    <2>1. PICK tree \in PolicyTrees, wrote \in SUBSET PolicyPaths :
                /\ clone' = [clone EXCEPT !.commits = Append(clone.commits, [parents |-> {head, sha}, tree |-> tree, wrote |-> wrote]),
                                          !.local[on] = Len(clone.commits) + 1]
                /\ ondisk' = tree
        BY <1>3, <1>5
    <2> DEFINE r == [parents |-> {head, sha}, tree |-> tree, wrote |-> wrote]
    <2>2. head \in Nat /\ sha \in Nat
        BY <1>1, <1>2, TreesAreTyped
    <2>3. r \in Commits /\ r.parents \subseteq DOMAIN clone.commits
        BY <1>2, <2>2 DEF Commits
    <2> HIDE DEF on, r
    <2>4. clone' = [clone EXCEPT !.commits = Append(clone.commits, r), !.local[on] = Len(clone.commits) + 1]
        BY <2>1 DEF r
    <2>5. IsClone(clone')
        BY <1>1, <1>2, <2>3, <2>4, CloneGrows
    <2> QED
        BY <1>1, <2>1, <2>5 DEF GuardInv
<1> QED
    BY <1>4, <1>5

LEMMA GuardSteps == GuardInv /\ [GuardNext]_guardVars => GuardInv'
<1> SUFFICES ASSUME GuardInv, [GuardNext]_guardVars PROVE GuardInv'
    OBVIOUS
<1>1. CASE \E asked \in Asked, base \in Bases : LoadConfig("check", asked, base)
    <2>1. PICK asked \in Asked, base \in Bases : LoadConfig("check", asked, base)
        BY <1>1
    <2> QED
        BY <2>1, GuardLoadKeeps
<1>2. CASE LoadConfig("unborn", Unnamed, "auto")
    BY <1>2, GuardLoadKeeps, GuardAssumption
<1>3. CASE ReadPolicy
    BY <1>3, GuardReadKeeps
<1>4. CASE Resolve
    BY <1>4, ResolveKeeps
<1>5. CASE executeScan
    BY <1>5, ScanKeeps
<1>6. CASE assess
    BY <1>6, AssessKeeps
<1>7. CASE applyScope
    BY <1>7, ApplyKeeps
<1>8. CASE \E p \in PolicyPaths, text \in {Missing} \cup ConfigTexts \cup BundleTexts :
         EditPolicy(p, text) \/ \E name \in BranchNames : Fetch(name, p, text)
    BY <1>8, GuardEditKeeps, FetchKeeps
<1>9. CASE CommitPolicy
    BY <1>9, CommitKeeps
<1>10. CASE PushBranch
    BY <1>10, PushKeeps
<1>11. CASE Merge
    <2>1. PICK name \in BranchNames : clone.remote[name] # Missing /\ MergeIn(clone.remote[name])
        BY <1>11 DEF Merge
    <2>2. clone.remote[name] \in DOMAIN clone.commits
        BY <2>1 DEF GuardInv, IsClone
    <2> QED
        BY <2>1, <2>2, MergeKeeps
<1>12. CASE CheckFails
    BY <1>12, FailsKeeps
<1>13. CASE UNCHANGED guardVars
    <2>1. Outgrows(clone, clone')
        BY <1>13 DEF guardVars, Outgrows
    <2> QED
        BY <1>13, <2>1, CloneMayGrow DEF guardVars, GuardInv
<1> QED
    BY <1>1, <1>2, <1>3, <1>4, <1>5, <1>6, <1>7, <1>8, <1>9, <1>10, <1>11, <1>12, <1>13 DEF GuardNext

LEMMA GuardAlways == GuardSpec => []GuardInv
<1> QED
    BY GuardStarts, GuardSteps, PTL DEF GuardSpec

LEMMA PassingExit ==
    \A x : x.outcome \in {"pass", "warn", "fail", "error"} /\ ExitCode(x) = 0 => x.outcome # "error" /\ x.reason = Unnamed
<1> SUFFICES ASSUME NEW x, x.outcome \in {"pass", "warn", "fail", "error"}, ExitCode(x) = 0
             PROVE  x.outcome # "error" /\ x.reason = Unnamed
    OBVIOUS
<1>1. x.outcome = "error" => ExitCode(x) = 3
    BY Zenon DEF ExitCode
<1>2. x.outcome = "fail" => ExitCode(x) = 1
    BY Zenon DEF ExitCode
<1>3. x.outcome = "warn" => ExitCode(x) = 2
    BY Zenon DEF ExitCode
<1>4. x.outcome = "pass" => ExitCode(x) = IF x.reason = Unnamed THEN 0 ELSE 2
    BY Zenon DEF ExitCode
<1> QED
    BY <1>1, <1>2, <1>3, <1>4

\* A check that exits 0 found no policy file changed or stale, and judged what it read.
LEMMA PassHolds == GuardInv => PassIsUnderTarget
<1> SUFFICES ASSUME GuardInv, Reached("ended"), check.kind = "check", ExitCode(check) = 0, check.scope # NoScope
             PROVE  /\ ~check.scope.unresolved
                    /\ Protects(clone, check.scope.target.sha) =>
                         \A p \in PolicyPaths \ check.late : check.under[p] = FileAt(clone, check.scope.target.sha, p)
    BY DEF PassIsUnderTarget
<1>1. IsCheck(check) /\ check.pc = "ended" /\ JudgedHolds(check) /\ ReasonHolds(check) /\ ScopeMeans(clone, check.scope, check.policy)
    BY DEF GuardInv, Reached, ScopeHolds
<1>2. check.outcome # "error" /\ check.reason = Unnamed
    <2>1. check.outcome \in {"pass", "warn", "fail", "error"}
        BY <1>1 DEF IsCheck, CheckShape
    <2> QED
        BY <2>1, PassingExit
<1>3. check.scope.changed \cup check.scope.stale = {} /\ ~check.scope.unresolved
    BY <1>1, <1>2 DEF ReasonHolds
<1>4. \A p \in PolicyPaths : ~Differs(clone, check.scope.target.sha, p, check.policy)
    BY <1>1, <1>3 DEF ScopeMeans
<1>5. \A p \in PolicyPaths \ check.late : check.under[p] = check.policy[p]
    BY <1>1, <1>2 DEF JudgedHolds
<1> QED
    BY <1>3, <1>4, <1>5 DEF Differs

LEMMA Tracked ==
    ASSUME NEW c, c.tracked, trustedDefault(c) # {}, NEW declared
    PROVE  LET defaults == trustedDefault(c)
               default == TheOne(defaults)
               theirs == TargetBranchAt(c, default.sha)
           IN  resolveTarget(c, Unnamed, declared) =
                 IF Cardinality(defaults) > 1 THEN declaredByAll(c, defaults)
                 ELSE IF theirs # Unnamed THEN lookupBranch(c, theirs) ELSE default
<1> DEFINE defaults == trustedDefault(c)
           default == TheOne(defaults)
           theirs == IF c.tracked THEN TargetBranchAt(c, default.sha) ELSE Unnamed
<1>1. resolveTarget(c, Unnamed, declared) =
        IF Unnamed # Unnamed THEN lookupBranch(c, Unnamed)
        ELSE IF (~c.tracked \/ defaults = {}) /\ declared # Unnamed THEN lookupBranch(c, declared)
        ELSE IF defaults = {} THEN NoTarget
        ELSE IF Cardinality(defaults) > 1 THEN declaredByAll(c, defaults)
        ELSE IF theirs # Unnamed THEN lookupBranch(c, theirs)
        ELSE default
    BY Zenon DEF resolveTarget
<1>2. theirs = TargetBranchAt(c, default.sha)
    OBVIOUS
<1> HIDE DEF defaults, default, theirs
<1>3. resolveTarget(c, Unnamed, declared) =
        IF Cardinality(defaults) > 1 THEN declaredByAll(c, defaults)
        ELSE IF theirs # Unnamed THEN lookupBranch(c, theirs) ELSE default
    BY <1>1 DEF defaults
<1> QED
    BY <1>2, <1>3 DEF defaults, default

\* A branch other than the default's, once it has a commit: a commit on it moves no other.
OffMain(c) ==
    /\ HeadOf(c) # Missing /\ c.tracked /\ trustedDefault(c) # {}
    /\ \A d \in trustedDefault(c) : d.ref # <<"local", c.on>>
Advances(c, d) ==
    /\ IsClone(d) /\ Outgrows(c, d)
    /\ d.remote = c.remote /\ d.originHead = c.originHead /\ d.tracked = c.tracked
    /\ d.local[c.on] # Missing /\ \A n \in BranchNames \ {c.on} : d.local[n] = c.local[n]

LEMMA CommitAdvances ==
    ASSUME NEW c, IsClone(c), NEW r \in Commits, r.parents \subseteq DOMAIN c.commits, NEW on, on = c.on
    PROVE  \A d : d = [c EXCEPT !.commits = Append(c.commits, r), !.local[on] = Len(c.commits) + 1] => Advances(c, d)
<1>1. on \in BranchNames /\ c.local \in BranchTips
    BY DEF IsClone
<1>2. Len(c.commits) \in Nat
    <2> DEFINE S == Commits
    <2> HIDE DEF S
    <2>1. c.commits \in Seq(S)
        BY DEF IsClone, S
    <2> QED
        BY <2>1, LenProperties
<1>3. PICK k : k = Len(c.commits) + 1
    OBVIOUS
<1>4. k # Missing
    <2>1. k \in Nat
        BY <1>2, <1>3
    <2>2. Missing \notin Nat
        BY Zenon, GuardAssumption
    <2> QED
        BY <2>1, <2>2, Zenon
<1> SUFFICES ASSUME NEW d, d = [c EXCEPT !.commits = Append(c.commits, r), !.local[on] = Len(c.commits) + 1]
             PROVE  Advances(c, d)
    OBVIOUS
<1>5. Outgrows(c, d) /\ IsClone(d)
    BY <1>1, CloneGrows
<1>6. /\ d.remote = c.remote /\ d.originHead = c.originHead /\ d.tracked = c.tracked
      /\ d.local = [c.local EXCEPT ![on] = k]
    BY <1>3 DEF IsClone
<1>7. d.local[on] = k /\ \A n \in BranchNames \ {on} : d.local[n] = c.local[n]
    BY <1>1, <1>6 DEF BranchTips
<1> QED
    BY <1>4, <1>5, <1>6, <1>7 DEF Advances

LEMMA CommitMovesNoTarget ==
    ASSUME NEW c, NEW d, IsClone(c), OffMain(c), Advances(c, d),
           NEW from \in BranchNames \cup {Unnamed}, NEW to \in BranchNames \cup {Unnamed}
    PROVE  resolveTarget(c, Unnamed, from).ref = resolveTarget(d, Unnamed, to).ref
<1>1. Outgrows(c, d) /\ IsClone(d)
    BY DEF Advances
<1>2. /\ d.remote = c.remote /\ d.originHead = c.originHead /\ d.tracked = c.tracked /\ c.tracked
      /\ c.on \in BranchNames /\ c.local[c.on] # Missing /\ trustedDefault(c) # {}
    BY DEF IsClone, HeadOf, Advances, OffMain
<1>4. d.local[c.on] # Missing /\ \A n \in BranchNames \ {c.on} : d.local[n] = c.local[n]
    BY DEF Advances
<1>5. \A n \in BranchNames : lookupBranch(d, n).ref = lookupBranch(c, n).ref
    BY <1>2, <1>4 DEF lookupBranch, NoTarget
<1>6. \A n \in BranchNames : n # c.on \/ c.remote[n] # Missing => lookupBranch(d, n) = lookupBranch(c, n)
    BY <1>2, <1>4 DEF lookupBranch, NoTarget
<1>7. c.remote[c.on] = Missing => lookupBranch(c, c.on).ref = <<"local", c.on>> /\ lookupBranch(c, c.on) # NoTarget
    BY <1>2 DEF lookupBranch, NoTarget
<1>8. trustedDefault(d) = trustedDefault(c)
    <2>1. CASE c.originHead # Unnamed /\ c.remote[c.originHead] # Missing
        BY <2>1, <1>2 DEF trustedDefault
    <2>2. CASE ~(c.originHead # Unnamed /\ c.remote[c.originHead] # Missing)
        <3>1. /\ trustedDefault(c) = {lookupBranch(c, name) : name \in {"main", "master"}} \ {NoTarget}
              /\ trustedDefault(d) = {lookupBranch(d, name) : name \in {"main", "master"}} \ {NoTarget}
            BY <2>2, <1>2 DEF trustedDefault
        <3>2. \A n \in {"main", "master"} : n # c.on \/ c.remote[n] # Missing
            BY <3>1, <1>7 DEF OffMain
        <3>3. \A n \in {"main", "master"} : lookupBranch(d, n) = lookupBranch(c, n)
            BY <3>2, <1>6, GuardAssumption
        <3> QED
            BY <3>1, <3>3
    <2> QED
        BY <2>1, <2>2
<1>9. \A t \in trustedDefault(c) : /\ TargetBranchAt(d, t.sha) = TargetBranchAt(c, t.sha)
                                   /\ TargetBranchAt(c, t.sha) \in BranchNames \cup {Unnamed}
    <2> SUFFICES ASSUME NEW t \in trustedDefault(c)
                 PROVE  /\ TargetBranchAt(d, t.sha) = TargetBranchAt(c, t.sha)
                        /\ TargetBranchAt(c, t.sha) \in BranchNames \cup {Unnamed}
        OBVIOUS
    <2>1. t.sha \in DOMAIN c.commits
        BY DefaultIsTip DEF IsTip
    <2>2. TargetBranchAt(c, t.sha) \in BranchNames \cup {Unnamed}
        BY <2>1, DeclaredAtTip
    <2>3. d.commits[t.sha] = c.commits[t.sha]
        BY <2>1, <1>1 DEF Outgrows
    <2>4. TargetBranchAt(d, t.sha) = TargetBranchAt(c, t.sha)
        BY <2>3, Zenon DEF TargetBranchAt, FileAt
    <2> QED
        BY <2>2, <2>4
<1> DEFINE defaults == trustedDefault(c)
           default == TheOne(defaults)
           theirs == TargetBranchAt(c, default.sha)
<1>10. default \in defaults /\ theirs \in BranchNames \cup {Unnamed} /\ theirs = TargetBranchAt(d, default.sha)
    <2>1. default \in defaults
        BY <1>2 DEF TheOne
    <2> HIDE DEF default, defaults
    <2> QED
        BY <2>1, <1>9 DEF defaults
<1>11. declaredByAll(c, defaults).ref = declaredByAll(d, defaults).ref
    <2> DEFINE declared == DeclaredAt(c, defaults)
               name == TheOne(declared)
    <2>1. DeclaredAt(d, defaults) = declared
        BY <1>2, <1>9 DEF DeclaredAt
    <2>2. declared # {} /\ declared \subseteq BranchNames \cup {Unnamed}
        BY <1>2, <1>9 DEF DeclaredAt
    <2>3. Unnamed \notin declared => name \in BranchNames
        BY <2>2 DEF TheOne
    <2> HIDE DEF declared
    <2>4. declaredByAll(c, defaults) = IF Unnamed \in declared \/ Cardinality(declared) > 1 THEN NoTarget ELSE lookupBranch(c, name)
        BY DEF declaredByAll, declared
    <2>5. declaredByAll(d, defaults) = IF Unnamed \in declared \/ Cardinality(declared) > 1 THEN NoTarget ELSE lookupBranch(d, name)
        BY <2>1, Zenon DEF declaredByAll
    <2> HIDE DEF name
    <2> QED
        BY <2>3, <2>4, <2>5, <1>5
<1>12. resolveTarget(c, Unnamed, from) = IF Cardinality(defaults) > 1 THEN declaredByAll(c, defaults)
                                   ELSE IF theirs # Unnamed THEN lookupBranch(c, theirs) ELSE default
    BY Tracked, <1>2
<1>13. resolveTarget(d, Unnamed, to) = IF Cardinality(defaults) > 1 THEN declaredByAll(d, defaults)
                                 ELSE IF theirs # Unnamed THEN lookupBranch(d, theirs) ELSE default
    <2>1. d.tracked /\ trustedDefault(d) # {}
        BY <1>2, <1>8
    <2>2. LET all == trustedDefault(d)
              one == TheOne(all)
              its == TargetBranchAt(d, one.sha)
          IN  resolveTarget(d, Unnamed, to) =
                IF Cardinality(all) > 1 THEN declaredByAll(d, all) ELSE IF its # Unnamed THEN lookupBranch(d, its) ELSE one
        BY <2>1, Tracked
    <2>3. theirs = TargetBranchAt(d, default.sha)
        BY <1>10
    <2> QED
        BY <2>2, <2>3, <1>8, Zenon
<1> HIDE DEF defaults, default, theirs
<1> QED
    BY <1>5, <1>10, <1>11, <1>12, <1>13

GuardMoves ==
    /\ \/ CommitPolicy \/ \E p \in PolicyPaths, text \in {Missing} \cup ConfigTexts \cup BundleTexts : EditPolicy(p, text)
    /\ HeadOf(clone) # Missing /\ clone.tracked /\ trustedDefault(clone) # {} /\ OffDefault
SameTarget ==
    resolveTarget(clone, Unnamed, DeclaredIn(ondisk["config"])).ref = resolveTarget(clone', Unnamed, DeclaredIn(ondisk'["config"])).ref

LEMMA BranchStays == GuardInv /\ GuardInv' /\ GuardMoves => SameTarget
<1> SUFFICES ASSUME GuardInv, GuardInv', GuardMoves PROVE SameTarget
    OBVIOUS
<1>1. IsClone(clone) /\ ondisk \in PolicyTrees /\ ondisk' \in PolicyTrees
    BY DEF GuardInv
<1>2. /\ DeclaredIn(ondisk["config"]) \in BranchNames \cup {Unnamed}
      /\ DeclaredIn(ondisk'["config"]) \in BranchNames \cup {Unnamed}
    BY <1>1, GuardAssumption DEF PolicyTrees, DeclaredIn
<1>3. CASE CommitPolicy
    <2> DEFINE head == HeadOf(clone)
               wrote == {p \in PolicyPaths : head = Missing \/ ondisk[p] # FileAt(clone, head, p)}
               parents == IF head = Missing THEN {} ELSE {head}
               r == [parents |-> parents, tree |-> ondisk, wrote |-> wrote]
    <2>0. PICK on : on = clone.on
        OBVIOUS
    <2>1. clone' = [clone EXCEPT !.commits = Append(clone.commits, r), !.local[on] = Len(clone.commits) + 1]
        BY <1>3, <2>0 DEF CommitPolicy, Grow
    <2>2. parents \subseteq DOMAIN clone.commits
        BY <1>1 DEF IsClone, HeadOf
    <2>3. r \in Commits
        <3>1. parents \subseteq Nat
            BY <1>1, <2>2, TreesAreTyped
        <3> HIDE DEF parents
        <3> QED
            BY <3>1, <1>1 DEF Commits
    <2>4. r.parents \subseteq DOMAIN clone.commits
        BY <2>2
    <2> HIDE DEF r
    <2> QED
        <3>1. Advances(clone, clone')
            BY <1>1, <2>0, <2>1, <2>3, <2>4, CommitAdvances
        <3>2. OffMain(clone)
            BY DEF GuardMoves, OffDefault, OffMain
        <3> QED
            BY <1>1, <1>2, <3>1, <3>2, CommitMovesNoTarget DEF SameTarget
<1>4. CASE \E p \in PolicyPaths, text \in {Missing} \cup ConfigTexts \cup BundleTexts : EditPolicy(p, text)
    <2>1. clone' = clone
        BY <1>4 DEF EditPolicy
    <2>2. \A a, b : resolveTarget(clone, Unnamed, a) = resolveTarget(clone, Unnamed, b)
        BY Tracked DEF GuardMoves
    <2> QED
        BY <2>1, <2>2 DEF SameTarget
<1> QED
    BY <1>3, <1>4 DEF GuardMoves

\* In every clone, whatever is edited, committed, fetched, pushed and merged between the
\* steps of a check: it exits 0 only where its target resolved and it ran under the policy
\* files at that target's tip, but for files edited after it read them.
THEOREM PassUnderTarget == GuardSpec => []PassIsUnderTarget
<1> QED
    BY GuardAlways, PassHolds, PTL

\* In every clone with a default branch that tracks its config: neither an edit of the
\* policy on another branch that has a commit, nor committing it, moves the target.
THEOREM BranchKeepsTarget == GuardSpec => BranchCannotMoveGuard
<1>1. GuardInv /\ GuardInv' /\ [GuardNext]_guardVars => [GuardMoves => SameTarget]_guardVars
    BY BranchStays
<1> QED
    BY <1>1, GuardAlways, PTL DEF GuardSpec, BranchCannotMoveGuard, GuardMoves, SameTarget

=============================================================================
