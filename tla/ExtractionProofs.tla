--------------------------- MODULE ExtractionProofs ---------------------------
(***************************************************************************)
(* What the graph lacks is disclosed, for any projects, files and gates,    *)
(* whatever fails, hangs or is cancelled; and an acquisition implements     *)
(* what a check takes for granted of it (Observation).                      *)
(*                                                                         *)
(* Both rest on what the row of a language says once its extractor has      *)
(* returned (Honest), and on nothing being said of it before.               *)
(***************************************************************************)
EXTENDS Extraction, FiniteSetTheorems, TLAPS

-----------------------------------------------------------------------------
(* The order of the extractors.                                             *)

Rank(l) ==
    CASE l = "go" -> 1 [] l = "typescript" -> 2 [] l = "python" -> 3 [] OTHER -> 4

LEMMA OrderIs ==
    /\ Len(Order) = 4 /\ Order[1] = "go" /\ Order[2] = "typescript"
    /\ Order[3] = "python" /\ Order[4] = "rust"
    BY DEF Order

LEMMA InOrder ==
    ASSUME NEW i \in 1..4
    PROVE  /\ Order[i] \in Langs
           /\ \A l \in Langs : Rank(l) \in 1..4 /\ (Rank(l) = i <=> l = Order[i])
<1>1. i = 1 \/ i = 2 \/ i = 3 \/ i = 4
    OBVIOUS
<1>2. Rank("go") = 1 /\ Rank("typescript") = 2 /\ Rank("python") = 3 /\ Rank("rust") = 4
    BY DEF Rank
<1> QED
    BY <1>1, <1>2, OrderIs DEF Langs

LEMMA AtWork ==
    ASSUME Working, at \in 1..5
    PROVE  at \in 1..4 /\ Lang \in Langs /\ \A l \in Langs : Rank(l) = at <=> l = Lang
    BY OrderIs, InOrder DEF Working, Lang

-----------------------------------------------------------------------------
(* The files of a language.                                                 *)

LEMMA FilesOf ==
    ASSUME project \in Projects, NEW l \in Langs
    PROVE  /\ DOMAIN project.files[l] \in SUBSET Files
           /\ IsFiniteSet(DOMAIN project.files[l])
           /\ \A f \in DOMAIN project.files[l] : project.files[l][f] \in Kinds
           /\ Cardinality(DOMAIN project.files[l]) \in Nat
<1>1. PICK F \in SUBSET Files : project.files[l] \in [F -> Kinds]
    BY ExtractionAssumption
<1>2. DOMAIN project.files[l] = F
    BY <1>1
<1>3. IsFiniteSet(F)
    BY ExtractionAssumption, FS_Subset
<1> QED
    BY <1>1, <1>2, <1>3, FS_CardinalityType

LEMMA OfCounts ==
    ASSUME project \in Projects, NEW l \in Langs, NEW K
    PROVE  /\ Of(l, K) \in SUBSET Files /\ Of(l, K) \subseteq DOMAIN project.files[l]
           /\ Cardinality(Of(l, K)) \in Nat
           /\ Cardinality(Of(l, K)) = 0 => Of(l, K) = {}
<1>1. Of(l, K) \subseteq DOMAIN project.files[l]
    BY DEF Of
<1>2. IsFiniteSet(Of(l, K))
    BY <1>1, FilesOf, FS_Subset
<1> QED
    BY <1>1, <1>2, FilesOf, FS_CardinalityType, FS_EmptySet

-----------------------------------------------------------------------------
(* What a returned row says of its language.                                *)

\* Of a row r, and the files s that the graph holds whole.
Honest(l, r, s) ==
    /\ r.status \in {"ok", "partial", "absent"}
    /\ s \subseteq InScope(l)
    /\ r.status = "ok" => s = InScope(l)
    /\ r.status = "absent" => s = {}
    /\ r.status = "partial" =>
         \/ Class(l, r) = "degraded" /\ l = "go" /\ s = InScope(l)
         \/ Class(l, r) = "unresolved" /\ l = "typescript"
         \/ Class(l, r) = "unavailable"
    /\ l \notin project.there =>
         r.status = "absent" \/ (Class(l, r) = "unavailable" /\ project.mode[l] = "on")
    /\ project.mode[l] = "off" => r.status = "absent"

LEMMA RowIs ==
    ASSUME NEW st, NEW m, NEW o, NEW i
    PROVE  /\ Row(st, m, o, i).status = st /\ Row(st, m, o, i).missing = m
           /\ Row(st, m, o, i).open = o /\ Row(st, m, o, i).imprecise = i
    BY DEF Row

LEMMA LargerIs ==
    ASSUME NEW a \in Nat, NEW b \in Nat
    PROVE  Larger(a, b) \in Nat /\ Larger(a, b) >= a /\ Larger(a, b) >= b /\ Larger(a, b) \in {a, b}
    BY DEF Larger

\* The classes of a partial row.
LEMMA ClassIs ==
    ASSUME NEW l, NEW r, r.missing \in Nat, r.open \in Nat, r.imprecise \in Nat
    PROVE  /\ r.status # "partial" => Class(l, r) = r.status
           /\ r.status = "partial" /\ r.missing > 0 => Class(l, r) = "unavailable"
           /\ r.status = "partial" /\ r.missing = 0 /\ r.imprecise > 0 => Class(l, r) = "degraded"
           /\ r.status = "partial" /\ r.missing = 0 /\ r.imprecise = 0 /\ r.open > 0 =>
                Class(l, r) = IF l = "typescript" THEN "unresolved" ELSE "unavailable"
           /\ r.status = "partial" /\ r.missing = 0 /\ r.imprecise = 0 /\ r.open = 0 =>
                Class(l, r) = "unavailable"
<1>1. CASE r.status # "partial"
    BY <1>1 DEF Class
<1>2. CASE r.status = "partial" /\ r.missing > 0
    <2>1. r.missing # 0
        BY <1>2
    <2> QED
        BY <1>2, <2>1 DEF Class
<1>3. CASE r.status = "partial" /\ r.missing = 0 /\ r.imprecise > 0
    <2>1. r.imprecise # 0
        BY <1>3
    <2> QED
        BY <1>3, <2>1 DEF Class
<1>4. CASE r.status = "partial" /\ r.missing = 0 /\ r.imprecise = 0
    BY <1>4 DEF Class
<1> QED
    BY <1>1, <1>2, <1>3, <1>4

\* An extractor that entered its ladder is switched on, and its project is there.
Entered == project \in Projects /\ Lang \in Langs /\ Lang \in project.there /\ Mode # "off"

LEMMA GoHonest ==
    ASSUME Entered, Lang = "go"
    PROVE  Honest(Lang, GoRow, Whole(Lang))
<1> DEFINE read == Of(Lang, {"plain", "open", "mistyped"})
           lost == Count({"unread", "open"})
           missing == Larger(lost, IF read = {} /\ Of(Lang, Kinds \ {"ignored"}) # {} THEN 1 ELSE 0)
           imprecise == Count({"mistyped"})
<1>1. /\ lost \in Nat /\ (lost = 0 => Of(Lang, {"unread", "open"}) = {})
      /\ imprecise \in Nat /\ (imprecise = 0 => Of(Lang, {"mistyped"}) = {})
    BY OfCounts DEF Entered, Count
<1>2. missing \in Nat /\ missing >= lost
      /\ (missing = 0 => ~(read = {} /\ Of(Lang, Kinds \ {"ignored"}) # {}))
    <2>1. /\ read = {} /\ Of(Lang, Kinds \ {"ignored"}) # {} => missing = Larger(lost, 1)
          /\ ~(read = {} /\ Of(Lang, Kinds \ {"ignored"}) # {}) => missing = Larger(lost, 0)
        OBVIOUS
    <2> HIDE DEF read, lost, missing
    <2>2. CASE read = {} /\ Of(Lang, Kinds \ {"ignored"}) # {}
        <3>1. missing = Larger(lost, 1)
            BY <2>1, <2>2
        <3> QED
            BY <1>1, <3>1, LargerIs
    <2>3. CASE ~(read = {} /\ Of(Lang, Kinds \ {"ignored"}) # {})
        <3>1. missing = Larger(lost, 0)
            BY <2>1, <2>3
        <3>2. missing \in Nat /\ missing >= lost
            BY <1>1, <3>1, LargerIs
        <3> QED
            BY <2>3, <3>2
    <2> QED
        BY <2>2, <2>3
<1>3. InScope(Lang) = Of(Lang, Kinds \ {"ignored"}) /\ Whole(Lang) = Of(Lang, {"plain", "mistyped"})
    BY DEF InScope, Whole
<1>4. Whole(Lang) \subseteq InScope(Lang) /\ Whole(Lang) \subseteq read
    BY <1>3 DEF Of, Kinds
<1>5. Of(Lang, {"unread", "open"}) = {} => Whole(Lang) = InScope(Lang)
    BY <1>3 DEF Of, Kinds
<1>6. GoRow = IF read = {} /\ missing = 0 THEN Row("absent", 0, 0, 0)
              ELSE IF missing + imprecise > 0
              THEN Row("partial", missing, missing + imprecise, imprecise)
              ELSE Row("ok", 0, 0, 0)
    <2>1. Of(Lang, {"mistyped"}) \subseteq read
        BY DEF Of
    <2>2. read = {} => imprecise = 0
        BY <2>1, FS_EmptySet DEF Count
    <2>3. CASE read = {} /\ missing = 0
        <3>1. ~(missing + imprecise > 0)
            BY <2>2, <2>3
        <3> QED
            BY <2>3, <3>1 DEF GoRow
    <2>4. CASE ~(read = {} /\ missing = 0)
        BY <2>4 DEF GoRow
    <2> QED
        BY <2>3, <2>4
<1> HIDE DEF read, lost, missing, imprecise
<1>7. CASE read = {} /\ missing = 0
    BY <1>4, <1>6, <1>7, RowIs DEF Honest, Entered, Mode
<1>8. CASE ~(read = {} /\ missing = 0) /\ missing + imprecise > 0
    <2>1. GoRow = Row("partial", missing, missing + imprecise, imprecise)
        BY <1>6, <1>8
    <2>2. /\ GoRow.status = "partial" /\ GoRow.missing = missing
          /\ GoRow.open = missing + imprecise /\ GoRow.imprecise = imprecise
        BY <2>1, RowIs
    <2>3. CASE missing > 0
        <3>1. Class(Lang, GoRow) = "unavailable"
            BY <1>1, <1>2, <2>2, <2>3, ClassIs
        <3> QED
            BY <1>4, <2>2, <3>1 DEF Honest, Entered, Mode
    <2>4. CASE missing = 0
        <3>1. Class(Lang, GoRow) = "degraded"
            BY <1>1, <1>2, <1>8, <2>2, <2>4, ClassIs
        <3>2. Whole(Lang) = InScope(Lang)
            BY <1>1, <1>2, <1>5, <2>4
        <3> QED
            BY <2>2, <3>1, <3>2 DEF Honest, Entered, Mode
    <2> QED
        BY <1>2, <2>3, <2>4
<1>9. CASE ~(read = {} /\ missing = 0) /\ ~(missing + imprecise > 0)
    <2>1. GoRow.status = "ok"
        BY <1>6, <1>9, RowIs
    <2>2. missing = 0
        BY <1>1, <1>2, <1>9
    <2>3. Whole(Lang) = InScope(Lang)
        BY <1>1, <1>2, <1>5, <2>2
    <2> QED
        BY <2>1, <2>3 DEF Honest, Entered, Mode
<1> QED
    BY <1>7, <1>8, <1>9

LEMMA TsHonest ==
    ASSUME Entered, Lang = "typescript", NEW e \in BOOLEAN
    PROVE  Honest(Lang, TsRow(e), Whole(Lang))
<1> DEFINE open == Count({"open", "mistyped"})
           missing == Count({"unread", "ignored"})
<1>1. /\ open \in Nat /\ (open = 0 => Of(Lang, {"open", "mistyped"}) = {})
      /\ missing \in Nat /\ (missing = 0 => Of(Lang, {"unread", "ignored"}) = {})
    BY OfCounts DEF Entered, Count
<1>2. InScope(Lang) = Of(Lang, Kinds) /\ Whole(Lang) = Of(Lang, {"plain"})
    BY DEF InScope, Whole
<1>3. Whole(Lang) \subseteq InScope(Lang)
    BY <1>2 DEF Of, Kinds
<1>4. Of(Lang, {"open", "mistyped"}) = {} /\ Of(Lang, {"unread", "ignored"}) = {}
          => Whole(Lang) = InScope(Lang)
    BY <1>2 DEF Of, Kinds
<1>5. TsRow(e) = IF e THEN Row("partial", Larger(1, missing), open, 0)
                 ELSE IF missing > 0 THEN Row("partial", missing, open, 0)
                 ELSE Row(IF open > 0 THEN "partial" ELSE "ok", 0, open, 0)
    BY DEF TsRow
<1>6. Larger(1, missing) \in Nat /\ Larger(1, missing) >= 1
    BY <1>1, LargerIs
<1> HIDE DEF open, missing
<1>7. CASE e \/ missing > 0
    <2>1. PICK k \in Nat : k > 0 /\ TsRow(e) = Row("partial", k, open, 0)
        BY <1>1, <1>5, <1>6, <1>7
    <2>2. TsRow(e).status = "partial" /\ Class(Lang, TsRow(e)) = "unavailable"
        BY <1>1, <2>1, RowIs, ClassIs
    <2> QED
        BY <1>3, <2>2 DEF Honest, Entered, Mode
<1>8. CASE ~e /\ ~(missing > 0) /\ open > 0
    <2>1. TsRow(e) = Row("partial", 0, open, 0)
        BY <1>5, <1>8
    <2>2. TsRow(e).status = "partial" /\ Class(Lang, TsRow(e)) = "unresolved"
        BY <1>1, <1>8, <2>1, RowIs, ClassIs
    <2> QED
        BY <1>3, <2>2 DEF Honest, Entered, Mode
<1>9. CASE ~e /\ ~(missing > 0) /\ ~(open > 0)
    <2>1. TsRow(e).status = "ok"
        BY <1>5, <1>9, RowIs
    <2>2. Whole(Lang) = InScope(Lang)
        BY <1>1, <1>4, <1>9
    <2> QED
        BY <2>1, <2>2 DEF Honest, Entered, Mode
<1> QED
    BY <1>7, <1>8, <1>9

LEMMA PyHonest ==
    ASSUME Entered, Lang = "python"
    PROVE  Honest(Lang, PyRow, Whole(Lang))
<1> DEFINE gaps == Count(Kinds \ {"plain"})
<1>1. gaps \in Nat /\ (gaps = 0 => Of(Lang, Kinds \ {"plain"}) = {})
    BY OfCounts DEF Entered, Count
<1>2. InScope(Lang) = Of(Lang, Kinds) /\ Whole(Lang) = Of(Lang, {"plain"})
    BY DEF InScope, Whole
<1>3. Whole(Lang) \subseteq InScope(Lang)
    BY <1>2 DEF Of, Kinds
<1>4. Of(Lang, Kinds \ {"plain"}) = {} => Whole(Lang) = InScope(Lang)
    BY <1>2 DEF Of, Kinds
<1>5. PyRow = Row(IF gaps > 0 THEN "partial" ELSE "ok", gaps, gaps, 0)
    BY DEF PyRow
<1> HIDE DEF gaps
<1>6. CASE gaps > 0
    <2>1. PyRow.status = "partial" /\ Class(Lang, PyRow) = "unavailable"
        BY <1>1, <1>5, <1>6, RowIs, ClassIs
    <2> QED
        BY <1>3, <2>1 DEF Honest, Entered, Mode
<1>7. CASE ~(gaps > 0)
    <2>1. PyRow = Row("ok", gaps, gaps, 0) /\ gaps = 0
        BY <1>1, <1>5, <1>7
    <2>2. PyRow.status = "ok"
        BY <2>1, RowIs
    <2>3. Whole(Lang) = InScope(Lang)
        BY <1>1, <1>4, <2>1
    <2> QED
        BY <2>2, <2>3 DEF Honest, Entered, Mode
<1> QED
    BY <1>6, <1>7

LEMMA RustHonest ==
    ASSUME Entered, Lang = "rust"
    PROVE  Honest(Lang, RustRow, Whole(Lang))
<1>1. RustRow.status = "ok"
    BY RowIs DEF RustRow
<1>2. Whole(Lang) = DOMAIN project.files[Lang] /\ InScope(Lang) = Of(Lang, Kinds)
    BY DEF Whole, InScope
<1>3. Whole(Lang) = InScope(Lang)
    BY <1>2, FilesOf DEF Of, Entered
<1> QED
    BY <1>1, <1>3 DEF Honest, Entered, Mode

\* The row of an extractor that came through.
LEMMA RowsHonest ==
    ASSUME Entered, NEW r \in Rows
    PROVE  Honest(Lang, r, Whole(Lang))
<1>1. CASE Lang = "go"
    BY <1>1, GoHonest DEF Rows
<1>2. CASE Lang = "typescript"
    <2>1. Rows = {TsRow(e) : e \in BOOLEAN}
        BY <1>2 DEF Rows
    <2> QED
        BY <1>2, <2>1, TsHonest
<1>3. CASE Lang = "python"
    BY <1>3, PyHonest DEF Rows
<1>4. CASE Lang = "rust"
    BY <1>4, RustHonest DEF Rows
<1> QED
    BY <1>1, <1>2, <1>3, <1>4 DEF Entered, Langs

\* A failure leaves no files in the graph, and a row that says so.
FailedRow(outcome) ==
    Row(IF outcome = "absent" THEN "absent" ELSE "partial",
        IF outcome = "partial" /\ Lang = "typescript"
        THEN Larger(1, Cardinality(DOMAIN project.files[Lang])) ELSE 0, 0, 0)

LEMMA FailedRowIs ==
    ASSUME project \in Projects, Lang \in Langs, NEW outcome
    PROVE  /\ outcome = "absent" => FailedRow(outcome).status = "absent"
           /\ outcome # "absent" =>
                FailedRow(outcome).status = "partial" /\ Class(Lang, FailedRow(outcome)) = "unavailable"
<1>1. Larger(1, Cardinality(DOMAIN project.files[Lang])) \in Nat \ {0}
    BY FilesOf, LargerIs
<1>2. PICK k \in Nat : FailedRow(outcome) =
          Row(IF outcome = "absent" THEN "absent" ELSE "partial", k, 0, 0)
    BY <1>1 DEF FailedRow
<1>3. CASE outcome = "absent"
    BY <1>2, <1>3, RowIs
<1>4. CASE outcome # "absent"
    <2>1. FailedRow(outcome) = Row("partial", k, 0, 0)
        BY <1>2, <1>4
    <2>2. /\ FailedRow(outcome).status = "partial" /\ FailedRow(outcome).missing = k
          /\ FailedRow(outcome).open = 0 /\ FailedRow(outcome).imprecise = 0
        BY <2>1, RowIs
    <2> QED
        BY <1>4, <2>2, ClassIs
<1> QED
    BY <1>3, <1>4

LEMMA FailureHonest ==
    ASSUME Entered, NEW outcome
    PROVE  Honest(Lang, FailedRow(outcome), {})
    BY FailedRowIs DEF Honest, Entered, Mode

LEMMA SkipHonest ==
    ASSUME project \in Projects, Lang \in Langs, Mode = "off" \/ Lang \notin project.there,
           NEW outcome, outcome = IF Mode = "off" THEN "absent" ELSE NotApplicable(Lang, Mode)
    PROVE  Honest(Lang, FailedRow(outcome), {})
<1>1. outcome # "absent" => Mode = "on"
    BY DEF NotApplicable, Gone
<1> QED
    BY <1>1, FailedRowIs DEF Honest, Mode

-----------------------------------------------------------------------------
(* The invariant: what has returned is honest, and the rest says nothing.    *)

ExtractInv ==
    /\ project = NoProject \/ project \in Projects
    /\ at \in 1..5 /\ stage \in Nat
    /\ project = NoProject => at = 1
    /\ stage > 0 => Working /\ Entered
    /\ child # "none" => stage > 0
    /\ DOMAIN row = Langs /\ DOMAIN seen = Langs
    /\ \A l \in Langs :
         IF Rank(l) < at THEN Honest(l, row[l], seen[l]) ELSE row[l] = NoRow /\ seen[l] = {}

LEMMA InitExtract == ExtractInit => ExtractInv
<1> SUFFICES ASSUME ExtractInit PROVE ExtractInv
    OBVIOUS
<1>1. \A l \in Langs : ~(Rank(l) < at)
    BY InOrder DEF ExtractInit, Rank
<1> QED
    BY <1>1 DEF ExtractInit, ExtractInv

\* A step gives the run its project, returns an honest row, or moves within a ladder.
Returns == \E r, s : Working /\ Honest(Lang, r, s) /\ Return(r, s)

Moves ==
    /\ UNCHANGED <<project, at, row, seen>>
    /\ stage' \in Nat
    /\ stage' > 0 => Working /\ Entered
    /\ child' # "none" => stage' > 0

LEMMA ReturnAsReturns ==
    ASSUME ExtractInv, Working, NEW outcome, Honest(Lang, FailedRow(outcome), {}), ReturnAs(outcome)
    PROVE  Returns
<1>1. Return(FailedRow(outcome), {})
    BY DEF ReturnAs, FailedRow
<1> QED
    BY <1>1 DEF Returns

LEMMA EveryStep ==
    ASSUME ExtractInv, [ExtractNext]_extractVars
    PROVE  (\E p \in Projects : Start(p)) \/ Returns \/ Moves
<1>0. /\ project # NoProject => project \in Projects
      /\ Working => Lang \in Langs
      /\ stage \in Nat
      /\ stage > 0 => Working /\ Entered
      /\ child # "none" => stage > 0
    BY AtWork DEF ExtractInv
<1>1. CASE Skip
    <2>1. Working /\ project \in Projects /\ Lang \in Langs
        BY <1>0, <1>1 DEF Skip, IsThere, Working
    <2>2. PICK o : o = IF Mode = "off" THEN "absent" ELSE NotApplicable(Lang, Mode)
        OBVIOUS
    <2>3. (Mode = "off" \/ Lang \notin project.there) /\ ReturnAs(o)
        BY <1>1, <2>2 DEF Skip, IsThere
    <2> QED
        BY <2>1, <2>2, <2>3, SkipHonest, ReturnAsReturns
<1>2. CASE Enter
    <2>1. Working /\ Entered
        BY <1>0, <1>2 DEF Enter, IsThere, Working, Entered
    <2>2. stage' = 1 /\ UNCHANGED <<project, at, child, row, seen>>
        BY <1>2 DEF Enter, IsThere
    <2> QED
        BY <1>0, <2>1, <2>2 DEF Moves
<1>3. CASE Pass
    <2>1. stage > 0 /\ stage' = stage + 1 /\ UNCHANGED <<project, at, child, row, seen>>
        BY <1>3 DEF Pass
    <2> QED
        BY <1>0, <2>1 DEF Moves
<1>4. CASE Fail
    <2>1. stage > 0 /\ ReturnAs(Failure(Current))
        BY <1>4 DEF Fail
    <2> QED
        BY <1>0, <2>1, FailureHonest, ReturnAsReturns
<1>5. CASE NoInputs
    <2>1. /\ Working /\ Entered /\ Lang = "typescript"
          /\ DOMAIN project.files[Lang] = {} /\ Return(Row("ok", 0, 0, 0), {})
        BY <1>0, <1>5 DEF NoInputs
    <2>2. InScope(Lang) = {}
        BY <2>1 DEF InScope, Of
    <2>3. Honest(Lang, Row("ok", 0, 0, 0), {})
        BY <2>1, <2>2, RowIs DEF Honest, Entered, Mode
    <2> QED
        BY <2>1, <2>3 DEF Returns
<1>6. CASE Spawn \/ Hang
    <2>1. stage > 0 /\ UNCHANGED <<project, at, stage, row, seen>>
        BY <1>0, <1>6 DEF Spawn, Hang
    <2> QED
        BY <1>0, <2>1 DEF Moves
<1>7. CASE ChildEnds
    <2>1. stage > 0 /\ Working /\ Entered
        BY <1>0, <1>7 DEF ChildEnds
    <2>2. CASE stage < Len(Stages[Lang])
        <3>1. stage' = stage + 1 /\ child' = "none" /\ UNCHANGED <<project, at, row, seen>>
            BY <1>7, <2>2 DEF ChildEnds
        <3> QED
            BY <1>0, <2>1, <3>1 DEF Moves
    <2>3. CASE ~(stage < Len(Stages[Lang]))
        <3>1. PICK r \in Rows : Return(r, Whole(Lang))
            BY <1>7, <2>3 DEF ChildEnds
        <3> QED
            BY <2>1, <3>1, RowsHonest DEF Returns
    <2> QED
        BY <2>2, <2>3
<1>8. CASE ChildFails
    <2>1. child # "none" /\ ReturnAs(Failure(Current))
        BY <1>8 DEF ChildFails
    <2> QED
        BY <1>0, <2>1, FailureHonest, ReturnAsReturns
<1>9. CASE Killed
    <2>1. stage > 0 /\ ReturnAs(Failure(Current))
        BY <1>9 DEF Killed
    <2> QED
        BY <1>0, <2>1, FailureHonest, ReturnAsReturns
<1>10. CASE Assemble
    <2>1. PICK r \in Rows : Return(r, Whole(Lang))
        BY <1>10 DEF Assemble
    <2>2. Len(Stages[Lang]) > 0 /\ stage = Len(Stages[Lang])
        <3>1. Lang \in Langs
            BY <1>0, <1>10 DEF Assemble
        <3>2. /\ Len(Stages["go"]) = 2 /\ Len(Stages["typescript"]) = 8
              /\ Len(Stages["python"]) = 5 /\ Len(Stages["rust"]) = 4
            BY DEF Stages
        <3>3. Lang = "go" \/ Lang = "typescript" \/ Lang = "python" \/ Lang = "rust"
            BY <3>1 DEF Langs
        <3>4. PICK n : n = Len(Stages[Lang])
            OBVIOUS
        <3>5. n = 2 \/ n = 8 \/ n = 5 \/ n = 4
            <4>1. CASE Lang = "go"
                BY <3>2, <3>4, <4>1
            <4>2. CASE Lang = "typescript"
                BY <3>2, <3>4, <4>2
            <4>3. CASE Lang = "python"
                BY <3>2, <3>4, <4>3
            <4>4. CASE Lang = "rust"
                BY <3>2, <3>4, <4>4
            <4> QED
                BY <3>3, <4>1, <4>2, <4>3, <4>4
        <3>6. stage = Len(Stages[Lang])
            BY <1>10 DEF Assemble
        <3> QED
            BY <3>4, <3>5, <3>6
    <2> QED
        BY <1>0, <2>1, <2>2, RowsHonest DEF Returns
<1>11. CASE Cancel
    <2>1. UNCHANGED <<project, at, stage, child, row, seen>>
        BY <1>11 DEF Cancel
    <2> QED
        BY <1>0, <2>1 DEF Moves
<1>12. CASE UNCHANGED extractVars
    <2>1. UNCHANGED <<project, at, stage, child, row, seen>>
        BY <1>12 DEF extractVars
    <2> QED
        BY <1>0, <2>1 DEF Moves
<1> QED
    BY <1>1, <1>2, <1>3, <1>4, <1>5, <1>6, <1>7, <1>8, <1>9, <1>10, <1>11, <1>12 DEF ExtractNext

LEMMA NextExtract == ExtractInv /\ [ExtractNext]_extractVars => ExtractInv'
<1> SUFFICES ASSUME ExtractInv, [ExtractNext]_extractVars PROVE ExtractInv'
    OBVIOUS
<1>1. ASSUME NEW p \in Projects, Start(p) PROVE ExtractInv'
    <2>1. /\ project = NoProject /\ project' = p
          /\ UNCHANGED <<at, stage, child, cancelled, row, seen, errs>>
        BY <1>1 DEF Start
    <2>2. at = 1 /\ ~(stage > 0) /\ \A l \in Langs : ~(Rank(l) < at)
        BY <2>1, InOrder DEF ExtractInv, Working, Rank
    <2> QED
        BY <2>1, <2>2, ExtractionAssumption DEF ExtractInv
<1>2. CASE Returns
    <2>1. PICK r, s : Working /\ Honest(Lang, r, s) /\ Return(r, s)
        BY <1>2 DEF Returns
    <2>2. at \in 1..4 /\ Lang \in Langs /\ \A l \in Langs : Rank(l) = at <=> l = Lang
        BY <2>1, AtWork DEF ExtractInv
    <2>3. /\ row' = [row EXCEPT ![Lang] = r] /\ seen' = [seen EXCEPT ![Lang] = s]
          /\ at' = at + 1 /\ stage' = 0 /\ child' = "none" /\ project' = project
        BY <2>1 DEF Return
    <2>4. project # NoProject
        BY <2>1 DEF Working
    <2>5. ASSUME NEW l \in Langs
          PROVE  (IF Rank(l) < at THEN Honest(l, row[l], seen[l]) ELSE row[l] = NoRow /\ seen[l] = {})'
        <3>0. Rank(l) \in 1..4
            BY InOrder
        <3>1. CASE l = Lang
            <4>1. row'[l] = r /\ seen'[l] = s /\ Rank(l) < at'
                BY <2>2, <2>3, <3>0, <3>1 DEF ExtractInv
            <4>2. Honest(l, r, s)'
                BY <2>1, <2>3, <3>1 DEF Honest, InScope, Of
            <4> QED
                BY <4>1, <4>2
        <3>2. CASE l # Lang
            <4>1. row'[l] = row[l] /\ seen'[l] = seen[l] /\ (Rank(l) < at' <=> Rank(l) < at)
                BY <2>2, <2>3, <3>0, <3>2 DEF ExtractInv
            <4>2. PICK u, v : u = row[l] /\ v = seen[l]
                OBVIOUS
            <4>3. Honest(l, u, v) => Honest(l, u, v)'
                BY <2>3 DEF Honest, InScope, Of
            <4> QED
                BY <4>1, <4>2, <4>3 DEF ExtractInv
        <3> QED
            BY <3>1, <3>2
    <2> QED
        BY <2>2, <2>3, <2>4, <2>5 DEF ExtractInv
<1>3. CASE Moves
    <2>1. UNCHANGED <<project, at, row, seen>>
        BY <1>3 DEF Moves
    <2>2. (Working /\ Entered) => (Working /\ Entered)'
        BY <2>1 DEF Working, Entered, Lang, Mode
    <2>3. \A l, u, v : Honest(l, u, v) => Honest(l, u, v)'
        BY <2>1 DEF Honest, InScope, Of
    <2> QED
        BY <1>3, <2>1, <2>2, <2>3 DEF ExtractInv, Moves
<1> QED
    BY <1>1, <1>2, <1>3, EveryStep

-----------------------------------------------------------------------------
(* What follows.                                                             *)

LEMMA HonestIsDisclosed == ExtractInv => MissingIsDisclosed
<1> SUFFICES ASSUME ExtractInv, project # NoProject, NEW l \in project.there,
                    row[l].status # "pending", InScope(l) \ seen[l] # {}
             PROVE  Reported(l) \in {"unresolved", "unavailable", "disabled"} \/ Gap(l)
    BY DEF MissingIsDisclosed
<1>1. l \in Langs
    BY ExtractionAssumption DEF ExtractInv
<1>2. Honest(l, row[l], seen[l])
    BY <1>1 DEF ExtractInv, NoRow
<1>3. CASE row[l].status = "absent"
    BY <1>3 DEF Reported, Gap
<1>4. CASE row[l].status = "partial"
    BY <1>2, <1>4 DEF Honest, Reported
<1> QED
    BY <1>2, <1>3, <1>4 DEF Honest

\* Whatever fails, hangs or is cancelled, for any files, projects and gates: a file
\* whose imports are not all in the graph has a partial row, a coverage gap, or a
\* language that is switched off (the extractors' rows, buildCoverageGaps).
THEOREM MissingDisclosed == ExtractSpec => []MissingIsDisclosed
    BY InitExtract, NextExtract, HonestIsDisclosed, PTL DEF ExtractSpec

-----------------------------------------------------------------------------
(* The refinement.                                                           *)

TreeNow ==
    IF project = NoProject THEN NoTree
    ELSE [there |-> project.there,
          inScope |-> [l \in Langs |-> InScope(l)],
          off |-> {l \in Langs : SwitchedOff(l)},
          on |-> {l \in Langs : project.mode[l] = "on"}]

ClassOf(l) == IF project = NoProject THEN "pending" ELSE Reported(l)

LEMMA TreeTyped ==
    ASSUME project \in Projects
    PROVE  TreeNow \in Promise!Trees /\ TreeNow # NoTree
<1>1. project # NoProject /\ project.there \in SUBSET Langs
    BY ExtractionAssumption
<1>2. \A l \in Langs : InScope(l) \in SUBSET Files
    BY OfCounts DEF InScope
<1>3. PICK I, off, on : /\ I = [l \in Langs |-> InScope(l)]
                        /\ off = {l \in Langs : SwitchedOff(l)}
                        /\ on = {l \in Langs : project.mode[l] = "on"}
    OBVIOUS
<1>4. I \in [Langs -> SUBSET Files] /\ off \in SUBSET Langs /\ on \in SUBSET Langs
    BY <1>2, <1>3
<1>5. TreeNow = [there |-> project.there, inScope |-> I, off |-> off, on |-> on]
    BY <1>1, <1>3 DEF TreeNow
<1>6. TreeNow \in Promise!Trees
    BY <1>1, <1>4, <1>5 DEF Promise!Trees
<1>7. "on" \in DOMAIN TreeNow /\ "on" \notin DOMAIN NoTree
    BY <1>5 DEF NoTree
<1> QED
    BY <1>6, <1>7

LEMMA TreeTypedNow == project \in Projects => TreeNow \in Promise!Trees
BY TreeTyped

LEMMA TreeTypedAfter == (project \in Projects => TreeNow \in Promise!Trees)'
BY TreeTypedNow, PTL

LEMMA PendingClass == ASSUME NEW l \in Langs, row[l] = NoRow PROVE ClassOf(l) = "pending"
    BY DEF ClassOf, Reported, Class, NoRow

\* What an honest row promises.
LEMMA HonestPromises ==
    ASSUME project \in Projects, NEW l \in Langs, NEW r, NEW s, Honest(l, r, s), NEW c,
           c = IF r.status = "absent" /\ SwitchedOff(l) /\ l \in project.there
               THEN "disabled" ELSE Class(l, r)
    PROVE  c \in Promise!Classes /\ s \in SUBSET Files /\ Promise!Promised(l, c, s)
<1>1. /\ TreeNow.there = project.there /\ TreeNow.inScope[l] = InScope(l)
      /\ l \in TreeNow.off <=> SwitchedOff(l)
      /\ l \in TreeNow.on <=> project.mode[l] = "on"
    BY ExtractionAssumption DEF TreeNow
<1>2. s \in SUBSET Files
    BY OfCounts DEF Honest, InScope
<1>3. r.status # "partial" => Class(l, r) = r.status
    BY DEF Class
<1>4. SwitchedOff(l) => project.mode[l] = "off"
    BY DEF SwitchedOff
<1> DEFINE P == /\ s \subseteq TreeNow.inScope[l]
                /\ c \in {"ok", "degraded"} => s = TreeNow.inScope[l]
                /\ c \in {"absent", "disabled"} => s = {}
                /\ l \notin TreeNow.there => c = "absent" \/ (c = "unavailable" /\ l \in TreeNow.on)
                /\ l \in TreeNow.off => c \in {"absent", "disabled"}
                /\ c = "disabled" => l \in TreeNow.off
                /\ c = "unresolved" => l \in {"typescript"}
                /\ c = "degraded" => l \in {"go"}
<1>5. CASE r.status = "absent"
    <2>1. (c = "disabled" /\ SwitchedOff(l) /\ l \in project.there) \/ c = "absent"
        BY <1>3, <1>5
    <2> QED
        BY <1>1, <1>2, <1>5, <2>1 DEF Honest, Promise!Classes, Promise!Promised, TreeNow
<1>6. CASE r.status = "ok"
    <2>1. c = "ok" /\ l \in project.there /\ ~SwitchedOff(l)
        BY <1>3, <1>4, <1>6 DEF Honest, Class
    <2> QED
        BY <1>1, <1>2, <1>6, <2>1 DEF Honest, Promise!Classes, Promise!Promised, TreeNow
<1>7. CASE r.status = "partial"
    <2>1. c = Class(l, r) /\ ~SwitchedOff(l)
        BY <1>4, <1>7 DEF Honest
    <2> QED
        BY <1>1, <1>2, <1>7, <2>1 DEF Honest, Promise!Classes, Promise!Promised, TreeNow
<1> QED
    BY <1>5, <1>6, <1>7 DEF Honest

LEMMA StartBegins ==
    ASSUME ExtractInv, NEW p \in Projects, Start(p)
    PROVE  Promise!Begin
<1>1. project = NoProject /\ project' = p /\ p # NoProject /\ row' = row /\ seen' = seen
    BY ExtractionAssumption DEF Start
<1>2. \A l \in Langs : row[l] = NoRow
    BY <1>1, InOrder DEF ExtractInv, Rank
<1>3. \A l \in Langs : ClassOf(l) = "pending" /\ ClassOf(l)' = "pending"
    BY <1>1, <1>2, PendingClass DEF ClassOf, Reported, Class, NoRow
<1>4. [l \in Langs |-> ClassOf(l)]' = [l \in Langs |-> ClassOf(l)]
    BY <1>3
<1>5. TreeNow = NoTree /\ TreeNow' \in Promise!Trees
    BY <1>1, TreeTypedAfter DEF TreeNow
<1> QED
    BY <1>1, <1>4, <1>5 DEF Promise!Begin, TreeNow, ClassOf

LEMMA ReturnsObserves ==
    ASSUME ExtractInv, Returns
    PROVE  \E l \in Langs : Promise!Observe(l)
<1>1. PICK r, s : Working /\ Honest(Lang, r, s) /\ Return(r, s)
    BY DEF Returns
<1>2. PICK k : k = Lang
    OBVIOUS
<1>3. /\ k \in Langs /\ project \in Projects /\ project # NoProject
      /\ row[k] = NoRow /\ DOMAIN row = Langs
    BY <1>1, <1>2, AtWork, InOrder DEF ExtractInv, Working
<1>4. row' = [row EXCEPT ![k] = r] /\ seen' = [seen EXCEPT ![k] = s] /\ project' = project
    BY <1>1, <1>2 DEF Return
<1>5. PICK c : c = IF r.status = "absent" /\ SwitchedOff(k) /\ k \in project.there
                   THEN "disabled" ELSE Class(k, r)
    OBVIOUS
<1>6. c \in Promise!Classes /\ s \in SUBSET Files /\ Promise!Promised(k, c, s)
    BY <1>1, <1>2, <1>3, <1>5, HonestPromises
<1>7. ClassOf(k) = "pending" /\ TreeNow # NoTree /\ TreeNow' = TreeNow
    <2>1. TreeNow' = TreeNow
        BY <1>4 DEF TreeNow, InScope, Of, SwitchedOff
    <2> QED
        BY <1>3, <2>1, PendingClass, TreeTyped
<1>8. ASSUME NEW l \in Langs PROVE ClassOf(l)' = IF l = k THEN c ELSE ClassOf(l)
    <2>1. CASE l = k
        <3>1. row'[l] = r
            BY <1>3, <1>4, <2>1
        <3> QED
            BY <1>3, <1>4, <1>5, <2>1, <3>1 DEF ClassOf, Reported, SwitchedOff
    <2>2. CASE l # k
        <3>1. row'[l] = row[l]
            BY <1>3, <1>4, <2>2
        <3> QED
            BY <1>4, <2>2, <3>1 DEF ClassOf, Reported, SwitchedOff, Class
    <2> QED
        BY <2>1, <2>2
<1>9. [l \in Langs |-> ClassOf(l)]' = [[l \in Langs |-> ClassOf(l)] EXCEPT ![k] = c]
    BY <1>3, <1>8
<1> QED
    BY <1>3, <1>4, <1>6, <1>7, <1>9 DEF Promise!Observe, TreeNow, ClassOf

LEMMA MovesStutters ==
    ASSUME Moves
    PROVE  /\ UNCHANGED <<TreeNow, seen>>
           /\ [l \in Langs |-> ClassOf(l)]' = [l \in Langs |-> ClassOf(l)]
<1>1. project' = project /\ row' = row /\ seen' = seen
    BY DEF Moves
<1>2. TreeNow' = TreeNow
    BY <1>1 DEF TreeNow, InScope, Of, SwitchedOff
<1>3. \A l \in Langs : ClassOf(l)' = ClassOf(l)
    BY <1>1 DEF ClassOf, Reported, SwitchedOff, Class
<1> QED
    BY <1>1, <1>2, <1>3

LEMMA StepPromises ==
    ExtractInv /\ [ExtractNext]_extractVars =>
        Promise!Next \/ UNCHANGED <<TreeNow, [l \in Langs |-> ClassOf(l)], seen>>
<1> SUFFICES ASSUME ExtractInv, [ExtractNext]_extractVars
             PROVE  Promise!Next \/ UNCHANGED <<TreeNow, [l \in Langs |-> ClassOf(l)], seen>>
    OBVIOUS
<1>1. (\E p \in Projects : Start(p)) \/ Returns \/ Moves
    BY EveryStep
<1>2. ASSUME NEW p \in Projects, Start(p) PROVE Promise!Next
    BY <1>2, StartBegins DEF Promise!Next
<1>3. CASE Returns
    BY <1>3, ReturnsObserves DEF Promise!Next
<1>4. CASE Moves
    BY <1>4, MovesStutters
<1> QED
    BY <1>1, <1>2, <1>3, <1>4

LEMMA InitPromises == ExtractInit => Promise!Init
<1> SUFFICES ASSUME ExtractInit PROVE Promise!Init
    OBVIOUS
<1>1. \A l \in Langs : ClassOf(l) = "pending"
    BY PendingClass DEF ExtractInit
<1> QED
    BY <1>1 DEF ExtractInit, Promise!Init, ClassOf

\* The rows and facts of an acquisition are what a check takes for granted: complete
\* evidence, none, or a part that its row tells, once for each language (the observations
\* of Check; acquisition.Collect).
THEOREM RowsKeepPromise == ExtractSpec => ImplementsObservation
<1>1. ExtractSpec => []ExtractInv
    BY InitExtract, NextExtract, PTL DEF ExtractSpec
<1> QED
    BY <1>1, InitPromises, StepPromises, PTL
    DEF ExtractSpec, ImplementsObservation, Promise!Spec, TreeNow, ClassOf
=============================================================================
