--------------------------------- MODULE Labels ---------------------------------
(***************************************************************************)
(* The labels file: strengths that a model drafts for pairs of modules and a  *)
(* person approves.  `config enrich labels` and `config enrich abstained`     *)
(* analyze the code, read the file, ask a model, and write the file back as    *)
(* one piece, with no look at what became of it meanwhile.  A check applies    *)
(* an approved label as long as the edges it was judged on are those of today. *)
(*                                                                         *)
(* The hash of edges is the set of them; a label has one, or, written by hand, *)
(* none.  A request to the model is the edges it shows.                       *)
(***************************************************************************)
EXTENDS Integers, FiniteSets

CONSTANTS
    LabelPairs,   \* ordered pairs of modules
    PairEdges,    \* the edges that the code may have
    Grades,       \* the strengths a label may give
    Enrichers,    \* runs of config enrich
    MaxRevisions, \* bound: how often code or labels are edited by hand
    Garbled       \* an answer that is not what was asked for

(* by: how an end is attributed to its module, by a path glob, or, for a file, *)
(* by its package or crate, which only the projection of the graph does.       *)
ASSUME LabelsAssumption ==
    /\ IsFiniteSet(LabelPairs) /\ IsFiniteSet(PairEdges) /\ MaxRevisions \in Nat
    /\ \A e \in PairEdges :
         /\ e.pair \in LabelPairs /\ e.by \in {"glob", "fallback"}
         /\ e.static \in {"contract", "model", "functional", "unknown"}
         /\ e.kind \in {"imports", "belongs_to"}

VARIABLES
    codeEdges, \* the edges of the code
    labels,   \* the labels file: a label for each pair it names
    replies,  \* the cache of answers
    enricher, \* what each run holds
    reviews,  \* history: the labels a person approved
    revisions \* how often code or labels were edited by hand

labelVars == <<codeEdges, labels, replies, enricher, reviews, revisions>>

NoLabels == [p \in {} |-> {}]
NotStarted == [pc |-> "new", kind |-> "labels", seen |-> {}, read |-> NoLabels, asked |-> {},
               retry |-> FALSE, reply |-> NoLabels]

-----------------------------------------------------------------------------
(* Evidence *)

Between(E, p) == {e \in E : e.pair = p}

\* What enrich stamps a draft with: every edge of the projected graph.
Stamp(E, p) == Between(E, p)

\* What a check compares with: it knows path globs only.
Confirmed(E, p) == {e \in Between(E, p) : e.by = "glob"}

\* A pair without edges is not measured, and its label stands.
Stands(label, now) == label.approved /\ (now = {} \/ label.hash \subseteq {now})

\* A variant of the code, for TLC: of what was approved, only a model's labels stand.
StandingOfModels(file, E) == {p \in DOMAIN file : file[p].llm /\ Stands(file[p], Stamp(E, p))}

Standing(file, E) == {p \in DOMAIN file : Stands(file[p], Stamp(E, p))}

\* What a check applies: a person's strengths, a model's, and what it calls stale.
Applied(p) == p \in DOMAIN labels /\ Stands(labels[p], Confirmed(codeEdges, p))
Pins == {p \in LabelPairs : Applied(p) /\ ~labels[p].llm}
Answers == {p \in LabelPairs : Applied(p) /\ labels[p].llm}
Stale == {p \in DOMAIN labels : labels[p].approved /\ ~Applied(p)}

-----------------------------------------------------------------------------
(* Selection *)

\* An edge between two modules that globs attribute: only there is distance known.
Reviewable(E, file) == {e \in E : e.by = "glob" /\ e.pair \notin Standing(file, E)}
Refinable(E, file) ==
    {e.pair : e \in {x \in Reviewable(E, file) : x.static \in {"functional", "model", "unknown"}}}
Abstained(E, file) == {e.pair : e \in {x \in Reviewable(E, file) : x.static = "unknown"}}

-----------------------------------------------------------------------------
LabelsInit ==
    /\ codeEdges = PairEdges
    /\ labels = NoLabels /\ replies = NoLabels /\ reviews = {} /\ revisions = 0
    /\ enricher = [c \in Enrichers |-> NotStarted]

Quit(c) == enricher' = [enricher EXCEPT ![c] = [NotStarted EXCEPT !.pc = "done"]]
In(c, pc) == enricher[c].pc = pc

\* The code is analyzed first, then the file is read.
Capture(c, kind) ==
    /\ In(c, "new")
    /\ enricher' = [enricher EXCEPT ![c].pc = "captured", ![c].kind = kind, ![c].seen = codeEdges]
    /\ UNCHANGED <<codeEdges, labels, replies, reviews, revisions>>

Select(c) ==
    /\ In(c, "captured")
    /\ LET pairs == IF enricher[c].kind = "labels" THEN Refinable(enricher[c].seen, labels)
                    ELSE Abstained(enricher[c].seen, labels)
       IN  IF pairs = {} THEN Quit(c)
           ELSE enricher' = [enricher EXCEPT ![c].pc = "asking", ![c].read = labels, ![c].asked = pairs]
    /\ UNCHANGED <<codeEdges, labels, replies, reviews, revisions>>

\* One prompt shows the pairs and their edges, and, again, why the last answer failed.
Prompt(c) ==
    [kind |-> enricher[c].kind, retry |-> enricher[c].retry,
     shown |-> {e \in enricher[c].seen : e.pair \in enricher[c].asked}]

\* A refinement may leave pairs out, an abstained pair must have its answer.
Wellformed(c) ==
    IF enricher[c].kind = "labels" THEN UNION {[S -> Grades] : S \in SUBSET enricher[c].asked}
    ELSE [enricher[c].asked -> Grades]

\* judged is history: the edges the model was asked about.
Draft(grade, E, p) ==
    [strength |-> grade, hash |-> {Stamp(E, p)}, approved |-> FALSE, llm |-> TRUE, judged |-> Between(E, p)]

\* Drafts replace what does not stand; the rest of the file is kept as it was read.
Merged(c) ==
    LET file == enricher[c].read
        reply == enricher[c].reply
        drafts == DOMAIN reply \ Standing(file, enricher[c].seen)
    IN  [p \in DOMAIN file \cup drafts |->
           IF p \in drafts THEN Draft(reply[p], enricher[c].seen, p) ELSE file[p]]

\* Any complete answer is kept, whatever it says, and a repeated question gets it again.
Answered(c, refresh) ==
    IF ~refresh /\ Prompt(c) \in DOMAIN replies THEN {replies[Prompt(c)]}
    ELSE Wellformed(c) \cup {Garbled}
Kept(c, reply) ==
    [q \in DOMAIN replies \cup {Prompt(c)} |-> IF q = Prompt(c) THEN reply ELSE replies[q]]

\* An answer for abstained pairs that is not what was asked for is asked for once more.
Ask(c, refresh) ==
    /\ In(c, "asking")
    /\ \E reply \in Answered(c, refresh) :
         /\ replies' = Kept(c, reply)
         /\ \/ /\ reply # Garbled
               /\ enricher' = [enricher EXCEPT ![c].pc = "saving", ![c].reply = reply]
            \/ /\ reply = Garbled /\ enricher[c].kind = "abstained" /\ ~enricher[c].retry
               /\ enricher' = [enricher EXCEPT ![c].retry = TRUE]
            \/ /\ reply = Garbled /\ (enricher[c].kind = "labels" \/ enricher[c].retry)
               /\ Quit(c)
    /\ UNCHANGED <<codeEdges, labels, reviews, revisions>>

\* The call fails or times out: nothing is cached and nothing is written.
AskFails(c) ==
    /\ In(c, "asking")
    /\ Quit(c)
    /\ UNCHANGED <<codeEdges, labels, replies, reviews, revisions>>

\* A temporary file takes the place of the file.
Save(c) ==
    /\ In(c, "saving")
    /\ labels' = Merged(c)
    /\ Quit(c)
    /\ UNCHANGED <<codeEdges, replies, reviews, revisions>>

Revise == revisions < MaxRevisions /\ revisions' = revisions + 1

\* A person approves a draft, writes a label, or rejects one.
Put(p, label) ==
    /\ Revise
    /\ labels' = [q \in DOMAIN labels \cup {p} |-> IF q = p THEN label ELSE labels[q]]
    /\ reviews' = reviews \cup {<<p, label>>}
    /\ UNCHANGED <<codeEdges, replies, enricher>>
ApproveLabel(p) ==
    p \in DOMAIN labels /\ ~labels[p].approved /\ Put(p, [labels[p] EXCEPT !.approved = TRUE])
WriteLabel(p, grade) ==
    Put(p, [strength |-> grade, hash |-> {}, approved |-> TRUE, llm |-> FALSE, judged |-> {}])
Reject(p) ==
    /\ p \in DOMAIN labels /\ Revise
    /\ labels' = [q \in DOMAIN labels \ {p} |-> labels[q]]
    /\ UNCHANGED <<codeEdges, replies, enricher, reviews>>

ChangeCode(e) ==
    /\ Revise
    /\ codeEdges' = IF e \in codeEdges THEN codeEdges \ {e} ELSE codeEdges \cup {e}
    /\ UNCHANGED <<labels, replies, enricher, reviews>>

LabelsNext ==
    \/ \E c \in Enrichers :
         \/ \E kind \in {"labels", "abstained"} : Capture(c, kind)
         \/ Select(c)
         \/ \E refresh \in BOOLEAN : Ask(c, refresh)
         \/ AskFails(c)
         \/ Save(c)
    \/ \E p \in LabelPairs :
         \/ ApproveLabel(p)
         \/ \E grade \in Grades : WriteLabel(p, grade)
         \/ Reject(p)
    \/ \E e \in PairEdges : ChangeCode(e)

LabelsSpec == LabelsInit /\ [][LabelsNext]_labelVars

-----------------------------------------------------------------------------
(* Properties *)

Label(label) ==
    /\ label.strength \in Grades /\ label.approved \in BOOLEAN /\ label.llm \in BOOLEAN
    /\ label.hash \subseteq SUBSET PairEdges /\ label.judged \subseteq PairEdges
FileOfLabels(file) == DOMAIN file \subseteq LabelPairs /\ \A p \in DOMAIN file : Label(file[p])

\* Every variable has its type; a run that asks, asks about something.
LabelsTypeOK ==
    /\ codeEdges \subseteq PairEdges /\ FileOfLabels(labels) /\ revisions \in 0..MaxRevisions
    /\ \A c \in Enrichers :
         /\ FileOfLabels(enricher[c].read) /\ DOMAIN enricher[c].reply \subseteq enricher[c].asked
         /\ enricher[c].pc \in {"new", "captured", "asking", "saving", "done"}
         /\ enricher[c].seen \subseteq PairEdges
         /\ enricher[c].asked \subseteq LabelPairs /\ (In(c, "asking") => enricher[c].asked # {})

\* What a save does to reviews: nothing it writes is approved but what a person approved,
\* in the same words, and an approval is only lost if it was judged on other edges than
\* the run had analyzed, or came after the run read the file (mergeEnrichmentLabels).
SaveKeepsReviews ==
    [][\A c \in Enrichers : In(c, "saving") /\ enricher'[c].pc = "done" =>
         /\ \A p \in DOMAIN labels' : labels'[p].approved => <<p, labels'[p]>> \in reviews
         /\ \A p \in {q \in DOMAIN labels : labels[q].approved} :
              \/ p \in DOMAIN labels' /\ labels'[p] = labels[p]
              \/ labels[p].llm /\ labels[p].judged # Between(enricher[c].seen, p)
              \/ p \in DOMAIN enricher[c].read => enricher[c].read[p] # labels[p]]_labelVars

\* A drafted label that a person approved is applied by every check of code that has just
\* the edges it was judged on, or none; and by no check of code with others: the
\* stamp and the check must hash alike (PairEvidence, pairEvidence).  The exception is
\* a pair with an edge of a file that only its package or crate attributes.
StampIsConfirmed(p) ==
    labels[p].approved /\ labels[p].llm /\ (\A e \in Between(codeEdges, p) : e.by = "glob") =>
       (Applied(p) <=> Between(codeEdges, p) \in {labels[p].judged, {}})

\* Both, for every run of enrich, reviewer and check.
LabelsAreReviewed == [](\A p \in DOMAIN labels : StampIsConfirmed(p)) /\ SaveKeepsReviews
=============================================================================
