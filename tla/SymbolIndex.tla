---------------------------- MODULE SymbolIndex -----------------------------
(***************************************************************************)
(* The SCIP adapter: integration strength read from a symbol index.  One     *)
(* indexer is detected for the tree, its index is read by a Python script,    *)
(* and the result is cached by the sources' hash.  Four consumers ask in      *)
(* turn; the first one runs the pipeline and the others share its result.     *)
(* For Rust, the edges between modules are summed up per Cargo package.       *)
(*                                                                         *)
(* The tree, the indexer and the host change between any two steps.          *)
(***************************************************************************)
EXTENDS Integers, FiniteSets, Sequences

CONSTANTS
    Indexed,      \* trees to start from: [manifests, named, packages, refs]
    Crates,       \* names of packages and crates
    IndexScans,   \* bound: scans
    IndexEvents,  \* bound: edits, upgrades and other changes of the host
    NoIndex

IndexLangs == {"python", "go", "typescript", "rust"}
StrengthRanks == 1..4 \* contract, model, functional, intrusive
Ends == Crates \X BOOLEAN \* a crate's root, or a module inside the crate
SymbolRefs == [from : Ends, to : Ends, strength : StrengthRanks, data : 0..2, kinds : SUBSET {"name", "type"}]
CargoPackages == [id : 1..3, name : Crates, targets : SUBSET Crates]

Consumers == <<"strengths", "connascence", "data", "symbols">>
Shapes == {"error", "empty", "symbols", "edges"}  \* what the reader prints
Attributions == {"ok", "partial", "invalid"}      \* and says of the Rust targets
RawIndexes == [shape : Shapes, attribution : Attributions, text : Nat, version : Nat,
               lang : IndexLangs, raced : BOOLEAN, refs : SUBSET SymbolRefs]
IndexOutcomes == [ok : BOOLEAN, status : {"absent", "timed_out", "partial", "ok"}, reason : BOOLEAN,
                  raw : RawIndexes \cup {NoIndex}, aliases : SUBSET SymbolRefs]

ASSUME SymbolIndexAssumption ==
    /\ Indexed \subseteq [manifests : SUBSET IndexLangs, named : SUBSET IndexLangs,
                          packages : SUBSET CargoPackages, refs : SUBSET SymbolRefs]
    /\ \A t \in Indexed : /\ \A e, f \in t.refs : <<e.from, e.to>> = <<f.from, f.to>> => e = f
                          /\ \A p, q \in t.packages : p.id = q.id => p = q
    /\ IndexScans \in Nat /\ IndexEvents \in Nat
    /\ NoIndex \notin IndexOutcomes

VARIABLES
    indexed,  \* the tree: text and, fixed, the rest of a member of Indexed
    host,     \* [tools, python, modules, version]: what is installed
    indexFacts, \* the fact cache: entries [key, raw]
    adapter,  \* the adapter of the scan
    indexEvents

indexVars == <<indexed, host, indexFacts, adapter, indexEvents>>

\* A new adapter: nothing detected, nothing remembered.
NewAdapter(n) == [scan |-> n, pc |-> "idle", answers |-> <<>>, memo |-> NoIndex,
                  lang |-> "", version |-> 0, packages |-> {}, key |-> NoIndex, raw |-> NoIndex,
                  raced |-> FALSE, hints |-> {}, overlay |-> NoIndex]

IndexInit ==
    /\ \E t \in Indexed : indexed = [tree |-> t, text |-> 1]
    /\ host = [tools |-> IndexLangs, python |-> "uv", modules |-> TRUE, version |-> 1]
    /\ indexFacts = {}
    /\ adapter = NewAdapter(0) /\ indexEvents = 0

-----------------------------------------------------------------------------
(* Detection *)

\* The package the reader filters on.
Packaged(l) == l \in indexed.tree.named

\* Languages in the order they are tried.
Tried == <<"python", "go", "typescript", "rust">>
Usable(l) == l \in indexed.tree.manifests /\ l \in host.tools /\ (l # "rust" => Packaged(l))
Detected == {n \in DOMAIN Tried : Usable(Tried[n]) /\ \A k \in 1..(n - 1) : ~Usable(Tried[k])}

\* The pipeline ends: its outcome is remembered for the tree's root.
Ended(a, ok, status, reason, raw, aliases) ==
    [a EXCEPT !.pc = "answer", !.raw = NoIndex,
              !.memo = [ok |-> ok, status |-> status, reason |-> reason, raw |-> raw, aliases |-> aliases]]
Stops(status, reason) == adapter' = Ended(adapter, FALSE, status, reason, NoIndex, {})

\* A consumer asks; the first one runs the pipeline.
runSCIPPipeline ==
    /\ adapter.pc = "idle" /\ Len(adapter.answers) < Len(Consumers) /\ adapter.scan > 0
    /\ adapter' = [adapter EXCEPT !.pc = IF adapter.memo # NoIndex THEN "answer" ELSE "detect"]
    /\ UNCHANGED <<indexed, host, indexFacts, indexEvents>>

\* cargo metadata names the packages, is cut off, or fails.
cargoWorkspaceMembers ==
    \/ adapter' = [adapter EXCEPT !.pc = "reader", !.lang = "rust", !.packages = indexed.tree.packages]
    \/ Stops("timed_out", TRUE)
    \/ Stops("partial", TRUE)

detectIndexer ==
    /\ adapter.pc = "detect"
    /\ \/ Detected = {} /\ \E s \in {"absent", "timed_out"} : Stops(s, TRUE)
       \/ \E n \in Detected :
            IF Tried[n] = "rust" THEN cargoWorkspaceMembers
            ELSE adapter' = [adapter EXCEPT !.pc = "reader", !.lang = Tried[n]]
    /\ UNCHANGED <<indexed, host, indexFacts, indexEvents>>

\* The interpreter for the reader: uv, or one the user named, which must lie
\* outside the tree and hold the reader's dependencies.
readerPython ==
    /\ adapter.pc = "reader"
    /\ \/ host.python = "none" /\ Stops("absent", TRUE)
       \/ host.python = "refused" /\ \E s \in {"timed_out", "partial"} : Stops(s, TRUE)
       \/ /\ host.python = "uv"
          /\ IF adapter.lang = "typescript" /\ ~host.modules THEN Stops("absent", TRUE)
             ELSE \E v \in {0, host.version} : \* 0: the indexer does not tell its version
                    adapter' = [adapter EXCEPT !.pc = "lookup", !.version = v, !.raced = FALSE]
    /\ UNCHANGED <<indexed, host, indexFacts, indexEvents>>

-----------------------------------------------------------------------------
(* Cargo packages *)

Owners(ps, c) == {p \in ps : c \in p.targets}
AmbiguousNames(ps) == {p.name : p \in {q \in ps : \E r \in ps : r.name = q.name /\ r.id # q.id}}
AmbiguousCrates(ps) == {c \in Crates : Cardinality(Owners(ps, c)) > 1}
Overlaps(ps) == {c \in Crates : Cardinality(Owners(ps, c)) = 1
                                /\ \E q \in ps : q.name = c /\ q \notin Owners(ps, c)}
Blocked(ps) == AmbiguousNames(ps) \cup AmbiguousCrates(ps) \cup Overlaps(ps)

\* A variant of the code, for TLC: a crate two packages build belongs to one of them.
rustTargetPackageOwnersFirst(ps) ==
    [c \in {x \in Crates : Owners(ps, x) # {}} |-> (CHOOSE p \in Owners(ps, c) : TRUE).name]

\* The package a crate belongs to, when there is no doubt.
rustTargetPackageOwners(ps) ==
    [c \in {x \in Crates : /\ Cardinality(Owners(ps, x)) = 1 /\ x \notin Overlaps(ps)
                           /\ \A p \in Owners(ps, x) : p.name \notin Blocked(ps)}
       |-> (CHOOSE p \in Owners(ps, c) : TRUE).name]

\* The references between two packages, as one edge of the strongest kind.
Strongest(es) == CHOOSE s \in {e.strength : e \in es} : \A e \in es : e.strength <= s
Aggregate(a, b, es) ==
    [from |-> <<a, FALSE>>, to |-> <<b, FALSE>>, strength |-> Strongest(es),
     data |-> CHOOSE d \in {e.data : e \in es} : \A e \in es : e.data <= d,
     kinds |-> UNION {e.kinds : e \in es}]
Aggregates(es, own) ==
    LET between(a, b) == {e \in es : e.from[1] \in DOMAIN own /\ e.to[1] \in DOMAIN own
                                     /\ own[e.from[1]] = a /\ own[e.to[1]] = b}
    IN  {Aggregate(p[1], p[2], between(p[1], p[2])) :
           p \in {q \in Crates \X Crates : q[1] # q[2] /\ between(q[1], q[2]) # {}}}
SameEnds(e, f) == e.from = f.from /\ e.to = f.to

\* Aliases, and whether an aggregate contradicts a reference between crate roots.
rustObservedPackageEdges(es, own) ==
    [aliases |-> {g \in Aggregates(es, own) : \A e \in es : ~SameEnds(e, g)},
     issues |-> \E g \in Aggregates(es, own), e \in es : SameEnds(e, g) /\ e # g]

\* The pipeline's result, with the package aliases of a Rust index.
rustPackageResult(a, raw, status, reason) ==
    IF a.lang # "rust" THEN Ended(a, TRUE, status, reason, raw, {})
    ELSE LET own == rustTargetPackageOwners(a.packages)
             seen == rustObservedPackageEdges(raw.refs, own)
             issues == Blocked(a.packages) # {} \/ seen.issues
         IN  Ended(a, TRUE, IF issues THEN "partial" ELSE status, reason \/ issues, raw, seen.aliases)

-----------------------------------------------------------------------------
(* The cache, the indexer and the reader *)

\* Indexer, version, package metadata and the hash of the sources.
cacheKey == <<adapter.lang, adapter.version, adapter.packages, indexed.text>>

\* Coverage of a reader's output that has not been refused.
ReaderCovers(lang, raw) == lang = "rust" => raw.attribution # "invalid" /\ raw.shape # "error"
ReaderStatus(lang, raw) == IF lang = "rust" /\ raw.attribution = "ok" THEN "ok" ELSE "partial"
ReaderReason(lang, raw) == lang = "rust" /\ raw.attribution = "partial"

\* An entry may be gone, or the cache be off; then there is a directory to write to,
\* and for Rust a file.
Lookup ==
    /\ adapter.pc = "lookup"
    /\ LET hits == {e \in indexFacts : e.key = cacheKey /\ ReaderCovers(adapter.lang, e.raw)}
           a == [adapter EXCEPT !.key = cacheKey]
       IN  \/ \E e \in hits :
                adapter' = rustPackageResult(a, e.raw, ReaderStatus(a.lang, e.raw), ReaderReason(a.lang, e.raw))
           \/ adapter' = [a EXCEPT !.pc = "index"]
           \/ Stops("absent", FALSE)
           \/ adapter.lang = "rust" /\ Stops("partial", TRUE)
    /\ UNCHANGED <<indexed, host, indexFacts, indexEvents>>

\* The indexer writes an index of the tree, with all its references or nothing; is
\* cut off, or fails.
RunIndexer ==
    /\ adapter.pc = "index"
    /\ \/ \E s \in {"error", "empty", IF indexed.tree.refs = {} THEN "symbols" ELSE "edges"},
              r \in IF adapter.lang = "rust" THEN Attributions ELSE {"ok"} :
            /\ adapter' = [adapter EXCEPT !.pc = "read",
                             !.raw = [shape |-> s, attribution |-> r, text |-> indexed.text,
                                      version |-> host.version, lang |-> adapter.lang, raced |-> adapter.raced,
                                      refs |-> IF s = "edges" THEN indexed.tree.refs ELSE {}]]
       \/ Stops("timed_out", TRUE)
       \/ Stops("partial", FALSE)
    /\ UNCHANGED <<indexed, host, indexFacts, indexEvents>>

\* Only a whole answer with something in it is kept, when there is a cache to keep it.
cacheableSCIP(raw) == raw.shape \in {"symbols", "edges"}

\* The reader prints its answer, is cut off, or fails.
RunReader ==
    /\ adapter.pc = "read"
    /\ \/ Stops("timed_out", TRUE) /\ UNCHANGED indexFacts
       \/ Stops("partial", TRUE) /\ UNCHANGED indexFacts
       \/ ~ReaderCovers(adapter.lang, adapter.raw) /\ Stops("partial", TRUE) /\ UNCHANGED indexFacts
       \/ /\ ReaderCovers(adapter.lang, adapter.raw)
          /\ adapter' = rustPackageResult(adapter, adapter.raw, ReaderStatus(adapter.lang, adapter.raw),
                                          ReaderReason(adapter.lang, adapter.raw))
          /\ \/ UNCHANGED indexFacts
             \/ /\ cacheableSCIP(adapter.raw)
                /\ indexFacts' = {e \in indexFacts : e.key # adapter.key}
                                   \cup {[key |-> adapter.key, raw |-> adapter.raw]}
    /\ UNCHANGED <<indexed, host, indexEvents>>

-----------------------------------------------------------------------------
(* What the consumers are told *)

Unparsed(raw) == raw.shape = "error"
Answer(who, status, items) == [consumer |-> who, status |-> status, items |-> items, raw |-> NoIndex]

\* Module references and package aliases; an alias takes the key of a reference
\* it shares it with.
Overlaid(es, aliases) == {e \in es : \A g \in aliases : ~SameEnds(e, g)} \cup aliases
Partial(m) == m.status = "partial" /\ m.reason

StrengthsFor(m) ==
    LET all == Overlaid(m.raw.refs, m.aliases)
    IN  Answer("strengths", IF Partial(m) \/ m.raw.shape = "empty" THEN "partial" ELSE "ok", all)
ConnascenceFor(m) ==
    Answer("connascence", IF Partial(m) THEN "partial" ELSE "ok",
           {e \in Overlaid(m.raw.refs, m.aliases) : e.kinds # {}})
DataStrengthsFor(m) ==
    Answer("data", IF Partial(m) THEN "partial" ELSE "ok",
           {e \in Overlaid(m.raw.refs, m.aliases) : e.data > 0})
SymbolsFor(m) ==
    Answer("symbols", IF Partial(m) \/ m.raw.shape = "empty" THEN "partial" ELSE "ok", {})

AnswerOf(who, m) ==
    IF ~m.ok \/ Unparsed(m.raw) THEN Answer(who, m.status, {})
    ELSE CASE who = "strengths" -> StrengthsFor(m)
           [] who = "connascence" -> ConnascenceFor(m)
           [] who = "data" -> DataStrengthsFor(m)
           [] who = "symbols" -> SymbolsFor(m)

\* What stays remembered after an answer: everything, until the scan ends.
Remembered(m) == m

Reply ==
    /\ adapter.pc = "answer"
    /\ adapter' = [adapter EXCEPT !.pc = "idle", !.memo = Remembered(adapter.memo),
                     !.answers = Append(@, [AnswerOf(Consumers[Len(@) + 1], adapter.memo)
                                              EXCEPT !.raw = adapter.memo.raw])]
    /\ UNCHANGED <<indexed, host, indexFacts, indexEvents>>

-----------------------------------------------------------------------------
(* The extractors' edges *)

CargoEdge(p, q) == [lang |-> "rust", from |-> <<p.name, FALSE>>, to |-> <<q.name, FALSE>>, hint |-> 0]
CargoEdges == {CargoEdge(p, q) : p \in adapter.packages, q \in adapter.packages}
ReferredEdges(l, h) == {[lang |-> l, from |-> e.from, to |-> e.to, hint |-> h] : e \in indexed.tree.refs}
ExtractedEdges ==
    {e \in (IF adapter.lang = "go" THEN {} ELSE ReferredEdges(adapter.lang, 0)) \cup CargoEdges : e.from # e.to}
      \cup IF "go" \in indexed.tree.manifests THEN ReferredEdges("go", 1) ELSE {}

Enriched(e, strengths) ==
    IF e.lang = "go" /\ e.hint # 0 THEN e
    ELSE [e EXCEPT !.hint = IF \E r \in strengths : SameEnds(r, e)
                            THEN (CHOOSE r \in strengths : SameEnds(r, e)).strength ELSE @]

\* The strengths go over the edges of the extractors (of the dependencies of Cargo
\* packages, all there may be); for the languages they are read for, the edges met
\* and missed are counted.
enrichEdges ==
    /\ adapter.pc = "idle" /\ Len(adapter.answers) = Len(Consumers)
    /\ LET strengths == adapter.answers[1]
           counted == {e \in ExtractedEdges : e.lang \in {"typescript", "python", "rust"}
                                              /\ strengths.status \in {"ok", "partial"}}
           met == {e \in counted : \E r \in strengths.items : SameEnds(r, e)}
       IN  adapter' = [adapter EXCEPT !.pc = "done",
                         !.hints = {Enriched(e, strengths.items) : e \in ExtractedEdges},
                         !.overlay = [candidates |-> Cardinality(counted), applied |-> Cardinality(met),
                                      missed |-> Cardinality(counted \ met)]]
    /\ UNCHANGED <<indexed, host, indexFacts, indexEvents>>

ScanStarts ==
    /\ adapter.scan < IndexScans
    /\ adapter.scan = 0 \/ adapter.pc = "done"
    /\ adapter' = NewAdapter(adapter.scan + 1)
    /\ UNCHANGED <<indexed, host, indexFacts, indexEvents>>

-----------------------------------------------------------------------------
(* The tree and the host *)

Happens == indexEvents < IndexEvents /\ indexEvents' = indexEvents + 1 /\ UNCHANGED indexFacts

\* The sources change.
SourcesChange ==
    /\ Happens
    /\ indexed' = [indexed EXCEPT !.text = @ + 1]
    /\ adapter' = [adapter EXCEPT !.raced = @ \/ adapter.pc = "index"]
    /\ UNCHANGED host

\* The indexer is upgraded.
IndexerUpgrade ==
    /\ Happens
    /\ host' = [host EXCEPT !.version = @ + 1]
    /\ adapter' = [adapter EXCEPT !.raced = @ \/ adapter.pc \in {"lookup", "index"}]
    /\ UNCHANGED indexed

\* Tools come and go.
HostChanges ==
    /\ Happens
    /\ \/ \E l \in indexed.tree.manifests :
            host' = [host EXCEPT !.tools = IF l \in @ THEN @ \ {l} ELSE @ \cup {l}]
       \/ \E p \in {"uv", "none", "refused"} \ {host.python} : host' = [host EXCEPT !.python = p]
       \/ host' = [host EXCEPT !.modules = ~@]
    /\ UNCHANGED <<indexed, adapter>>

IndexNext ==
    \/ ScanStarts \/ runSCIPPipeline \/ detectIndexer \/ readerPython \/ Lookup \/ RunIndexer \/ RunReader \/ Reply
    \/ enrichEdges \/ SourcesChange \/ IndexerUpgrade \/ HostChanges

IndexSpec == IndexInit /\ [][IndexNext]_indexVars

-----------------------------------------------------------------------------
IndexTypeOK ==
    /\ indexed.tree \in Indexed /\ indexed.text \in 1..(IndexEvents + 1)
    /\ host.tools \subseteq IndexLangs /\ host.python \in {"uv", "none", "refused"}
    /\ host.modules \in BOOLEAN /\ host.version \in 1..(IndexEvents + 1)
    /\ adapter.scan \in 0..IndexScans
    /\ adapter.pc \in {"idle", "detect", "reader", "lookup", "index", "read", "answer", "done"}
    /\ Len(adapter.answers) <= Len(Consumers)
    /\ \A e \in indexFacts : cacheableSCIP(e.raw) /\ e.key[1] = e.raw.lang
    /\ indexEvents \in 0..IndexEvents

Told(who) == {adapter.answers[n] : n \in {k \in DOMAIN adapter.answers : adapter.answers[k].consumer = who}}

\* One index answers every consumer of a scan: strengths, data kinds, connascence
\* and symbols are never of two different trees (runSCIPPipeline).
ConsumersAgree == \A k, n \in DOMAIN adapter.answers : adapter.answers[k].raw = adapter.answers[n].raw

\* An answer is read from an index of the sources and by the indexer the key was
\* made of, unless they changed before the indexer ran, or the indexer does not
\* tell its version (cacheKey, cachedSCIP).
IndexIsOfTree ==
    adapter.memo # NoIndex => LET m == adapter.memo IN
        m.ok /\ ~m.raw.raced =>
            /\ m.raw.lang = adapter.lang /\ m.raw.text = adapter.key[4]
            /\ adapter.version # 0 => m.raw.version = adapter.version

\* "ok" is never said of an index that is empty or cannot be read, nor of a Rust
\* one with symbols that belong to no target.
OkIsWhole ==
    \A a \in Told("strengths") \cup Told("symbols") :
        a.status = "ok" => /\ a.raw.shape \in {"symbols", "edges"}
                           /\ a.raw.lang = "rust" => a.raw.attribution = "ok"

\* The aliases hide no reference, and stand only for packages and crates that
\* their names tell apart, at the strength of the strongest reference between
\* the crates that are surely theirs: no package of another name builds such a
\* crate or bears its name (rustPackageResult).
Unmistakable(n) ==
    /\ Cardinality({p \in adapter.packages : p.name = n}) = 1
    /\ \A p \in Owners(adapter.packages, n) : p.name = n
Surely(c, n) ==
    /\ Owners(adapter.packages, c) # {}
    /\ \A p \in adapter.packages : c \in p.targets \/ p.name = c => p.name = n
Beneath(a, b, es) == {e \in es : Surely(e.from[1], a) /\ Surely(e.to[1], b)}
AliasesAreSound ==
    \A t \in Told("strengths") :
        t.raw # NoIndex /\ t.items # {} =>
            /\ t.raw.refs \subseteq t.items
            /\ \A g \in t.items \ t.raw.refs :
                 /\ ~g.from[2] /\ ~g.to[2] /\ Unmistakable(g.from[1]) /\ Unmistakable(g.to[1])
                 /\ LET under == Beneath(g.from[1], g.to[1], t.raw.refs)
                    IN  /\ \A e \in under : e.strength <= g.strength
                        /\ \E e \in under : e.strength = g.strength

\* When strengths are "ok", an edge between Cargo packages is as strong as any
\* reference seen between their crates, and an extractor's own Go strengths stay.
HintsAreEarned ==
    adapter.pc = "done" =>
        \A h \in adapter.hints :
            /\ h.lang = "go" => h.hint = 1
            /\ h.lang = "rust" /\ adapter.answers[1].status = "ok" /\ ~h.from[2] /\ ~h.to[2] =>
                 \A e \in Beneath(h.from[1], h.to[1], adapter.answers[1].raw.refs) : e.strength <= h.hint

StrengthIsEarned == ConsumersAgree /\ IndexIsOfTree /\ OkIsWhole /\ AliasesAreSound /\ HintsAreEarned

=============================================================================
