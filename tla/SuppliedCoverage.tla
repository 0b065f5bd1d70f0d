---------------------------- MODULE SuppliedCoverage ----------------------------
(***************************************************************************)
(* Coverage that a test job supplies: an artifact and a sidecar with the      *)
(* hashes of the sources it covers.  A check reads each artifact, asks the     *)
(* sidecar whether the sources are still those, takes the parsed facts from    *)
(* the fact cache when it has parsed these bytes before, and merges what all    *)
(* artifacts say into one ratio.  Meanwhile sources are edited, deleted and     *)
(* brought back.                                                             *)
(*                                                                         *)
(* The bytes of a file are a number, Deleted when it is not there.  An artifact is *)
(* a set of records (a path, the units it lists and those that were hit) and    *)
(* what is wrong with it.  A path of an artifact may stand for several files    *)
(* (below a module, below a source directory, below the root): the first that   *)
(* is there.  A job writes artifact and sidecar while no check runs, and its    *)
(* paths stand for the same files to it; `meant` and `taken` remember which     *)
(* and with which bytes.                                                      *)
(***************************************************************************)
EXTENDS Integers, Sequences, FiniteSets, FiniteSetsExt

CONSTANTS
    CoveredFiles,  \* source files
    SourceTrees,   \* their bytes to begin with
    ClassOf,       \* their class: "production", "test", or "" for none
    OwnerOf,       \* the module a file belongs to, or Ownerless
    DeclaredModules,
    UnitsOf,       \* the units of a file: its lines, or its statements
    Candidates,    \* path in an artifact |-> the files it may stand for, in order; Outside for others
    Artifacts,     \* the configured sources, in order: [path, format, extension]
    Jobs,          \* what a test job can write
    FactLimits,    \* max_facts of a check
    MaxJobs, MaxSourceEdits, MaxChecks, \* bounds
    Outside, Deleted, Unresolved, NoArtifact, Ownerless

Formats == {"go-coverprofile", "lcov", "coverage-py-json", "llvm-cov-json", "cobertura"}
Extensions == {"none", "out", "info", "json", "xml"}

ASSUME SuppliedAssumption ==
    /\ IsFiniteSet(CoveredFiles) /\ Outside \notin CoveredFiles /\ Unresolved \notin CoveredFiles
    /\ CoveredFiles \cap DOMAIN Candidates = {} /\ Deleted \notin {1, 2}
    /\ \A p \in DOMAIN Candidates : Candidates[p] \in Seq(CoveredFiles \cup {Outside})
    /\ Len(Artifacts) \in Nat /\ DOMAIN Artifacts = 1..Len(Artifacts)
    /\ \A i \in DOMAIN Artifacts :
         Artifacts[i].format \in Formats \cup {"auto"} /\ Artifacts[i].extension \in Extensions
    /\ \A j \in Jobs :
         /\ j.to \in {Artifacts[i].path : i \in DOMAIN Artifacts} /\ j.format \in Formats
         /\ IsFiniteSet(j.records) /\ j.beside # "valid"
         /\ \A r \in j.records : r.raw \in DOMAIN Candidates /\ r.hit \subseteq r.units
    /\ FactLimits \subseteq Nat \ {0}

VARIABLES
    sources,   \* source file |-> its bytes
    artifact,  \* path |-> what the last job wrote there
    sidecar,   \* path |-> the hashes beside it
    factStore, \* the fact cache: key |-> parsed facts
    ingestion, \* what a check has ingested so far
    testability, \* what the last check reported
    happened   \* how many jobs, edits and checks there were

suppliedVars == <<sources, artifact, sidecar, factStore, ingestion, testability, happened>>

Paths == {Artifacts[i].path : i \in DOMAIN Artifacts}
NoSidecar == [state |-> "missing"]
NotIngesting == [running |-> FALSE, limit |-> 0, ingests |-> <<>>]
NothingSaid == [ingests |-> <<>>]

-----------------------------------------------------------------------------
(* Paths *)

Present(bytes) == {f \in CoveredFiles : bytes[f] # Deleted}

\* The first file a path may stand for that is there.
Normalize(raw, bytes) ==
    LET found == {i \in DOMAIN Candidates[raw] : Candidates[raw][i] \in Present(bytes)}
    IN  IF found = {} THEN Unresolved ELSE Candidates[raw][Min(found)]

lexicallyInside(raw) == \E i \in DOMAIN Candidates[raw] : Candidates[raw][i] # Outside

-----------------------------------------------------------------------------
(* Parsers *)

formatCandidatesForExtension(extension) ==
    CASE extension = "out" -> {"go-coverprofile"}
      [] extension = "info" -> {"lcov"}
      [] extension = "json" -> {"coverage-py-json", "llvm-cov-json"}
      [] extension = "xml" -> {"cobertura"}
      [] OTHER -> {}

\* The content of an artifact has one shape; extension and content must agree.
detectFormat(extension, content) ==
    LET byName == formatCandidatesForExtension(extension)
    IN  IF byName = {} THEN {content.format} ELSE byName \cap {content.format}

selectParser(source, content) ==
    IF source.format # "auto" THEN {source.format} ELSE detectFormat(source.extension, content)

Raws(content) == {r.raw : r \in content.records}
RecordsOf(content, P) == {r \in content.records : r.raw \in P}

\* The blocks of a Go profile are summed, and one listed twice counts twice (go
\* test -coverpkg lists a block once per test binary); lines are merged by the
\* most hits; of two llvm summaries the greater stands.
goCoverCount(R) ==
    [covered |-> MapThenSumSet(LAMBDA r : Cardinality(r.hit), R),
     total |-> MapThenSumSet(LAMBDA r : Cardinality(r.units), R)]
mergedLines(R) ==
    [covered |-> Cardinality(UNION {r.hit : r \in R}), total |-> Cardinality(UNION {r.units : r \in R})]
llvmCount(R) ==
    [covered |-> Max({Cardinality(r.hit) : r \in R}), total |-> Max({Cardinality(r.units) : r \in R})]
coveragePyCount(R) == mergedLines(R)

unitOf(format) == IF format = "go-coverprofile" THEN "statements" ELSE "lines"

CountOf(format, R) ==
    CASE format = "go-coverprofile" -> goCoverCount(R)
      [] format = "llvm-cov-json" -> llvmCount(R)
      [] format = "coverage-py-json" -> coveragePyCount(R)
      [] OTHER -> mergedLines(R)

llvmConflict(content) ==
    \E r, s \in content.records : r.raw = s.raw /\ Cardinality(r.units) # Cardinality(s.units)

Malformed(format, content) ==
    \/ content.broken \/ content.records = {}
    \/ content.format # format
    \/ format = "llvm-cov-json" /\ llvmConflict(content)

\* A Cobertura class outside the root is dropped, unless all of them are.
coberturaFacts(content, bytes) ==
    LET inside == {p \in Raws(content) : Normalize(p, bytes) # Unresolved \/ lexicallyInside(p)}
    IN  IF inside = {} THEN Raws(content) ELSE inside

\* Cobertura merges the classes of a file, the others the records of a path.
resolveCoberturaPath(raw, bytes) ==
    IF Normalize(raw, bytes) = Unresolved THEN raw ELSE Normalize(raw, bytes)

MergedPaths(format, content, bytes) ==
    IF format = "cobertura"
    THEN {{p \in coberturaFacts(content, bytes) : resolveCoberturaPath(p, bytes) = q} :
            q \in {resolveCoberturaPath(p, bytes) : p \in coberturaFacts(content, bytes)}}
    ELSE {{p} : p \in Raws(content)}

FactOf(format, content, P, bytes) ==
    LET count == CountOf(format, RecordsOf(content, P))
    IN  [file |-> Normalize(CHOOSE p \in P : TRUE, bytes), paths |-> P, unit |-> unitOf(format),
         covered |-> count.covered, total |-> count.total]

parse(format, content, bytes) ==
    {FactOf(format, content, P, bytes) : P \in MergedPaths(format, content, bytes)}

-----------------------------------------------------------------------------
(* Attestation *)

NoRef == "" \* no revision named
Unverified == [freshness |-> "unverified", reasons |-> {"freshness_unverified"}, ref |-> NoRef, matched |-> {}]

\* What the sidecar says of the sources: only all of its hashes together match.
attest(beside, bytes) ==
    IF beside.state # "valid" \/ DOMAIN beside.hashes = {} THEN Unverified
    ELSE IF \E f \in DOMAIN beside.hashes : bytes[f] = Deleted \/ bytes[f] # beside.hashes[f]
         THEN [freshness |-> "stale", reasons |-> {"worktree_differs_from_ref"}, ref |-> beside.ref,
               matched |-> {}]
         ELSE [freshness |-> "matched", reasons |-> {}, ref |-> beside.ref, matched |-> DOMAIN beside.hashes]

unverifyAttestation(a) ==
    [a EXCEPT !.freshness = "unverified", !.matched = {}, !.reasons = @ \cup {"freshness_unverified"}]

\* A sidecar that does not list a file of the artifact says nothing of it.
bindAttestationToFacts(a, facts) ==
    IF facts = {} THEN unverifyAttestation(a)
    ELSE IF a.freshness = "matched" /\ \E x \in facts : x.file \notin a.matched
         THEN [a EXCEPT !.freshness = "stale", !.reasons = {"worktree_differs_from_ref"}, !.matched = {}]
         ELSE a

-----------------------------------------------------------------------------
(* One source *)

\* Of one scan root; the parser's version is that of the format.
coverageCacheKey(source, format, a, content) ==
    [path |-> source.path, format |-> format, ref |-> a.ref, data |-> content.records]

\* `scanned` remembers the bytes the sidecar was held against.
Rejected(content, reasons) ==
    [facts |-> {}, unresolved |-> 0, freshness |-> "unverified", reasons |-> reasons,
     read |-> content, scanned |-> sources]

Ingested(content, a, facts, unresolved, reasons) ==
    [facts |-> facts, unresolved |-> unresolved, freshness |-> a.freshness,
     reasons |-> reasons \cup a.reasons, read |-> content, scanned |-> sources]

\* A hit as it would be if the sidecar were not held against what is counted.
lookupUnbound(facts, attested, limit, content) ==
    IF Cardinality(facts) > limit THEN Ingested(content, attested, {}, 0, {"coverage_fact_limit_exceeded"})
    ELSE Ingested(content, attested, facts, 0, {})

lookupCached(facts, attested, limit, content) ==
    LET a == bindAttestationToFacts(attested, facts)
    IN  IF Cardinality(facts) > limit THEN Ingested(content, a, {}, 0, {"coverage_fact_limit_exceeded"})
        ELSE Ingested(content, a, facts, 0, {})

\* Paths that name no file are counted, and too many facts are none.
normalizeParsedFacts(parsed, limit) ==
    LET kept == {x \in parsed : x.file # Unresolved}
    IN  [facts |-> IF Cardinality(kept) > limit THEN {} ELSE kept,
         unresolved |-> Cardinality(parsed \ kept),
         exceeded |-> Cardinality(kept) > limit]

Reason(condition, reason) == IF condition THEN {reason} ELSE {}

FactReasons(normalized, content) ==
    Reason(content.summaryDiffers, "coverage_parse_warning") \cup
    Reason(normalized.unresolved > 0, "unresolved_coverage_paths") \cup
    Reason(normalized.facts = {}, "coverage_facts_empty")

parsedIngest(format, content, attested, limit) ==
    IF Malformed(format, content)
    THEN LET a == unverifyAttestation(attested)
         IN  Ingested(content, a, {}, 0, {"coverage_parse_failed"})
    ELSE LET normalized == normalizeParsedFacts(parse(format, content, sources), limit)
             a == bindAttestationToFacts(attested, normalized.facts)
         IN  IF normalized.exceeded
             THEN Ingested(content, a, {}, normalized.unresolved, {"coverage_fact_limit_exceeded"})
             ELSE Ingested(content, a, normalized.facts, normalized.unresolved,
                           FactReasons(normalized, content))

FactsStored(store, key, facts) == [k \in DOMAIN store \cup {key} |-> IF k = key THEN facts ELSE store[k]]
Cacheable(ingest) == ingest.freshness = "matched" /\ ingest.unresolved = 0 /\ ingest.reasons = {}

ingest(source, limit) ==
    LET content == artifact[source.path]
    IN  IF content = NoArtifact
        THEN [out |-> Rejected(NoArtifact, {"coverage_source_unavailable"}), store |-> factStore]
        ELSE IF content.large
        THEN [out |-> Rejected(content, {"coverage_artifact_too_large"}), store |-> factStore]
        ELSE IF Cardinality(selectParser(source, content)) # 1
        THEN [out |-> Rejected(content, {"coverage_parse_failed"}), store |-> factStore]
        ELSE LET format == CHOOSE x \in selectParser(source, content) : TRUE
                 attested == attest(sidecar[source.path], sources)
                 key == coverageCacheKey(source, format, attested, content)
                 fresh == parsedIngest(format, content, attested, limit)
             IN  IF key \in DOMAIN factStore
                 THEN [out |-> lookupCached(factStore[key], attested, limit, content), store |-> factStore]
                 ELSE [out |-> fresh,
                       store |-> IF Cacheable(fresh) THEN FactsStored(factStore, key, fresh.facts) ELSE factStore]

-----------------------------------------------------------------------------
(* All sources *)

coverageHealth(ingests) ==
    CASE \A i \in DOMAIN ingests : ingests[i].reasons = {"coverage_source_unavailable"} -> "absent"
      [] \E i \in DOMAIN ingests : ingests[i].reasons # {} -> "partial"
      [] OTHER -> "ok"

FactsOf(ingests) == UNION {{[source |-> i, fact |-> x] : x \in ingests[i].facts} : i \in DOMAIN ingests}

IsCounted(f) == ClassOf[f] = "production" /\ OwnerOf[f] # Ownerless
addFact(facts) == {x.fact : x \in {y \in facts : IsCounted(y.fact.file)}}
UnattributedPaths(facts) ==
    {x.fact.file : x \in {y \in facts : 
                            \/ ClassOf[y.fact.file] = ""
                            \/ ClassOf[y.fact.file] = "production" /\ OwnerOf[y.fact.file] = Ownerless}}

compatible(facts) ==
    \A x, y \in facts : x.unit = y.unit /\ (x.file = y.file => x.total = y.total)

coverageIngestHasRejectedFacts(reasons) ==
    reasons \cap {"coverage_source_unavailable", "coverage_parse_failed", "coverage_facts_empty"} # {}

\* Of the facts of a file the greatest.
GreatestOf(facts, f) == Max({x.covered : x \in {y \in facts : y.file = f}})
TotalOf(facts, f) == Max({x.total : x \in {y \in facts : y.file = f}})

summarizeSuppliedCoverage(ingests) ==
    LET all == FactsOf(ingests)
        facts == addFact(all)
        files == {x.file : x \in facts}
        modules == {OwnerOf[f] : f \in files}
        complete == /\ \A i \in DOMAIN ingests :
                         ingests[i].facts # {} /\ ~coverageIngestHasRejectedFacts(ingests[i].reasons)
                    /\ compatible(facts) /\ files # {}
    IN  [units |-> complete,
         covered |-> IF complete THEN MapThenSumSet(LAMBDA f : GreatestOf(facts, f), files) ELSE 0,
         total |-> IF complete THEN MapThenSumSet(LAMBDA f : TotalOf(facts, f), files) ELSE 0,
         resolved |-> \A i \in DOMAIN ingests : ingests[i].unresolved = 0,
         attributed |-> DeclaredModules # {} /\ modules = DeclaredModules /\ UnattributedPaths(all) = {},
         fresh |-> \A i \in DOMAIN ingests : ingests[i].freshness = "matched"]

testabilityDimension(ingests) ==
    LET summary == summarizeSuppliedCoverage(ingests)
    IN  [ingests |-> ingests, summary |-> summary, row |-> coverageHealth(ingests),
         status |-> IF /\ summary.units /\ summary.resolved /\ summary.attributed /\ summary.fresh
                    THEN "measured" ELSE "partial"]

-----------------------------------------------------------------------------
SuppliedInit ==
    /\ sources \in SourceTrees
    /\ artifact = [p \in Paths |-> NoArtifact]
    /\ sidecar = [p \in Paths |-> NoSidecar]
    /\ factStore = <<>>
    /\ ingestion = NotIngesting
    /\ testability = NothingSaid
    /\ happened = [jobs |-> 0, edits |-> 0, checks |-> 0]

\* A test job runs on the tree as it is, and hashes what its paths stand for.
RunJob ==
    /\ ~ingestion.running /\ happened.jobs < MaxJobs
    /\ \E j \in Jobs :
         LET meant == [p \in Raws(j) |-> Normalize(p, sources)]
             files == {meant[p] : p \in Raws(j)} \ {Unresolved}
         IN  /\ \A p \in Raws(j) : meant[p] = Unresolved => ~lexicallyInside(p)
             /\ artifact' = [artifact EXCEPT ![j.to] =
                  [format |-> j.format, records |-> j.records, broken |-> j.broken, large |-> j.large,
                   summaryDiffers |-> j.summaryDiffers, meant |-> meant, taken |-> sources]]
             /\ sidecar' = [sidecar EXCEPT ![j.to] =
                  IF j.beside \in {"all", "part"}
                  THEN [state |-> "valid", ref |-> j.ref,
                        hashes |-> [f \in files \ (IF j.beside = "part" THEN {CHOOSE x \in files : TRUE} ELSE {})
                                      |-> sources[f]]]
                  ELSE [state |-> j.beside]]
    /\ happened' = [happened EXCEPT !.jobs = @ + 1]
    /\ UNCHANGED <<sources, factStore, ingestion, testability>>

EditSource ==
    /\ happened.edits < MaxSourceEdits
    /\ \E f \in CoveredFiles, bytes \in {Deleted, 1, 2} :
         bytes # sources[f] /\ sources' = [sources EXCEPT ![f] = bytes]
    /\ happened' = [happened EXCEPT !.edits = @ + 1]
    /\ UNCHANGED <<artifact, sidecar, factStore, ingestion, testability>>

BeginIngest ==
    /\ ~ingestion.running /\ happened.checks < MaxChecks
    /\ \E limit \in FactLimits : ingestion' = [running |-> TRUE, limit |-> limit, ingests |-> <<>>]
    /\ happened' = [happened EXCEPT !.checks = @ + 1]
    /\ UNCHANGED <<sources, artifact, sidecar, factStore, testability>>

IngestNext ==
    /\ ingestion.running /\ Len(ingestion.ingests) < Len(Artifacts)
    /\ LET result == ingest(Artifacts[Len(ingestion.ingests) + 1], ingestion.limit)
       IN  /\ ingestion' = [ingestion EXCEPT !.ingests = Append(@, result.out)]
           /\ factStore' = result.store
    /\ UNCHANGED <<sources, artifact, sidecar, testability, happened>>

AssessTestability ==
    /\ ingestion.running /\ Len(ingestion.ingests) = Len(Artifacts)
    /\ testability' = testabilityDimension(ingestion.ingests)
    /\ ingestion' = NotIngesting
    /\ UNCHANGED <<sources, artifact, sidecar, factStore, happened>>

SuppliedNext == RunJob \/ EditSource \/ BeginIngest \/ IngestNext \/ AssessTestability

SuppliedSpec == SuppliedInit /\ [][SuppliedNext]_suppliedVars

-----------------------------------------------------------------------------
(* Properties *)

\* Every variable has its type.
SuppliedTypeOK ==
    /\ sources \in [CoveredFiles -> {Deleted, 1, 2}]
    /\ DOMAIN artifact = Paths /\ DOMAIN sidecar = Paths
    /\ \A k \in DOMAIN factStore : \A x \in factStore[k] : x.file \in CoveredFiles /\ x.covered <= x.total
    /\ ingestion.running \in BOOLEAN /\ Len(ingestion.ingests) <= Len(Artifacts)
    /\ testability = NothingSaid \/ testability.status \in {"measured", "partial"}
    /\ happened.jobs <= MaxJobs /\ happened.edits <= MaxSourceEdits /\ happened.checks <= MaxChecks

Stood(content, f) == {p \in DOMAIN content.meant : content.meant[p] = f}
HitIn(content, f) == UNION {r.hit : r \in {x \in content.records : x.raw \in Stood(content, f)}}

\* Coverage called fresh was measured on the very bytes the check read, file by
\* file, whether its facts were parsed or came from the cache (coverage.go,
\* IngestAll: "Freshness is recomputed from the sidecar on every run, including
\* parsed-fact cache hits").
FreshIsMeasured ==
    \A i \in DOMAIN testability.ingests :
      LET one == testability.ingests[i]
      IN  one.freshness = "matched" =>
            \A x \in one.facts :
              Stood(one.read, x.file) # {} /\ one.read.taken[x.file] = one.scanned[x.file]

\* A Go profile that lists a block of a file more than once.
ListsTwice(content) ==
    content.format = "go-coverprofile" /\
      \E r, s \in content.records : r # s /\ r.raw = s.raw /\ r.units \cap s.units # {}

\* The ratio of several artifacts counts every file once, and never more than
\* what all of them together hit (docs/evidence.md:75: "keep the greatest covered
\* count. This is a lower bound"), but for a Go profile that lists a block twice:
\* goCoverProfileParser adds both up, and the ratio may exceed the real one.
RatioIsLowerBound ==
    testability # NothingSaid /\ testability.summary.units
      /\ (\A i \in DOMAIN testability.ingests :
            testability.ingests[i].freshness = "matched" /\ ~ListsTwice(testability.ingests[i].read)) =>
      LET ingests == testability.ingests
          files == {f \in CoveredFiles : ClassOf[f] = "production" /\ OwnerOf[f] # Ownerless /\
                      \E i \in DOMAIN ingests :
                        Stood(ingests[i].read, f) # {} /\ ingests[i].scanned[f] # Deleted}
          Hit(f) == UNION {HitIn(ingests[i].read, f) : i \in DOMAIN ingests}
      IN  /\ testability.summary.total = MapThenSumSet(LAMBDA f : Cardinality(UnitsOf[f]), files)
          /\ testability.summary.covered <= MapThenSumSet(LAMBDA f : Cardinality(Hit(f)), files)

\* Testability is measured only if no path, module or artifact was lost on the
\* way, and then the coverage row says so too: each path of an artifact is counted, and
\* for the file the job meant.  Where two paths may stand for one file, a sidecar that lists
\* the file vouches for both, and a path that meant another file may be counted for it.
Apart(paths) ==
    \A p, q \in paths : p # q =>
      \A i \in DOMAIN Candidates[p], k \in DOMAIN Candidates[q] :
        Candidates[p][i] = Candidates[q][k] => Candidates[p][i] = Outside
MeasuredIsWhole ==
    testability # NothingSaid /\ testability.status = "measured" =>
      /\ testability.row = "ok" \/ \E i \in DOMAIN testability.ingests : testability.ingests[i].read.summaryDiffers
      /\ \A m \in DeclaredModules : \E i \in DOMAIN testability.ingests :
           \E x \in testability.ingests[i].facts : OwnerOf[x.file] = m
      /\ \A i \in DOMAIN testability.ingests :
           LET one == testability.ingests[i]
           IN  \A p \in DOMAIN one.read.meant : one.read.meant[p] # Unresolved =>
                 \E x \in one.facts :
                   p \in x.paths /\ (Apart(DOMAIN one.read.meant) => x.file = one.read.meant[p])

CoverageIsMeasured == FreshIsMeasured /\ RatioIsLowerBound /\ MeasuredIsWhole

=============================================================================
