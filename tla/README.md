# Verification of MARACA

MARACA is the core of a retrieval-augmented answering system: sources are registered under policies, documents are
ingested and split into chunks, records are stored with their telemetry, indexed, searched under access control, ranked,
validated and turned into answers with citations. It is plain Python (13.4k lines under `src/src/`), one process, no
threads. What makes it hard is not parallelism but failure and staleness: a commit of many records that may fail or die
at each write, files rewritten in place, retries, copies of policies that travel with chunks while the registry moves on,
loops whose end depends on off-by-one arithmetic.

This directory holds TLA+ modules translated from that code, TLC configurations that check them on small instances, and
proofs, checked by TLAPS, that the main properties hold for every value of the constants.

Contents: [1 inventory](#1-the-system) · [2 modules](#2-the-modules) · [3 runs](#3-what-each-run-shows) ·
[4 proofs](#4-what-is-proved) · [5 remarks on the code](#5-where-the-code-and-its-documents-differ) ·
[6 not modelled](#6-what-is-not-modelled) · [7 plan](#7-plan)

## 1 The system

| Component (`src/src/`) | State | Operations that change it | Module |
|---|---|---|---|
| `storage/__init__`, `storage/durable`: bundle commit and recovery | record dictionaries, log and error rows; one JSON file or JSONL stream for each | `save_*`, `add_log`, `save_error`, `commit_storage_bundle[_with_recovery]`, snapshot and rollback, reload | `DurableStorage`, `BundleStore` |
| `storage`: graph records, `enrichment` | entities, relations, links, five reverse indexes | `save_entity`, `save_relation`, `commit_graph_records`, rebuild on reload | `KnowledgeIndex` |
| `retrieval/indexing` | embeddings and terms, pointers of chunks; the runtime index | `commit_vectors`, `commit_sparse_index`, `index_chunks` | `KnowledgeIndex`, `EvidenceSearch` |
| `source_registry/registry` | source records: status, trust, access, license, refresh times | register, update, sweep for stale sources | `SourceGovernance` |
| `retrieval/execution`: access filter | none; reads storage and registry | (appends access logs) | `SourceGovernance` |
| `retrieval/execution`: traversal, merge; `ranking` | none; one search | – | `EvidenceSearch` |
| `ingestion`: jobs | the job under way; jobs, raw artifacts, documents it leaves | `run_ingestion_job`, `commit_ingestion_records` | `IngestionJob` |
| `ingestion`: splitting | none | `split_document_into_chunks` | `ChunkSpans` |
| `planning`, `validation`, `synthesis` | one query: plan, evidence, verdict, answer; validations, claims and errors it stores | `plan_request`, `run_planned_query` | `PlannedQuery` |
| `planning/orchestration_runtime` | none; calls a graph application or the local query | `run_query` | `PlannedQuery` |
| `storage/adapters` | manifests and last health of backends | `register`, `record_health`, `select` | `BackendAdapters` |
| `storage/{vector,qdrant,neo4j}_runtime` | what a service was handed | `index_chunks`, `search`, `index_graph_records`, `traverse` | `BackendAdapters` |
| `feedback`, `evaluation` | feedback, tasks, traces, cases, reports | capture, create tasks, store trace, evaluate a batch, observe | `FeedbackLoop` |
| `shared`, `backend_app`, `synthesis/evidence_bundle`, social candidates | none | – | out of scope |

Components call each other directly. The shared state is the repository: ingestion, storage, retrieval, validation,
synthesis, feedback and evaluation all write to it, and every call also appends log rows and error envelopes to it. The
access decision crosses components by copies: a source record is copied into a document when it is cut, into the chunks,
and into the storage's `sources` when a bundle is committed, while the registry's own record is edited.

What is hard, and what makes each component correct:

* **Commit and recovery.** About fifteen writes per bundle, each to memory and then to a file; any may be refused or be
  the last thing the process does; the handler writes files too. Correct: a failed commit changes no record, leaves
  exactly the telemetry of its attempts; a committed one is whole in both copies; a crash leaves a prefix.
* **Governance.** A policy is decided on up to four copies of it. Correct: what is released suits the caller by every
  copy involved, nobody sees a source whose every version excluded them, evidence that fits is found, and the sweep
  changes a status and no policy.
* **Ingestion.** Retries, three ways to end, an immutable job replaced at each step. Correct: status, log, errors and
  document of a job agree however it ended; a document is made of bytes that were kept; every run ends.
* **Queries.** Seven components write to the repository on the way to one answer, each write may be refused, and an
  application that fails half way is followed by the local query on the same repository. Correct: what is claimed was
  validated by the attempt that claims it, the result tells what was left behind, an answer without a passed validation
  says so, no repair is announced beyond the limit, every query ends.
* **Splitting.** Correct: no character that matters is lost, no chunk is too long, words stay whole where they can, the
  overlap is bounded, the loop advances.
* **Graph and indexes.** A graph commit saves record after record without a rollback, while the reverse indexes graph
  search reads are updated beside it and rebuilt by a reload; two index commits work on copies of a chunk taken earlier.
  Correct: indexes hold exactly the records, no id dangles, a pointer has what it points to, no commit undoes another.
* **Search and ranking.** Loops with off-by-one bounds, strict comparisons, division by a span, a reranker that may fail
  half way. Correct: distances are shortest, a merge loses nothing, exactly `top_k` of what was found and visible returns.
* **Backends.** Services answer late, twice or not at all, policies change between two upserts, adapters are registered
  again. Correct: a selection agrees with the last report, a search with what was acknowledged or is in doubt.
* **Feedback.** Hooks a repository lacks and hooks that raise, in the middle of a batch or in the telemetry about it.
  Correct: what is told was kept, a report has its cases, feedback that finds fault has its task.

`PROJECT.json` lists the hazards of the code line by line.

## 2 The modules

Every definition that models code names its lines in `PROJECT.json`, under `map`. Operators commented with "Wrong:" are
plausible mistakes; nothing refers to them. With one of them in place of the definition that follows it, a run reports
the property named in `PROJECT.json`, under `mutants`, so that each property is known to depend on the code.

### DurableStorage

`memRec` and `memRow` are the dictionaries of the repository, `diskRec` and `diskRow` its files. A record is an id with
a version, the parent it refers to and whether it carries graph flags; a log or error row is a number, those in bundles
below `FirstFresh`, generated ones above. A stream is its complete lines and its tail, so that an append cut short and
the row behind it are told apart.

`Program(b)` is the sequence of saves `commit_storage_bundle` makes for bundle `b`, read off its helpers in order. The
call of `commit_storage_bundle_with_recovery` goes through phases:

    idle -> attempt -> commit -> (WriteLast) idle, committed
                         |  a write is refused
                         v
                       unwind -> restore (one file per step) -> error -> attempt, if retryable and attempts are left
                                                                  \---> report -> idle, failed

`CommitUnavailable` is the probe of an unhealthy adapter; it makes no change. `SnapshotFails`, `RestoreFails` and
`ReportFails` are `OSError`s outside the code that handles them, and leave the call as an exception. `Crash` may come
at each point; `Restart` loads the files as `_load_snapshot` and `_load_jsonl` do, skipping what does not parse.
`SaveDirectly` is a save outside a bundle. Record files are replaced atomically by a save (a temporary file and
`replace`) and rewritten in place by a rollback, as in the code.

`stale`, `base` and `result` are history: files that may not reload to what memory holds, the state in which the call
began, and how it ended.

`BundleStore` is what a caller is promised: a call takes one step, all of the bundle or nothing of it, and a reload
after a crash shows a prefix of its saves. `DurableStorage!Store` is the refinement mapping.

### SourceGovernance

`registry` holds every source, `stored` what the bundles committed (source copy, document and chunk of each chunk),
`inflight` the records an ingestion has cut and not yet committed: bundles commit in any order, and later edits
overtake them. Actions are the operations: `RegisterSource`, `UpdateSourceStatus`, `SaveSource`,
`UpdateStaleSourceStatus` (the sweep), `RunIngestionJob`, `CommitStorageBundle`, `SaveChunk`, `RunHybridSearch`,
`FilterWithRegistry`, `Tick`. A search takes any hits the indexes may return, cuts each index to `TopK`, filters, merges
and cuts again. `versions` (every record a source ever had) is history.

### IngestionJob

One run at a time: `phase` is idle, extract, normalize, returned or raised. The injected extractor may return,
fail with an `IngestionError` (retryable or not, with or without the bytes it had read) or raise anything else; so may
normalisation. `jobs` is what the repository holds of jobs: status, log entries, error summary, retry count, document;
`raws` and `documents` what it holds of those.

### ChunkSpans

`split_document`'s loop, one action per turn, on a text over word characters, spaces, line ends and a blank that is
white space but no break. `max_chars` and `overlap_chars` are any integers of the constants, clamped as the code does.
The search for the last break and the end without trailing white space are operators defined by minima and maxima.
Its specification is `SplitSpec`: no name of it is one of `IngestionJob`'s, so that one module can prove about both.

### PlannedQuery

`run_query` of the orchestration adapter and the planned query under it, one phase for each stretch between two writes:

    idle -> plan -> retrieve -> validate -> record -> synthesize -> claims -> answered -> returned -> idle
              \________________ an exception ________________________________/
                 | application, fallback allowed: plan again, as attempt "fallback"
                 | no fallback, or no application: report -> returned
                 | during the fallback, the report or a log: raised

`attempt` says who runs the query. `evidence`, `graph`, `verdict` and `answer` are what it has in hand; `validations`,
`claims`, `errors` and `completed` (closing logs) are what it has left in the repository, and survive a failure.
A record of the model carries the run and the attempt it comes from, which in the code is its correlation id and its
place among the others. The access filter is the set `visible` of chunks it lets through, any subset
(`SourceGovernance` says which). What the checks compute from words, scores and dates is any outcome they can have
(`Findings`, `Limitations`, `Confidence`, `Support`): a check without evidence fails or passes as in the code, a
contradiction between texts takes two of them, one between relations takes the graph. `RepairAction`,
`ValidationStatus`, `RepairTrace`, `TopK` and `MaxRepairs` are the code's decisions in the code's order. The application is
the one the source provides (`LocalPlannedQueryGraphApp`), which runs the planned query and may fail anywhere.

### KnowledgeIndex

`store` is the repository in memory (chunks with their flags and pointers, entities, relations, embeddings, terms and the
reverse indexes), `files` the three files a reload reads, `runtime` the index of the in-memory vector backend, `call` the
commit under way with what it still has to save and the copies of chunks its caller handed in, `restoring` the files a
rollback has still to restore. The copies are those stored or any a caller may have cut before, from any document
(`HeldCopies`), and a graph or index commit takes chunks that are not stored, too. Ids are digests, so that
a chunk's id determines what is extracted from it, and an entity is its normalised name. A call begins
(`BeginBundle`, `BeginGraph`, `BeginIndexing`), saves one record per step in the code's order (`SaveOneChunk`,
`SaveOneEntity`, `SaveOneRelation`, `LinkOneChunk`, `IndexOneChunk`), each of which may raise, and returns. What a save
that raised leaves depends on the call. A graph commit, an index commit and a bundle without recovery stop where they are. A
bundle with recovery sets memory back, and then rewrites chunks, entities and relations in place, one file a step
(`RestoreFile`), before it returns or tries again; any of these steps may leave the file torn or unwritten, and the call
as an exception (`RestoreFails`). `Restart` reloads the files at any point, in the middle of a rollback too; a torn file
reloads as an empty one.

History: `unsettled` are the files a rollback has not got to, nor a save since; `loaded` the files as the last reload found
them; `damaged` says that a reload came upon unsettled files; `handed` are chunks a graph commit named before they were
stored. The initial states are the files of a committed bundle, or none, as a process finds them.

### EvidenceSearch

One search from the plan to the ranked evidence, in phases: `traverse` (one round of the breadth-first search a step),
`graph` and `text` (the hits, cut to `top_k`, filtered and normalised), `merge` (one hit a step), `score` (one candidate
a step; the reranker may raise at any), `select` (one candidate a step under the quota of its source), `done`. Which
chunks the text indexes find with which scores, which the filter lets through, and how relevant the reranker finds them are
inputs. Scores are integers in units of the code's rounding: `Unit` stands for 1.0. Chunks and relations are finitely many,
as what a repository holds is. Planning always searches with
`max_depth` 1; the other depths are what other callers of `run_graph_retrieval` may ask for.

### BackendAdapters

The registry is `adapters` (manifests) and `health` (last reports); `selection` is what the last `select` returned, kept while the
registry is unchanged. The services are external: `points` of Qdrant and `nodes` of Neo4j, modelled from how the runtimes call
them. An upsert that raises may not be carried out, be carried out at once, or wait in `late` and overtake
a later one (`LateUpsert`). `doubt` and `acked` are history: the payloads handed in by upserts that raised, and by the last one that
was acknowledged. A payload is the version of the chunk's access policy, which `EditPolicy` raises. Every early return of the adapters is an
action: no client or a failed health check, no points, a blank query, no graph, an exception.

### FeedbackLoop

`hooks` is what the repository of a caller can do: none, the feedback hooks (`InMemoryFeedbackRepository`) or all. A call
makes its records (`Capture`, `CreateTasks`, `StoreTrace`, `EvaluateBatch`, `Observe`) and then saves them:

    idle -> saving -> (all saved) -> AddLog -> idle, ok
               | a hook raises
               v
            failed -> SaveError -> enveloped -> AddLog -> idle, failed
               any hook of the telemetry raises: idle, raised

A hook that is not there does nothing; one that raises may have stored what it was given. `BuildCase` saves nothing:
its case is `held` by the caller, like captured feedback and the reviewers' (`Reviewed`, which no call has classified).

## 3 What each run shows

| Run | Properties | Bounds and why they are enough |
|---|---|---|
| `commits` | `FailedCommitRollsBack`, `FailureLeavesItsTelemetry`, `CommittedBundleIsWhole`, `BundlesAreAtomic`, `CallsReturn` | Two calls of two overlapping bundles (every kind of record; an upload replacing a chunk), saves between them, `max_retries` of -1 and 1, every write refused by adapter or system. Two calls: the second starts from what the first left, rolled back or not. |
| `faults` | `UncommittedLeavesMemory`, `SyncedFilesReload`, `CrashKeepsPrefix` | All faults together, those in the handler and the snapshot and a crash at each write included, on a small bundle and direct saves. |
| `released` | `ReleasedToItsAudience`, `NeverAllowedNeverSees`, `FittingEvidenceIsFound`, `SweepKeepsAccess` | One source and chunk, two edits over four kinds of policy, a refresh interval of one and the clock moving across it: the registry, the stored source, the document and the chunk can all come from different versions. A decision on one chunk never reads another's records. |
| `accounts` | `EndedJobsAreAccounted`, `ResultsAreTheJobs`, `RunsEnd` | Limits of -1 (no attempt at all), 0, 1 and 3, two runs. |
| `spans` | `TextIsCovered`, `SpansFit`, `WordsStayWhole`, `TurnsAdvance` | Every text of up to six characters, limits from none to beyond the text, overlaps from negative to beyond the limit: each chunk can be shorter than, as long as and longer than what is left, three turns deep. |
| `answers` | `ClaimsWerePassed`, `RunsAreAccounted`, `NoPassIsDisclosed`, `RepairsAreLeft` | One query; three chunks (contradictory in itself, without a link, blank); requests for a direct answer, one index, the graph, fresh data without a repair, a vague query with an excessive budget. Each exception may come at each phase, and each again in the fallback. Claims of earlier runs never change, which the proof covers for any number. |
| `contradicted` | violated: `ContradictionsAreDisclosed` | |
| `knowledge` | `IndexesAreWhole`, `GraphIsClosed`, `LinksVerify`, `PointersResolve`, `IndexingKeepsChunks` | Two calls and any number of restarts, from every directory a committed bundle may have left or none: a bundle whose rollback is cut short, the reload, and a graph commit of what that left; an index commit, and another with a copy taken before it; a pointer and then a rollback. Two chunks with two relations in common, so that a relation's record depends on the batch; each handed in as stored, as cut from either of two documents, or unstored. Chunks without words are left to the proof. |
| `search` | `TypeOK`, `DistancesAreShortest`, `MergeKeepsTheBest`, `AnswersThePlan`, `QuotaYieldsLast`, `FallbackIsPure` | A cycle of three relations met from both ends, depths -1, 1 and 2, cosines below, at and above zero, equal scores, `top_k` smaller than and equal to the number of chunks, quotas of none and one with two chunks of one source, every answer of the filter. |
| `backends` | `SelectionsFollowReports`, `CandidatesAreAccounted`, `FailuresTellWhatTheyLeft` | Four calls and one edit of a policy: an upsert that raises, a newer one that is acknowledged, the late arrival of the first, a search; two adapters of different and of equal priority, one disabled, one without a capability; a chunk without words. |
| `traversal` | violated: `TraversalFindsIndexed` | |
| `feedback` | `TelemetryIsTrue`, `ReportsHaveTheirCases`, `TasksCoverFailures` | Two calls, each of which may use what the other kept, two raises (one in the saving, one in the telemetry about it), batches of none, one and two, equal or different, three ids: two cases and their report, or a batch's tasks of two categories. |

The violated runs each check one statement of a document, and are described in section 5. Where a run leaves out `TypeOK`
or another property of section 4, the theorem has taken its place.

**Fairness.** `CallsReturn` assumes `WF_vars(InCall)` and `RunsEnd` `WF_vars(InRun)`: the code is one thread of
straight-line Python, so a call that can take its next step takes it, whatever outcome that step has. Nothing is assumed
about success: no write, extraction or call ever has to succeed. Callers need not call, and crashes need not come nor stop.
The other runs check safety and assume nothing; of the other loops `TurnsAdvance` and `DistancesAreShortest` say that they
make progress. Deadlock is checked in every run; a model that has used up its bound on calls or has answered stutters in
an explicit `Done` or `Stop`.

**Bounds.** `MaxCalls`, `MaxEdits`, `MaxTime`, `MaxJobs`, `MaxRuns`, `MaxIds`, `MaxRaises` and `MaxBatch` only stop TLC;
the safety theorems of section 4 hold for every value of them.

## 4 What is proved

All theorems are for every value of the constants that satisfies the named assumptions of the modules: types, the
distinctness of markers, the finiteness of a repository where records are counted or ordered, that the rows of bundles and direct
saves are older than the generated ones (`FreshAssumption` of `DurableStorage`: the code gives each generated row a new uuid),
and in `SourceGovernance` that sources are what `SourceOf` maps chunks to. None restricts a bound, a retry limit or a
bundle. One theorem restricts the faults: `CommitsAreAtomic` is about processes that do not die, since one that did has
no memory left to read; what a reload then finds is `CrashLeavesAPrefix`, under all faults.

* **`DurableStorage_proofs`.** `TypeCorrect`; `FilesStaySynced`: a file that is not marked stale reloads to what
  memory holds, under every fault; `RollbackIsComplete`: a commit that returns `committed=False` has restored memory
  and every record file and lost no line of telemetry; `MemoryIsRolledBack`: also when the call ends in an exception.
  The invariant says what a rollback can rely on: the snapshot of an attempt agrees with `base` on records and extends
  its rows, at `restore` step *k* the files before *k* are already those of the snapshot, and a file differs from the
  snapshot only while an attempt runs or its turn has not come. `FailedCommitRollsBack` alone is not inductive: it
  says nothing until the call ends. `CommitsAreAtomic`: every step of `DurableStorage` is a step of `BundleStore` or
  none, under the mapping `Store`. The invariant is `ProgressInv`: during an attempt the tables in memory are those
  the call began with and the first `step - 1` writes of `Program(b)`. `CommitsAreWhole` adds `DiskProgress`: record
  files and streams follow the same prefix. `Covers` says of a piece of program which items it saves and which lines
  it adds; the lemmas derive that of the whole program from its parts, so that a committed call has left the last
  mention of each record, in memory and on disk. `TelemetryIsExact`: a call that returns `committed=False` has left
  one error and one log for each of its attempts and nothing else. `FreshInv` keeps generated rows apart from all
  earlier ones; `CountInv` then follows their number.
* **`SourceGovernance_proofs`.** `EvidenceHasItsAudience` (what is released suits the caller by every layer that was
  consulted), `EvidenceWasOnceAllowed` (nobody is shown a source no version of which allowed them),
  `FittingEvidenceFound` (what fits in `top_k` and every layer admits is found: the chunks are assumed to be finitely
  many), `DeprecationKeepsAccess` (the sweep changes a status and the registry's policy fields stay). They rest on
  `Lineage`: every copy of a source record, in flight, in storage, in a document or a chunk, is a version the registry
  held.
* **`Ingestion_proofs`.** Of `IngestionJob`: `JobsAreAccounted`, `ArtifactsAreKept`, `ResultsAreFaithful`. The
  invariant adds what holds while a run is under way: its job is open, the errors in hand are the job's, the artifact
  in hand has been kept. With that, each way a run can end closes a job whose fields agree. Of `ChunkSpans`:
  `ChunksHoldTheText`, `ChunksFit`, `ChunksKeepWords`, `ChunksOverlapLittle`, `LoopAdvances`, for every text, limit
  and overlap. The invariant: what lies before the start of the next turn is covered or white space, the start is at a
  character, and the last span begins before it and reaches at most `overlap_chars` beyond it. Lemmas on least and
  greatest positions come from well-foundedness of the naturals.
* **`PlannedQuery_proofs`.** `TypeCorrect`, `ClaimsHaveTheirValidation`, `ResultsAgreeWithTheStore`,
  `FailuresAreDisclosed`, `RepairsAreBounded`, for all chunks, texts, requests and limits. The properties speak of
  stored claims and returned results; the invariant adds the path to them: the verdict in hand is this attempt's and
  was stored before anything is claimed, the answer in hand rests on it, an attempt that has claimed nothing yet has
  left no claims under its run unless the application failed before it, and no run is closed before it is answered.
  `NothingAssumption` keeps "no trace" apart from the traces.
* **`KnowledgeIndex_proofs`.** `TypeCorrect`, `IndexesWhole`, `GraphClosed`, `IndexingKeeps`, `RestartKeepsSearch`,
  `LinksComplete`, `PointersSound`, for any texts, chunks and entities, and rollbacks cut short anywhere. `Good` relates
  memory to the files beside it: every chunk and relation, in memory or on disk, refers to records the files have, up to
  `Gaps`, which is what dangled already when they were loaded and evidence handed in before it was stored. Unsettled
  files do not fit the others; `Mended` counts them as what memory would write into them, and a save that rewrites one
  makes that true. `Due` says that what a call has still to save rests on what the files have, or is itself still to be
  saved *before* it: that is the order of the loops, without which the graph is not closed between two saves.
  `CanGoBack` and `Restored` carry both through the rollback, file after file, and through the retry after it. `Whence`
  says that nothing dangles in what was loaded unless a reload came upon unsettled files. For the links and pointers
  `LinkInv` says: flags are indexed and pointers resolve but for those a chunk was loaded with; so do the pointers of
  the copies in hand, which are saved over what is stored, and so it was before a bundle that may yet be rolled back.
* **`BackendAdapters_proofs`.** `TypeCorrect`, `SelectionsFollow`, `CandidatesAccounted`, `FailuresTell`, for any
  adapters, priorities, chunks and order of late upserts. That a least adapter by priority and name exists comes from
  well-foundedness. The invariant `Accounted`: a point holds what was acknowledged last or is in doubt, whatever is
  still late is in doubt, and what was acknowledged has a point.
* **`FeedbackLoop_proofs`.** `TypeCorrect`, `TelemetryTrue`, `ReportsWhole`, for any repositories, batches and number
  of exceptions. The invariant follows a call: its records are `Fit` to be saved (a case is held, a report names cases
  that come before it and counts the feedback of each place, and comes last), what has not been saved is still to be saved, and an
  enveloped call has its envelope. So a report is saved when all its cases are. The lemma `ReportIsWhole` says that each
  count of a report is the number of places of the batch whose feedback it counts. `TasksCoverTheFailures`: a batch's tasks are numbered
  by the rank of the first record of each category, and each rank is taken exactly once (`RanksAreOnce`); `TasksInv`
  carries that through the saving.
* **`EvidenceSearch_proofs`.** `SearchTypeCorrect`; `TheTraversalIsShortest`: the distance the breadth-first search
  gives a relation is the least number of hops from the query's entities, cycles included, and it finds those within
  the depth and no other; `TheMergeKeepsTheBest`; `TheSearchAnswersThePlan`: `top_k` of the visible chunks that were
  found, each once, or all of them; `TheQuotaYields`: places over a quota come last, and within a source the better
  rank first; `TheFallbackIsPure`: once the reranker has raised, nothing it said before remains in a score.
  `DistancesAreShortest` is defined by recursion over the rounds; the proof wants of it only that the family of sets
  exists, is the only one with its equations, grows, and stays once it has stopped growing, and gets that from
  well-foundedness. `TraversalInv` holds the frontier to that family at the present depth. The later phases rest on a
  chain: `MergeInv` (each merged hit is the best of its alike so far), `FoundInv` and `RankedInv` (what is ranked is
  visible, and is scored and selected once), `OrderInv` (the chosen by rank, those put off by the quota behind), with
  lemmas on strict total orders of finite sets (`PositionsAreOnce`, `FirstsAreMany`).

Model-checked only: `CallsReturn` and `RunsEnd`, liveness under fairness, which is outside the reach of the prover; and the two
violated properties of section 5. Every other property of a run is stated by a theorem.

## 5 Where the code and its documents differ

* `contradicted`: contradictions trigger a repair, uncertainty or disclosure (`project_milestones.md:217`). The evidence is
  validated before there are claims, and the claims are checked after the answer is made
  (`planning/__init__.py:534-542`): a claim that its own chunk contradicts is returned, and stored, under a validation that
  passed, at any confidence and without a limitation.
* `traversal`: a traversal of the Neo4j adapter returns candidates fit for hydration and access filtering, says
  `project_milestones.md:615`. `_UPSERT_GRAPH_CYPHER` (`neo4j_runtime.py:285`) stores nothing of a node but its id, and
  `_TRAVERSE_GRAPH_CYPHER` looks for its name: nothing that was indexed is found.

Remarks without a run:

* Ingestion failures produce error envelopes (`project_milestones.md:79`). Only `IngestionError` is handled
  (`ingestion/__init__.py:446`); any other exception, such as the `ValueError` of `_first_date` (line 632) for a text
  with 2026-13-01 in it, leaves the call without an envelope and the stored job RUNNING. `Raises` has that step;
  `EndedJobsAreAccounted` is about the jobs that do end.
* "Restored" files (`project_milestones.md:343`) are truncated and rewritten in place by the rollback
  (`storage/durable.py:249`). An `OSError` there leaves a record file that does not parse; a reload skips it whole.
  Chunks come first, then entities, then relations: a rollback that ends between them leaves relations of chunks that are
  gone, or, after a torn file, flags of relations that are. After a reload of that the next graph commit indexes such a
  flag (`storage/__init__.py:312`). `GraphIsClosed` and `IndexesAreWhole` say that this is the only way, and that
  nothing else is lost by it.
* Skipping malformed rows (`project_milestones.md:342`) keeps valid ones only if each begins on a line of its own. The
  append after an unfinished line continues that line, and is lost with it (`storage/durable.py:569`).
* A later ingestion can reactivate a stale source, says `docs/production_readiness.md:35`. Nothing in the code sets
  `last_checked_at` or `last_ingested_at`, from which staleness is measured; the next sweep deprecates the source again.
* An `OSError` inside the `except` branch of `commit_storage_bundle_with_recovery` (`storage/__init__.py:472-502`)
  leaves the call as an exception, although failures are documented to return `committed=False`
  (`docs/production_readiness.md:25`). `UncommittedLeavesMemory` shows that memory is restored even then.
* A crash inside the rollback can leave chunks on disk without their document: files are restored in the order raw
  artifacts, sources, documents, chunks.
* `apply_access_filter` can be handed a registry, but every caller lets it decide from the copy of the source that the last
  bundle saved (`retrieval/execution.py:172`): a source blocked since then still appears among the candidates until it is
  committed again. `NeverAllowedNeverSees` is what holds nevertheless.
* Each index is cut to `top_k` before the access filter (`retrieval/execution.py:320`): hits the caller may not see take
  the places of hits the caller may see. `FittingEvidenceIsFound` speaks of what the indexes return.
* With an overlap and white space at the end of the text, a last chunk may lie inside the one before it.
* The bytes of a failed extraction (`exc.raw_artifact`) are returned and not saved; a COMPLETED job keeps the error
  summary of its last retry.
* After a reload a chunk's `embedding_id` points to an embedding no file holds (`retrieval/indexing.py:165`, compare
  `project_milestones.md:487`), and `verify_graph_storage` complains of links the chunk was loaded with, which
  `_rebuild_indexes` does not index (`storage/durable.py:215`). A graph or bundle commit that saves a freshly cut copy of a
  chunk drops the pointers the stored one had (`storage/__init__.py:317`).
* Retrieval is cut to the same `top_k` as the ranking (`planning/__init__.py:480-497`): the quota of a source can only
  reorder, never bring in another source.
* A merged raw score is the better of two scores of different scales, and depends on which mode came first.
* The fallback an adapter's manifest names is returned with a selection and followed by no code (`storage/adapters.py:222`);
  the default one names `in_memory_vector_index`, a manifest without a runtime. Nothing creates the collection Qdrant
  searches. An empty `index_chunks` is ok in memory and a failure in Qdrant. In-memory candidates carry no access fields.
* `create_improvement_tasks` called again after a failure makes new ids (`feedback/__init__.py:283`): tasks already kept
  are stored twice. An exception of the telemetry leaves the handlers of feedback and evaluation, though all records may be kept.
* Keywords are found inside words ("old" in "told") and come before a validation's failed ACCESS
  (`feedback/__init__.py:360-413`); any metric below 0.5 is "low", also a rate where low is good, and 0.0 for no cases
  (`feedback/__init__.py:623`).
* Citation precision is 1.0 when none of the citations is found among the evidence (`evaluation/__init__.py:525`, compare
  `current_process_status.md:1212`); failure counts leave out feedback without a category, for which tasks take the rating's.

## 6 What is not modelled

Wording of logs, messages and identifiers; parsing and cleaning of JSON, CSV, HTML and Markdown; how a query or a text is turned into words,
names and vectors; token counts, heading paths and page numbers of chunks; validation of enums and intervals on registration;
the averages in an evaluation report; which of a service client's method names is called; `shared` (record types, serialisation,
settings), `backend_app` (reports and a demonstration), the export of an evidence bundle and of social candidates (mappings
of one record to another). Entities and relations of a bundle are given with the bundle in `DurableStorage`. The operating system is
modelled by what it may refuse and by what an interrupted write may leave; a completed write stays. The records of feedback and evaluation
are in memory only (`project_generalize_tracker.md:197`), so that a restart has nothing to reload.

The components meet by what their modules assume of each other. `PlannedQuery` takes a search to return `top_k` visible
chunks: `EvidenceSearch!AnswersThePlan`. `EvidenceSearch` takes the visible chunks as given: `SourceGovernance!ReleasedToItsAudience`,
and the reverse indexes to hold the relations: `KnowledgeIndex!IndexesAreWhole`. `KnowledgeIndex` has
the steps of a rollback for the three files it models; what becomes of the others, and of the telemetry, is in `DurableStorage`.

## 7 Plan

Done: all modules of section 2, each with proofs of all its safety and action properties. What is left, in order: the
parts of `planning`, `validation` and `evaluation` that section 6 leaves out and that decide rather than word; then a statement across modules of
what section 6 says in words, that `EvidenceSearch` implements the retrieval step of `PlannedQuery`.
