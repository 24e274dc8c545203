# Verification of traust-engine

TLA+ models of `traust_engine`, the Python engine behind a fleet of security
audits: what its parts do step by step, what TLC finds of it on small instances,
and what TLAPS proves of it for every instance. Paths below are relative to
`src/traust_engine/`.

## The system

| Part | State it keeps | Operations | What is hard |
|---|---|---|---|
| Ledger service (`ledger/`) | in database mode: one bound layer, its exported snapshot and the snapshot's `.snapshot` marker; in file mode: the layer file | `submit_events`, `sign`, `resolve_review_item`, `countersign`, `patch_layer_file`, `restate`, `stamp_report_file`, `store_layer`, `read_layer_file`, `ensure_layer_file`, `write_snapshot` | each call is several database and file steps; other services, file-mode processes and the Ledger's own clients act in between; any step may fail |
| Artifact migration (`corpus/migration_*.py`, `migrate.py`) | an output directory (result, issues, decisions), a target database, the ledger in it | `preview`, `rehearse` | reads a tree of sources four times while it may change; one target for one run; a verdict cutover relies on, computed in a `finally` |
| Portfolio graph (`portfolio/`) | a SQLite graph and an on-disk cache of trees and manifests | `build_deps*`, `fetch_tree`, `fetch_manifest`, queries | a thread pool against an API that bans, with a pause, and a resume from the cache |
| Metrics (`metrics/`) | one hash-chained JSONL journal | `append`, `append_if_changed`, `verify`; spend and SLA arithmetic | read, then append, with no lock |
| Remote storage (`storage.py`, `locations.py`) | a cache of remote objects by validator | `localize` | validator, fetch and rename are three steps |
| Impact analyzer (`impact/`) | a scan pool over the repositories of a blast radius | `_execute`, `analyze_repo`, `classify` | results in completion order, one failing tier looks like a finding |
| Sweep (`sweep/`) | state files of a resumable campaign | collect, draft, sweep, emit | what a crash leaves is taken for done |
| Lookup clients (`osv/`, `depsdev/`) | none; a cache with a time to live | batched queries, paging, retries | a failure must never read as an empty answer |
| Corpus (`corpus/resolver.py`, `findings_db.py`, `disposition.py`, `precedent.py`, ...) | a projection database, rebuilt in place | resolve, build, query, decide | which event decides a finding |
| Adapters, applicability, reporting, registry, compliance, `_util` | none that outlives a call | run a tool, translate, validate, render | string and data processing |

They interact through files: adapters and audits write reports, the ledger service
records decisions about their findings, the corpus reads the results tree, the
migration loads that tree into a database and hands its layers to the ledger, and
the dashboards append to the metrics journal. `engine.py` only builds each part from
one injected context.

What makes each part correct:

- **Ledger service** - a reader of the layer file is never shown a layer the database
  did not commit; a database-mode call never works from the file; an acknowledged
  write is visible or the file is gone; a snapshot can always be told from a file
  ledger; a report that was stamped is the report that is pinned.
- **Migration** - `migration_ready` is published only if every source is where it
  should be, byte for byte, and nothing went wrong; no source disappears without an
  issue; one target never mixes two runs; every run ends.
- **Portfolio graph** - a ban is never recorded as an error or an absence, the
  counters add up to the fleet, a resumed run ends with the same graph.
- **Metrics** - the journal verifies as long as only `append` writes it.
- **Storage, lookups, sweep, impact** - a cache entry is what the remote held; a
  failure is never an empty answer, a finished result, or a classification.

## The modules

| Module | Models | Role |
|---|---|---|
| `LedgerView` | - | abstract: what a reader of the layer file is promised |
| `LedgerService` | `ledger/service.py` (calls in both modes), `ledger/ops.py` | component; implements `LedgerView` |
| `LedgerServiceProofs` | | theorems of the ledger service |
| `MigrationRehearsal` | `corpus/migration_rehearsal.py`, `migration_workers.py`, `migration_database.py`, the outcomes of `migration_discovery.py` and `migration_projection.py` | component |
| `MCMigration`, `MCMigrationShared` | | its symmetry for TLC; its settings for liveness |
| `MigrationRehearsalProofs` | | theorems of the migration |
| `FleetFetch` | `portfolio/graph.py`: `build_deps_multi`, `fetch_tree`, `fetch_manifest`, `_fetch_root_candidates`, `_wait_out_rate_limit` | component |
| `MCFleet` | | the fleets TLC checks it with |
| `FleetFetchProofs` | | theorems of the fleet's dependency sweep |
| `MetricsJournal` | `metrics/history.py`: `append`, `append_if_changed`, `rows`, `previous`, `verify` | component |
| `CacheView` | - | abstract: what a reader of the cache is promised |
| `RemoteCache` | `storage.py`: `localize` of a file | component; implements `CacheView` |
| `SweepView` | - | abstract: what a campaign is to who reads its files |
| `SweepEngine` | `sweep/engine.py`: `do_collect`, `do_draft`, `do_sweep`, `do_emit` | component; implements `SweepView` |
| `FindingsDb` | `corpus/findings_db.py`: `build`, `check_revision`; `corpus/report_store.py`: `load_resolution` | component |
| `RuleCache` | `adapters/yara.py`, `adapters/opengrep.py`: `resolve_rules` and its clones | component |
| `MCSharedFiles` | | the five side by side, with the symmetry for TLC |
| `ImpactScan` | `impact/analyzer.py`: `_execute`, `analyze_repo`, the analyzers' tiers, `classify` | component |
| `AdvisoryRange` | `impact/advisory.py`: `resolve`; `osv/ranges.py`: `spans`, `covers`, `fixed_for` | component; algorithms checked against a reference |
| `LookupView` | - | abstract: what a caller of `query_batch` is promised |
| `OsvClient` | `osv/client.py`: `query_batch` | component; implements `LookupView` |
| `PipelineExec` | `_util/safe_exec.py`: `run_segments` | component |
| `FindingClock` | `metrics/sla.py`: `clock_start`, `build_view` | component |
| `MCAnalysis` | | the five side by side, for TLC |
| `MetricsJournalProofs`, `RemoteCacheProofs`, `SweepEngineProofs`; `SharedFilesProofs` (of `FindingsDb`, `RuleCache` and the five in `MCSharedFiles` together); `AnalysisProofs` (of the five in `MCAnalysis`, each and together) | | their theorems |

### LedgerService

A layer is abstracted to its revision (every committed mutation is a new one) and
to the digest of the audit report it pins; events, queue and signatures are data of
a revision. `db` is the bound layer, `file` what stands at `layer_path` (nothing, an
export of a revision, or a file ledger), `marker` the sidecar, `svc[s]` the call a
database-mode service is in with the program point it will resume at, `fsvc[f]` the
same for a file-mode process.

Each step that other processes can observe is an action: the client's write
(`Commit`, `CommitRefused`; `store_layer` replaces the whole layer, its pin included), the pin of `submit_events` and `stamp_report_file`
(`PinReport`; `PinRefused`, for whatever the ledger refuses it), the fetch of `write_snapshot` (`GetLayer`,
`GetLayerFails`), its existence test and comparison (`Check`, `Compare`), its two
atomic replacements (`WriteMarker`, `WriteFile`, `WriteFails`) and the two unlinks of
`_refresh` (`UnlinkFile`, `UnlinkMarker`). `Exported` and `ExportFails` say where
control goes afterwards: a read returns or raises, a refresh swallows an `OSError`,
`stamp_report_file` looks at the pin it read. `sign`, `resolve_review_item`,
`countersign`, `patch_layer_file` and `stamp_event_identities` have the same steps
and are one call, `mutate`. File mode tests the marker (`FileWriteTarget`,
`FileEnsureTarget`) and acts in a later step. `OutOfBand` is a write to the layer by
another client of the Ledger.

### MigrationRehearsal

A source is abstracted to the version of its bytes (0: absent); the configuration and
the contracts the run pins are one more file, `Config`. `Start` to `Publish` follow
`rehearse` and `preview` phase by phase; a loop over sources visits them one action at
a time (`Select`, `Validate`, `Claim`, `Ingest`, ...), in any order, since the code's
order depends on the walk and on the workers. What validation, discovery, the store
and the ledger answer is a choice of the environment; what the run does with the
answer is the code's. `Handle` is the except clause, `HandleLost` the same when its
own issue cannot be written, `Close` to `Publish` the finally clause, and `Abort` an
exception inside that. The target is what the database holds (`rows`, `layers`), who
holds its advisory lock, and whether it is still empty.

Faults: sources and configuration change at any step (`Edit`), any call of the body
raises (`Raise`: the budget, the database, the ledger, `KeyboardInterrupt`), a write of
the output fails (`IssueLost`, `HandleLost`, `Abort`), the process dies (`Crash`). What goes
wrong inside a run is `Fault`, apart from `RunStep`, what the run itself does: liveness counts on
the latter only. `MCMigrationShared` has two settings, two runs beside each other with
exceptions and deaths, and one run that is left alone with every fault.

### FleetFetch

A repository is abstracted to the kind of its tree (absent, full, cut short by the API)
and to what each manifest holds: nothing there, nothing to extract, dependencies. A manifest's
cache file is named for its path with the slashes replaced, so `Slug` maps the paths of a
repository to its files, and two paths may share one. The
sweep asks for one ecosystem, whose candidates for a cut tree are the manifest names in
their order; the language cache is taken to name the ecosystem of every cut tree. Content
does not change: the caches never expire, so a tree once cached, or found absent, stays so for
every later sweep.

`treeCache` and `fileCache` are the files under the cache directory, one state each;
`work[r]` is the thread of repository `r`: where it is, which manifests it has still to
ask for, what it got. A thread's live call, with the store that follows it, is one action
(what comes back is `Replies`, how it is read, in the code's order of tests, `Told`)
(`AskTree`, `AskFile`), a read of the cache another (`ReadTree`, `ReadFile`), in both of
which `work()` goes on to its next call; `ReadTorn`, `Hang` and `WriteFails` are the calls
that raise. `_fetch_root_candidates` is the branch of `AfterFile` for a tree that is not
full: it stops at the first candidate that is there and reports that one only.

The main thread is `pc` with the loop's own variables: `Submit` (a batch, `paused`
cleared), `Collect` (the next result in submission order, the streak), `BatchEnd`, `Probe`
(one sleep and one probe of `_wait_out_rate_limit`; its exponential sleeps within
`RATE_LIMIT_MAX_WAIT` are `MaxWaits` equal ones) and `Aggregate`, the one transaction. A
result that raises leaves through the pool's exit, which waits for the threads
(`CollectRaises`, `Drained`); `ProbeHangs`, `Kill` and `KillInWrite` end the process at
once. `Start` is the next sweep over what is left on disk. `report` is the returned stats;
`mute` is a history variable.

### MetricsJournal

`rows` is what `rows()` yields: the lines of the file that parse. `tail` says how the file
ends, which decides what becomes of the next row: after a fragment it is glued to that and
neither parses. A call of `append` is two steps, `ReadLast` and `Write`, because the code
takes no lock between reading the last hash and appending; `append_if_changed` first asks
`previous` (`StartIfChanged`). A process is a run of a dashboard, and the runs of one dashboard
have the same source (`SourceOf`). `WriteTears` is a full disk or a death inside the write: a
part of the line is there, or all of it but the newline. The hash of a row is a number no
other row has. `kept`, `tears`, `crossed` and `doubled` are history: which rows a caller was told are
there, how many writes stopped half way, whether two appends overlapped, and which calls met
another of the same source.

### RemoteCache

One object in two chunks. A call of `localize` is `Stat` (the validator), `Look` (the entry
under it), `Open`, two `Copy` and `Publish`; `Replace`, the owner's, comes between any two.
The entry's key and the partial file's name are functions of the validator, so two processes
share them. A process that opened a file goes on writing that file whatever is renamed:
`into` follows it from the partial file into the entry and to a file without a name.
`FetchFails` removes the partial file whoever writes it, `Die` leaves it, `PublishFails` is
the rename of a file somebody else took away.

### SweepEngine

One class, so one rule, and the repositories of the list in its order. `Collect`, `Draft`,
`Emit` are the stages around the sweep, each with what a write that stops half way leaves;
`Author` is the person who writes `rule.skeleton.yaml` at any time: authors it, edits it, saves
it half way, puts a TODO back or removes it. A rule is authored if it has an id and no TODO, which
is all the engine checks. `StartSweep` to
`WriteResult` follow `do_sweep` and `sweep_one_repo`; `Stop` is a death, or the
`TimeoutExpired` of a clone, at any point. A clone goes to a directory of its own or to the
work directory the caller gave, whose trees (`trees`) stay from call to call. The rule is
read at the scan, not at the start. A git that fails removes what it made, one that a signal
killed leaves it. A result records the tree and the rule it came from, and whether the rule was
undone in the call that made it (`unruled`).
`SweepView` keeps the result files and the report only: there is a result or there is none, and
a report is what they were.

### FindingsDb

The index is a file that is absent, empty, or has tables and rows; a row is the build it is of
and a record. `Resolve` to `Commit` are the steps of `build` that another process can see or
disturb: CREATE TABLE commits by itself, everything from the first insert on is one transaction
(`Insert` is only seen by what it leaves to `Commit`). `named` says whether the file a build has
open still bears its name: SQLite refuses to begin a transaction on one that does not, and lets
one that has begun commit. `BuildEnds` is any exception or death. The readers, `LoadResolution`
and `Accepts`, are functions of the file.

### RuleCache

One pack of two files, each gone, as the branch's tip has it, as the pin has it, or edited, and
the commit HEAD is at. `LookForPack`, `CheckHead`, `CheckStatus` are the trust in a clone that
was found and, again, in a fresh one; `Remove`, `Removed`, `MakePack`, `CloneFile`,
`CheckoutFile`, `MoveHead` what `shutil.rmtree`, `git clone` and `git checkout` do to the
directory piece by piece; `ListRules` and `RunRules` the scan over it. `GitFails` and `EndScan`
end a scan anywhere, `Edit` changes a file at any time.

### ImpactScan

Evidence is the record of what each tier saw. What a tier sees depends on tools and trees,
so an analyzer is the set of evidence it can leave (`GoAnalyzer`, `LockfileAnalyzer`,
`SurfaceAnalyzer`, `CAnalyzer`); which tiers it runs, and after which, is the code's.
`Classify` is the ordered list of the rules of `classify`, all of them that any evidence
here can reach. `QueryGraph` is the graph-only pass; `StartScan` to `TakeError` are the pool
with `Jobs` threads, whose results are taken in any order; `Finish` is the guard on scans
that all raised, and the artifact.

### AdvisoryRange

A version is its place in its ecosystem's order, and `Key` is what `parse_version` makes of it, the
only thing the code compares: a pre-release has the key of its release, the pseudo-versions of
one Go module have one key, an epoch is dropped. `Key` is any map, and the properties speak of
versions that it tells from what they are compared with (`Told`, `ToldBy`). A record has ranges
under the name `_name` finds for the module and others (`others`), of entries without a name or
with another spelling, which `spans` falls back to and `covers` does not look at. `ReadEvent` folds the events of a range into affected
spans as `spans` does, `Covers` and `FixedFor` are the verdicts over them. `GetDirect`,
`ListModule` and `GetCarriers` are `resolve`: the record with the advisory's id, or else
every record of the module that carries it, some of which may fail to come. `missed` is
history. The reference is the event rule of the OSV schema: sort the events, the last at or
before a version decides. `FixedFor` is called by `adapters/osv.py` only.

### OsvClient

`SendBatch`, `TryAgain`, `BatchAnswered`, `PageAnswered` and the two failures are the
requests of `_query_batch` and `_follow_pages`; `Recase` and `Return` are `query_batch`, with
its second pass over empty NuGet answers. An answer is whether there are advisories; a result that
is no object, or whose entries have no id, reads as none (`ReadAs`). Under
`SettledAs` it implements `LookupView`: a query is open while it waits anywhere, and an empty
NuGet answer of the first pass is open too, because it may be asked again.

### PipelineExec

The parent starts the segments, feeds the first, waits for the last under the deadline and
for each of the others a few seconds. The segments read, end or do neither. The exceptions
that nothing catches (`OutputRaises`: the output is not text; `ReapTimesOut`) leave them
running, and the model says so.

### FindingClock

One finding, day by day. `recorded` is its events, each with the day it is about (or none that
can be read), whether it is a filing and whether it resolves; `derived` is the disposition in
its report, `audited` the report's date, `term` what `resolve_days_for` gives for it and
`ladder` the policy's `clock_start`. `RecordEvent`, `Reaudit`, `NewTerm` and `NextDay` are what
happens between two views; `Basis` and `Start` are `clock_start`, `Standing` the counter of
`build_view` the finding is in.

## What the runs check

| Run | Instance | Shows |
|---|---|---|
| `ledger_single` | 1 database service, 1 file-mode process, 2 digests, 4 revisions; backend and write failures, crashes | `TypeOK`; `MarkerNotBehindFile`; `OwnWritesVisible`; `StampedMeansPinned`; the file implements `LedgerView` with its order (`NeverShowsOlderLayer`) |
| `ledger_concurrent` | 2 database services, 1 file-mode process, 3 revisions; all faults | what survives overlapping exports: `ReadsAreFresh`, and `LedgerView` without its order (`ShowsCommittedLayers`) |
| `ledger_refresh_error` | 1 service | **violation** of `CommittedCallsDoNotRaise` (finding 1) |
| `ledger_store` | 1 service | **violation** of `OwnWritesVisible` (finding 2) |
| `migration_ready` | 1 run, 2 sources, configuration, 2 layer ids, versions 0..2, every command and fault, PostgreSQL | `TypeOK`; `ReadyMeansMigrated`; `ReadyMeansClean`; `NothingDroppedSilently`; `OneSourcePerLayer` |
| `migration_shared` | 2 runs on one PostgreSQL database or one SQLite path, 1 source, versions 0..1; exceptions and deaths beside each other, every fault for one alone | `OneLoaderPerTarget`; `AlwaysConcludes` |
| `fleet_fetch` | 5 fleets of 3 repositories, 4 manifests of which 2 share a cache file, 2 threads, streak 2, 2 sleeps, every fault, any number of resumed sweeps | `TypeOK`; `CacheIsTrue`; `CountersAddUp`; `GraphIsTrue`; `NoFalseAlarm`; `AlwaysEnds` |
| `fleet_streak` | 5 repositories, 1 thread | **violation** of `StopsAfterStreak` (finding 3) |
| `fleet_torn` | a kill, nothing else | **violation** of `Resumes` (finding 4) |
| `shared_files` | 2 runs of one dashboard and 1 of another, 2 snapshots, 3 rows, 2 torn writes; 2 fetchers, 2 versions, 4 calls; 2 sweepers, 2 repositories, an authored rule that is undone once, 2 starts; 2 builders, 2 records, 3 builds; 2 scanners, 3 scans | `SharedFilesTypeOK`; `SerialVerifies`; `TearCostsOne`; `NoIdleRow`; `AloneIsComplete`; `SettledIsTrue`; `ResultsAreWhole`; `SweptByAnAuthoredRule`; `ReportStaysTrue`; `IndexIsOneBuild`; `ReportedPinWasUsed` |
| `analysis` | 2 repositories, 2 threads; versions 0..3 with 3 keys and one that does not parse, 3 events in a range that is alone and 2 in one of two; 4 queries (3 of NuGet) in batches of 2, 2 tries; 3 segments, a pipe of 2 and an input up to 4; 3 days, 2 events | `AnalysisTypeOK`; `EachRepoItsOwn`; `DemotedOnEvidence`; `NotInRangeIsTrue`; `FixClears`; `FailedIsCountedNone`; `ReturnLeavesNothing`; `CallEnds`; `OverdueUntilSettled` |
| `findings_empty` | 1 build, 1 record | **violation** of `NeverSaysEmpty` (finding 5) |

Every property of a passing run has a mutant of the code's model that breaks it
(operators named `...Unchecked`, `...FromFile` and so on, each marked
`\* Mutation:`); no specification uses them.

Bounds. Revisions: the hazards of the ledger need a snapshot, a write after it and
one more write by somebody else, three revisions; four let a call with two commits
(`submit_events` with a report) meet an out-of-band one. Two sources are what one
layer id clash, one good and one failing source, or one source lost behind another
need; versions 0..2 let a source be deleted, edited and reverted to the bytes the
inventory saw. Two runs are what a race for a target needs, and since the lock is
given back only by an end of a session, a third adds no new pair. `MigrationReady`
uses symmetry between sources and layer ids (it checks invariants only).

Three repositories in batches of two are a full batch, a short one, and repositories that
are never submitted; a streak of two is reached within a batch and across two; two root manifests
let a ban fall between them, so that a repository is left half cached, and let a cut tree
pass over a candidate; two more with one cache file are one with dependencies that is answered
with the text of one without, or the other way round. The fleets hold every kind of tree and of
manifest, one of them nothing that anything could be extracted from. The sweep can be
started again for ever, so the deadlock check stays on.

`MigrationReady` has one run and so no competing loader, `MigrationShared` edits and a failing
output only where one run is left alone: all at once is too much for liveness. The safety
theorems below hold for everything at once. Both migration runs switch the deadlock
check off because runs end.

`SharedFiles` and `Analysis` check modules that share no variable: a behaviour picks one of
them at the start (`system`), so their sizes add and do not multiply. Two runs of one
dashboard are a fork of the chain and a row that both write; the third, of another source, lets
rows of two sources alternate. Three rows let a torn line swallow an acknowledged one and another
row verify after it, and a source change and change back, for which two snapshots are enough. Two fetchers with four
calls are two that overlap and a later call that reads what they left, two versions an object
that is replaced and restored. Two builders with three builds are two that overlap and one
that comes after; two records let an index hold a part. Two scanners are one that removes what
the other verified, three scans let two die before the third. Two starts are two sweeps that overlap, or one and
the one that runs again after it; a rule that is undone once is undone before, between or in
them, and may be authored again after that. `SharedFiles` uses symmetry where its modules are
large (it checks invariants only). Two repositories are a scan that ends before one that began earlier, and one
that raises beside one that does not; the evidence sets do not depend on the constants, so
`DemotedOnEvidence`, which speaks of one repository at a time, is checked for all of them.
Three events are two spans and a bound between them; with four versions and three keys (`MCKey`:
two neighbours share one) every order and tie of them occurs, of places and of keys. Four queries in batches of two are a batch that fails beside one that is
answered, each with pages, and NuGet ones in both. Three segments are a first, a middle and a
last; an input of four overfills the pipe of two. Two events are one
that starts a clock and one that comes late for an earlier day, three days a due date that is
missed. The runs switch the deadlock check off
because calls end.

Fairness. `AlwaysConcludes` needs `WF_vars(RunStep(r))`, that a run is one sequential
process that goes on while it can; a fault does not count as going on. `AlwaysEnds` needs `WF_vars(Process)`: as long as the
sweep's threads or its main loop can take a step, one is taken; every call they make has a
time-out, and the probes of a pause are bounded by the code. `CallEnds` needs
`WF(ParentStep)`: the caller's own process is scheduled, its deadline and the time-outs of its
waits go off. Nothing is assumed of the environment: edits, deaths, the other run, the ban and
its end, and the programs of a pipeline are not fair.

## What is proved

For all values of the constants (`LedgerAssumption`, `MigrationAssumption` and so on: names are
distinct, bounds are naturals or positive):

- `FreshReads` - type correctness and `ReadsAreFresh`, any number of services. The
  inductive invariant adds that a call which is past its fetch has a layer, that no
  call began in the future and that the file is never newer than the database:
  without them `since..db.rev` is not preserved by a new call.
- `ImplementsView` - the refinement: `view` is the exported revision or 0, every
  action is a `Commit`, a `Publish` of a committed revision, a `Withdraw` or a stutter.
- `OneExporterSettles` - for one service whose unlinks do not fail and which does not
  store whole layers: `SnapshotIsMarked`, `MarkerNotBehindFile`, `OwnWritesVisible`
  (`MarkerLeads`, `WritesStayVisible` are its parts). The invariant follows the order of
  write_snapshot: what was fetched covers what was written, the marker leads the file, and the
  file goes before the marker does.
- `ImplementsOrderedView` - for the same service: what it exports is at least what the file
  shows, because it fetched after its last export and nobody else exports. Out-of-band
  writes and file-mode processes only move the database on or take the snapshot away.
- `StampsHold` - for any number of services, when none restates or stores a whole layer: a pin,
  once read or written, stays, since every other writer refuses to replace another digest.
- `Typed`, `SingleLoader`, `ReadyIsBacked` - of the migration, for any number of runs,
  sources and layers, every fault. `SingleLoader` needs that a run between the lock and
  its end owns the target (holds the lock, or created the SQLite file) and that nobody
  loads before it was admitted to an empty one. `ReadyIsBacked` needs, for every
  point between the reconciliation and the saved verdict, what the result said when it
  was set and that `caught` and `blocking` can only have grown since; its hard cases are
  `HandleLost`, `CloseFails` and a ledger iterator that ends early.
  `ReadyIsMigrated` and `ReadyIsClean` are its halves.
- `OneSourceEach`, `NothingLost` - of the migration's books: a layer id is claimed once before
  its source is delegated, the ledger gets delegated sources only, a source that was dropped
  has its issue before its state says so, and after the ingest none is pending.
- `Typed`, `TrueCaches`, `SoundGraph`, `Accounted`, `Quiet` - every safety property of the
  sweep, for any fleet, batch, streak, patience and set of faults (`FleetAssumption`: counts
  are naturals, the limits positive). `GraphIsTrue` speaks of caches, threads and edges of
  different runs; what carries it is `WorkTrue`: a thread's answers are so, and what it has
  still to ask covers what it does not know (for a cut tree: nothing is known until the first
  candidate that is there, which is then the least). It says so of manifests with a cache file of
  their own (`Own`), and of the others that they are there. The counters need that what was collected
  never changes, and the streak that it counts repositories the stats will call skipped.
- `JournalTyped`, `SerialChain`, `TornWritesCost`, `NothingRepeated` - of the journal, for any dashboards,
  snapshots, rows and tears. The chain needs that a dashboard between its read and its write
  carries the hash of the last row, unless two of them overlapped, and that hashes grow along
  the file. `TearCostsOne` counts: the acknowledged rows that are missing are at most the tears
  so far, less one while the file ends in something that can still swallow a row. `NoIdleRow`
  needs that what `append_if_changed` compared with is still its source's last row when it writes:
  while the call is open, whoever enters for the same source makes it `doubled`, and nobody else
  writes such a row (`NewsOnly`, `MeetKept`).
- `CacheTyped`, `AloneSeesComplete`, `SettledTells` - of the cache. Alone, the partial file of a
  process that is past its copy is complete and nobody writes into an entry; with others, an
  entry is right as soon as every writer of it has ended, because all of them write the version
  of the key: the invariant says what the chunks of each file, named or not, may still become.
- `ImplementsEntries` - the refinement of `CacheView` by the cache of one process: the rename is
  `Publish` of a whole object, since its partial file is, and nothing else touches an entry. With
  two processes it fails: one renames what the other still writes, and then into the entry.
  `PublishesWholes` says it of any number of them up to the first that fetch under one key.
- `SweepTyped`, `ScannedWhole`, `NeverSweptASkeleton`, `ReportKeepsItsWord` - of the sweep. They
  need that at one repository is one sweep (else `met`), that a tree in the given directory is
  partial only under a clone that runs (else `left`), that the rule is authored while a call is open
  in which nobody undid it (`AuthorMoves`), and that a result in flight is already what the
  properties ask of a written one.
- `ImplementsCampaign` - the refinement of `SweepView`, for one sweep that stops anywhere and is
  run again: `Settle` is the write of a result, whole or torn, which finds none there because
  whoever works at a repository saw none and is alone at it; `Tell` is `Emit`, everything else
  stutters. `SettledStays` says the same of any number of sweeps up to the first meeting of two.
- `ScansAreNotMixedUp` - of the pool, for any fleet and any number of threads: by then an entry
  is what its own scan left, whichever other scans were taken meanwhile.
- `DemotionsAreEvident` - of the classification, for any fleet: each rule of `classify` that
  demotes asks for something a tier saw (`ToolRulesSound` and its siblings), so the first rule
  that applies does, whatever the graph, the tiers and the failures left of the evidence; an
  entry rests on its evidence from the graph's answer to the artifact (`EvInv`).
- `NotInRangeHolds`, `InRangeHolds`, `SpansAreExact`, `FixClearsHolds` - of the advisory, for
  records of any number of ranges, events and versions. The readers are recursive functions over
  a list; that they exist (`ReadingIs`, `JoinedIs`) and what they say of each prefix is proved by
  the least place where it would fail (`HasLeast`, `Climb`, from the well-foundedness of the
  naturals). From the event on that introduced a version, the start that is open is at or below
  it, or a span of the output covers it. The converse, that nothing else is covered, needs a range
  as the schema means it and keys that tell the version from its events (`Paired`, `ToldBy`: an end has a beginning, and what was last affected at a
  version is not fixed there too): `spans` starts an end without a beginning at 0.
- `PipelineTyped`, `NothingLeft` - of the pipeline: while the parent reaps segment i, those
  before i and the last have ended.
- `NoneIsFailed` - of `query_batch`, for any queries, batches and retries: a query waits in one
  place or was given up, those are the ones without an answer, and each request that is given up
  adds as many issues as queries leave the places they wait in.
- `ImplementsLookup` - the refinement of `LookupView`: each query is settled once, by an answer or
  by a failure that is counted in that step. Both failures, both answers, `Recase` (which settles
  the empty NuGet answers it leaves alone) are `Settle`, through one lemma (`SettlesSome`) that
  says what a step must leave of the settled queries; `Return` finds none open.
- `IndexIsWhole` - of the findings index, for any builders, records and builds: of the builds
  whose file still has its name one at most has made its tables, and there is no row in them
  before it commits.
- `PinIsUsed` - of the rule packs, for any scans: from the check of HEAD to the report the clone
  is what was checked, unless another scan wrote it (`crowded`) or a person did (`touched`).
- `OverdueStays` - of the clock, for any days, events and terms: events are only added, so the
  earliest day of a rung can only become an earlier one (that a set of days has an earliest
  comes from the well-foundedness of the naturals).
- `SharedFilesTyped`, `AnalysisTyped`, `SharedFilesHold`, `AnalysisHolds` - of the compositions
  the two large runs check: a behaviour of the composition is one of each part (`PartsBehave`), so
  the invariants of the parts are invariants of it. `Typed` of the ledger is part of `FreshReads`.

So every safety property and every type invariant that a passing run checks is a theorem. Of the
ledger, `MarkerNotBehindFile`, `OwnWritesVisible`, `NeverShowsOlderLayer` and
`StampedMeansPinned` are theorems under the conditions that are named above, which are those of
their run.

Only model-checked is liveness (`AlwaysEnds`, `AlwaysConcludes`, `CallEnds`), which is beyond this
prover. Only proved, and not a property of a run, are the refinements of `CacheView`,
`SweepView` and `LookupView`, `InRangeIsTrue` and the composition of the parts.

## Findings

1. `_refresh` swallows `OSError` only. If the backend fails in `get_layer` after a
   committed write, the call raises `LedgerError` and the old snapshot stays, while the
   changelog promises that the snapshot is removed and "the call does not raise".
2. `store_layer` does not refresh the snapshot, although "the layer file is a read-only
   snapshot re-exported after each read or write".
3. A repository answered from the cache resets the streak of rate-limited results: a resumed
   sweep goes on submitting work to an API that answered nothing but the ban, although it
   "STOPS submitting work and PAUSES" after a streak.
4. Cache files are written in place and read without a guard: a sweep killed inside a write
   leaves a file on which every later sweep raises, although the sweep is "resumable via the
   on-disk tree + manifest caches".
5. A rebuild of the findings index commits its tables before its rows. Whoever reads the
   population meanwhile, or after a rebuild that raised, is answered with no records, although
   "no usable index" must mean "walk the tree", never "the corpus is empty".

What the properties do not promise, because the code does not keep it:

- Two manifests of one repository whose paths differ only in a slash for an underscore share a
  cache file (`fetch_manifest`), and so do two repositories whose organisation and name join to
  one text (not modelled): the second is answered with the text of the first, and its edges are
  wrong or missing with nothing skipped and no error (`Own` excludes it from `CacheIsTrue`,
  `GraphIsTrue` and `NoFalseAlarm`). A failure that happens to have 404 in its text is taken for
  an absence and cached; a transient error of the model has none.
- The key of a version drops what follows its numbers: 1.0.0-rc1 counts as 1.0.0, and two Go
  pseudo-versions as one. A pre-release of the fix is called not in range, and no fix is offered
  for it. A record that names the module only in another spelling, or in entries without a name,
  is resolved and then covers nothing (`NotInRangeIsTrue`, `FixClears` are about versions that
  the keys tell apart, and about ranges under the module's name).
- A torn line of the journal swallows the next row that is appended, which the caller was told
  is there, and `verify` passes (`TearCostsOne` counts it, nothing reports it). Two appends that
  overlap fork the chain, and `verify` fails from then on; two runs of one dashboard that overlap
  both find the snapshot changed and write it twice (`NoIdleRow` excludes the rows of such calls).
- Two processes that fetch one object share a partial file: one of them may publish what the
  other is still writing, so a reader sees an incomplete entry (`AloneIsComplete` excludes it),
  and an object that changes between its validator and its fetch stays under the old key.
- A rebuild of the findings index is not found stale by anything: rows of a build that resolved
  before another one may replace the other's (`IndexIsOneBuild` excludes overlapping builds
  there), and a build of some trees only, at the default path, narrows the population of every
  later `load_resolution`, which does not look at the `trees` in `meta`.
- A scan that distrusts a shared clone of rules removes it under a scan that has verified it:
  the other may run with fewer rules, or with those of the branch's tip while a third clones,
  and reports the pin (`ReportedPinWasUsed` excludes it).
- `_execute` refuses an artifact when every scan raised. A clone that fails is a result and not
  an exception, so a fleet in which every clone fails gets one that calls every repository
  inconclusive.
- A pipeline whose input is larger than the pipe, and whose first program does not read, blocks
  the caller for good: the deadline runs from `communicate` on (`CallEnds` excludes it). A wait
  that times out in the reaping, or output that is not text, leaves programs running.
- `resolve` drops the issues of `get_vulns`: with a record that could not be fetched, a version
  only it marks affected is called out of range (`NotInRangeIsTrue` is about none missed).
- A result of `query_batch` that is no object reads as no advisories, and an entry without an id is
  dropped, neither of which is counted (`FailedIsCountedNone` is about what failed).
- `_follow_pages` follows pages as long as the API hands out tokens, so that nothing bounds
  `query_batch`; no liveness is stated of it.
- The first event about an overdue finding that stood on its report's date, or its first filing,
  starts its clock anew, and so does a new report (`OverdueUntilSettled` excludes a change of
  `Basis`); a finding that was resolved once counts as resolved for ever, reopened or not
  (`k in resolved_at`); `build_view` reads the index without `check_revision`.
- A result of the sweep says nothing of which version of the rule it came from: a rule edited
  under a sweep gives results by different versions, and one that a person saves half way, or
  makes a draft again, after the check of `do_sweep` is scanned with as it is
  (`SweptByAnAuthoredRule` is all there is, and excludes a call in which the rule was undone).
- A clone that was killed leaves part of a tree in a given work directory, which the next sweep
  takes for the repository (`ResultsAreWhole` excludes it).
- When the export after a committed write fails and the unlink does too, the old snapshot stays,
  and the call raises; `OwnWritesVisible` is checked and proved without that fault. With two
  exporting services the file may go back to an older revision.

`GraphIsTrue` promises complete edges of full trees only: for a cut tree,
`_fetch_root_candidates` gives up at a candidate that errs and reports nothing of it
(`FleetFetch!AfterFile`), so that neither the counters nor `loud_fail` show it.

## Not modelled

The larger part of the code is data: JSON schemas and their validation (`reporting/validate.py`,
`corpus/threat_model.py`), parsers of manifests, lockfiles and binaries (`portfolio/parsers.py`,
`_util/elf.py`), scoring, rendering, path and command validation. They are functions of one
value; a state machine says nothing about them, and a function checked against itself less.
External code (`traust_ledger`, `traust_contracts`, git, gh, scanners) is modelled only through
what the calls here rely on. Of the modelled components are left out, among others: `localize`
of a directory, the Go-module and reference builds of the graph, `dir:` targets and the choice of
repositories in a sweep, an advisory that comes from a file, the validation of a pipeline's text.
`PROJECT.json` lists every component with the reason.

## Plan

What would come next:

1. Corpus: `resolver.py`, which report counts and which one owns a cumulative file, and
   `store_ingest.py`.
2. The decisions of `disposition.py` and `precedent.py`; the cache of `depsdev/client.py`;
   directories in `localize`.
3. Proofs: an abstract specification of the migration's verdict (published once, and only of a
   target that is whole) and one of the fleet's graph (what a sweep learns, it does not unlearn),
   with their refinements.
