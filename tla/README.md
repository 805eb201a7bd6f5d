# TossAPI: a TLA+ verification project

TossAPI is the data and research side of an automated trading system: it
polls a broker's REST API and other providers, keeps what it receives in a
point-in-time PostgreSQL store, scans it for trading candidates, builds
training sets from it and keeps versioned strategies beside it. Almost every
promise its documents make is about *time* (what was known when) and about
*repetition* (the same call twice, a retry, a correction, a second process).
Unit tests on one connection and a fake clock hardly reach either. This
directory models the code that makes those promises.

Sources are quoted relative to the repository (`app/...`, `docs/...`).

## 1. Inventory

| Component | State it keeps | Operations | What makes it correct |
|---|---|---|---|
| Append-only revision store: `app/db/upsert.py` `append_revision_rows`, `repositories/_revisions.py`, `engine.py`, `ingest/news.py`, `ingest/disclosure.py` | `market_bars`, `news_events`, `disclosure_events`: one row per revision, unique on (event, `available_at`); an open transaction per session | begin, fetch and read the clock, insert row by row, commit, roll back, select as of | one row per slot; revisions numbered 1..n; answers about the past never change |
| Market bar ingestion: `ingest/market_data_ingestor.py`, `repositories/market_data.py` | the same, and the `instruments` row with its lock | `get_or_create`, `ingest_candles` | revisions agree with stamps; no bar without an instrument |
| Observed-event tables: `upsert_event_rows`, tick, order-book, position, signal repositories | one row per natural key, updated in place (the listed columns) or left alone | upsert of a batch, select as of | which rows a past query returns; what they say, for the tables that are never updated |
| AI context extraction: `app/ai_context/*`, `repositories/ai_context.py` | the results in a caller's hands; `ai_context_annotations` rows | one LLM call and its fallback, persist, load as of | what is loaded is one result, whole |
| Data quality report: `app/db/quality.py` | none across calls; two statements in one | count, then latencies | no missing bar is reported that is there; the two statements do not contradict each other |
| Run tracking, scan persistence: `repositories/runs.py`, `_idempotent_insert.py`, `scanners/persistence.py`, `models/artifact.py` `persist_training_run` | `model_runs`, `backtest_runs`, `signals` | start a run under an idempotency key, upsert signals, finish | one run per key; no half scan; versions apart; every call ends |
| Orders, system events: `repositories/orders.py`, `system_events.py` | `paper_orders`, `broker_orders`, `system_events` | idempotent insert, unconditional status update, in transactions of several calls | one row per key and one creator; a repeated insert takes nothing back; deadlocks are survived |
| Toss REST client: `app/toss/client.py`, `auth.py`, `_retry.py`, `rate_limit.py`, `error_mapping.py`, `health.py`, `adapters/http_client.py` | cached token, time of the last send per group, retry counters | get, health check, refresh after 401 | bounded requests, termination, a verdict about credentials rests on a fresh token |
| Toss adapters: `toss/market_data.py`, `portfolio.py`, DTOs | none | conversion | – |
| Ingest scheduler: `ingest/scheduler.py` | the dict of jobs, `last_run_at` | register, unregister, tick | all due jobs run, none else, failures do not stop others, no job starves |
| Strategy registry and mirror: `research/registry.py`, `ingest/strategy_sync.py`, `repositories/strategy.py` | spec files, `strategy_versions` rows | save, load, load latest, sync one or all | nothing silently overwritten; latest is latest; the mirror covers the files |
| Scanner pipeline: `app/scanners/*` | none of its own; reads the store query by query | scan as of an instant | a scan is a function of what was available then |
| Training set: `app/models/dataset.py`, `features.py`, `labels.py`, `training.py` | none of its own | build, split | reproducible samples; chronological split |
| Model, evaluation, artifacts: `app/models/model.py`, `evaluation.py`, `importance.py`, `artifact.py` | files of fitted models | fit, score, by group, store | metrics are what they are called; groups add up to the whole |
| Regime and signal engine: `app/regime/*`, `app/signals/*` | none of their own | read, classify, combine | a signal as of the past is reproducible; the model is served what it was trained on; a trend is never guessed |
| Schema and migrations, core, TradingView wrapper, interfaces for later phases | – | – | – |

How they interact. Ingest jobs run under the scheduler; each opens a session
(`session_scope`), calls a provider – for market data through the Toss client
– and appends revisions. Everything downstream (scanner pipeline, dataset
builder, regime provider, signal engine) *only* communicates with ingestion
through the tables, by queries with a cutoff `available_at <= as_of`. Each
such query is a READ COMMITTED statement of its own. Scans and annotations are
written back through run tracking and the observed-event tables. Strategies are
JSON files that several processes may write; a mirror table follows them.

What is hard here:

- a stamp (`available_at`) is taken before the rows are written and long before
  they are committed, while others read as of later instants;
- read-then-write under READ COMMITTED: revision numbers, `get_or_insert`,
  the registry's existence check;
- components that make several queries between which the store moves on;
- nested retry loops, a token whose lifetime two clocks count;
- callbacks that change the collection being iterated over;
- files that are truncated before they are written;
- transactions of several keyed inserts and updates, which deadlock and are retried;
- rows overwritten column by column, where a forgotten column keeps its past;
- round-half-even, bin edges, inclusive windows and divisions by zero at the boundaries.

`PROJECT.json` lists these as hazards at their lines, each with the properties
that would catch it, or with the reason none does.

## 2. Modules

| Module | Models | Composed with |
|---|---|---|
| `Timeline` | abstract: a history that is only extended, and only at instants still open | instantiated by three models |
| `RevisionStore` | sessions over the append-only tables | refines `Timeline` |
| `BarIngest` | the bar ingestor with the instrument row's lock | extends `RevisionStore` |
| `DataQuality` | the two statements of a quality report over that store | extends `BarIngest` |
| `ObservedEvents` | `upsert_event_rows`, both conflict modes, column by column | its ticks refine `Timeline` |
| `ContextExtraction` | extractors that answer, fail or raise; persisting and loading annotations | extends `ObservedEvents` |
| `ScanRuns` | `persist_scan_results` with lock waits | – |
| `RecordKeeping` | orders, events, backtest and training runs: transactions of `get_or_insert` calls and status updates | extends `ScanRuns` |
| `TossClient` | one call at a time through throttle, token, retries, with time passing | – |
| `IngestScheduler` | `tick()` over a dict that jobs may change | – |
| `StrategyRegistry` | savers, readers, syncers over spec files and the mirror table | – |
| `ScanRules` | filters, event scanners, comparators as pure operators | – |
| `ScannerPipeline` | `scan` query by query while ingestion commits | extends `ScanRules`; its bars refine `Timeline` |
| `TrainingSet` | `DatasetBuilder.build` query by query while ingestion commits; the split | – |
| `SignalInputs` | `build_signal_input` query by query, the regime classifier | extends `TrainingSet` |
| `Evaluation` | calibration error, counts and groups over the samples scored, index by index | checked beside `SignalInputs`, proved about in `SignalInputsProofs` |
| `StoreProofs` | theorems about `Timeline`, `RevisionStore`, `BarIngest` and `DataQuality` | extends `DataQuality`, instantiates `Timeline` |
| `ObservedEventsProofs`, `RecordKeepingProofs`, `TossClientProofs`, `IngestSchedulerProofs`, `StrategyRegistryProofs`, `ScannerPipelineProofs`, `SignalInputsProofs` | theorems about the module they are named for and those it extends (`ContextExtraction` with `ObservedEvents`, `ScanRuns` with `RecordKeeping`, `TrainingSet` and `Evaluation` with `SignalInputs`) | extend that module |
| `MC...` | model values and definitions for TLC | extend the module they instantiate |

Definitions named `...` with the comment "Mutant:" are not part of any
specification: each is a plausible bug, kept next to the definition it would
replace, and the property listed with it in `PROJECT.json` fails with it.

### How state and actions correspond to the code

**RevisionStore.** `table` is what is committed, `own[w]` what session `w` has
written in its open transaction, so a statement of `w` sees `Visible(w)`.
`Begin`/`Commit`/`Rollback` are `session_scope`; several ingestor runs may use
one session. `Fetch` is the point of an ingestor where the provider has answered
and `now` is read once (`news.py:64`); the rows then go in one statement each.
A statement is two steps because its subquery for `max(revision) + 1` is
evaluated on the statement's snapshot (`StartInsert`), and only then does the
insertion meet – and wait for – a concurrent row with the same key
(`FinishInsert`). On a conflict the existing row keeps its values. `SelectAsOf`
is `select_latest_revision_as_of`, filters and all.

**BarIngest** adds `get_or_create`, whose `ON CONFLICT DO UPDATE` locks the
instrument's row until the transaction ends.

**DataQuality.** `report` says how far a report has come: it counts rows in one
statement and reads the latencies in another, and ingestion commits in between.

**ObservedEvents.** `Ticks` are keys of tables that use mode "nothing",
`Snapshots` keys of those that use "update". One statement writes a batch; a key
twice in one batch is an error in mode "update" only. A row's `val` is a record
of columns, of which an update writes `UpdateColumns`; `ing` (`ingested_at`) is
always written, `avail` never.

**ContextExtraction.** `results[w]` are the results a caller has collected:
an extraction answers (`ExtractOk`), fails into an explicit unknown
(`ExtractFails`) or raises past its caller (`ExtractRaises`, the `ok_result`
outside the `try`). `PersistAnnotations` hands them to the upsert of
`ObservedEvents` in one call; `LoadAsOf` reads them back as results. `produced`
remembers every result there ever was.

**ScanRuns.** A call goes through select, insert, (on IntegrityError) select
again, the signals in order, finish. An insert waits while another transaction
holds the same key. Signals are upserted in the caller's order.

**RecordKeeping.** A transaction is a script of its caller: `get_or_insert`
calls and updates, in any order and with any values. A call goes through select,
insert and reselect like `ScanRuns`'s; an update waits for the row's lock, and
may find nothing. The tables differ in columns only, so one table stands for all
of them. Transactions that wait in a circle are found by the transitive closure
of `WaitsFor`; one is raised out of its wait (`DeadlockVictim`). `answers` and
`creations` are what callers whose transactions committed have been told.

**TossClient.** Time is in units; ages and remaining lifetimes are capped where
larger values cannot be told apart, so there is no bound on the clock.
A `Retry-After` that `time.sleep` refuses ends the call.
`outer`/`inner` are the attempts of the two nested retry loops; `cache.left` is the client's idea of a token's remaining life, `cache.atServer` the server's.

**IngestScheduler.** `order` is the dict as it was when the iteration began:
CPython raises `RuntimeError` when the iterator is advanced after the size
changed (`SizeChanged`). `owed` are the jobs that were due then; the code keeps
no such set, and no guard reads it.

**StrategyRegistry.** A save is check, truncate, write; a crash may come between
any two. Specs are numbered in the order of their `created_at`. `Empty` and
`Garbled` are what a torn file can hold.

**ScannerPipeline, TrainingSet, SignalInputs.** Each query is a step; any commit may come
between two of them. Prices and volumes are naturals, ratios are compared by
cross-multiplication, so no rounding is introduced (the code's floats round, its
Decimals do so at 28 digits); the volatility is compared by its square. What a
signal's `quant` holds are the features the model is given: the probability is a
function of them. It is empty also where the engine has no model. In
`TrainingSet` and `SignalInputs`, `ORDER BY` and `sorted` are defined by rank
(`Ranked`; `ByEvent` in `ScannerPipeline`): the n-th element is the one that n - 1 others precede.

## 3. What the runs check

All runs finish in two minutes or less with two workers. Type invariants are
not part of the runs except where they carry the check of a whole state space
(`revision_store`, `scan_runs`); the others hold as well and can be named in any
of the configurations.

| Run | Instance | What it shows |
|---|---|---|
| `revision_store` | 2 sessions, 2 events, 2 values, 2 instants, up to 2 rows a run (1.6M states) | types; one row per slot even among uncommitted rows; gap-free revisions; queries as of settled instants are final for every filter; the store implements `Timeline` |
| `bar_ingest` | 2 sessions, 2 instruments with one bar each, 3 instants, one quality report | with the instrument lock, revisions agree with stamps and bars of one instrument appear in stamp order; every bar's instrument is committed; the missing-bar count never invents a missing bar; a report never calls stale, for any threshold, an instrument it counted a fresh bar of |
| `observed_events` | 2 sessions, a tick, a snapshot and an article, 2 values, 3 extractions, 3 instants (1.4M) | which keys a past query returns is final in both modes; what a tick says is final; a loaded annotation is one result of one extraction, whole |
| `scan_runs` | 2 workers, 2 instruments, 2 keys and calls without a key, 3 calls; or 3 scripts over an order and an event, in opposite orders, with retries and late updates | one run per key across races and rollbacks; no half scan is visible; versions are apart if the key is per version; a key has one row, one creator and one answer; only updates change a committed row, and only to what the last of them said; every call and every session ends, deadlocks included |
| `toss_client` | one retry in each loop, timeout 1, leeway 2, lifetimes 2 and 6 | requests per call are bounded; a token handed out is good at the server; verdicts rest on fresh tokens; every call ends |
| `ingest_scheduler` | 3 jobs with intervals 0, 1, 2; 4 instants; one change per tick | a tick without changes runs exactly the due jobs in order and raises iff one raised; with changes it still runs no other; ticks that run a job are an interval apart; a job that stays due is run, if ticks in which no job changes the dictionary keep ending |
| `strategy_registry` | 2 versions, a saver, a syncer, a reader, 3 specs | a finished file changes only by `overwrite=True`; `load_latest` is not older than what was there when it began; a committed `sync_all` covers all files |
| `scanner_pipeline` | a Korean and an American instrument, 2 bar shapes, 6 scanners, 3 filters, 3 facts, 3 instants | a scan is a function of what was available as of its instant, whatever commits between its queries; `qualified` agrees with the evidence reported beside it |
| `signal_inputs` | the training set's 2 instruments with 6 days (one has a gap), a correction or late bar, a build of each, 2 fractions; a signal for either, as of two instants (0.6M) | samples and skips are reproducible; both sides of a split are non-empty, complete and in order; a signal as of the past is reproducible; it has the features of the training sample of the same instant, or none, although its window is configured apart; less history makes a trend unknown and never another; for all evaluations of up to 3 samples with probabilities in quarters, the calibration error is the reliability curve's, groups add up, and the whole is no worse calibrated than its groups together |
| `filtered_read`, `annotation_leak`, `scan_one_market` | small | a documented statement that the code does not meet (section 5) |

**Why the bounds are enough.** The store's hazards need two writers of one
event, a third value only renames, and one more instant or row per run only
repeats a step; two events are there because a batch may collide on one and not
on the other. Two instants allow a stamp earlier than a commit, which is the
case that matters; `bar_ingest` and `observed_events` have three so that two
settled instants can be told apart. The client's counters are relative: with
one retry in each loop every nesting of the two (and of the refresh) occurs. In
the scheduler two changes in one tick could restore the dict's size, which is a
case of its own that `MaxChanges` leaves out. A scan has three queries after
which something may commit, hence three facts. The training set's lookbacks are
{1, 3} for {1, 5, 10, 20}: all that matters is that there is a shortest and a
longest.

Scans and records, annotations and other observations, and signals and
evaluations share neither rows nor locks; their runs (`MCSpec`) explore either
the one or the other, since a behaviour with both shows nothing that one with
either does not. Two sessions in
two scripts of opposite order suffice for a circle of waits; ids for one retry
of each record are there (`MaxRows`). Three extractions are a first one, one
that overwrites it and one in a second session's hands. Quarters in two bins put
a probability on every kind of edge.

**Deadlock** is checked except in `scan_runs`, where ids run out at the bound and
everyone may have finished, and in `signal_inputs`, whose script is over after
the split and the signal. A wait for each other by two transactions in the store would be a
PostgreSQL deadlock, whose victim rolls back: that is `Rollback`.

**Fairness.** `toss_client` assumes `WF(Tick)` and `WF(Step)`: time passes, a
request is answered or times out (httpx is given a timeout), a sleep returns.
When calls *start* is not fair. `scan_runs` assumes strong fairness of each
worker's step, because PostgreSQL grants a lock to its waiters in order: a lock
that comes free again and again is obtained. Rollbacks are not fair and may
always occur. For records it assumes the same of each session's steps, and
`WF` of the deadlock detector: PostgreSQL looks for circles after
`deadlock_timeout` and raises in one of the transactions. `ingest_scheduler`
assumes `WF(StartTick)` and `WF(InTick)`: the owner of the scheduler goes on
calling `tick()` periodically (`scheduler.py:4`), and a job returns or raises. All
other runs check safety only and assume nothing.

Symmetry is used in the three store runs only, for the safety properties and
action properties they check, over writers and values that the model treats
alike.

## 4. What is proved

TLAPS checks the proofs for every value of the constants: any number of
sessions, workers, events, jobs, requests and dates, any bound on the clock.
What TLC checks on small instances holds of all of them, for the properties
named here.

**Assumptions.** Each is named in the module that declares its constants and
evaluated by TLC in the runs. They say that bounds are naturals and that inputs
have the shape the code gives them: `BoundsAssumption`, `InstrumentOfAssumption`
(every bar has an instrument), `SpanAssumption` (a report is about finitely many
bars), `ObservedAssumption`, `ExtractionAssumption`, `ScanAssumption`,
`RecordAssumption`, `RegistryAssumption`, `PipelineAssumption`,
`SchedulerAssumption`, `TrainingAssumption`, `SignalAssumption`,
`EvaluationAssumption`. Three say more than shape:

- `SchedulerAssumption` allows one change of the dict per tick. Two could restore
  its size, and CPython would not notice;
- `ClientAssumption`: a request times out within the leeway of a token
  (the defaults are 10 and 60 seconds), and tokens outlive one request. The code
  does not check either; with a longer timeout `CachedTokenIsGood` is false;
- `TrainingAssumption`: the bars committed before the builds begin satisfy the
  unique key of `market_bars`.

Some theorems have a hypothesis beyond these, which the code does not establish;
a configuration shows for each what happens otherwise:

- `OneVersionPerKey` in `VersionsStayApart`: callers use a key for one version
  (`MCScanSharedKey`);
- `OneSaverEach` in three theorems about the strategy registry: no two processes
  save one version at a time (`MCTwoSavers`); what is left without it are the two
  other theorems about it;
- `~Reobserved` in `ScansArePointInTime`: no order book is observed again with
  other volumes (`MCScanRerun`);
- in `EventsGateStrategies`, every instrument's market has an event scanner if any
  has (`MCScanOneMarket`);
- `ReadOnce` in `NeverSeenBeforeProducedOnce`: a model version reads an article
  once (`MCAnnotationLeak`);
- `DatesDistinct` in `InstrumentsAreSplitInOrder`: the build is given no date
  twice; and one instrument, to have `TrainPrecedesValidation` as it is written
  (`MCTrainingSet`).

Few of the properties are inductive. The argument for each is the invariant that
strengthens it; TLC has checked each of them on the instance of the module's run.

**The store** (`StoreProofs`). The invariant is `IInv`, the conjunction of

- `TypeOK`;
- `PhaseInv`: only between `Fetch` and `Return` are there rows to write and
  statements in progress, and a session that is idle has written nothing;
- `NumInv`: the revisions of each event, of the committed rows and as each
  session sees them, are 1..n, and the number a statement in progress has read
  is at most n + 1. This is what the gap-free numbering needs: between the
  snapshot and the insertion others may commit, which only *adds* to what the
  session sees, so the number read stays at most one above the maximum;
- `OneRowPerSlot`, over committed and uncommitted rows.

From it: `TypeCorrect`, `SlotsIdentifyRows`, `RevisionsAreGapFree`. That answers
are final (`QueriesAreReproducible`) is an action property: a step adds only
rows of one session's `own`, and those lie after every settled instant by the
definition of `Settled`, so the rows with `avail <= t` do not change. With the
invariant that also gives `ImplementsTimeline`: each step maps to a `TNext` step
or a stutter, where the settled instants only grow since a stamp is the clock's
value and the clock is past every settled instant. `AnswersAreFinal`
proves that the abstract specification keeps its promise, so every
implementation does.

What the reads of the store are is proved too. Of finitely many rows of one event
one has the greatest stamp (`LatestExists`), and by `OneRowPerSlot` only one
(`LatestIsUnique`): `OneAnswerPerEvent`. From the two follows what a filter may do
to a read (`FilterOnKeysIsHarmless`) - one on the key nothing, one on a correctable
column exactly what `filtered_read` finds. `RepeatedPollsAreHarmless` is the other
half of `MCReingest`: a commit all of whose rows say what was known as of their
stamps gives no query at any instant another answer, however many rows it adds.
The finiteness that `LatestExists` needs is that of the instants: a set of
naturals below a bound has a greatest element (`GreatestTime`).

**The bars** (`StoreProofs`). `BarIngestImplementsStore`: every step of the
bar ingestor is a step of the store or stutters, hence all of the store's
theorems hold of it. `BarInv` strengthens `IInv` by: a lock has one owner, and a
run in progress owns its instrument's (`LockInv`); every row a session has
written or is about to write belongs to an instrument it has locked
(`OwnershipInv`); a run's stamp is at least that of every row, committed or not,
of its instrument (`StampInv`); the number a statement holds is above every row
of its bar (`PendingInv`); what is not yet committed is newer than what is
(`OrderInv`). Together they say what the lock is good for: nobody else has
touched the instrument since the run read the clock and the number. Its
consequences are `RevisionsAgreeWithStamps`, `BarsReferToInstruments` and the
action property `CommitsFollowStamps`; and, with the gap-free numbers,
`BarsReadTheirLastRevision`: the bar read as of t has the number n, and what was
available then are the revisions 1..n.

The quality report rests on less. `MissingCountHides` is arithmetic of
cardinalities: there are at least as many rows as bars that have one, and
exactly as many while no bar has two. `ReportsAreCoherent` needs that the table
only grows between the two statements, so that the maximum read second is over
a superset of the rows counted first (`ReportInv`).

**The observed-event tables** (`ObservedEventsProofs`). `TableInv` adds to the
types that a written row is held by one open transaction (`LockInv`) and that
what a transaction has made of a committed row has the committed
`available_at`, and is no tick (`KeepInv`). The second is the reason why a table
that is overwritten in place still gives the same *keys* for a past instant
(`PresenceIsReproducible`); for ticks it gives more, a refinement of `Timeline`
(`TicksImplementTimeline`). `AnnInv` says of annotations that every row,
committed or not, and every item on its way to one was produced by one
extraction - inductive only because the columns an update writes are *all* the
columns of a result (`AnnotationsStayWhole`). `SeenInv` says that a row's
`available_at` is not earlier than *some* extraction of its key. That is what an
update in place leaves of the documented promise (`NothingIsSeenBeforeTheFirst`);
the promise itself is `NeverSeenBeforeProducedOnce`, which needs that this
extraction is the only one.

**Runs and records** (`RecordKeepingProofs`). What makes `get_or_insert` safe is
not its two lookups but the unique key, over what is not committed as well:
`KeyInv` and `RowKeyInv` say that a key has one row among those *any two*
transactions have written and those committed. An insertion preserves it because
it waits for whoever holds the key; a commit because it only moves rows. With
what each call has in hand at each place (`PlaceInv`, `HandInv`) this gives
`OneRunPerKey`, `ScansAreWhole` and `KeysAreRecordedOnce`. `HandInv` has two
parts that took several attempts: a transaction has been told "created" of
exactly the new rows it still holds (`ToldHand`), which is why no two committed
callers were; and what it has made of a committed row is that row with the
status of its last update (`ChangeHand`), which is `RowsChangeByUpdatesOnly` at
the moment of the commit. `RecordsLeaveScansAlone` is the refinement that
carries the theorems about scans over to the whole.

**The Toss client** (`TossClientProofs`). `ClientInv` counts requests by place:
`outer` and `inner` attempts of the dispatch in progress, on top of those of the
dispatches behind it (`CountInv`). `AgeInv` bounds how far the client overrates a
token by the time its response took, and `FreshInv` follows a 401: the old token
is gone until a new one is granted, which is then the one sent. Types are part
of it as far as they matter (`TypeInv`): that the length of a nap is a natural
needs `2^n \in Nat`, which is an induction no installed prover finds.

**The scheduler** (`IngestSchedulerProofs`). `SchedInv`: a change of the dict
shows in its size (`ChangeInv`); the tick has run what it owed among the entries
it has visited (`RanInv`); and what it will find due further on is what was due
when it began (`AheadInv`) - which holds since a tick stamps `last_run_at` only
of the job it has reached. `JobsAreSpaced` follows from `LastInv`, by which
`last_run_at` is the beginning of the tick that ran the job.

**The strategy registry** (`StrategyRegistryProofs`). Readers and synchronisers
list the files once and load them one by one while they are truncated and
rewritten. `FloorInv` says what they may rely on: a file that was listed in full
is afterwards torn or no older. That holds because whoever writes has a spec
newer than what the file holds and than what anyone listed of it (`SaveInv`),
which is where `OneSaverEach` is needed: of two savers of one version, the one with
the older spec may write last. Savers of different versions do not matter, nor
does the number of synchronisers, since what a transaction writes wins over the
table when it commits. `ReadInv` and `SyncInv` say that what is off the list has
been taken into account, in `best` or in the transaction's `own` rows.
`NeverSilentlyOverwritten` follows from `SaveInv`: a saver that may not overwrite
has found no file, and an open one is empty until it is written.

`AnyInv` is what is left with any savers at all: a file once listed is never gone,
and all that anyone has in hand - a sync's `loaded`, its rows, both columns of
them, a reader's `best` - was handed to `save` at some time. Hence
`NothingIsMadeUp` and `CommittedSyncMissesNone`: two savers may make the mirror
old, but neither incomplete nor wrong. (That a file two processes have written
over each other is no valid JSON is a modelling decision, `Garbled`.)

**The scanner pipeline** (`ScannerPipelineProofs`). `QueriesAreStable`: rows that
become available now change no query as of the past, for bars and items because
rows are only added and for order books because none is overwritten. Then
`FetchedInv` says that what the scan has in hand it would fetch again, and that
an instrument of which more is fetched has passed the universe filter on *these*
bars; `ScansArePointInTime` is that at the moment the candidate is made.
`QualifiedAgreesWithEvidence` is inductive by itself and needs no hypothesis: it is
about the gate and the strategy's three results - none, all conditions, not all.
`TypesInv` (`ScansAreTyped`) ties what is fetched to the place the scan has
reached. `EventsGateStrategies` looks into the gate itself: with a scanner
applicable, `StrategyResult` is reached with a hit only (`GateInv`).
`ScannedBarsAreATimeline` maps the bars to the facts of `Timeline` and the instants
before the present to the settled ones.

**Training sets and signals** (`SignalInputsProofs`). The core is
`QueryIsStable`: a commit, whose stamp is the present, changes no query as of the
past. `TrainInv` says of each thing a build has or has collected that the query
behind it was of a past instant, and `SignalInv` the same of signals. That the
answers to two queries with windows of different width agree on their last bars
(`WindowsAgree`), hence that a model is served what it was trained on
(`ModelsAreServedAsTrained`), and that a split loses and mixes nothing
(`SplitsAreChronological`), rest on sorting, which `Ranked` defines without
recursion: every rank is taken by one element (`RanksAreTaken`), so the sequence
is a permutation in order. `SignalsLeaveTrainingAlone` carries the theorems of
the data sets over. `InstrumentsAreSplitInOrder` is what the split does keep of the
documented order: two samples at different places of the split are two samples of
the build (`TwoOf`), and two of one instrument have different dates (`DatesInv`).

**Evaluation** (`SignalInputsProofs`). `MetricsAddUpAlways` is about sums over the
indices of the samples scored. They are folds of the community modules over finite
sets, whose value for a set is fixed by that for the set without one element;
that such a fold is unique, additive over disjoint sets and linear is proved by
well-founded induction, taking a smallest set for which it fails
(`OverSubsets`). That the bins share the samples is a fact of division: every
probability lies in one bin. That the groups' calibration together is no better
than the whole's is the triangle inequality, bin by bin (`WholeIsNoMore`).

What the proofs changed in the models: proof obligations that could not be
closed showed that guards of a `CASE` overlapped, so that the operator did not
say which applies, where the code's `if` chain does (`Trend`, `Volatility`,
`Breadth`); that the constants of `TrainingSet` were unconstrained, so that its
queries had meaningless instances; that the scheduler's state did not
remember what a tick began with (`order`, `owed`); that the scanner's bars were put
in order by an operator that leaves open which order it picks, where `ByEvent` now
takes them by rank as the query's `ORDER BY` does; and that `Evaluation` has to sum
over the indices of samples, not over the samples, of which two may be equal. The
proof of `CommittedSyncCovers` needed no bound on the number of synchronisers, which
`SyncAllCovers` was believed to need, but a condition on the savers.

**Only model-checked**, and why: liveness (`CallsEnd`, `SessionsEnd`,
`NoJobStarves`), since TLAPS has no rules for ENABLED, so that fairness is out of
its reach. Every invariant and action property that a passing run checks is a theorem, some
under one of the hypotheses above.

## 5. Where documents and code disagree

Three runs find a documented statement violated and are listed as findings:

| Run | Statement | Code |
|---|---|---|
| `filtered_read` | `_revisions.py:5-6`: a read picks, per event, the revision with the greatest `available_at <= as_of` | the caller's filters are applied before the latest is picked; a filter on a correctable column returns a superseded revision. `FilterOnKeysIsHarmless` says exactly when |
| `annotation_leak` | `ai_context/persistence.py:39-41`: a point-in-time read never sees an annotation before it was produced | a second run of one model version updates the values in place and keeps the first `available_at`: the row's `ingested_at` is then later than the instant it is returned for. Without a second run it holds: `NeverSeenBeforeProducedOnce` |
| `scan_one_market` | `scanners/pipeline.py:18-20`: the Strategy Scanner never runs without an event, if a scanner is configured | the gate asks for scanners *of the instrument's market*: an instrument of a market without any goes on. With one for each market it holds: `EventsGateStrategies` |

Further configurations, to be run by hand, each end in a counterexample. They show
the limits of properties that hold in the passing runs under a condition the
code does not enforce:

| Configuration | Property | Shows |
|---|---|---|
| `MCReingest` | `ReingestingAddsNoRow` (ADR 0008:9-10) | a poll that returns an article again appends it again, under a new `available_at`; no query's answer changes (`RepeatedPollsAreHarmless`) |
| `MCScanSharedKey` | `VersionsSegregated` (ADR 0010:121-123) | `runs.py:53` looks a run up by its key alone: a second version with the same key writes into the first one's run |
| `MCTossPacing` | `SendsArePaced` (`rate_limit.py:43-44`) | the pause is taken before the token is fetched and not between retries, so two sends may be closer than the interval |
| `MCSchedulerLosses` | `EveryDueJobRuns` (`scheduler.py:39`) | a job that (un)registers one aborts the tick with a `RuntimeError` |
| | `RunsAreSpaced` (`scheduler.py:4-6`) | a job late in a slow tick is stamped with the tick's beginning and may run again too soon |
| `MCTwoSavers` | `NeverSilentlyOverwritten` (`registry.py:9-11`) | two processes both find the version free; the mirror stays complete and its rows are real specs (`NothingIsMadeUp`, `CommittedSyncMissesNone`) |
| `MCMirror` | `MirrorIsACopy` (`strategy_sync.py:4-6`) | an existing row's `spec_created_at` is not updated with the rest |
| `MCScanRerun` | `ScanIsPointInTime` (ADR 0010:160-161) | an order book observed again is overwritten in place: the past scan gives another result |
| `MCTrainingSet` | `TrainPrecedesValidation` (ADR 0011:136-138) | samples of two instruments share a date on both sides of the split; those of one do not (`InstrumentsAreSplitInOrder`) |
| | `LabelsPrecedeValidation` | the label of a training sample is read from bars of the validation period |
| | `EntryIsTheAsOfBar` (`labels.py:41-42`) | without a bar on `as_of` the label window starts at a later bar |
| `MCLiveSignal` | `LiveSignalIsReproducible` | a signal as of *now* is not reproducible: what is stamped now may commit between its two queries or after them. `SignalIsReproducible` is about instants that were past |
| | `VolatilityIsNeverGuessed` (ADR 0011:81-82) | the volatility is classified from whatever bars there are, from two returns on: another level than the full lookback gives |
| `MCObservedLosses` | `PayloadsMatch` | `raw_payload` is not among the columns an order book or a position updates: it stays the first observation's |
| | `FindingsAreKept` | an extraction that fails replaces what an earlier one of the same model version found |
| `MCRecordLosses` | `UpdatesLand` | a status update that overtakes the commit of its order changes nothing and reports nothing |
| | `OutcomeIsLogged` (`system_events.py:1-3`) | the success of a retry is deduplicated against the failure before it |
| | `RunIsOfOneTraining` (`artifact.py:70-74`) | a second training under one key leaves the first one's parameters with its own metrics |
| | `FinishedStaysFinished` (`runs.py:1-7`) | a late finish overwrites how a run has ended |

Where a configuration names several properties, `tlc -continue` shows a
counterexample of each.

And without a model: both windows of a sample include `event_time == as_of`
(`labels.py:11` calls them non-overlapping); an absent universe flag is reported as
PASS or FAIL (`universe.py:143,154`), not as the UNKNOWN of `universe.py:127-132`;
`claude_extractor.py:99-104` may raise although `:3-6` says it never does (an
action of `ContextExtraction`);
`artifact.py:70-74` needs a path before the id it is named by is known;
the migration to revisions (`0002`) adds a NOT NULL column without a default,
which fails on tables with rows, and its downgrade recreates a unique key that
several revisions violate (`README.md:211`: "round-trips cleanly");
`conversions.py:16` takes "NaN" and "Infinity" for decimals;
`quality.py:71-73` counts revisions for bars; `MissingCountHidesAtMost` says
exactly how far that can mislead.

## 6. What is not modelled, and why

- Toss adapters and DTOs: each call validates and converts one response and
  keeps nothing. What its callers see - the response, or an exception before any
  of it is used - is in `TossClient` (`End`) and `BarIngest` (`Rollback`).
- Settings, logging, exception classes, the TradingView wrapper and the abstract
  interfaces: no state and no behaviour of their own.
- Numerical work (fitting, AUC, Brier score, importance) and the values of
  features: a feature vector is represented by the bars it is a function of.
  `Evaluation` has what the repository itself computes.
- The artifact file: `save_artifact` and `persist_training_run` have no common
  caller, so there is no protocol between file and row to model.
- Migrations: run once, in one transaction, beside no other process; the tables'
  columns and keys are in the modules, as the last migration leaves them.
- `compute_duplicate_count`, `compute_success_rate` and the average latencies:
  arithmetic over one query's result.
- `ingested_at` in the revision store (always equal to `available_at` there).
- Clocks that jump back.
- The operating system's file cache: a crash leaves a file empty or torn, and
  what was fully written survives.

## 7. Plan

Done, in this order: the store and its abstract timeline (everything rests on
it), the bar path composed with it, the observed-event tables, run tracking, the
client, the scheduler, the registry, the scanner pipeline, the training set and
the signals composed with it, then records beside the scans, extraction over the
observed-event tables, the report as two statements, and evaluation.

The proofs went the same way: the store and the bars, then every safety and
action property of the observed-event tables, the annotations, the quality
report, runs and records, the client, the scheduler, the registry, the scanner
pipeline, the training sets and the signals; then evaluation, what reads and
repeated polls answer, what holds in the registry with any savers, and for each
documented statement that does not hold a condition under which it does.

Left: a variant function behind `CallsEnd`, which would state termination of a
client's call without fairness as a bound on its steps; the conditions under which
`MirrorIsACopy` and `EntryIsTheAsOfBar` hold; the average latencies of the report.

## 8. Running it

    tlc -workers 2 -config MCRevisionStore.cfg MCRevisionStore
    tlapm StoreProofs.tla

A configuration that has no module of its own belongs to the module whose
property it checks: `MCFilteredRead` and `MCReingest` to `MCRevisionStore`,
`MCAnnotationLeak` and `MCObservedLosses` to `MCObservedEvents`,
`MCScanSharedKey` and `MCRecordLosses` to `MCScanRuns`, `MCTossPacing` to
`MCTossClient`, `MCSchedulerLosses` to `MCIngestScheduler`, `MCTwoSavers` and
`MCMirror` to `MCStrategyRegistry`, `MCScanOneMarket` and `MCScanRerun` to
`MCScannerPipeline`, `MCLiveSignal` to `MCSignalInputs`.
