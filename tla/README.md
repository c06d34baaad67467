# Verification of the Bybit EU trading radar

TLA+ models of the parts of this repository that keep state, the TLC instances that
check them, and TLAPS proofs of what matters most. Paths are relative to the
repository root, which is called `src/`; `backend/` stands for
`src/bybit_eu_swing_radar/backend/`.

## 1. The system

The radar is a set of Python programs around one PostgreSQL database. Cron workers
fetch market data from Bybit EU and Coinalyze, compute scores, and write payloads
to a cache table and rows to journals. A FastAPI process reads them and also starts
a few background tasks. Research layers next to the live strategy store append-only
evidence. No program keeps state between two runs except in the database, and
nothing in the repository stops two runs of the same worker from overlapping: the
schedule lives in the hosting platform.

### Inventory

| component | code | state | operations | what is hard | correct when |
|---|---|---|---|---|---|
| replay queue | `backend/backtest.py`, `backtest_worker.py`, `app/main.py` | jobs, symbol rows, signals | look up or create a job, reset stale rows, claim, replay, complete or fail a row, recount | autocommit statements, two entry points, slow workers, crashes | no row is lost, replayed into twice, or reported before it is done; a replayed signal ends as the journal would end it |
| diagnostics queue | `diagnostics_v073*.py`, `diagnostic_worker.py`, `app/v073_diagnostics_api.py` | one job, symbol rows, events | the same, under an advisory lock; reports | a session that ends under its run; reports of two reads | events are whole, a settled report is exact, a report holds what its status counted |
| signal journal | `journal_core.py`, `day_worker.py` | `day_trade_signal_journal`, cached scan | insert, evaluate, count, save | overlapping runs, piecewise evaluation, stale clocks, windows of bars | the outcome of a signal is the first level it touches, and it is final |
| strategy | `day_v076.py`, `day_worker.py`, `sweep_research.py` | none; recomputed from a window of bars on every run | find a breakout, a sweep; decide | the window moves on; one algorithm is written several times; five versions | one breakout is one event; the copies agree; newer versions keep what older ones trade |
| day worker | `day_worker.py` | cached scan, one setup per symbol | universe, deep analysis, derivatives, borrowing, commit | any request may fail | a listed strict candidate is the setup that is served |
| swing worker, top candidates | `worker.py`, `app/main.py`, `app/repository.py`, `app/swing_priority.py` | cached scan | rank, choose whom to enrich, enrich, commit; read twice | ranked in two places, before and after the enrichment | what is shown was enriched |
| flow worker | `flow_worker.py`, `flow_context.py`, `app/flow_freshness.py` | one cache row per symbol and a status row | load, build, write, serve | overlapping runs, row locks, two clocks | the status counts what is served; GOOD data are fresh |
| lifecycle ledger | `research/research_lifecycle_ledger.py`, `research_trial_registry.py` | append-only events, registered trials | register, record | check and insert are separate statements | the chain of stages has no gap, no second identity, nothing retroactive |
| OOS vault | `research/research_oos_vault.py` | sealed partitions, exposure events | seal, open, status, read | concurrent callers, builds with other manifests | sealed once, opened once, read only after it was opened |
| microstructure recorder | `research/microstructure/collector.py`, `standalone.py`, `app/microstructure_research.py` | order book, buckets, tasks in the API process | snapshot, delta, trade, flush, reconnect, start, stop | awaits between reading and clearing, late messages, reconnects, handovers | a message that came in time is stored, a row is written once, the lock comes free |
| microstructure studies | `research/microstructure/alignment*.py`, `readiness.py`, `effect_test_v3.py` | none; recomputed from buckets and journal | align, check readiness, test | several reads beside the journal, deployments | looks only back, ready exactly when its sample is, a frozen cohort stays |
| controlled pullback | `research/microstructure/controlled_pullback_*` | append-only records | load a window, detect, insert row by row | sliding windows, two tasks, stops between rows | an event has its comparator; every impulse is represented |
| barrier-clear research, prospective funnel | `research/day_barrier_clear_*`, `prospective_funnel_worker.py`, `research/prospective_funnel_v073.py` | parents, clear rows, funnel snapshots | track, collect, stamp, persist | two programs, a long collection before one commit | a parent ends once and as its bars say; the funnel has no hindsight |
| swing trial | `research/swing_liquidity_*`, `app/research_swing_liquidity_api.py` | captures, milestones, reports | collect, guard, persist; build events, partition | deployments while a collection runs; late posts; nothing derived is stored | captures are whole, milestones earned; matured events and the cohort stay |
| policy catalysts, alerts | `research/policy_catalyst_*`, `app/market_context_alerts.py` | events with first-seen times, captures, a cache in the process | capture, load, warn | overlapping captures without a transaction, reads without a snapshot | first clocks are true; what is due is shown, the newest first, or the sources are called stale |
| context layers and freeze | `research/*_shadow*.py`, `research_snapshot_history.py`, `signal_context_freeze*.py` | a table per layer, an immutable history, freeze rows | capture, append, replace; freeze | each layer has its own order of reads, clock and writes | nothing is lost, nothing looks ahead, the cohort is complete |
| statistics | `research_gate_family_v1.py`, `statistical_robustness.py` and others | a materialized dataset | split, select, test | leakage between the parts | measures what it says, selects on nothing else |
| scripts | `backend/scripts/`, `init_db.py` | none | deploy, smoke test | - | - |

`PROJECT.json` lists every component with its files and how much of it is modelled,
and under `hazards` every place of the modelled code that is hard to test.

## 2. Plan

In the order of their weight for the running product. "Proved" names what is stated
as a theorem; everything else listed is checked by TLC.

1. Replay queue: `BacktestQueue`, `Replay` (proved).
2. Ledger and vault: `ResearchLedger`, `OosVault` refining `SealedBox` (proved).
3. Journal: `Journal` (proved, for `ClosedIsFinal` with one run at a time).
4. Strategy: `Breakout`, `DayGates`, `DayDecision`, `Sweep` (proved).
5. Recorder: `MicroRecorder` (proved).
6. Diagnostics: `DiagnosticsQueue`, `GateReport`, `EventReplay` (proved).
7. Workers: `FlowCache`, `DayScan`, `SwingScan` (proved).
8. Evidence: `ContextLayers`, `ContextFreeze`, `PolicyCatalyst`, `MarketAlerts`,
   `SwingCapture`, `SwingTriggers`, `BarrierStudy`, `ForwardSidecar`, `Pullback` (proved).
9. Studies: `MicroStudy` (proved), `Statistics`.

Left: the batch that fills the research dataset; the rest of the read API; a composition of
`Breakout` and `Journal` (one breakout, one journal row).

## 3. How the modules are written

One module per component: CONSTANTS for the actors and the data, named assumptions on
them, one action per statement, await or handler of the code, and a next-state relation that
is their disjunction over the actors. An actor is a run of a program. A variable names its
next statement; what a program does between two statements, which nobody else can
see, belongs to one of them. Most connections of this repository are in
autocommit mode, so that one SQL statement is one step; a transaction is one step where
its locks or its commit make it one, and several steps where they do not.

Modules that compose others: `MarketAlerts` reads the tables that `PolicyCatalyst` fills,
`ContextFreeze` those of `ContextLayers`, `GateReport` is a client of `DiagnosticsQueue`,
`ForwardSidecar` runs the programs over the rows of `BarrierStudy`, `EventReplay` walks over
the bars of `Replay`, `Replay` compares its outcomes with `Journal`, `DayDecision` and
`DayScan` both build candidates with `DayGates`.

`MC*.tla` extends modules with the sets and symmetries of their instances, the `.cfg`
files give the constants their values, `*_proofs.tla` holds the theorems, `Extrema` a few
facts about least and greatest elements. Components that share no variable share a run: the
variable `subject` of an MC module says which component a behaviour is about, and the variables
of the others keep their initial values. In two runs (`detectors` for the statistics,
`journal_single` for the bucket studies) the action property of a subject is a box over its own
variables, so the subject may stutter.

The names of definitions are those of the code where there are any. Definitions named
"Mutant" in their comments model bugs the code does not have: they show that the
properties can be violated, and no specification uses them.

Data are abstracted to what the properties tell apart. Prices, scores and texts are
gone, or a few integers where an algorithm compares them; a kline is what it touches, a
message is its bucket and its number, an event is its stage, time, identity and build.

## 4. The modules and the code

### BacktestQueue - `backend/backtest.py`, `backtest_worker.py`, `app/main.py`

`Workers` are the runs of `run_backtest_batch`, started by the cron or by the API. The
tables `backtest_jobs`, `backtest_job_symbols` and `backtest_signals` are `job`,
`sym` and `signals`; `slot` is the five-minute part of the job key. In the order of
the code: `LookupJob`, `InsertJob`, `DuplicateJobKey`, `InsertSymbols`, `MarkRunning`,
`ResetStaleSymbols`, `ClaimSymbols`, `CommitClaim`, `FetchBtc`, `CompleteSymbol`,
`FailSymbol`, `CountSymbols`, `CountSignals`, `SaveCounts`. `Crash` ends a run after any
statement, `Expire` lets a claim reach the age at which `ResetStaleSymbols` takes it, and
`NextSlot` starts the next slot. The claim is the one transaction of the code: its
`SELECT ... FOR UPDATE SKIP LOCKED` and its commit are two steps, with the row locks
(`LockedByOthers`) in between. The replay of a symbol is one step that yields
`SignalCount` of it.

With overlapping runs the status of a job can go from COMPLETED back to RUNNING and
forth; a run that dies between the insert of a job and of its symbols leaves a job
that the next count calls COMPLETED with nothing in it, until the next lookup. No text
of the repository contradicts that.

### Replay, EventReplay - `backtest.py`, `diagnostics_v073.py`, `sweep_replay.py`

`Replay` is what `CompleteSymbol` does to one symbol: `FetchPage` is an iteration of
`klines_range`, which pages backwards, `EvaluateBar` one bar of the loop of
`replay_symbol` with `evaluate_outcome`. Any slot may have no bar. `ReplayIsJournal`
feeds the same bars to `Evaluate` of `Journal`: both must end a signal at the same bar
for the same reason. `EventReplay` walks over the bars of `Replay` with given sweep events,
as `diagnostics_v073.py` does (`DiagnoseEvent`) and as `sweep_replay.py` does
(`ReplaySweep`, `AnnotateRow`), which select primary rows in different orders.

### DiagnosticsQueue, GateReport - `diagnostics_v073.py`, `diagnostics_v073_perf.py`, `v073_diagnostics_api.py`

`Runs` call `run_diagnostic_batch` under one session advisory lock. `LoseDiagSession` ends the
session of a run: the lock is free at once, and the run notices at its next statement. Two
runs may then hold the same symbol, and the keys of the events make a second insert
harmless. `GateReport` adds the client of `run_production_v073_diagnostics.py`: status
before, dispatch, polls, final status and one waterfall after the other, each from its own
reads, with the gates of a row computed as in `DayGates`.

### FlowCache - `flow_worker.py`, `flow_context.py`, `app/flow_freshness.py`

The day worker commits setups, `FlowRuns` read them (`LoadSetups`), build a payload per
symbol at a time of its own (`BuildFlow`), and write all rows and the status in one
transaction, row by row, waiting for locks. `ServedCoverage` is what the API makes of a row.

### Journal - `journal_core.py`, `persist_day_results` in `day_worker.py`

`clock` counts closed bars, and `path` says what each of them touches of the levels of
each signal. A run fetches a window of bars (`Fetch`), perhaps with a last bar that was
not closed when it was fetched (`FetchTorn`), or nothing (`FetchFails`). Then comes its
transaction: `InsertSignal` or `NoSignal`, `SelectOpen`, and `Save`, which evaluates the
rows (`Evaluate`, from `evaluate_signal_row`), updates them, counts and commits. The
insert waits for another one of the same key, updates wait for the rows, and `UPDATE ...
WHERE id` overwrites what was stored in between. `journal.py` replaces
`ensure_journal_schema` by a check without DDL, so that no table lock separates the
runs. A deadlock that PostgreSQL resolves is a failed statement, hence `Crash`.

### Breakout, DayGates, DayDecision, Sweep - the strategy

`Breakout` is `active_structural_breakout_context` in `day_v076.py`: `Scan` is one iteration
of the loop over the window that `Fetch` returned, `Return` its result. `origins` is history:
the bars that begin a breakout, seen over every bar since the first. Long breakouts only: the
short ones are the same code with the comparisons mirrored.

`DayGates` has no state: the scores, levels, target path and gates of `build_day_candidate`,
and next to them the gates of `gate_snapshot` in the diagnostics. `DayDecision` closes bars
(`DayBar`) and looks again (`DayLook`) with a new analysis; `Told(v)` is the decision of
version v of the strategy on the bars so far.

`Sweep` is the liquidity-sweep detector, written three times: the reference scan of
`sweep_research.py`, its accelerated copy with bisection in `diagnostics_v073_perf.py`, and
`latest_bar_sweep_setup`, which a caller asks after every bar (`BarCloses`, `LookAgain`).

### DayScan, SwingScan - `day_worker.py`, `worker.py`, `app/main.py`, `app/swing_priority.py`

`DayScan` is a pass of the day worker: `BeginDay`, `RetryFast`, `SelectDeep`, `AnalyseDay`,
`Enrich` or `EnrichFails`, `Borrow`, `SaveDay`, and `Die` anywhere. A snapshot is one of
`DayGates`, so that the derivatives of `Enrich` really move the scores that `SaveDay` ranks by.

`SwingScan` is a pass of the swing worker (`Analyse`, `ApplyShortability`, `SelectTargets`,
`EnrichSwing`, `CommitScan`) with the two reads of GET /v1/top-candidates beside it
(`RankCandidates`, `AttachDerivatives`).

### MicroRecorder - `research/microstructure/collector.py`, `standalone.py`

`Recorders` are `run()` calls that may exist at the same time: those of an old and a new
deployment, or two of one process, since a supervisor whose heartbeat fails starts a new
recorder and leaves the old one to itself. `pc` is where `run()` is: waiting for the lock
(`retry`), `recording`, `closing` (the loop is left, the flush task is joined), `final`
(the forced flush), `off`. `Deliver` is one message put into its bucket; `wire` is a set, as
topics may arrive in any order. The flush task is `Select` (the closed buckets are picked),
`Commit` or `Raise`; the removal of the written buckets is part of `Commit`, as a message
that arrives between the two changes nothing else. `LoseSession` is a lost database
connection, which frees the lock on the server while the process does not know yet; `Kill`
is a process that ends without a word, `Terminate` a stop it is told of.

A row is the set of the messages it counts, so that a row with too few of them shows.
`torn` remembers the buckets where that cannot be helped: a message came after the row
of its bucket was picked, or a stop wrote a bucket that was still open. `intime` are the
messages a recorder must not lose.

### MicroStudy, Pullback - `research/microstructure/`

`MicroStudy`: buckets pass and may be lost, signals are journalled late and closed, a
new version of the strategy is deployed (`Upgrade`) and verified (`Verify`). A cohort is the
set of its rows, as the order follows from them. A report
(`StartReport`) is several statements on two connections: `LoadRows` and `LoadCounts` are the
halves of an `asyncio.gather`. Version 1 is a study whose strategy is over, version 2 the one
that runs.

`SymbolReady` has all the gates of the readiness. Which rows lack a book or its messages is a
constant, and so any.

`Pullback`: `Record` writes the next bucket row or none, and `Rewrite` puts another row in the
place of one, or of none: a forced flush, a late message, another recorder. So cycles need not
see the same rows, and an event carries the rows that its cycle saw. `LoadWindow` is a cycle with
the whole detector, `InsertNext` stores one row, `Abandon` is any end in between. Two tasks may
run.

### ResearchLedger - `research_lifecycle_ledger.py`, `research_trial_registry.py`

`Recorders` are callers of `record_event`. Those in `Transactional` are inside the
transaction of a caller, as `persist_forward_snapshot` of the swing-liquidity API is; the
others commit every statement. The steps are `Call` (the validation of the arguments),
`Register` and its outcomes, `Schema`, `ReadSame`, `ReadAll` (with the checks of order,
identity, predecessor and promotion), `Insert`, `Reread` and `Commit`.

`Schema` matters: `research_lifecycle_ledger.py:121-135` drops and creates a trigger, and
PostgreSQL gives a transaction that does so the ACCESS EXCLUSIVE lock of the table until
it commits. Nothing else keeps two recorders from checking at the same time. Inside a
transaction the lock carries `OneIdentity` and `NoRetroactiveEvent`; in autocommit mode it
ends with the statement, and only what the unique indexes and the append-only rows
guarantee is left. The runs and the theorems are split along that line.

### OosVault, SealedBox - `research_oos_vault.py`

One partition, and callers that seal, open, ask for the status and read. A
call is up to three statements, each a step; a build stands for the manifest hash a
caller was built with. `SealedBox` is what the vault promises, in three actions: sealed
once, opened once by one authorization, shown only after that and only as sealed.
`OosVault` implements it by the mapping `Box` in the module, whose variables are
the rows and what was returned.

### ContextLayers, ContextFreeze - the context layers, `signal_context_freeze*.py`

Each layer has a script, the order of its reads, its clock, its requests and its writes as in
its code; `BeginCapture`, `ReadLayer`, `ReadClock`, `AskProviders`, `AppendHistory`, `Upsert`,
`Store` and `FailCapture` carry the scripts out. `Deployments` are the endpoints in use. A freeze call
(`BeginFreeze`, `ReadStart`, `Select`, `Load`, `InsertFreeze`, `FailFreeze`) looks up the capture of
a signal's opening: versions 1 and 2 in the table that captures replace, version 3 in the
immutable history.

### BarrierStudy, ForwardSidecar - `day_barrier_clear_*`, `prospective_funnel_*`

`BarrierStudy` holds the rows, the resolution of a parent against an analysis, and the cohorts
of both versions. `ForwardSidecar` runs the two programs over it: the sidecar (`Track`, `Collect`,
`Stamp`, `PersistStudies`, one transaction at the end) and the worker that only stores parents. The
time between `Collect` and the commit is where bars close unseen; `whole` remembers whether one did.
`Collect` also reads the last bar as `klines` does, which takes the clock after the answer: a bar
that closes in between is kept with the values it had before (`Reading`). If these do not end a
parent, the next run looks at the bar again; if they do, the parent has ended for good, which `torn`
remembers. `ParentsEndOnce` says what holds then, too: the parent ends once, after its capture, and
no earlier closed bar should have ended it.
The sidecar's transaction also stores the funnel (`PersistFunnel`) and publishes its counts, which
are over the last snapshot of each sweep (`LatestRows`).

### SwingCapture, SwingTriggers - the swing trial

`SwingCapture`: a guarded collector reads the worker's status and the API's version before and
after it collects (`ObserveWorker`, `ReadVersion`, `CollectSnapshot`, `VerifyLineage`), while
`Deploy` and `PublishScan` go on; then the transaction, `BeginPost` (which sets `NOW()`),
`WriteCapture`, `CommitCapture`, with the milestone it may record. `SwingTriggers`: a report builds
all events anew from the captures and the klines (`FetchKlines`, `Report`), each from the latest
capture in time that has its key (`Selected`); `settled` and `cohort`
are history, the matured events and the DEVELOPMENT partition of earlier reports.

### PolicyCatalyst, MarketAlerts - `policy_catalyst_*`, `market_context_alerts.py`

`PolicyCatalyst`: a capture reads its sources one by one (`FetchSource`, `SourceFails`), reads its
clock, and stores each event in three committed statements and the capture last. `MarketAlerts`:
requests load the context (`AskContext`, `ReadGeo`, `ReadLatestCapture`, `ReadRecentEvents`,
`FillContext`) when the cache of the process is too old, beside each other and beside captures.

### Statistics

One definition per measure, asked for one input at a time; `AddRow` appends rows in the order
of their time. `research_gate_family_v1.py`, `research_interactions_v1.py`,
`research_historical_flow_analysis_v2.py`, `research_dataset_v1.py`,
`statistical_robustness.py` and the corrections of the effect tests.

## 5. The runs

| run | subjects and bounds | what it shows |
|---|---|---|
| `queues` | replay queue: 2 workers, 2 symbols, batches of 1, 2 jobs, 2 slots, 1 reset, 1 crash. Diagnostics: 2 runs, 2 symbols, batches of 1 or 2, 2 lost sessions, a client of 2 batches. Replay: every history of 6 slots, pages of 2, horizon 2. Events: up to 3 of 9 events over 6 bars with or without a gap. Flow: 2 runs, 2 symbols, a clock of 3 | no row is lost, counted early or handed out twice; reports and freshness say what is stored; replayed signals end as the journal ends them; samples without overlap or hindsight |
| `backtest_live` | replay queue as above, no reset of a living worker | every row of the latest job is done in the end; the report gets back to the full counts again and again, as an overlapping run may put an older count in between |
| `governance` | ledger: 2 recorders in transactions, 3 events, 2 identities, 3 stages, 1 crash. Vault: 2 callers, 2 builds, 2 payloads, 2 authorizations, 1 crash. Pullback: 2 tasks, 6 buckets, one of them replaced, windows of 5 | no event behind a later one, one identity; the vault implements the box; the sample has its comparators, and no event has a broken sequence |
| `research` | ledger: one recorder in a transaction, one without, 2 builds. Contexts: 2 captures of up to 3 layers of each deployment, 3 captures begun, 1 freeze, 1 signal, 3 ticks. Sidecar: 2 programs, 3 bars, of which the second may be read torn, 3 stored runs | chain without gaps, acknowledged means stored; nothing is lost or looks ahead; parents end once and rightly |
| `detectors` | 6 bars over 3 prices, lookback 2, window 4; sweeps on 7 slots with a gap; decisions on 6 bars with lookback 2; statistics on 3 rows, 6 values, 4 blocks of 3 configurations, grids of 3 by 3 | exact origins; one detector; no repainting; what versions owe each other; the measures |
| `radar` | journal: 2 overlapping runs, 3 bars, horizon 2, window 2. Swing: 3 symbols of 5 shapes, one pass. Day: 2 symbols, 2 passes. Captures: a guarded collector during 2 deployments, or 2 overlapping posts, 5 hours. Triggers: 2 keys, 9 slots of which 3 make a bar. Policy and alerts: 2 captures, 3 pages of 2 sources, 2 rows read and 1 shown, 2 requests, 4 moments | see the properties; each is about one subject |
| `journal_single` | journal: runs one after the other, 5 bars, dying anywhere. Studies: 2 symbols, 3 buckets of time, of which 3 rows may be lost and 2 have no book, 3 signals | outcomes are final; no signal stays open past its horizon unless its bars left the window; a study is ready exactly when its sample is |
| `micro_recorder` | 2 recorders, 2 messages of one bucket, a clock of 2 buckets | one recorder can write; a message in time is kept and stored; rows are written once; a stop frees the lock |
| `breakout_ratchet`, `journal_time_exit`, `micro_status`, `day_derivatives` | small instances | findings 1 to 4 |

Why the bounds are enough. Two actors give every interleaving of a pair, and no code here
waits for, or counts, more than one other. One reset and one crash each put a
row back into a queue that has other rows, and other workers, in every state. Two
symbols and batches of one make a worker claim more than once; three events on three stages
make a chain, a gap and a duplicate. A horizon of two bars and a window of two or three have a
first, a last and a skipped bar. Six bars let a window of four move past a breakout, and
three bars of two slots hold a fifteen-minute bar before, over and after a confirmation. In the
recorder one bucket closes, and its two messages can be on either side of every step. Three
captures of up to three layers make a table row of an hour be replaced under a reader. A sweep
stays in the funnel until another bar has closed, so that its snapshots differ. Two
overlapping posts and a cohort of one give every order of a milestone's evidence; three posts
at once are left out. Limits of one, with more than one item that competes, make every list and
budget overflow. Where a theorem exists the bounds do not matter.

Every bound is a constant (`MaxJobs`, `MaxSlot`, `MaxResets`, `MaxCrashes`, `MaxLost`, `Lag`,
`LastBar`, `LastBucket`, `LastTick`, `MaxCaptures`, `MaxRuns`, `LastSlot`, ...) or a set, and only
its guard mentions it. The symmetries permute actors or interchangeable data, and are used in no
run with a liveness property. `CHECK_DEADLOCK FALSE` stands where a component comes to rest: a
finished queue, a bound clock, a pass that was the last.

### Fairness

- `BacktestQueue`: weak fairness of each worker's next statement, because the cron keeps
  starting runs and a statement returns or raises; of `Expire`, because claims age. None
  for crashes, which the bound makes finitely many.
- `Journal`: weak fairness of the clock and of a run's next statement; strong fairness of
  a fetch and of the steps of runs that fetched the symbol: the cron starts runs for
  ever, and not all of them fail.
- `MicroRecorder`: weak fairness of the clock and of the tasks of the process: leaving the
  loop after a stop (a pong wakes it every heartbeat), the flush, the writes (they succeed
  or raise), the clean-up, and a recorder in `retry` that was told to stop. Nothing of the
  exchange, the network or the platform.
- The other modules state safety only: a call that dies leaves nothing anyone waits for.

### Findings

1. `breakout_ratchet`: an ongoing breakout whose origin left the window is reported with a
   later bar as its origin, and journalled under a second key. The docstring
   (`day_v076.py:36-37`) says that later bars "must not ratchet the trigger/origin
   forward".
2. `journal_time_exit`: the clock that ends a horizon is read after the bars were fetched
   (`journal_core.py:592`), so that a row may be closed as TIME_EXIT without the last bars
   of its horizon, whatever they touch. The module docstring calls the outcome "TP2 versus
   stop within an 8-hour horizon".
3. `micro_status`: a failed write ends the flush task, and its exception stays in the task
   until the recorder is stopped. The validation specification
   (`docs/research/EVIDENCE_FEATURE_VALIDATION_SPEC.md:183`) says that the status exposes
   error timestamps and counts.
4. `day_derivatives`: the day worker lets derivatives move the scores it compares with the
   strict minima (`worker.py:1455`), so that the same market is STRICT or not depending on
   them. `BACKEND_SPEC_HU.md:18` and `:241` say that they are context only, and that missing
   derivatives neither lift a setup to strict nor take that from it.

## 6. The proofs

Checked by TLAPS for every value of the constants that satisfies the named assumptions of
the modules. Most of these say that bounds are naturals, that sets are finite where they are
counted, and that a value that means "nobody" is not an actor. The others:

- `Breakout`: the lookback is at least 2 and shorter than the window.
- `DayDecision`: `ActiveBars \in 1 .. 2` (`DAY_BREAKOUT_ACTIVE_BARS` is 2). With more, 0.7.5 could
  take a crossing that was lost and regained, and would trade what 0.7.7 does not.
- `DayScan`: the core symbols fit into the budget of derivatives.
- `PolicyCatalyst`: the pages of a source are finitely many, and dates and clocks are positive.
- `MarketAlerts`: the cache lives for a positive time, a ratio is not higher than elevated
  before it is elevated, and the window of active events lies in that of recent ones.
- `Sweep`: the slice that the worker passes on holds the bars a sweep is judged by, and the
  fifteen-minute groups that a structure needs even if gaps broke some. The bound is sharp: one
  bar less, and TLC finds a sweep that only the whole history shows. The code passes
  220 bars where 12 levels, 6 bars and 3 groups of 3 are needed, which leaves room for about a
  hundred gaps.
- `SwingTriggers`: a bar has more than one slot. `Pullback`: the cooldown and the least move are
  positive. `EventReplay`: an event lies in the bars of its market, and no horizon is longer
  than that of an outcome. `GateReport`: what a batch stores of a symbol is as many rows as it
  says. `MicroStudy`: there is a symbol, and no window is longer than the lookback.

TLC evaluates all of them in the runs.

**Queues_proofs** (`BacktestQueue`, `DiagnosticsQueue`, `FlowCache`, `GateReport`, `Replay`,
`EventReplay`). `ClaimInv`: claims that are
open hold PENDING rows and are disjoint; a row being worked on and never reset is RUNNING; no one
else holds it. The last part is what makes it inductive: without it a second worker could have the
same row in its list already. It gives `NoDoubleWork` and, with the row locks, that done rows stay
done. `ReportInv`: the rows of a job appear together, and what a worker counted was true when it
counted, hence is a lower bound now. It gives `ReportIsHonest`. `DiagInv`: at most one run is
inside the lock with an open session (`Alone`), open claims are disjoint (`Claims`), a count that
is about to be saved is exact or the run has lost its session (`Counted`). It gives
`DiagnosticsAreExact`. `FlowInv`: the locks of a run are held from its first write to its
commit (`LocksAreHeld`), so that rows named by a status are of its batch (`BatchIsLocked`). It
gives `FlowIsSound`. `ClientInv`: what a client has read of a report was in the tables, and the
scope and the ratio come from it; `ReportsAreTrue`. `ReplayInv`: the open trades are the
signals whose every bar so far is neutral, and the closed ones name the first bar that is not,
or their horizon; with the lemmas that a longer scan ends where a shorter one does
(`ShorterHorizons`) this gives `ReplayIsFaithful` for tapes of any length. `EventInv`: each
stored row is what one pass over the bars says, whatever rows are missing yet (`RowsLeft`); the
pass that picks primary events is a fold, and `Picks` says of it that a row is picked if and
only if the last one picked before it of its symbol has ended. It gives `EventSamplesAreSound`.

**Governance_proofs** (`ResearchLedger`, `OosVault`). `TransactionInv` (the lock belongs to the
transaction past `Schema`) and `ContentInv` (a check that cannot be undone holds until the
insert), for any mixture of recorders; from them `LedgerIsWhole`. `SerialInv` (all checks still
hold at the insert) only with `Transactional = Recorders`; from it `OneIdentity` and
`NoRetroactiveEvent`. `VaultInv`: rows never change, and so what the first statement of a
call found still holds in its second (`FirstReadsHold`). `VaultIsBox` is the refinement:
initial states map to initial states, and each step to a seal, an open, a show or a stutter.

**Detectors_proofs** (`Breakout`, `DayDecision` with `DayGates`, `Sweep`, and Holm's correction of
`Statistics`). `Scanned`: the scan holds the first crossing since the begin of the window that is
still held. `OriginsInv`: every crossing that is held belongs to the breakout that goes on; a
crossing inside an ongoing breakout has the higher range, so that what holds it holds the first
one too. The window only moves forward, hence `OriginNeverGoesBack`. `BreakoutsAreTraded` needs
the same about the recursive origin of `DayDecision` for any sequence of bars: every bar of a held
sequence agrees on its origin. `GatesMatchDecision` compares the list of gates with the decision,
for every analysis and short mode: the gates differ in that of the execution alone (`AllGates`). `SweepInv`: bars come in the order of their slots, with no more gaps than the
bound. Levels, reclaim, confirmation and the closed fifteen-minute groups read nothing after the
confirmation (`EventStays`, `GroupsStay`), hence `ConfirmedIsFinal`. The accelerated scan finds
the last closed group by bisection, in a list that is sorted by its closes (`BisectFinds`):
`FastIsReference`. What the worker sees is a slice, the history without its first bars (`CutOff`):
an event that both hold is the same in both, and a structure needs groups that may be broken by
gaps. A broken group misses a slot, no two of them the same, and so there are no more of them than
gaps (`RoomForGroups`). That gives `LatestIs`, and with the invariant that what a caller was told
is the earliest event of each bar (`LiveInv`), `OneDetector`. `HolmIsClosedTesting`, a part of
`StatisticsAreExact`: a set is rejected because its first p-value in the order is small enough for
all that is left, and a hypothesis is, because everything from one before it on is a set
(`HolmIsClosed`).

**Journal_proofs** (`Journal`). `Right`: what a row says is so along the path of its signal, if it
counts as many bars as there were; an OPEN row has observed no bar twice and has not seen
the last bar of its horizon, which is why a TIME_EXIT without a new bar shows in the
count. It holds of the table and of the rows a run selected (`RowsAreRight`), so that
an overlapping run that writes old rows back writes right ones. It needs
`ClocksArePast`: the clock of a transaction is not older than its bars. `OneInserter`
and `ReadRowsAreOpen` give `SignalIsImmutable`. `ClosedIsFinal` is proved for one run
at a time; with two, an older run can reopen a closed row, until a later run
closes it again.

**Microstructure_proofs** (`MicroRecorder`, `MicroStudy`). `Safe`: an open session and the lock are one
(`LockIsSession`); a recorder that waits for the lock has nothing, and only a write
under way has rows (`WaitsEmpty`, `FlushPhases`); cut buckets and sent messages are
past (`CutIsPast`, `SentIsPast`); a recorder that can write has no message for a row that is in the
table already, but for torn buckets (`Fresh`); what it picked is what it holds of a bucket, but
for torn ones (`Covered`). `Fresh` is why a row is written once, `Covered` why forgetting a bucket
after its write loses nothing. `StudyInv`: signals are of the past, and one that an unverified
build journalled came before the second cohort (`SignalsInOrder`); what a report has read is of
its study as it is now, all of it if the strategy is over (`ReportIsOfStudy`); the published
cohort is that of the first study up to some time, and every signal until then has a row
(`PublishedIsOfStudy`). It is inductive because a signal's row reads buckets that were over
when the signal came, and no bucket is lost later (`RowsStay`), and because later rows do not
change the shortest prefix that fills the sample (`CohortStays`). That a full coverage of
every symbol is one of all signals, and the sums of the check in production, need sets counted by
owner (`OwnersCompare`, `SumsAdd`). Together they give `BucketStudyIsSound`.

**Research_proofs** (`ContextLayers`, `ContextFreeze`, `BarrierStudy`, `ForwardSidecar`,
`Pullback`). `LayersInv`: what a capture has read was in a table and, for a cross-layer capture,
is no newer than its clock, if the clock was read first (`CallHolds`); the script of a layer
appends to the history before it replaces the row (`Ordered`); a row of a table is in the history
(`RowHolds`). `FreezeInv`: what a freeze has loaded is the best capture for its signal among those
the history held when the freeze began, and no later capture can be better: clocks only move
forward, and a signal is opened in the past. It gives `ContextIsSound` and `CohortIsComplete`.
`SidecarInv`: bars are closed when a run counts them and the run's clock, once read, is not before
them (`BarsAreClosed`, `RunsInv`); a PENDING parent has seen nothing that ends it up to its last
whole bar looked at, and a terminal one was ended by the first bar that does, or by a bar no later
than that read before its close (`ParentsInv`); a run under
way knows no fewer bars, and has no earlier clock, than any snapshot there is, so the last snapshot
of a sweep, the one the published status counts, is the one that knows most (`FunnelInv`). It
gives `StudyIsSound`; that version 2 refuses no run is there because the rows a run would write
are the invariant's own (`RunsAreAccepted`). `PullbackInv`: what a cycle has found is of the rows
it loaded, and its comparators are stored or still in hand, before the row they belong to
(`CycleSound`); a stored event stands in the rows its cycle had loaded (`EventStands`), which is
all that can be said, since the collector replaces rows (`Rewrite`). With what the walks of the detector return (`CandidatesCover`, `EventsAre`) it
gives `PullbackSampleIsSound`, for two tasks and any end in between.

**Radar_proofs** (`PolicyCatalyst`, `MarketAlerts`, `DayScan`, `SwingScan`, `SwingCapture`,
`SwingTriggers`). `PolicyInvariant`: each stage of a
capture knows what it found in the tables, and rows only grow (`TablesGrow`), so that a lookup
that found a row finds the same first clock later; `ClockIsOfFirst` carries
`PolicyRecordIsTrue` over captures that overlap or stop. `AlertsInvariant`: what a request has read
was stored before and holds what was due when it asked (`Loading`), and so does the cache, however
old the request that filled it (`Caching`); with the lifetime of the cache that is
`FreshPolicyIsSurfaced`. `StrictSetupIsServed` rests on `StrictSideIsAhead`: a strict side scores
higher, whatever the rounding, since the other has no direction in its score. `SwingInvariant`: a
pass ranks and enriches what it analysed (`PassesInOrder`), and the targets hold the priority
symbols (`PriorityIsTargeted`), so that an answer built from two reads of the cached scan shows
only priority symbols of its scan: `AnswerIsCovered`. `CaptureInvariant`: what a collector has
read is in order and of builds that ran (`LineageInv`, `ReadsInOrder`), a guarded one writes
alone (`OneWriter`) and compares with its own first reading (`SecondIsOwn`): `CapturesAreSound`.
`TriggersInvariant`: rows are of bars that were closed and in time (`BarsAreClosed`,
`NothingIsLate`), and the cohort is the earliest of the matured ones (`CohortOfMatured`), which
later rows cannot join: `SwingCohortIsStable`.

Least elements stand in for induction over data: `Extrema` takes the least number of a set from the
induction theorem of the library once, and facts about sequences and recursive functions follow
from the least counterexample. Recursive definitions are functions chosen by `CHOOSE`, since no
prover here knows RECURSIVE operators.

Only model-checked:

- Liveness, which needs fairness and ENABLED: `JobsAreFinished`, `OpenRowsAreResolved`,
  `RecorderLetsGo`.
- `StatisticsAreExact` but for `HolmIsClosedTesting`: the other parts compare algorithms with
  reference definitions over bounded inputs, and sort, fold or select from a sequence, which are
  recursive, or (`SortSeq`) have no definition that the provers see.

## 7. Not modelled

- Numbers where no property is about them: indicators, prices of levels, R multiples, order-book
  sums, Sharpe ratios and their deflation, bootstrap draws, rounding, time zones and the precision
  of timestamps. A study's scores and a layer's scores are data.
- The batch that fills the research dataset, the market-regime scores, the momentum scan of the
  swing worker, and the API endpoints that return one cached payload.
- The rows of the forward capture around the ledger, and the read-only status of ledger
  and registry.
- In the recorder: the order book and its resynchronisation, the sums in a row, and the
  recorder inside the API process.
- The heartbeat row of the recorder (`standalone.py:97`, `runtime_status.py:35`), which a
  standby and the active recorder both write.
- In the freeze: the flow cache that derivatives read, the microstructure part, the sample gate.
- PostgreSQL beyond the statements used: statements are atomic, row locks, unique indexes
  and the ACCESS EXCLUSIVE lock of trigger DDL work as documented, and a committed row
  stays. A deadlock is a failed statement.
- The components with the status `not_modelled` in `PROJECT.json`; the notes say why.

## 8. What a reader of the code should know

Seen while modelling. They are not findings: the repository says nothing of them, or says them
itself, except where a line is quoted.

- Journal and strategy: a breakout whose origin left the window of 99 bars gets a second row. One
  trigger of the barrier study can become several parents; a bar that closes between the fetch and
  `captured_at` is looked at by nobody; a bar read just before its close can end a parent for good
  on partial values (`worker.py:237`), against the note at `day_barrier_clear_observer_v1.py:511`
  (`StudyIsSound` allows for it, by `torn`); the v1 DEVELOPMENT cohort can change after it was ready.
- Pullback: the cooldown starts anew with each sliding window
  (`controlled_pullback_detector_v2.py:66`), and an earlier candidate's late event can suppress a
  later candidate's early one. A cycle loads rows that were forced out before their bucket ended, or
  that a late message replaces afterwards (`collector.py:92`, `:461`): a stored event or comparator
  stays though the table no longer shows it. One bucket row with a NULL mid fails cycles for up to 15 minutes.
- Studies of buckets: the two statements of a report may straddle a signal, so that one that comes
  between them can hide another without a row. A cohort is recomputed for every report.
  Rows of a retired version that are OPEN are never closed, and its study waits for them.
  `production_microstructure_effect_status_v3.py`
  asks for a cohort of exactly 60, though the earliest ready prefix may be longer.
- Statistics: a rule without losses has no profit factor and fails its holdout gate; rows of the
  training part have outcomes past its end; the discovery sample of the interaction report includes
  the holdout of the other two.
- Event replays: `sweep_replay.py` does not ask for a whole horizon, so that an event near the end
  of the range exits early; its A/B comparison is of primary samples that need not be nested.
- Policy catalysts: overlapping captures can move `last_seen_at` back; a failing detail page leaves
  its source OK; a republished page gets a second identity in v1. Alerts: the LIMIT of 25 may hide
  an active event, and so does the cut to the five newest; a database error between two reads gives NORMAL for the lifetime of the cache.
- Swing trial: `source_commit_sha` is the API's environment at the time of the post; "three
  consecutive" goes by the time the transactions began; a DEVELOPMENT partition whose bars leave the
  window of 300 klines is lost. Overlapping swing workers would defeat the check of rotating builds.
- Context layers: derivatives use a regime row of any age
  (`research_derivatives_positioning_api.py:105`); `event_tokenomics` reads the regime after its
  clock, and overlapping captures move its `last_seen_at` back
  (`research_event_tokenomics_api.py:585`); overlapping captures may replace a newer row by an
  older one, which versions 1 and 2 of the freeze then see, and version 3 does not.
- Gates: the diagnostics run by default with `technical_only` (`diagnostics_v073.py:90`), so that
  their PASSED_STRICT_TRADE holds shorts that the worker refuses for want of borrow; the forward
  capture puts the borrowability back. `GatesMatchDecision` says what each mode passes.
- Gate reports: the older v0.7.2 endpoints read the latest job of any version; the 18 reports of
  the runner are read at different moments.
