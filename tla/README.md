# somethingtrade in TLA+

A model of the somethingtrade gap monitor, of its data capture and of the research programs and
evidence scripts that work on what was captured: TLA+ modules translated from `src/bot` and
`src/scripts`, TLC configurations that check them on small instances, and proofs, checked by
TLAPS, that the central properties hold for every value of the constants. Line numbers refer to
the files under `src/`.

    tlc -workers 2 -config MCPhase41Capture.cfg MCPhase41Capture.tla    # a run
    tlapm Phase41CaptureProofs.tla                                      # a proof

`PROJECT.json` lists the runs, the theorems, for every definition the lines it translates,
the hazards of the code and the properties that cover them, and for every checked property
a plausible bug of the code under which TLC finds it violated.

Contents: 1 the system, 2 the modules, 3 the runs, 4 the proofs, 5 where code and documents
disagree, 6 remarks, 7 what is not modelled, 8 the plan.


## 1. The system

The program watches Binance (spot and futures) and Polymarket's short up/down markets. It
places no order: it measures whether a Polymarket token could be bought after a Binance
move and before its price followed (a *gap*), and it records Binance order books for
research. Everything but the JSONL writer runs on one asyncio loop, so two tasks
interleave only at an `await`.

| component | state it keeps | operations | how it interacts | what is hard | what makes it correct |
|---|---|---|---|---|---|
| Sequenced order book, `orderbook_state.py` | ladder, last and snapshot ids, generation, readiness flags | `apply_snapshot`, `apply_delta`, `mark_not_ready`, `validate` | called by the capture only | the bridge between snapshot and updates is an off-by-one; a rejected update must lose the book | while a snapshot is loaded the ladder is the exchange's on the levels it knows |
| Phase 4.1 capture, `orderbook_phase41.py` | bounded queue, retry counter, counters of the pass verdict, stale period | reader, initial wait, snapshot with bridge retry, `process_depth_update`, `check_stale_periods`, deadline | reader and capture share the queue; samples go to the writer; REST request | lost, repeated, dropped updates; the queue fills while the snapshot is fetched; snapshots older or newer than the queue, and of limited depth | a sample shows the exchange's book as far as it is known; a generation has no hole; "pass" means nothing was lost; a lost book is fetched again |
| Binance client, `binance_ws.py` | the connection | `stream`, reconnects for ever | feeds the reader and the monitor | a reconnect loses updates and tells nobody | (environment of the two components above) |
| JSONL writer, `batch_writer.py` | thread queue, batch, file handles, counters, stop event | `enqueue_jsonl`, `_run`, `_next_batch`, `_flush_batch`, `close` | rows from the capture, a real thread | a full queue, a batch that raises half-way, a join that times out | rows in order and once; a clean report means that all are written; it drains and ends |
| Polymarket websocket, `polymarket_ws.py` | runtime tokens and version, recorded tokens and version, transition flag, the connection | `stream`, `update_markets`, the scheduled close | the monitor's refresh calls `update_markets` at any `await` of `stream` | the universe changes while the subscription is being sent; `recv` may wait for ever | a kept connection is subscribed to the current universe, and there is one in the end |
| Token books, `polymarket_orderbook.py` | ladder, overrides, snapshot/incomplete/invalid/ok flags, tick size | `apply_book`, `apply_price_change`, `apply_best_bid_ask`, invalidation, `update_market_metadata` | called by the websocket client, quotes go to the market state | flags shared by two judgements, kept across messages; late messages after resolution, by another id than the metadata's | a complete quote agrees with what was reported; a market known to be invalid never gives one |
| Gap detector, `gap_detector.py`, with `market_state.py` | pending gaps, invalid markets, last quotes and events with their times | handlers of Binance events, quotes and lifecycle events, `update_markets`, `_close_expired_pending` | the monitor applies each event to the state, then to the detector | no timer; two sets of invalid markets, and two ids of a market; three reasons to close compete | gaps only on tradable markets; successes only in time; every gap observed once, in the end |
| Auto collection, `phase52_auto_collection.py` and scripts | the entries of this run, manifest, session directories, failed copies, stop file | start and resume, capture by a child process, evaluate, record, manifest | a child process per session; files are all that survives | crashes between and within writes, killed children, retries over earlier files | what is recorded is kept; completed sessions stay; retries count |
| Monitor, `main.py` | tasks, status, summaries | ingest tasks, refresh, status, shutdown | composes detector, websocket, universe and logger | a dead ingest task goes unnoticed until shutdown; the shutdown itself can fail half-way | an exit without an error means that everything counted is in the file |
| Event logger, `event_logger.py` | unbounded queue, worker task, file | `log`, the worker's writes in a thread, `close` | rows of the monitor | a failing write ends the worker while `log` goes on | the file is a whole prefix of what was logged |
| Market universe, `market_universe.py`, `polymarket_discovery.py` | current markets, next refresh, cache file | discovery (slug lookups, active events, cache), startup, `refresh`, selection and roles | gives the universe to websocket, state and detector | windows roll while requests are under way; lookups fail one by one; the cache is old or torn | a window that runs is tracked; an error or an empty answer does not empty the universe; no answer too old is adopted |
| Labelled datasets, `orderbook_labeled_dataset.py`, `orderbook_100ms_coverage.py` | output files | validate, features, labels, leakage checks, gates | read the capture's samples, rely on `SampleFeed` | binary searches at the horizon; times out of order; torn lines | a label is the earliest sample at its horizon; a feature does not know the future |
| Reference and clock research, `bookticker_reference.py`, `reference_feed_benchmark.py`, `time_protocol_benchmark.py`, `clock_sync_receive_lag.py`, `phase42h_streaming.py` | output files, an SQLite table | labels from a second feed, by three clocks; clock offset; the same streamed | read samples, feeds and server time samples | feeds out of order, clocks that step, two implementations of one computation | the earliest reference; streaming equals batch; a corrected lag is true |
| Evidence scripts, `scripts/run_phase42*.py`, the `evaluate_`, `classify_` and `write_` functions | report, self check, bundle, exit code | clean, test, capture, analyse, evaluate, write, bundle | run the capture and the programs above | each step can fail or be killed; a report is evaluated up to four times; old files are around | a pass is earned; exit 0 has its evidence; a bundle is of one run (but for named exceptions) |
| Dataset audits, signal research, quality reports, settings, execution and risk stubs | none between calls | batch computations, placeholders | read finished files | numeric | not modelled (section 7) |

The hazards, each at its line, are in `PROJECT.json`.


## 2. The modules

Each component has a module with one action per handler, an `MC` module and
configurations. The proofs are in eight `...Proofs` modules: one for each of the capture, the
writer, the detector, the collection, the universe, the evidence scripts (`EvidenceProofs`)
and the research programs (`ResearchProofs`), and `MonitorProofs` for the parts of the monitor
around the detector: subscription, token book, tasks and logger. Control is kept whole:
guards, early returns, error paths, their order. Data is what the properties can tell apart.

### `OrderbookState`: the book as operators

A book is a record; `ApplySnapshot` and `ApplyDelta` return the next one, and
`SnapshotStatus`, `DeltaStatus` the status the code returns, with its checks in the code's
order. A ladder maps `<<side, price>>` to a size, 0 for an absent level. Clocks, ages,
the sorted price indexes and `state_version` are left out. `RefreshReadyToEmit` is the
final validation (one-sided and crossed books). `Top` is the best levels of each side, as
`copy_snapshot` takes them for a sample and as the exchange cuts its depth response.

### `Phase41Capture`: the capture

Two tasks and the exchange. The exchange's book is a constant: `History[n]` is the book
after update n and `Touch[n]` the levels that update writes; the assumption says that it
reports every change, and all proofs are for any history of that kind. A snapshot is
`Top(History[L], Limit)`: the request asks for 1000 levels a side
(`orderbook_phase41.py:1952`). What lies behind them enters the local book only when an
update writes it; the ghost `known` is the set of levels that the last snapshot reached or an
applied update wrote, and `BookFaithful` says that the book is the exchange's on `known` and
empty elsewhere. A sample holds the best `DepthN` levels; `SampleFaithful` says that they are
the best of the known ones, and the exchange's own best if those are known (section 6 for
when they are not). The reader is
`Receive` (one or several updates in one message), `ReceiveAgain` (repeated ones) and
`Reconnect` (lost ones). The capture task is a program counter over its awaits:

    initial_wait -> fetching -> (backoff -> fetching)* -> loop -> done
                       |                                  ^ |
                       +-> failed                         +-+  fetching again after a rejection

`SnapshotArrives` is the whole of `_load_fresh_snapshot` after the response: load, purge,
and giving the book up when no bridge is queued. `Process` is a round of the loop with an
update, `CheckStalePeriods` one without.

- Counters that the verdict only compares with 0 are the set `blockers`;
  `phase_4_1_pass` is `blockers = {}`. A "pass" may have no sample at all; the writer's
  drops are not part of it (`orderbook_phase41.py:1286`), so nothing here speaks of files.
- `late` stands for a stale book or a severe queue lag: they block the sample, not the
  update. It is an input because a clock decides it.
- The purge of the code is a loop over the queue by ids. The model keeps the queue from the
  first bridging update on; that this is the same is `PurgeMatchesLoop`, proved
  from the order of the queue. After a rejected snapshot the purge still runs, with its id.
- The sleep of the retry loop also follows the last attempt, and the loop then goes on
  without a book (`BackoffEnds`), as in the code.
- An update without `pu` (spot) has `prev = NoId`. With `pu`, the first update after a
  snapshot must follow it exactly: `UpdatesAppliedWhole`.

### `SampleFeed`: what the capture promises

The abstract specification: a view that follows the exchange without a hole or is blind,
with a reach that is at least that of one depth response and never shrinks while the view
lasts; samples that are valid and show the best of the exchange's own levels within that
reach; a generation that ends with each loss. The labelled datasets build on that (they join
samples of one `generation_id`). `Phase41Capture!ImplementsSampleFeed` maps the view to the
book's last id while the book is in sequence and to `Blind` otherwise, the reach to `known`.

### `BatchWriter`: the writer thread

The producer (the event loop: `EnqueueJsonl`, `Close`, `JoinReturns`) and the thread
(`CheckStop`, `GetFirst`/`GetTimesOut`, `FillBatch`, `WriteRow`, `FlushBatch`,
`BatchFails`) interleave at every step between two queue, event or file operations. Row n is
the n-th row submitted. When a batch raises, any prefix of what was written to each handle
may have reached its file; the rest of the batch is lost and one error is counted. The
join may return before the thread is dead (its timeout). An operation and the counting
beside it are one step: the producer alone reads the counters, after close. Captures call
`start` before the first row and enqueue nothing after `close`.

### `PolymarketSubscription`: the market websocket

`pc` is the await at which `stream` is suspended; `UpdateMarkets` may happen at each. The
fields of the client (`active_token_ids`, `active_version`, `transition`) are what it
*believes*; `server` is what the exchange was asked for. `SendReturns` records the
universe as it is after the await, as the code does, which is wrong when the universe
changed meanwhile: only the close that `update_markets` schedules repairs it. `Drop` and
then `Raise` also stand for a message that cannot be normalised. The universe is never
empty (the refresh preserves the previous one), and the monitor sets no limit on
reconnections.

### `PolymarketOrderbook`: one token's book

`ApplyBook`, `ApplyPriceChange`, `ApplyBestBidAsk`, `MarkMarketInvalid`, `UpdateTickSize` and,
from a new universe, `UpdateTokenMetadata`, in all three validation modes; `ApplyOneReported` is
`_apply_one_reported_best` branch by branch. Prices are multiples of the finest tick; of a size
only its presence is kept. The quote (`_quote`) is a function of the state: `QuotedPrice`,
`SizeKnown`, `BookComplete`.

A market has two ids. Messages name it by their `market` field (`EventId`, the condition id);
the book has the `market_id` of its token's metadata, which discovery takes from a payload's
`market` or, when it has none, from its `id`, as for a Gamma payload
(`polymarket_discovery.py:1513`). `market_invalid` holds the ids announced, and the code looks
for the book's own id among them. `InvalidForGood` speaks of that id; when the two differ
an invalidation reaches no book (section 5).

### `GapDetector`: pending gaps

One market with its two tokens; handlers treat markets one by one and alike. An event is
applied to the state and to the detector with no await in between
(`main._ingest_gap_binance`, `_ingest_gap_polymarket`), so it is one step. `CloseExpired`,
which the code runs at the end of every handler, is part of each handler's action.
`closed` holds the observations of the last step. Time is ages that stop at `AgeBound`,
which lies above every threshold, so no comparison of the code can tell a larger age. A
`tick_size_change` that carries the new size closes nothing by default and is therefore no
action of its own here. `invalid` and `market_invalid` hold the ids of this market that are in
the detector's and the state's set: events bring `EventId`, the look-ups are for `market_id`,
the metadata's (`CloseNamed`, `InvalidateQuotes`).

### `AutoCollection`: sessions, children, crashes

One program counter for the runner and the child it waits for in `subprocess.run`. What
survives is `manifest`, `disk` (report, child's bundle, the runner's copy, metadata of each
session), `audit` (`failed_audit`) and the stop file. A zip carries the number of the
capture it holds and whether it is whole. `Crash` and `ChildDies` can happen at every step
and leave the file being written torn, because files are written in place. A passing
report may still fail the other gates, so `eligible` is any value for it and FALSE for
every other.

### `MarketUniverse`: rolling discovery

A market is `<<group, window>>`; Gamma (external) lists it some time before its start and
closes it at its end. A *view* maps markets to the status an answer gave them, so that one
set of operators (`Selected`, `Role`, `Classification`) serves lookups, pages, cache and
universe, each with its own instant. `pc` is the await at which the monitor is suspended:

    startup -> direct -> (active ->) finish -> sleep -> direct -> ...
       ^________________________________|         startup may also end in exited

Time passes between the stages of a discovery, so that `asof` (its `now_ts`), the answers
and the constructor's own selection (`AtConstruction`) see different instants, as in the
code. `DirectLookup` counts a network error as "no such market", `DiscoveryRaises` is an
exception at a page or a write, `Restart` a kill that may tear the cache. `Round` needs no
refresh to be due: `should_force_market_refresh` may force one at any time. `whole` and
`looked` are bookkeeping for `CurrentIsTracked`: whether every lookup of the discovery that
the universe comes from was answered.

### `RowLog`: what a logger promises

The abstract log of which both loggers are implementations: rows are submitted, and a file only
grows, by later rows of its own. With `MaySkip` a row may stay out although a later one is in
the file (the batch writer drops rows and loses batches); without it a file is a prefix of what
was submitted (the event logger). `ImplementsRowLog` in `BatchWriter` and `GapMonitor`.

### `GapMonitor`: tasks, event logger, shutdown

Two ingest tasks and the main loop log observations (numbered in the order logged); the
worker appends them in a thread. `IngestFails` and `WorkerFails` end a task that nobody
looks at. The shutdown is the `finally` of `run_gap_monitor`, await by await: a failed task
raises there and skips the rest, and `asyncio.run` then cancels the worker (`Teardown`).

### `LabeledDataset`, `ReferenceLabels`, `TimeProtocol`, `StreamingLabels`: labels as functions

Each module is a chain of operators over sequences of lines, in the order of the code:
validation, features, the binary searches (`BisectLeft`, `BisectRight`, as the code calls
`bisect` with what it searches), labels with their reasons, leakage checks, reports.

- `LabeledDataset`: phase 4.2 and the coverage of 4.2A.
- `ReferenceLabels`: labels from book tickers (4.2B, unsorted) and from reference feeds
  (4.2C, sorted by receive time).
- `TimeProtocol`: labels by receive time, by exchange time and hybrid (4.2D), the clock
  offset from accepted server time samples and the corrected labels (4.2E). Offsets and the
  lags they correct are kept doubled, so that there are no halves.
- `StreamingLabels`: 4.2H; events in a table, labels by its queries, reports by counting.

Prices, sizes and times are small integers; a ratio is a pair. Times may come in any order,
lines may be torn or defective.

### `ResearchPipeline`: programs on files

Composes the four: a capture leaves lines, clock samples and steps of the clock in any
order; then one of the programs of phases 4.2 to 4.2H reads the files and writes labels and
a report, and may be run again after the files grew. A program that gives up leaves the
labels of its last run.

### `EvidenceGates` and `EvidenceRun`: the evidence scripts

`EvidenceGates` has, for each of the seven phases, the gates in the order of the code
(`Gates`), what an evaluation keeps of an earlier one (`Kept`), which gates excuse others
(`Waived`), how the primary failure is chosen (`Judged`) and the name the self check gives
it (`Classify`). `EvidenceRun` is the script: arguments, steps, early failures and their
reports, the two-step write of report and self check, the bundle and its failure, the exit.
Any gate may fail by itself (`Roots`), any step may fail or be killed, and a second run works
in the directory the first left. A file is `<<name, run>>`: what wrote it is all that
matters about it. `Written` is the report as it goes to disk: `write_phase42h_artifacts` judges
it once more by the latency profile it has just written, in a copy that the script does not
see, so a profile read from elsewhere (`--input-latency-profile`) fails the self check and not the
run. A bundle packs the required files and, when they are there, an investigation and a dataset
zip (`OptionalFiles`), whoever wrote them; `Zipped` says when a run makes that zip.


## 3. The runs

| run | distinct states | question | properties |
|---|---|---|---|
| `capture` | 761,522 | with lost, repeated, dropped and malformed messages and snapshots of limited depth: are book, samples and verdict right? | `TypeOK` `BookFaithful` `SampleFaithful` `PassMeansNoLoss` `GenerationUnbroken` `ImplementsSampleFeed` |
| `capture_prev_ids` | 15,543 | with previous ids and fairness: is a lost book fetched again, is an update applied whole? | `LostBookIsFetched` `UpdatesAppliedWhole` |
| `writer` | 15,693 | what do files and report hold after any interleaving, error and early close? | `PassMeansWritten` `ImplementsRowLog` `ThreadEnds` |
| `subscription` | 81,823 | is the connection subscribed to the universe of the moment? | `MatchesOutsideTransition` `KeptIsInSync` `EventuallySubscribed` |
| `pm_book` | 193,824 | when may a quote be called complete? | `InvalidForGood` `CompleteAgrees` |
| `gaps` | 432,824 | what becomes of a pending gap? | `NoGapOnInvalidMarket` `PendingIsTradable` `SuccessIsTimely` `GapsAreObserved` `GapsEnd` |
| `collection` | 269,488 | what survives crashes, killed children and retries? | `RecordedIsKept` `EntriesAreKept` `SettledStays` |
| `universe` | 155,292 | with failing requests, an old or torn cache and restarts: which markets are tracked? | `CurrentIsTracked` `UniverseKept` `AdoptedIsFresh` `DiscoveryEnds` |
| `monitor` | 786 | tasks and the logger's worker fail, the monitor is stopped: what does the file hold? | `ImplementsRowLog` `CleanExitIsComplete` `StopEnds` |
| `research` | 260,758 | on all small files: are labels, references and corrected lags what they should be? | `LabelsAreEarliest` `FeaturesForgetFuture` `ReferencesAreEarliest` `StreamMatchesBatch` `CorrectedLagIsTrue` |
| `evidence` | 1,400,354 | two runs of each script with failures and kills: what do self check, exit code and bundle mean? | `PassIsEarned` `ExitIsEvidence` `BundleIsOneRun` `ClassNamesFailure` |
| `collection_overwrite` | violation | a resume keeps completed bundles | `CompletedIsNotOverwritten` |

`TypeOK` of the other modules with proofs, `FetchesBlind`, `PurgeMatchesLoop`, `DrainedOnExit`,
`FilesInOrder`, `FileIsPrefix` and `IncompleteIsKept` are theorems for every value of the
constants and are in no configuration.

### Bounds, and why they are enough

- `capture`: four updates, a queue of two, two snapshot attempts, two faults. A hole takes
  one lost update between two others; a bridge needs an update on each side of a snapshot;
  the queue overflows with a third update while a snapshot is fetched; a second loss can
  follow the recovery from the first. A snapshot and a sample have one level a side.
  `MCHistory` takes the best ask away, so that an ask no snapshot reached comes to the top, and
  moves the bid to the old ask's price, so that a book that misses one update is one-sided,
  crossed or simply another book. `capture_prev_ids` is smaller for the sake of the liveness check.
- `writer`: two files (one written, the other not, when a batch fails), batch and queue of
  two, four rows: a full queue, a full batch, a batch with another behind it, and an error
  followed by a good batch.
- `subscription`: three tokens, three updates, two failures: an update while another is
  being sent, and again during the reconnection that follows.
- `pm_book`: two prices a side with one in common (`MCPrices`), so that ladders are empty,
  valid, or crossed; a tolerance of one tick with tick sizes one and two puts reports in,
  at and beyond it. The metadata has the id of the messages or another one. The violation
  runs need a third bid (`MCWidePrices`) or the second id.
- `gaps`: seven quotes, chosen against an entry at 2: buyable, mid repriced, bid repriced,
  moved away, incomplete, unsized and before a snapshot; both ids of the market.
  Thresholds are 0 to 2 with one age above them. The effect of all larger numbers is that
  of these, because the code only compares them.
- `collection`: two sessions, two captures each, `max_session_retries` 2 with the quality
  gate on. The start script uses 1, under which nothing is ever retried (section 6); 2 makes
  retries happen. The bound `MaxAttempts` limits captures, not resumes. With three captures
  a session the run passes too (23.9 million states). The properties are also invariant for
  the other values of gate and retries, as proved. Deadlock is not checked here: at the
  bound nothing can be captured, and a torn manifest stops every start for good
  (section 6).
- `universe`: two assets with windows of two ticks and a clock that spans three of them, so
  that windows roll during a discovery and during the start; markets are listed three ticks
  ahead, one is paused, one cannot be parsed. The cache outlives one tick, so it is valid,
  too old and torn; one restart meets each of these. Lookups fail for nothing, for one group
  or for the window that runs: the cases in which what is found is whole, lacks a group, or
  lacks the current window of all.
- `monitor`: three observations: one written, one in the worker's hand, one queued; two
  tasks: one fails, the other does not.
- `research`: 4.2 has up to four samples (a feature, a label at each horizon, one behind);
  the others up to two samples and three references, so that two come in either order
  beside an earlier or later one; 4.2E a sample, a quote and three server time samples, of
  which one is rejected by its round trip, with a clock that may step by more than all
  tolerances together. There are no server time samples
  beside the files of 4.2H, so its corrected labels are all invalid in this run, in batch and in
  streaming; `StreamMatchesBatch` is a theorem for any files and samples.
- `evidence`: all arguments of all seven phases, a latency profile elsewhere included; in the
  first run up to two gates fail by themselves, which is what order and waiving need, in the
  second one. Steps of the script fail and are killed besides.

Deadlock is checked in `capture`, `capture_prev_ids`, `writer`, `subscription`, `pm_book` and
`gaps`. `collection`, `universe`, `monitor`, `research` and `evidence` come to an end by
themselves: programs exit, and the clock and the files reach their bounds.

### Fairness, and why the code justifies it

- Capture (`FairSpec`): weak fairness of the ends of the initial wait (a timeout of 5 s),
  of the request (answered, or failed: it has a timeout), of the backoff (a sleep) and of
  taking a queued update (the loop's `wait_for` returns at once when one is there). Nothing
  is assumed of the exchange or the network.
- Writer: weak fairness of the thread: its `get` has a timeout, its file operations return
  or raise.
- Subscription: weak fairness of `stream` and of the scheduled close task, both ready
  callbacks of the loop or bounded sleeps and connection attempts. None of `Receive`: the
  exchange may stay silent for ever. Universe changes and failures are bounded, so
  `EventuallySubscribed` reads: once universe and network are quiet.
- Gaps: weak fairness of time and of Binance events, whose client reconnects for ever. None
  of Polymarket: `GapsEnd` must not depend on quotes.
- Universe (`FairSpec`): weak fairness of the stages of a discovery (every request has a
  timeout), of a round of the loop that is due (the loop wakes every second) and of the clock.
- Monitor (`FairSpec`): weak fairness of the worker and of the shutdown: tasks that are ready
  run, and a file append returns or raises. None of the ingest tasks.
- Books, collection, research and evidence: none; their properties are safety.


## 4. The proofs

All are checked by TLAPS with SMT, Zenon and, for the temporal steps, LS4; nothing is
assumed but the named assumptions on the constants.

**Capture** (`Phase41CaptureProofs`). `BookFaithful` is not inductive: that an accepted
update leads from one exchange book to another needs that its ids are ones the exchange has
made (`QueueInRange`), that the id the bridge rule reads is the id of the book
(`AwaitsOwnSnapshot`), and that levels it does not write are unchanged between the two
books, which is the assumption on `History`: on `known` the book then follows the exchange,
and beyond it stays empty. That a sample is the exchange's own best when the levels of that are
known rests on the best of a book being the best of any part of it that has them
(`TopOfKnown`); that it is valid, on cutting a valid book leaving a valid one (`TopIsValid`).
The purge needs `QueueOrdered`. A book is never
thrown away by a fetch because `FetchesBlind`. Their conjunction is `CaptureInvariant`
(`CaptureCorrect`). `GenerationsAreUnbroken` adds `SampleLinked`: as long as the
generation of the last sample lasts, the book is in sequence and all updates since are in
`applied`. From both follows `CaptureRefinesSampleFeed`: every step of the capture is a step
of `SampleFeed` or leaves its variables alone. `PassIsLossless` needs `NothingLost`: as long
as no counter is raised, what was read is queued or no newer than the book, and from the first
applied update to the book's id there is no hole. Its core is `PurgeKeeps`: what the purge
drops is in the snapshot or is repeated by the bridge it keeps, because the queue is ordered
and a missing bridge is counted. `UpdatesAreAppliedWhole` needs that queued updates state the
id before their first (`QueueStatesPrevious`).

**Writer** (`BatchWriterProofs`). `NothingMissing` says where each row is: while nothing
was dropped and no batch failed, every row is in the queue, the batch, its file's buffer or
its file, and only a thread in mid-batch has a batch or a buffer. With a dead thread and an
empty queue, what a clean report states, only the file is left (`PassIsWritten`).
`ExitsDrained` uses that nothing is enqueued once `stop` is set. `FilesAreInOrder` is about
all rows on their way at once: files, buffers, batch and queue hold ever later rows, each
stage in order and every row at its own file (`RowsOrdered`, `RowsRouted`), and a failing
batch drops a suffix of a buffer and then the whole batch. `WriterRefinesRowLog`: a submitted
row, dropped or not, is a `Submit`; a batch that is flushed or fails is a `Save`, because what it
adds is behind what is there; everything else leaves rows and files alone.

**Subscription** (`MonitorProofs`). Invariant: what is being sent, and then
what the connection is subscribed to, is the runtime universe, or the connection is closed or
about to be (`KeptSubscribed`); outside a transition what is recorded is the runtime universe
(`RecordedMatches`).

**Token book** (`MonitorProofs`). `CompleteQuotesAgree` goes through the
two calls of `_apply_one_reported_best`: each leaves the ladder alone and can set but never
reset `incomplete`, so the second cannot hide the first; the same gives `IncompletenessIsKept`.
`InvalidStaysIncomplete` is for any ids: every message recomputes the flag from the id the book
goes by, and a universe changes that id only from or to the one of the messages, with the
book's flags as they were.

**Detector** (`GapDetectorProofs`). Types, `NoGapOnInvalidMarket`, `PendingIsTradable` and
`SuccessIsTimely` are inductive together: a gap opens on a buyable quote of a valid market,
every quote of its token is judged again, and every invalidation by the market's own id
closes all.
`NoGapIsLost` is proved step by step.

**Collection** (`AutoCollectionProofs`). The invariant joins `RecordedIsKept` for the
manifest with the same for the run's entries (`SessionsAreKept`); a session under capture has
an unsettled entry whose copy is in `failed_audit` (`CapturesUnsettled`), so overwriting its
directory loses nothing; this run's entries follow the manifest's (`SessionsFollow`). For
`ManifestKeepsEntries`, all entries but the last of a manifest are settled when the gate is on
or nothing is retried (`ManifestSettled`, `SessionsSettled`), so a run that stops early stops
no earlier than the one before (`EndsAfterManifest`).

**Universe** (`MarketUniverseProofs`). `UniverseInvariant` joins what the clock and the bounds
allow (`Times`), that a starting monitor tracks nothing (`StartsEmpty`), that what the cache
holds was looked up at most `FetchTime` before it was written (`CacheHonest`), that a cache
found valid is younger than its time to live (`ValidIsYoung`), and that what a whole discovery
has found (`FoundDue`) and what the universe keeps (`TrackedDue`) contain every tradable window
that has come due. The step that matters is the selection: among the markets of a group that are
still to come at least as many are nearer as the code counts, so a window within the lookahead
is selected (`FewBefore`, `OpenIsSelected`). `CurrentMarketsTracked`, `UniverseIsKept` and
`AdoptedFresh` follow, for any windows, lookahead, intervals, failures and restarts.

**Monitor** (`MonitorProofs`). File, the worker's row and the queue without its end mark,
in this order, are the observations `1..written` as long as the worker has not failed, and a
prefix of them afterwards; the mark is last and only the shutdown queues it
(`MonitorCorrect`). `FileKeepsOrder` and `ExitIsComplete` follow, and `LoggerRefinesRowLog`: the
row in the worker's hand is number `Len(file) + 1`, so no observation is passed over.

**Research programs** (`ResearchProofs`). For files of any length with any lines in any
order, in these steps:

- *What the operators compute.* A binary search returns the edge of a set of positions that is
  closed downwards (`Bisection`), so on a sorted list it finds the first position at or
  after its target. A filtered list holds what was asked for, in file order (`PickedFrom`,
  `PickedAll`). A list put in order by rank holds what was put in and is ordered by the key,
  then by position (`SortedByRank`); its median is one of its members (`MedianIsThere`).
- *Labels of 4.2.* Labels are written only for a file whose lines are all good and whose times
  strictly increase (`WrittenStays`, `ValidFile`); for such a file the search is right, the
  four conditions on a missing label coincide (`LabelOf`), and what is known at sample i is a
  function of the first i lines (`GeneratedForgets`). `LabelsInvariant` ties the labels
  on disk to the samples of the last report, since a later run that gives up leaves them.
- *References of 4.2B to 4.2D.* The list that is searched is the source's events in the
  order of the key (`SortedByReceipt`, `SortedByExchange`, `SourcesAreSeen`), so the place
  found is an earliest event at or after the target. 4.2B does not sort: its gate on
  non-monotonic timestamps means that a passing run had its quotes in receive order
  (`ReceivedInOrder`).
- *Corrected lags of 4.2E.* The offset of an accepted server time sample is wrong by at most
  half its round trip, which the threshold bounds (`AcceptedAreQuick`); the correction is the
  median of these offsets, and the drift that is allowed bounds how far any other of them is
  (`OffsetIsClose`); so a clock between two that were seen is off by no more.
- *Streaming equals batch, 4.2H.* `StreamMatchesBatch` for every file, in three parts.
  *Counters*: a fold that visits a file line by line ends with what the whole file gives, if
  the claim holds of no line and goes from each prefix to the next (`SameFold`); what it
  claims is that after n lines the counters are those of the first n lines as the programs in
  memory compute them (`StatsOf`, `FeedRead`, `SamplesRead`), so a lemma for each measure says
  what one more line does to it (`GapsMore`, `OverrunMore`, `LatestMore`, `RefusedMore`,
  `VerdictsMore` and others), and the reports agree (`TotalsAreMetrics`). *Labels*: with no
  event backwards, the number of earlier rows of the table is the place the search finds
  (`CountIsBisect`, `FirstIsBisect`), and a query ordered by exchange time, then receive time
  and event, meets the dated events as the stable sort puts them (`RankIsStable`,
  `DatedInOrder`, `ExchangeQueries`); so each label is the same (`StreamRowsSame`). *What the
  streaming program leaves out*: its report counts valid labels among the eligible and states
  leakage without counting it, which is right because a valid label is eligible and none looks
  behind its target (`SoundLabel`). `StreamInvariant` ties labels and report of the last run
  to the files it has read.

A property over data is proved here by taking the least counterexample (`LeastOf`, from the
well-foundedness of `<`) wherever one would use induction on the length of a file. The folds of
`StreamingLabels` are recursive functions for this reason, each with its step as an operator of
its own; that there is such a function for a list of any length is proved by the same argument,
by showing one that goes one element further (`OverrunGoesOn`).

**Evidence** (`EvidenceProofs`). For any of the seven phases, any number of runs in one
directory and any gates failing together. The three properties about passing and bundles are
inductive only with `EvidenceInvariant`: which step a script can be at with which arguments,
and why it gave up (`OnItsWay`); that the report it holds does not pass with a gate unmet
(`Held`, `Sound`) and the self check is about that report as `Written` (`Checked`); which files
on disk this run has written by then (`OwnFiles`), and whether an investigation or a dataset zip
that would be packed is its own (`OwnOptional`); that no bundle is older than this run
(`OwnBundles`). The core is what an evaluation keeps of an earlier one: whatever waives a gate
has failed itself (`WaiversAreExcused`), so a report evaluated again, after a note or a failed
bundle, is still `Sound` (`EvaluateSound`). `EvidenceNamesFailure` needs of the history only the
types: `ClassifyByName` names something the report has, or nothing the phase lists is in it
(`NamesWhatItHas`), whatever gates failed.

**Assumptions.** They say what the code's types and constants say: counts and limits are
naturals, the sets that are counted are finite, sentinels differ from values (`NoValue` is no
number, `Torn` no row, `Depthmid` no feed), there is a feed, lines are rows or torn. The one
assumption with content is that of the capture: `History` reports every change of the
exchange's book.

**Only model-checked.** Every invariant and every action property of the passing runs is
stated by a theorem. Left to TLC are:

- Liveness (`LostBookIsFetched`, `ThreadEnds`, `EventuallySubscribed`, `GapsEnd`,
  `DiscoveryEnds`, `StopEnds`), which is beyond TLAPS here.
- `CompletedIsNotOverwritten`, which is violated, and the violations of section 5.


## 5. Where code and documents disagree

The fourth is the run `collection_overwrite`. The others have configurations of their own;
TLC finds the violation named in each.

1. `reported_best_validation_ok` (`polymarket_orderbook.py:890`): an ask within the
   tolerance sets the flag to True again after a bid beyond it had set it to False, against
   `docs/phase3_orderbook_diagnostics.md:20`. The quote is still incomplete, which
   `CompleteAgrees` shows. `tlc -config MCPolymarketOrderbookOk.cfg MCPolymarketOrderbook`:
   `ReportedBestValidationOk` is violated.
2. `best_bid_ask` and unknown sizes (`polymarket_orderbook.py:274`): completeness is judged
   afresh while an override of an earlier mismatch stays, so a complete quote can have a
   price of no known size, against `docs/polymarket_notes.md:48`.
   `tlc -config MCPolymarketOrderbookSize.cfg MCPolymarketOrderbook`:
   `SizeUnknownIsIncomplete` is violated.
3. Late quotes (`gap_detector.py:840`): the mid is marked from a quote before the gap's
   lifetime is looked at, so a late update changes how the timeout is reported, against
   `docs/phase3_gap_measurement.md:112,115`. It never turns a timeout into a success
   (`SuccessIsTimely`). `tlc -config MCGapDetectorLate.cfg MCGapDetector`:
   `LateQuoteDoesNotReclassify` is violated.
4. Resume after a crash (`phase52_auto_collection.py:363`): the manifest is written after
   the last session only. A runner that crashes earlier captures every completed session
   again, over its bundle. Run `collection_overwrite`; what *was* recorded is kept
   (`RecordedIsKept`).
5. Killed children (`phase52_auto_collection.py:1014`): a child killed between its passing
   report and its bundle is recorded as research-eligible, because the exit code is no gate
   and the branch of `classify_child_process_failure` for this case is not reached.
   `tlc -config MCAutoCollectionKilled.cfg MCAutoCollection`: `KilledChildIsNotEligible` is
   violated.
6. Resolved markets with Gamma metadata (`polymarket_ws.py:539`,
   `polymarket_discovery.py:1513`): a lifecycle message names its market by the condition id,
   while books, state and detector know it by the payload's `id`; the look-ups find nothing.
   Against `docs/phase3_gap_measurement.md:100` ("resolved markets invalidate related local
   books and close pending gap measurements") and `docs/phase4_runtime_correctness.md:65`, the
   book goes on giving complete quotes and gaps stay pending, or are opened, until the universe
   drops the market. The repository's tests use one id for both.
   `tlc -config MCPolymarketOrderbookGamma.cfg MCPolymarketOrderbook`:
   `ResolvedMarketIsIncomplete` is violated; `tlc -config MCGapDetectorGamma.cfg
   MCGapDetector`: `ResolvedMarketHasNoGap` is violated.


## 6. Remarks from modelling

- `max_session_retries = 1`, the start script's value, means that a failed session is never
  captured again: the first capture is recorded with a `retry_count` of 1.
- Without the quality gate and with two retries or more, a run that ends early writes a
  manifest shorter than the one it resumed; `EntriesAreKept` states the condition.
- A manifest torn by a crash makes every later start raise until an operator moves the files.
- A child that dies before its bundle leaves the runner's copy of an earlier capture in
  place; `failed_audit` has it too.
- Books are warm after `book_warmup_max_ms` counted from the *older* of the tokens' latest
  quotes, so the time starts again with each quote (`BookReady`).
- The branch `market_invalidated` of the window checks never decides, by
  `NoGapOnInvalidMarket`, which is about the same id as the branch.
- A level behind the 1000 of a snapshot that nothing updates is unknown to the local book. Once
  the price has moved that far, samples lack it, and the local book can be one-sided while the
  exchange's is not; no counter tells, and no document promises otherwise.
  `tlc -config MCPhase41CaptureDepth.cfg MCPhase41Capture`: `SampleIsExchangeTop` is violated
  without any fault.
- `docs/phase3_gap_measurement.md:100` and `docs/phase4_runtime_correctness.md:63` contradict
  each other about `tick_size_change`; the code follows the latter.
- The version check at the top of the receive loop is redundant beside the scheduled close,
  which alone makes `EventuallySubscribed` true on a silent connection.

Universe and monitor:

- A slug lookup that fails on the network counts as "no such market"
  (`polymarket_discovery.py:637`). A refresh in which some lookups fail is adopted if anything
  is tradable, and then drops the running market of an asset whose lookups failed;
  `CurrentIsTracked` therefore speaks of whole discoveries, `UniverseKept` of all.
- The failure reasons `cache_rejected_for_runtime` and
  `no_runtime_markets_after_full_discovery` cannot be given once a discovery was answered:
  the reasons before them always apply.
- Gaps pending at shutdown are never observed, and a failed ingest task goes unnoticed until
  then; `CleanExitIsComplete` shows that it does show in the exit.

Labels and clocks:

- 4.2B searches its quotes in file order; a wrong label needs quotes out of order, which its
  gate on non-monotonic timestamps refuses (`ReferencesAreEarliest`).
- A defective clean line makes the batch programs drop the whole file and the streaming one
  skip the line; a file of torn lines only is `INPUT_SCHEMA_FAILURE` for one and `INPUT_EMPTY`
  for the other. `StreamMatchesBatch` is about valid files for this reason.
- When events are not in receive order, batch and streaming break ties of exchange time
  differently. The streaming report leaves `reference_event_count` of the depth source at 0
  and states label leakage 0 without counting in its exchange report.
- 4.2E counts its samples before and after the capture over all samples, not over accepted
  ones, so a step of the clock can go unseen; hence the proviso of `CorrectedLagIsTrue`. A
  sample "after the capture" may be up to 300 s late.

Evidence scripts:

- 4.2A and 4.2B begin every evaluation without reasons, so what the script itself noted (the
  phase 4.1 report is missing, the bundle failed) is erased by the next write: the self check
  says passed and the exit code is 1. 4.2A also leaves the incomplete bundle.
- 4.2D without `--allow-fixture-mode` may write a passing self check from old files and exit 1.
- Names: 4.2A reports failing tests as a label rate; 4.2B calls a feed of invalid quotes empty,
  and its class for invalid quotes is never given; 4.2C and 4.2D announce one class and put
  another into the self check when a fresh run fails early; some gates of 4.2D to 4.2H have
  classes that the list of known ones lacks, and end as UNKNOWN.
- The self check inside a bundle of 4.2A to 4.2D says that there is no bundle. An early failure
  of 4.2E after `--clean` lacks files that the audit bundle requires, so the script raises.
- An investigation of an earlier failure is packed into the bundle of a later run that does not
  clean, also into a passing one, and 4.2H with `--evaluate-existing-artifacts` packs the dataset
  zip it finds: two of the exceptions of `BundleIsOneRun`.
- 4.2H with `--input-latency-profile` elsewhere than where the capture writes it: the self check and
  the report on disk say failed (`hotpath_environment_latency.py:1914`), while the script packs
  a bundle named as passing, with that self check in it, and returns 0. No document says that
  exit 0 means a passed self check; `ExitIsEvidence` and `BundleIsOneRun` state the exception.
- A kill between a failed bundle and the rewrite leaves a passing self check: `PassIsEarned`
  speaks of runs that ended. `--preflight-only` removes existing bundles and exits 0.
- 4.2F+G and 4.2H have no gate on clean samples; only the note of their validation fails them.


## 7. What is not modelled

- *Inside modelled components*: latency traces and profiles, percentiles, report texts, samples
  of mismatches, derived rates. In the detector: statistics, the cool-down of pre-entry rows,
  effective tick sizes, data-quality tiers and the returns that make a move (a move is an
  input). In the collection: the status file, audit bundles, dry runs, the clean-up script, and
  a child that outlives a crashed runner. In the capture: rows that are updated in place after
  they were queued. In discovery: search by tag, the debug file, parsing of payloads. In the
  research programs: distributions, ranking scores, label balances. In the scripts:
  `--rebuild-derived-artifacts`, the dataset archive that 4.2D would pack and nothing makes, and
  a kill between labels and dataset zip, which are one step. In the detector: quotes of tokens
  that left the universe, whose book keeps its last metadata; they are not fresh any more if the
  market comes back. Messages' decoding throughout, and with it a batch of which a later message
  cannot be normalised after earlier ones changed the books (`polymarket_ws.py:254`).
- *Audits of collected datasets, signal research, dataset quality reports*: batch
  computations over finished files, mostly floating-point statistics. They have no process
  and keep no state between calls.
- *The self checks of phases 4.1 and 4.2, the controlled capture, shell scripts*: linear
  sequences of commands around components that are modelled.
- *Normaliser, settings, clocks*: parsing and environment variables.
- *Execution, risk, pricing*: placeholders that nothing in the monitor calls.


## 8. Plan

The order was importance: captured data first, then what is measured from it, how collection
survives, the universe and the tasks around it, then what is made of the data and what the
evidence claims. Left, in this order:

1. Composition of `MarketUniverse` with `PolymarketSubscription` and `GapDetector`, whose
   universe is an input so far: they should agree on it after every refresh.
2. The ingest path of a message batch that fails half-way, between the books and the detector.
3. `AutoCollection`: status file, clean-up script, an orphan child beside a new runner.
