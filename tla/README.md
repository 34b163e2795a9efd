# okibi in TLA+

okibi warms tile caches. From a digest of what was asked for and an
invalidation that says what died it derives a plan, an ordered list of URLs,
and gets each of them fetched within the limits of the services that generate
the tiles. This directory holds a TLA+ model of the parts of okibi in which
something can go wrong over several steps, the configurations TLC checks them
with, and proofs of the most important results for every value of the
parameters.

Line numbers are those of the commit beside this directory. `PROJECT.json`
lists every run, every theorem, the source lines each definition stands for,
the hazards and, per property, a small change to a modelled definition that
breaks it. Those changes are in the modules as operators commented "Slip".

## 1. The system

| component | state | operations | meets |
|---|---|---|---|
| executor, intake: `workers/executor/src/index.ts` (fetch), `plan.ts` (messagesFor, sample) | none between requests; within one, how far it is | read the plan, HEAD a sample of its URLs, refuse or `sendBatch` in chunks of 100 | caller over HTTP, origins, the queue |
| executor, consumer: `index.ts` (queue), `plan.ts` (warmBatch, pool, warmOne), `wrangler.jsonc` | none between batches; the queue keeps the messages, their deliveries and the dead letters | fetch a batch with one pool per service, ack or retry each message | the queue, origins |
| watch: `actions/watch/action.yml`, `okibi-core/src/epochs.rs` | `okibi/epochs.json` in R2, stored plans | compare, plan, hand over, store, record | service, R2, executor, planner |
| planner: `okibi-core/src/planner.rs`, `invalidation.rs`, `plan.rs` | none, a pure function | check the epochs, collect cells, expand, promote, sort, cut | digest in, plan out |
| estimate and pricing: `estimate.rs`, `pricing.rs` | none | cost of warming, of not warming, marginal curve | the planner |
| manifest: `manifest.rs` | none | fill a URL template | planner, estimate, warm |
| command line, warm: `okibi-cli/src/warm.rs`, `run_warm` | semaphore, tasks | fetch a plan, service after service, paced, with retries | origins |
| digest: `aggregate.rs`, `query.rs`, `digest.rs`, `wae.rs` | none | query events, assemble one record per cell | ledger in, digest out |
| quadkeys: `okibi-qk` | packed integers | truncate, prefix, order, tile conversion | planner, digest |
| time and windows: `time.rs`, `window.rs` | none | calendar arithmetic | planner, digest |
| command line, verify: `okibi-cli/src/verify.rs` | none | ask the origin about a sample of a plan | plan action, origins |
| plan and warm actions: `actions/plan`, `actions/warm` | files of a job | plan, verify, hand over or warm | command line, executor |
| review, report, inputs, config: `okibi-cli` | none | read files, text for people | command line |
| writer: `packages/okibi/writer` | none | one event in, one data point out | services, ledger |
| wasm, digest action, contracts, examples | none | convert arguments, linear scripts, documents | |

What makes it hard:

* **Two handlers and a queue.** The intake is still sending chunks of a plan
  while consumers drain its first ones. The queue delivers at least once, in no
  order, to two invocations at a time; an invocation can die between a fetch
  and its ack. Inside one, the runners of a pool share a cursor across awaits,
  and the outcomes of several pools are matched with the batch by position.
* **A job that must not forget.** Every run of watch has a disk of its own; the
  record in R2 is all it knows. It can fail at each step, before or after the
  step took effect, and the service's epochs move while it works.
* **A pure function with many orders.** The planner combines windows in the
  order records arrive, and promotion, the sort and the cut have to agree; the
  sort on an order of packed integers that has to be the one of their digits.
  The numbers beside the plan are computed in loops of their own.
* **A loop that hands permits to tasks** (okibi warm), with pacing and retries.
* **Evidence from a sample.** A plan is refused for what a few URLs answer; which
  ones, and what counts as an answer, decides what can slip through.

What makes each of them correct is stated as properties in its module; section
4 says which run checks them.

## 2. The modules

| module | models | state and actions |
|---|---|---|
| `Consumer` | the queue handler, with the queue and the origins as environment | `status`, `attempts`: the queue's view of a message; `batch`, `fetch`: one entry per live invocation, and per message of its batch what became of its GET. `Deliver` is the start of `queue()` and of every pool, `Return` is the end of one GET and `next++`, `Settle` is `outcomes.forEach`, `Kill` is an invocation dying. |
| `Intake` | the fetch handler | `job`: per POST the stage, the loop index and the sample's counts; `sent`: what `sendBatch` stored. `Reject`, `Accept`, `Ask` (one turn of `sample`), `Judge` (422 or on), `Send`, `Respond`. |
| `Executor` | both, composed | a `Send` of Intake is an `Enqueue` of Consumer; all else interleaves. |
| `WarmQueue` | what the executor promises of an entry, with no queue, batch or pool | `fate`, `tries`, `warm`. |
| `Watch` | the watch script | `recorded` is the object in R2; `stage`, `now`, `todo` are the run under way; `handed` and `kept` remember what became of plans since the last record. One action per step of the script, and `Break` for a step that fails before or after it took effect. |
| `Quadkey` | `Quadkey`, and the tiles of the Mercator schemes | constant operators on a level and a word of `2 * MaxLevel` bits, with the shift of a release build |
| `Estimate` | `estimate.rs`, `pricing.rs`, and the types of `manifest.rs` | constant operators; the predicates `IsManifest`, `IsCost`, ... are the documents |
| `Planner` | `plan()`, with both of the above | the input is chosen in `Init`; `Check` is the manifest and check_epochs; `Collect` reads one record, in any order; `Expand` is expand, promote_ancestors and sort; `Cut` is cut_off and the making of the plan. An error is a value of `stage`. |
| `CliWarm` | `run_warm`'s limits, `warm`, `warm_service`, `fetch` | `task` is where each entry is; `slept` and `since` count ticks. `Acquire`, `Wake` (after the sleep), `Get`, `Join`, `Tick`. |
| `WarmJob` | a workflow's job: the plan action's verify, then the warm action, around CliWarm | `job` is what the world is like, `checked` the answers so far. `Ask` is one turn of `verify`, `Judge` report_verified, `Choose` the action's choice, `Warm` a step of CliWarm. |
| `Digest` | `run_digest`, the two queries, `assemble`; the writer and the ledger as environment | `ledger` counts the points that show; `cells`, `tiles`, `truncated` are the answers so far, `seen` the ledger of the first. `Land` is a point that shows, at any time; `AskCells`, `AskTiles` (one service), `Assemble`, `Fail`. |
| `Calendar` | `time.rs`, `Window::bounds`, and the backend's reading of a date | operators used by Digest |
| `ConsumerProofs`, `IntakeProofs`, `ExecutorProofs`, `WatchProofs`, `PlannerProofs`, `WarmJobProofs`, `DigestProofs` | theorems | section 5 |
| `Numbers` | arithmetic and sums the proofs cite | section 5 |
| `MC...` | the instances | |

Abstractions worth knowing when reading them:

* A message, an entry and a service are values; URLs are not built. A fetch has
  an outcome, `ok` or not; `Gone` are entries no origin serves.
* `OKIBI_LIMITS` holds whole numbers or `NaN`: the floor of `concurrencyFor` is
  taken already, and the `NaN` it makes of something that is no number is kept.
* The log lines, the summaries and the `lane` of a message are left out of the
  executor: nothing reads them.
* A tileset's epochs are one version. The code compares them axis by axis, to
  name the axis in the event; the scope of the event is the whole tileset
  whichever axis moved.
* Watch never sees a tileset leave the epochs file; `Absent` is one that has not
  been added yet.
* The planner's and the estimate's amounts are whole numbers in units that make
  them so: requests in the weight of the oldest window at a half-life of one day,
  times in seconds, prices whole. What the code divides is kept as the pair of
  what is divided and what divides it. Rounding of floats is thereby left out.
* A URL template is the set of axes it has a placeholder for, a URL the document
  it names and the placeholders that were filled with nothing.
* A quadkey in a digest is a text, a sequence of digits, as in the code; it
  becomes a packed one in `CandidatesOf`, where the code parses it. With the
  instance's `MaxLevel` of 3 a cell is two digits.
* A Mercator tile's centre projected back is its own place: the latitude and its
  projection undo each other only on exact numbers. The geographic schemes are
  nothing but such a projection and left out.
* WarmJob's verify is always asked for, and of one plan; the action's input is
  optional. `silent`, which remembers an origin that did not say of a URL that it
  does not exist, is a history variable.
* `PlannerAssumption`: one record per kind, cell and window. The digest does not
  quite guarantee it (the run `digest_keys`); without it the winner among records
  of one window is the last one read.
* Digest has one tileset per service and reads each point as itself
  (`_sample_interval` is one); what the backend's own sampling does to totals is
  not in the repository. Rows that tie at a limit are left to the backend.
  `seen` is a history variable: the code keeps no copy of the ledger.

## 3. Fairness

* Consumer, Executor: the runtime runs a handler to its end and bounds its
  GETs, so `Settle` and `Return` are weakly fair; the queue delivers what it
  holds while an invocation is free, so is `Deliver`. `Kill` and `Enqueue` are
  not fair: nothing depends on them, and kills are bounded.
* Intake: a request that was let in is run to its answer. Nobody has to post.
* Watch: the schedule (`examples/service-workflow.yml`) keeps starting runs, and
  a runner executes its script to the end. The job is in a concurrency group that
  does not cancel, so there is one run at a time. Failing steps, unreadable
  records and moves are not fair and bounded.
* WarmJob: a step of a job runs to its end; tokio polls a task that can go on, its
  clock advances, and every request has a timeout. `Tick` is fair by itself: it
  is what the sleep waits for.
* Planner: a function; Digest: a command that may fail at each query, for ever.
  Only safety is stated of both.

## 4. What TLC checks

### Runs that pass

| run | instance | why that is enough |
|---|---|---|
| `consumer` | three messages of two services, one of them `Gone`; two invocations; batches of up to three; one retry; one kill; papers one at a time, others two | the smallest batch whose services interleave has three messages; with two invocations a message can be redelivered to the other one; a limit below, and one above, the number of a service's messages |
| `intake` | plans of five, four and two entries; chunks of two; a sample of three | five entries make a stride of two, a last chunk that is not full, and a loop that ends by index; four gone entries make one that ends by count |
| `executor` | a plan of two entries sent one at a time, and a plan of one that is gone; one invocation, one kill | a plan is drained while it is being sent, and a refused plan shares the queue with an accepted one |
| `watch` | three tilesets, two versions, the last tileset unplannable; three moves, one failing step, one unreadable record | two tilesets before the unplannable one, a move during a run, a move back, and a failure at every step, before and after its effect |
| `planner` | every subset of eight records in every order, with eight combinations of invalidation, manifest and options; 44806 states | two windows of one cell, a measured zero, a window that cannot be read, a record that names more than it counts, a three-level chain of ancestors over two cells, documents with a template, with a null one and with none; a region inside a cell and one around it; prices measured and stated; each of the four errors; each limit cuts somewhere, and one plan is cut by two. Quadkeys of up to three digits fill the word: every shift amount occurs, that of the whole word included |
| `digest` | ten requests for eight documents of two services, all read or one; up to four of which land, at any time; a limit of two rows, lists of one; one failing query. And every day of 2000, 2024, 2026 and 2100 | three tiles of one service make the limit cut, two of one cell make the list cut; points land between the queries; warm and organic, hit and miss, the next day's, and an unknown kind; a century with a leap day and one without |
| `cliwarm` | seven entries of three services: four of one warmed two at a time, paced, two of one with limits of zero, one of a service without a manifest; one retry; samples of three; five ways in which URLs may not exist; plans of a job's length and a second longer; with and without an executor; 43038 states | permits run out while tasks fly and while the loop sleeps; a retry overtakes a spawn; the stride of four entries is two, and rounding it down loses the tail; a wrong tile that the sample skips is warmed, a wrong stretch is not |

What they show:

* **consumer**: a message is dead-lettered after one retry and never before, a
  dying invocation included (`DeadAfterRetries`); a pool never has more GETs
  out than its limit (`WithinLimit`) and never fewer than it could
  (`PoolsBusy`); a batch whose services sit together is settled on each
  message's own outcome (`GroupedSettlesOnOwn`); every message ends
  (`EveryMessageSettles`). That no two live batches hold one message is not among
  them: it is how the queue is modelled, not something the Worker does.
* **intake**: a plan is queued whole or, unless a send failed, not at all
  (`AllOrNothing`); what a failed send leaves is a head of the plan in whole
  chunks (`SentFromTheTop`); a plan none of whose URLs exist is kept out once one
  HEAD was answered (`WrongPlanKeptOut`), which costs at most SAMPLE of them
  (`SampleBounded`); every accepted request is answered (`EveryJobAnswered`).
* **executor**: the composition implements `WarmQueue`, its liveness included
  (`ImplementsPromise`); no entry of a refused plan is ever fetched
  (`RefusedNeverFetched`); a plan answered with `queued` drains
  (`QueuedPlanDrains`).
* **watch**: a run that read the record writes no epoch whose plan was not handed
  over and stored (`LoopRecordsOnceHanded`); only tilesets that moved are handed
  over (`OnlyMovedIsHanded`); a move is handed over in the end, whatever fails,
  if no tileset before it in the glob cannot be planned (`MoveIsHanded`).
  The exception is real: one such tileset ends every run where it is, keeps the
  record from being written, and has the ones before it handed over by every run.
* **planner**: every tile that died is a candidate or is counted, and nothing else
  is (`DeadIsCandidateOrCounted`); demand and measurements do not depend on the
  order of the records (`ArrivalOrderIrrelevant`); metadata and ancestors come
  first, survive any cut that their descendants survive, and keep that order for
  an executor that goes by priority (`RescuersFirst`); the cut is the tightest one
  (`CutIsTight`) and shows in full in the coverage and, with all else that was left
  out, among those who wait, but for what the records themselves name too much
  (`LeftOutShows`); a coverage target read off the
  curve gives the plan the curve says (`CurveReadsBack`); no URL has a placeholder
  filled with nothing (in `TypeOK`); packed quadkeys order, parse, nest and tile
  as their digits do, and the plan's order is that of the texts
  (`QuadkeysReadAlike`).
  `LeftOutShows` asks nothing of the digests. A record of which requests landed
  between the digest's two queries names more of its tiles than it counts of its
  cell (`OverAsked`, `OverNamed`), and by this much, and no more, a cut can go
  unseen; record 3 of the instance is such a one. It
  speaks of those who wait only where a cell has one record: the
  tiles observed are the largest of its windows' counts, the tiles of the plan
  are those of all of them, so with several windows the count can be too small.
  `QuadkeysReadAlike` leaves out one cut, below.
* **digest**: what was asked for before the first query is named in its cell's
  record, or the record's list is full, or its service is reported as truncated,
  or its kind as unknown, whatever lands later; services it is not configured for
  are not in it, and no row is dropped for want of a place, which is a promise of
  the writer (`NamedOrExcused`); the names a
  record has are its hottest, although the limit is spent before anyone looks at
  cells (`HottestNamed`); the two queries agree on what demand is
  (`TilesAddUp`); and a window is one whole day (`DayIsWhole`).
  The ledger is followed for one date (the CONSTRAINT `Followed`); of every
  other date only its window is checked.
* **cliwarm**: a plan that is wrong at the head of a service, or in a stretch as
  long as the sample's stride, is not warmed unless an origin kept silent
  (`WrongPlanNotWarmed`), and one whose URLs exist is never refused, whatever the
  origins fail to answer (`RightPlanNotRefused`); concurrency is kept through
  retries (`WithinConcurrency`), the entries of a service go out in order
  (`InOrder`), spawns are a gap apart (`SpawnsAreSpaced`), and the job ends
  (`JobEnds`).

Deadlock is checked for `watch`, whose job is always started again. Elsewhere the
system rightly stops: an empty queue, an answered request, a finished plan.

### Runs that find a disagreement

| run | says | what the code does |
|---|---|---|
| `outcomes` | a message is acked exactly when its tile warmed (`plan.test.ts:174`, "returns outcomes in the order it was given") | `warmBatch` returns outcomes service by service, `queue` reads them by position. A batch papers, terrain, papers acks a failed tile and retries a warm one. |
| `limits` | "A malformed limit is not a reason to stop warming" (`index.ts:172`) | a limit that is JSON but no number gives a pool of no runners, fewer outcomes than messages, and messages that are acked unfetched. |
| `watch_unread` | what moved is recorded only once handed over (`action.yml:155`) | a read of the record that fails for any reason is taken for a first run, and the record is overwritten with nothing planned. |
| `watch_quiet` | "zero when nothing moved" (`action.yml:62`) | the glob over no event stays literal, and the run fails on a file that is not there. |
| `digest_keys` | "One record per `(service, tileset, kind, qk8, window)`" (`spec/demand-digest.md:15`) | records are kept apart by the row's quadkey, which is then replaced by `-` for kinds without coordinates: documents written with and without one make two records of one key. |

Met while modelling and not a run of its own:

* `spec/planner.md:50` says that the ancestors of a selected tile "are added";
  `promote_ancestors` raises those that are candidates already, and adds none.
* A quadkey of 32 digits cut to level 0 is shifted by 64: an overflow in a debug
  build, and in a release build no shift at all, although `quadkey.rs:79-80` says
  that "cutting to zero gives `Quadkey::ROOT`". No scheme in use is that deep.
* "The count of tiles left out is the count of people who wait"
  (`estimate.rs:102-106`) holds for cells with one window, as said above.
* An `occurred_at` that cannot be read is an error only where a deadline has to be
  reckoned from it; elsewhere it makes every window as fresh as can be.
* The loop of `warm_service` sleeps with a permit in its hand, so a paced plan can
  take longer than the larger of the two terms of `wall_clock_s`, up to near their
  sum.
* The warm action holds each plan of a job against the six hours by itself, and
  rounds first: a plan of 21600.4 s is longer than a job for `length_of` and not
  for the action (`action.yml:102-103`).
* The plan action looks for "goes to the queue" in the report
  (`actions/plan/action.yml:142`), which `report.rs` never writes: its output
  `mode` is always `run`.
* `okibi warm --manifests` reads a file (`main.rs:421-425`), `okibi plan
  --manifests` a file or a directory; the warm action hands both the same input.
* To verify, a 429 or a 408 is the plan's fault like any other 4xx
  (`verify.rs:41-43`), although both are what an origin with a bad minute says.
* "Two services in one plan are two origins, and neither should be held back by
  the other's patience" (`warm.rs:104-106`). `warm` awaits one service before it
  comes to the next (`warm.rs:115`), so the second starts when the last task of the
  first is over, retries included. The model does the same (`Join`), and no
  property states it.
* A retry of `fetch` is sent at once (`warm.rs:198`): what is spaced by
  `rate_per_s` are the first attempts, and an origin that fails gets its requests
  faster than the rate. `SpawnsAreSpaced` is of spawns.
* `OKIBI_LIMITS` is kept by each invocation (`WithinLimit`); two of them,
  `max_concurrency`, can have twice as many of a service in flight. `rate_per_s`
  is not read by the Worker.
* One tileset that cannot be planned ends each run of watch before the tilesets
  after it (`action.yml:119`), and the record is never written: those before it are
  handed over by every run. `MoveIsHanded` is of the tilesets before it.
* "Only cells with no measurement fall back to the manifest"
  (`spec/planner.md:143-144`): the freshest window of a cell has its measurement
  replace the one before also where it has none (`planner.rs:345-348`), and the
  cell falls back although an older window measured it.
* "Whatever is cut shows up as coverage below one rather than as silence"
  (`planner.rs:537`): with a record that names more than it counts, coverage is
  capped at one and a plan can be cut and still say one. In the planner's instance
  it happens in the case asked for 60 per cent; `LeftOutShows` says how far it goes.
* A null quantile of a cell without a miss is read as a measured zero
  (`aggregate.rs:89-104`), and not as no measurement; `measured_or` makes the same
  of both.

## 5. What is proved

TLAPS checks these for every value of the constants that the modules' named
assumptions allow: any number of messages, services, invocations, batch sizes,
retries, tilesets and failures.

**Consumer** (`ConsumerProofs`, from `ConsumerAssumption`).

* `TypeCorrect`. The lemma `LeasesAgree`, that what the model's queue says of a
  message and what its invocations hold fit, is needed by the last two; it is a
  fact about the model and claims nothing of the Worker.
* `DeadOnlyAfterRetries` is inductive together with `TypeOK`, as it stands.
* `PoolsKeepLimits`: `Started` puts at most `Runners(s)` GETs of a service in
  flight (the positions it picks are told apart by their rank in the pool's
  queue, a number up to `Runners(s)`), and a returning GET is replaced by at most
  one, of the same service.
* `PoolsStayBusy`: as long as an item of a service waits, what flies of it is the
  first `Runners(s)` items (lemma by counting), and a GET that returns starts the
  next; a pool is one below its limit only when nothing is left to start.
* `GroupedSettlesRight`: with a batch grouped by service and a runner for each,
  the position `results.flat()` gives an outcome is the one it has in the batch
  (`GroupedKeepsOrder`): the positions at or before it are exactly 1..i. This is
  precisely what fails for an interleaved batch.
* `RefinesWarmQueue`: with one service and a limit that is a number, each step is
  one of WarmQueue or changes nothing there. It needs two more invariants,
  `OkIsWarm` (an ok outcome is of a warm tile) and `LeasedIsTried`.

**Watch** (`WatchProofs`, from `WatchAssumption`). `LoopRecordsOnceHanded` does
not follow from the state a step starts in: when the last event is gone, nothing
on the runner says what became of its plan. The inductive invariant `IInv` adds
`LoopInv`: in the loop, every tileset that moved either is still in `todo` or has
its plan stored, and in between the plan of the first of `todo` is handed over.
`Keep` removes a tileset from `todo` and stores its plan in one step, and `Record`
fires with `todo` empty. From `IInv` follow `WatchTypeCorrect`,
`OnlyMovedHanded` and `RecordsOnceHanded`.

**Intake** (`IntakeProofs`, from `IntakeAssumption`). The inductive invariant
`IInv` counts chunks: a job that is sending has `at` at a chunk's first entry and
has put exactly the entries before it on the queue, one that failed has put whole
chunks of its head there. `PlansAllOrNothing` and `PlansSentFromTheTop` follow.
`WrongPlansKeptOut` needs that of a plan that is gone every answer counted is one
that says so, `answered = wrong`; `SamplesBounded` that the loop's index is one
stride per turn, and that of `Size` entries no more than `SampleSize` are a
rounded-up quotient apart (`CeilingCovers` in `Numbers`).

**Executor** (`ExecutorProofs`). `ExecutorRunsIntake` and `ExecutorRunsConsumer`
are refinements: each step of the composition is one of Intake or none, and one
of Consumer or none. What is proved of the two therefore holds of the composition,
whatever the interleaving, and is cited as such: `RefusedPlansNeverFetched` is
`AllOrNothing` of the one, `OnlyQueuedIsTried` of the other, and the fact that
what is on the queue was sent. `ExecutorKeepsPromise` is the next one up: where the
entries are of one service and its limit is a number, the whole Worker behaves as
WarmQueue says (its safety part), by `RefinesWarmQueue` of the consumer. The lemmas
`PostedIsAlone`, `QueueIsDraining` and `PromisesAreSame` say that an instance is the
same module whichever name it goes by, which the provers are not told otherwise.

**okibi warm and its job** (`WarmJobProofs`, from `CliWarmAssumption` and
`JobAssumption`). `WarmWithinConcurrency` is the conservation of permits: those
held by the loop and by tasks are the concurrency at the most. `WarmInOrder` and
`WarmSpawnsAreSpaced` need that the loop's turn bounds what was spawned.
`JobRunsWarm` shows the job to behave as CliWarm, and the three results
of verify follow the sample: the first entry of a service is in it, and any
stretch as long as the stride holds an entry of it (`ModOfMultiple`, for
`JobStopsWrongPlans`), and an entry that exists is never answered as missing (for
`JobKeepsRightPlans`).

**Quadkeys** (`PlannerProofs`). `OrderReadsAlike` and `PrefixReadsAlike` are the
promise in `quadkey.rs:160-165`, for texts of any length up to `MaxLevel`: packed
words compare, and nest, as their texts do. A word of n digits is a number below
`4 ^ n` (`NextPower`), cut by a division (`WordCut`), and two words are equal as
far as their digits are, and ordered by the first that differs (`WordsOfTwo`).
These are inductions over a text's digits, done by the least counterexample
(`LeastNatural`). `PrefixReadsAlike` and `AncestorsReadBack` except a shift by the
whole word (`Shifts`); the order holds there as well, because of the comparison of
the levels. `QuadkeysAreOrdered` has it a strict total order, so that the sort of a
plan has one result; `DigitsReadBack` that no text is lost in packing.
Of tiles, a coordinate is a number with a bit for each digit (`NumberOfBits`,
`NumberCut`, `BitsReadBack`), so that a quadkey's tile is one of its level's grid and
has this quadkey (`TilesReadBack`). `TilesNest` is that the middle of a tile, scaled
to a level above, lies where the tile's coordinates are when shifted down to it
(`MiddleOfTile`, `TileTextCut`). `PlansReadAlike` puts all of it together, with the
order of a plan: at equal scores two tiles of different places stand as their texts
do. Two tiles of one place and different ids are not excluded by anything; they stand
by their ids, and the property leaves them out. (It did not say so before the proof:
no instance had a pair of them.)

**Planner** (`PlannerProofs`, from `PlannerAssumption`). `Collected` says what
`cells` is at any point of the reading, in whatever order the records came: the
cells of the records read and wanted, each with the tiles that died of them.
`PlannerInv` adds what an order of candidates is: a set in which each tile is once,
sorted, nothing of the dead missing that is not counted, and what
`promote_ancestors` left of the scores (`GoodOrder`).

* `NoDeadTileIsLost`: `touches_cell` passes over no cell with a tile that died
  (`PlacesOfTheDead`; a region is a cell's or a tile's prefix in either direction,
  and a record's tiles are in its cell), and `expand` makes as many candidates as
  there are tiles in the cells it keeps, and counts the others.
* `RescuersAreFirst`: where zoom means resolution every ancestor among the
  candidates has at least the score of its descendants, and at equal scores its
  quadkey is before theirs; the sort is by rank in a strict total order
  (`BeforeIsOrder`, `SortedByRank`). Its hypothesis `NoFullShift` is that no placed
  tile at the root stands beside one at `MaxLevel`, 32 in the code, where
  `quadkey.rs:87` shifts by the whole word and the one is not found to be an
  ancestor of the other. The instance TLC checks satisfies it.
* `CutsAreTight`: the loop of `cut_off` stops at the first entry that goes over a
  lever or reaches the coverage, so every lever is kept and the entry after the
  last would have broken one.
* `CurvesReadBack`: asked for nothing but a coverage, the loop of `cut_off` stops at
  the first entry whose running sum reaches it, which is the entry the curve looks for
  (`CutByCoverage`); cost and time are then those of the same entries.
* `ArrivalOrderDoesNotMatter`: `Gathered` says what a cell holds in terms of the set
  of records read and of nothing else, as sums over that set and the freshest of it.
  Its hypothesis `DaysTellApart` is that in a cell no record of day 0 (1 January 1970)
  stands beside one whose window cannot be read: `planner.rs:339` counts the second as
  of day 0 as well, and the one read last would win.
* `WhatIsLeftOutShows` compares sums over sets of different shape: the demand of the
  cells with that of the candidates (`SumByPlaces`, `SumWidened`, `SumRenamed`), and
  the tiles observed with those that died. It has no hypothesis on the digests.
  What records name too much is carried through the collection: the tiles of a cell
  are asked for no more than the cell and the excess of its records
  (`GatheredDemand`, `MergedDemand`), whose sum over the cells is that over the
  records taken (`SumOverRecords`). Of digests with nothing too much, which is what
  the action writes when nothing lands between its queries (`TilesAddUpToCells`),
  the excess is nothing, and the coverage falls short by all that was cut.
* `PlannerTypeCorrect`, with no placeholder of a URL left empty: `check_epochs`
  asks for every axis of every template a candidate's URL is filled in from.

Three definitions were rewritten for the proofs, to the same result: the sort is
by the number of candidates before one (`Rank`), the word of a text and the
coordinates of a tile are recursive functions (`Pushed`, `Number`). The assumptions name what the documents guarantee
and the proofs need: a record's tiles are named by texts of digits inside its cell,
which for a document is none; a tile has one cell in all the records that name it
(`qk8` is its quadkey cut to eight digits); records and tiles are finitely many.

**Digest** (`DigestProofs`, from `DigestAssumption`). The answers a digest is made
of are of different ledgers, and requests keep landing in between. The inductive
invariant `DigestInv` says of which: the cells are those of `seen`, the ledger of
the first query, and the rows of each service asked since are those that some
ledger between `seen` and the one there is now gives (`AnsweredBy`). Ledgers only
grow, so such an answer has every request the first query saw (`LaterAsks`,
`RequestsGrow`).

* `NothingIsLeftOutSilently`: a document read by the first query is in the rows of
  its service unless the limit cut them, and a row that is in is in its cell's
  record unless the list is full.
* `TheHottestAreNamed`: the rows that a limit keeps are those that precede all
  others (`LimitedFacts`), `HottestFirst` is a strict order, and of a finite set
  `TopOf` has the first `TopN` or all (`TopFacts`).
* `TilesAddUpToCells`: the requests of a cell are those of its documents, a sum
  taken by parts (`SumByPlaces`).
* `WindowsAreWholeDays` is of every date from 1970 on, without a bound. The days
  before a date are counted in closed form by years that start in March
  (`NumbersAgree`), leap years by the three quotients of `days_from_civil`
  (`LeapsSince`); the quotients and remainders of `civil_from_days` find the year
  and the month again (`YearOfDay`, `MonthOfDay`, `DatesReadBack`), and the day
  after a date is the next number (`NextDay`).
* `DigestTypeCorrect`.

**Numbers** holds the arithmetic: quotients, remainders, powers of two, and that a
set of naturals has a least element, with which everything here that is an
induction is proved; and what sums over finite sets do (`SumTakes` to
`SumByPlaces`), by an induction over subsets (`SmallerFirst`).

**Only model-checked.** Liveness everywhere (it rests on fairness, and ENABLED is
out of the prover's reach), so also the liveness half of `WarmQueue`'s promise,
`EveryJobAnswered`, `MoveIsHanded` and `JobEnds`. Every safety property that a passing
run checks is a theorem; of `ImplementsPromise` the safety part is.

## 6. What is not modelled

* Geographic tile schemes, points, and the rounding of floats: TLC has no reals.
* Timestamps with offsets and the parsing of dates; the run of Digest is given
  dates of the calendar, that of the planner days and seconds. `yesterday` reads
  a clock.
* Of the digest: bytes and quantiles, which no step decides by, and how the
  backend spells its numbers.
* `depends_on` and `lanes` of a manifest, which no code reads; the hashes in
  `derived_from`, which `plan` passes through.
* One delivery handed to two live invocations, which an at-least-once queue may do:
  a message comes back only after a retry or after its invocation died. What the
  consumer's properties say of a batch they say of messages no other batch has.
* Several plans in one job: the warm action runs them one after another, each as
  in WarmJob.
* The rest of the writer, the wasm bindings and the digest action keep no state
  between two calls; review, report and inputs format text and read files.
* GET /health and the comparison of tokens keep no state: `Reject` stands for
  each of the answers that come before a plan is read.
* Digest and Planner are not composed: a digest is read days after it was
  written, with those of other days, and the planner is checked on every subset of
  the records it is given, of which any digest's are one.

## 7. The plan from here

1. Done: executor (WarmQueue, Consumer, Intake, Executor), Watch, Planner with
   Quadkey and Estimate, WarmJob with CliWarm, Digest with Calendar.
2. Proofs done: every safety property of the passing runs, and the refinements of
   Consumer, Executor and WarmJob.
3. Next: the hypothesis `DaysTellApart` of `ArrivalOrderDoesNotMatter`, from what is
   proved of the windows the action writes (`Calendar`); the excess of a record, from
   what `Digest` says lands between two queries; and a queue that may hand one
   delivery to two invocations.
