# Kronus in TLA+

A verification project for KRONUS: specifications of its components, translated
from the Python and Rego sources, model-checked with TLC on small instances, and
theorems about them proved with TLAPS for every value of the constants.

Paths such as `pipeline/kronus_system.py:255` are relative to the repository.
`PROJECT.json` lists components, runs, hazards, theorems and, under `map`, the
source lines each definition stands for.

- [1. The system](#1-the-system)
- [2. Modules](#2-modules)
- [3. Runs, bounds and what they show](#3-runs-bounds-and-what-they-show)
- [4. Fairness](#4-fairness)
- [5. Proofs](#5-proofs)
- [6. Divergences found](#6-divergences-found)
- [7. What is not modelled, and why](#7-what-is-not-modelled-and-why)
- [8. Plan](#8-plan)

## 1. The system

Telemetry events reach `KronusSystem.ingest_event`. Two lanes look at each: the
*fast lane* (Bouncer) at once, with features over a sliding window per source;
the *deep lane* (Graph Builder, Detective) when a tumbling window closes. A
finished decoy session is a verdict of its own. Every verdict goes through
`_handle_verdict`: it is logged, decided on by the Response Engine (OPA policy,
circuit breaker, correlator, allowlist), the decision and its enforcement are
logged, and an explanation job is queued, which a worker collects and
`drain_explanation_jobs` turns into logged explanations. A human may call
`record_correction`, which lifts a block.

Beside the running system there are batch programs: download scripts fetch public
data sets, the loaders of the digital twin read them, and the experiment scripts
replay them through both lanes, train models, score them and write reports.

| Component | State | Operations | Talks to | What makes it correct |
|---|---|---|---|---|
| Policy (`policy/response.rego`, `libs/verdict.py`) | none | `decision`, `derive_label` | asked by the engine through `opa` | one answer for every well-formed input; the switches win over confidence; more confidence never weakens an answer but where a switch says so; both copies of the thresholds agree |
| OPA client (`opa_client.py`) | none | `evaluate` | subprocess | a decision, None or an error, never a guess |
| Response Engine (`engine.py`, `circuit_breaker.py`, `correlator.py`) | deque of action times, resolved windows, active blocks, allowlist | `decide`, `reverse_block`, `is_blocked`, `allowlist_add` | policy, orchestrator, API | at most N blocks a minute; one action per window; blocks end, hold till they end, and begin only by a decision |
| Logbook (`services/logbook`) | table of chained rows | `append`, `read_all`, `verify_chain` | everything that acts | tampering is located; appends extend one chain |
| Event Stream (`libs/event_bus.py`) | a queue per consumer group, or Redpanda: a producer, consumers, offsets at the broker | `publish`, `subscribe`, `close` | exporter, job queue | every group gets every message in order: once in memory; on Redpanda without a gap once it has committed |
| Graph Builder (`builder.py`) | buffer, window start | `ingest`, `flush`, `build_snapshot` | orchestrator, Detective, experiments | each event in one window, windows of their length, graphs that account for their flows |
| Bouncer features (`features.py`) | timestamps per source | `features_for`, `reset` | Bouncer model, experiments | the features are about the recent events of the source, all of them and no others |
| Orchestrator (`kronus_system.py`) | last decision per address, received jobs, worker task | `ingest_event`, `flush_graph_window`, `handle_decoy_session`, `record_correction`, `drain_explanation_jobs`, `start`, `stop` | all of the above | the audit trail is complete and in order, each window is enforced on once, each job that comes once ends in one explanation, both lanes see each event |
| Explanation job queue (`job_queue.py`) | one topic | `enqueue`, `consume` | bus | as the bus |
| HTTP API (`api/`) | the system, a counter per live feed | `/events`, `/corrections`, `/live`, ... | orchestrator, Logbook | requests overlap safely; the feed sends each entry once and in order |
| Decoy and MTD (`services/decoy`) | SSH sessions, a pair of listeners | sessions, `activate`, `deactivate` | orchestrator | one event per session; no half-activated pair |
| Drift Watcher and registry (`services/drift_watcher`) | counters, versions, `current.json` | `run_cycle`, `register`, `promote` | Logbook, models | only a better model is promoted; `current` can always be read |
| Download scripts (`scripts/download_*.py`) | a directory per data set | runs of each mode | network, disk | success means the data set is whole; a re-run repairs and spoils nothing |
| Digital Twin loaders (`twin/`) | none between calls; within one, positions, budgets, rows and times | the `load_*` of eight data sets, `attack_intervals`, label quality, `extract_flows` | downloads, experiments | the rows loaded are the sample asked for whatever the chunks, their times stay theirs, flows are cut at the timeouts and nowhere else |
| Experiment scripts (`scripts/run_*_experiment.py`) | weights and a report per data set | `main` of nine scripts, lane substitution | loaders, both lanes, models | what a model is scored on went into nothing it was fitted on; benign examples have no attack in them; a report is about the weights beside it |
| LLM Explainer (`services/llm_explainer`) | none | `explain` | drain | the explanation is about the verdict of the job |
| Telemetry Exporter, models, training, demo, observability | | conversion, inference, measurement | | mostly data, not control |

What is hard here:

- **Interleaving.** Everything is a coroutine of one event loop. With SQLite and
  the in-memory bus an `await` never suspends, so coroutines run to their end;
  with Postgres and Redpanda they are suspended at every append and publish. Code
  that is right on one set of back ends need not be on the other.
- **Time that is handed around.** The API reads `now` when a request starts and
  `decide` uses it after the request's awaits; events carry their own timestamps
  and arrive out of order. No component reads a clock itself.
- **Failure.** Any append, publish or `opa` may raise in the middle of
  `_handle_verdict`; a restart keeps nothing but the audit log (and what a broker
  has), a power failure not even all of that; a consumer begins again where it, or another, committed.
- **Processes that share a directory.** Retraining cycles are started by cron or by
  hand and share the model directory and the registry; a download is run again over
  what a killed one left; an experiment over the weights of an earlier one.
- **Two of everything.** Two lanes, two copies of the thresholds, two stores, two
  buses; rows and times as two lists; a split made once for each of its sides.
- **Leakage.** A feature vector is about the history of a host and a graph about a
  window, so a split of rows is not yet a split of what the examples were made of.

`hazards` in `PROJECT.json` lists each place with its line and the properties
that would catch it.

## 2. Modules

| Module | Models | Source |
|---|---|---|
| `Policy` | the rules of the bundle, each as the set of decisions it makes; `derive_label` | `policy/response.rego`, `libs/verdict.py` |
| `PolicyClient` | one evaluation through `opa` | `opa_client.py` |
| `ResponseEngine` (EXTENDS `Policy`) | breaker, correlator, blocks, allowlist under a stale `now` | `services/response_engine` |
| `Logbook` | the chained table on both stores, tampering, `verify_chain` | `services/logbook` |
| `LiveFeed` (EXTENDS `Logbook`) | the clients of `/live`; a power failure | `api/main.py`, `sqlite_store.py` |
| `EventTopic` | what both buses have in common | interface of `libs/event_bus.py` |
| `EventStream` | abstract: a topic and subscriptions to it | the same |
| `EventBus` | the in-memory bus; implements `EventStream` | `InMemoryEventBus` |
| `Redpanda` | the Redpanda bus and what it relies on; its sessions implement `EventStream` | `RedpandaEventBus` |
| `EventBackends` (EXTENDS both) | the choice between them | `api/serve.py` |
| `EventTime` | the clock of events that arrive late | |
| `GraphBuilder` | tumbling windows and the graph of a window | `builder.py` |
| `FlowFeaturizer` | sliding windows of the fast lane | `features.py` |
| `FlowExtraction` | packets of a capture, assembled to flows | `twin/ciciot2023.py` |
| `Lanes` (EXTENDS the three) | one stream of events, posted or replayed from a capture, through both lanes | `ingest_event`, replays of the experiments |
| `KronusSystem` (EXTENDS `Policy`) | the composition: every entry point, suspended where it awaits | `kronus_system.py`, `api/serve.py` |
| `ModelRegistry` | retraining cycles: a training saves its files, `register`, `should_promote`, `promote` | `model_registry.py`, `retrainer.py`, `bouncer/train.py`, `bouncer/model.py` |
| `DatasetFetch` | runs of the eight download scripts over what earlier ones left | `scripts/download_*.py` |
| `Orders` | `sorted()`: a set in order, a stable sort by a key | used by the loaders and the scripts |
| `TwinLoaders` | a load of any of the eight data sets | `twin/*.py` |
| `ExperimentData` | rows, splits, replays and what goes into an example | helpers of the scripts |
| `ExperimentLanes` | what every script trains and scores each lane on | `train_bouncer`, `train_detective` of each |
| `Experiment` | the scripts as programs over what earlier runs left; lane substitution | `main` of each |
| `MC*` | values for constants that a cfg cannot write, symmetry | |
| `*Proofs` | theorems about the module they extend | |

How state and actions correspond to the code:

- **Policy.** A rule is an operator from an input to a set of decisions, empty when
  its body fails; `Decisions` is their union. OPA's two error cases are that this
  set is empty (undefined) or has two elements (conflict); `Answers` is what the
  engine can be told. Confidences are in hundredths.
- **ResponseEngine.** `actionTimes`, `resolved`, `blocks`, `allowlist` are the
  fields of the three classes. `decide` never suspends, so a call is a step:
  `DecideBlock`, `DecideOther` and `DecideRaises` by how it ends. All three evict
  from the deque first, as `is_tripped` does. `clock` is real time, and a `decide`
  carries any `now` of the last `MaxSkew` instants (`api/main.py:113,128`).
  `enforced` and `listedAt` are history. `NoAction` and `NoBlock` stand for an
  absent key.
- **Logbook.** `AppendAtomically` is `append` on SQLite. On Postgres it is `ReadTip`
  then `Persist`, each a hop to a worker thread, and `Abandon` when the insert fails
  before it has written anything. (An insert that raises *after* its commit is not
  modelled: its row would be one more `Persist`.) SHA-256 is injective: a hash is
  the tuple it is computed from. `Tamper` is an edit behind the store's back.
- **LiveFeed.** A client polls (`read_all`), sends entry by entry, each send an await,
  and then counts what it had read. `PowerFailure` leaves any prefix of the table:
  WAL with `synchronous=NORMAL` is consistent but not durable.
- **EventBus.** `queue` is indexed by queue *objects*, since `close` forgets the
  objects while readers still hold them. `Subscribe` is the generator up to its
  first `get`. `from`, `upto`, `published`, `delivered` are the history in which
  `EventStream` is stated; the refinement mapping is the identity on it.
- **Redpanda.** `producer`, `joined` are the adapter's; `topic`, `committed`, `holder`
  are the broker's, and are as the settings in the code make them (`latest`,
  auto-commit). Broker and client library are external: modelled from how the code
  calls them. Each time a reader gets the partition a *session* begins, and
  `RedpandaStream` maps a session to a subscription of `EventStream`: what is lost
  or comes twice is lost or repeated between sessions, never within one.
  `SessionsJoin` says how one session may begin after another.
- **GraphBuilder.** `Ingest` and `Flush` with their early returns. An event carries
  its place in the stream, so that windows can be compared with what arrived.
  `Nodes` and `Edges` are what `build_snapshot` counts; byte counts, durations and
  entropies are sums over the same flows and left out.
- **FlowFeaturizer.** `FeaturesFor` appends and evicts as `features_for` does. The
  features themselves are arithmetic over the window it leaves. `reset` is there
  though nothing calls it.
- **FlowExtraction.** `openFlows` keeps the order of the code's dict, `finished` what it
  is sorted from. `InOrder` is the stable sort, as the `Place` at which each flow ends up.
  A frame is a packet, one that is counted as a drop, or one that the
  file breaks off in. All conversations are of one protocol; bytes are left out.
- **Lanes.** `IngestEvent` is the order of the two lanes in `ingest_event`. `Post` gives
  events as clients do, up to `MaxLate` late; `Replay` the flows of a capture as the
  experiments do, in the order the extraction put them in; `FlowOf` is the event that a
  flow of the capture becomes.
- **KronusSystem.** A coroutine is a slot of `Requests` with a place (`pc`) and its
  locals (`ctx`). A step is what runs between two awaits. `Turn` says who may run:
  anyone on networked back ends (`interleaved`), on local ones only the coroutine
  that holds the loop, unless that is asleep in a drain. `verdicts` and `decisions`
  number what is made; log entries and jobs refer to them by number. Models are a
  choice of a label and a confidence. `PolicyInput` gets its allowlist and breaker
  bits by choice, over-approximating `ResponseEngine`; the open window may close at
  any event, over-approximating `GraphBuilder`; blocks do not expire; the log is a
  sequence, its chain is `Logbook`'s business. The job queue is one topic with one
  group. In memory (`EventBus`) it is a list in the process, and the worker takes what
  is there. On Redpanda (`broker`) it outlives the process: the worker gets a job at a
  time (`JobYielded`), offsets are committed now and then (`AutoCommit`) or at `stop`, and
  whenever a worker is given the partition, after a restart or a `start`, it begins with
  what was read and not committed (`Seek`), or at the end of the topic if nothing ever was; `LoseAck`
  is a publish that was stored without the producer knowing, which is sent again or
  raises. `Restart` keeps `log` (and the numbering), and the topic and offset of a
  broker. `env` is
  chosen at the start from `Environments` and never changes: who calls what, on which
  back ends, what may fail, and whether the job worker lives. Under `api/serve.py` it
  does not: `serve` starts it in a loop that ends before the server's begins. Four
  variables are history: `lost` has the verdicts whose coroutine raised or was killed
  (or whose event was in a window that died with the process), `dropped` the jobs that
  died with a drain that raised, or with the process, or that a worker was never given,
  `again` the verdicts whose job the broker stored or gave more than once, `born` the
  number of decisions that older processes made.
- **ModelRegistry.** A cycle is a process: a slot of `Retrainers` with a place and its
  locals. A training is its place in `scores`, and the content of a file is the
  training it comes from; two file names stand for `bouncer.json`, `calibration.json`
  and `metrics.json`. `Save` and `Copy` write one file, `PromoteOpen` and
  `PromoteWrite` are the two halves of `write_text` on `current.json`, and `Crash` ends
  a cycle between any two of these. `installs`, `overlapped` and `contested` are
  history: which versions became current, and which cycles did not run alone.
- **DatasetFetch.** The scripts are the same loop with different tests around it. A
  script is a record of its tests: when there is nothing to do, which files are
  skipped, which downloads are kept, what each mode checks. A file is its content:
  absent, empty, cut short, an error page or whole. `Kill` may come between any two
  writes. `.part` files are never read and left out.
- **TwinLoaders.** The loaders, too, are one loop with different tests, and a loader is a
  record of these: which labels it keeps and where a row's class comes from, which
  of the others it counts (`counts`; most loaders count none), which
  files it reads and whether it tests their columns, how a sample is bounded and where a limit is tested, how it sorts.
  A row is its label, with the time and the feature vector that the `layout` gives it.
  `Open`, `ReadChunk`, `ReadFile`, `EndOfFile`, `Return` are the loop; a header row in
  the middle of a file, a file of other columns and an unnamed file are among the
  inputs. A limit ends the reading of most loaders; CIC IoT 2023 reads everything and
  then keeps rows that lie evenly in time (`cut |-> "spread"`). What a load should be is
  said in `InSample`, `Due`, `Earlier` and `Sooner` of whole files, without chunks or budgets.
- **Experiment data.** A corpus is the sequence of rows a loader returned, a stream a
  sequence of positions of it. An example (a feature vector of the Bouncer, a window
  of the Detective) is kept as its label and *the set of rows that went into it*: its
  history or its window. Its numbers are functions of those rows, and leakage is
  a matter of sets. A seed is a permutation. What the scripts do with lists is said of
  positions: `InOrder` and `SortBy` (of `Orders`, which the loaders use as well) count ranks, `Kept` filters a list,
  and `Opener` says which event opened the window that an event falls into.
- **Experiment.** A run trains a lane, saves its weights, then the next, loads back what
  its `verify_weights` looks for, and writes the report. `Crash` may come anywhere;
  between runs the limit may be another and the data set downloaded again.
  `Substitute` scores the weights on the disk, as the lane substitution does.

Operators commented `Mutant` are wrong variants of the definition that follows
them. No specification uses them; they show that each property can fail.

## 3. Runs, bounds and what they show

| Run | Module / cfg | States | Shows |
|---|---|---|---|
| `policy` | `MCPolicyClient` / `PolicyClient.cfg` | 16 k | every input, legal or not, on both sides of every threshold: one answer, the right one |
| `engine` | `MCResponseEngine` / `ResponseEngine.cfg` | 57 k | rate cap, one block per window, TTL at both ends, allowlist, reversal |
| `logbook` | `MCLogbook` / `Logbook.cfg` | 508 k | SQLite locates the first altered row, also after a power failure; appends never move the first break, however they race on Postgres; a live feed sends each entry once and in order |
| `bus` | `MCEventBus` / `EventBus.cfg` | 507 k | both back ends implement `EventStream`; in memory a steady reader is served; on Redpanda sessions join without a gap once something was committed |
| `lanes` | `MCLanes` / `Lanes.cfg` | 0.72 M | each event in one window; span, order and histories up to the lateness; graphs account for flows; every conversation of a capture cut into flows exactly at the timeouts, and the flows replayed in order |
| `system` | `MCKronusSystem` / `KronusSystem.cfg` | 1.14 M | all entry points, in five environments: what no failure hit is in the trail, the trail reads forwards, one enforcement per window, both lanes fed, nothing explained twice but what Redpanda gave twice, and on local back ends every job explained or on its way |
| `registry` | `MCModelRegistry` / `ModelRegistry.cfg` | 1.02 M | overlapping cycles that die anywhere: what `current.json` names is whole; cycles that ran alone promote their own files, and only better ones |
| `datasets` | `DatasetFetch` / `DatasetFetch.cfg` | 32 k | exit 0 of a mode that checks means a whole data set; an honest re-run repairs; a download does not spoil a good file |
| `loaders` | `MCTwinLoaders` / `TwinLoaders.cfg` | 1.47 M | a load is the sample asked for, times stay with rows, attack intervals and ceilings are those of the data |
| `experiments` | `MCExperiment` / `Experiment.cfg` | 389 k | scored on nothing the model was fitted on, benign means benign, a report is about the weights beside it |
| `logbook_fork` | `LogbookFork.cfg` | violation | two overlapping appends on Postgres fork the chain |
| `system_drain_race` | `KronusDrainRace.cfg` | violation | a drain throws away a job that arrived after it had read the log |

The type invariants of the modules with a theorem are proved as part of their inductive
invariants (§5) and not listed in a cfg.  A module of proofs may extend two modules: the
two logs share theirs (`LogProofs`), and `ExperimentProofs` extends `LoaderProofs` for the
lemmas about orders.

Four properties are conjunctions of parts that the proofs treat one by one:
`BlockLastsTTL` (`BlockBounded`, `BlockHeld`), `WindowTimes` (`WindowSpan`,
`WindowsInOrder`), `WindowExact` (`WindowIsTail`, `WindowFresh`, `WindowComplete`) and
`CaptureExact` (`FlowsCut`, `ReplayInOrder`). `JobsAccounted` is `ExplainedOnce`
everywhere, on Redpanda of the verdicts whose job came once, and `JobsConserved` on local
back ends. `LoadIsSample` compares what a loader counts with the rows of its sample
that it passes over and counts at all (`Told`); a loader that counts none has none.

Bounds, and why they are enough:

- `policy`: confidences -0.01, 0, 0.49, 0.50, 0.84, 0.85, 1.00, 1.01 are both sides
  of each comparison in the bundle; the rules compare with nothing else.
- `engine`: `MaxActions = 2` with three windows, so the cap can be hit and
  exceeded; `Minute = 2`, `BlockTTL = 3`, `MaxSkew = 1`, `MaxClock = 4`, so an
  action leaves the minute, a block expires, is renewed and is overwritten by an
  older `now` within the run; two addresses, so one's block may not stand for
  the other's. One verdict that blocks and one in the gray zone: all the engine
  distinguishes. Addresses and windows are symmetric.
- `logbook`: three rows are a first, a last and one in between; two edits, so one may
  hide behind another; two appenders race on Postgres; two lives, so appends go on
  after a power failure; one client (clients share nothing) with two polls, the second
  of which starts from the count the first left. Symmetric in the appenders.
- `bus`: two groups, one with two competing readers; three queue objects, so a
  group registers again after a close, and three sessions, so one begins after one
  that resumed; two messages, so order shows. On Redpanda a record may be repeated by
  a lost acknowledgement.
- `lanes`: posted events: four, timestamps 0..3, windows of 2, lateness 1: a window
  elapses, a flush cuts one early, and a late event follows either. The flows are both
  directions, and a host talking to itself without a port. Captures: four frames
  out of order by 1, idle timeout 1 and active timeout 2, so either cuts a flow alone.
  Three conversations, one in both directions, so that a packet of another one lies
  between two of the first; three flows may be open, so with all conversations open a
  flow that timed out cannot be followed by another: the extraction raises.
- `system`: two coroutines (more only repeat pairwise overlaps: they share no
  state that needs three to reach). `Local`: all entry points, a verdict that acts and
  one that does not, three verdicts, so a decoy session and two lanes meet. `Served`:
  what the API calls, without a worker, with exceptions. `Fragile`: a local process that
  drains, raises and is restarted. `Networked`: Postgres and the in-memory bus, two events, two
  verdicts, everything may fail, be rejected or restart between any two steps; the same
  event may come twice at once. `Broker`: Redpanda, with everything that may fail, and a worker that stops and starts;
  one verdict, since jobs do not influence each other in the topic; `maxLog` 5 is the three
  entries of its handling and two explanations; one acknowledgement is lost per job, and
  the worker is started again while at most `maxVerdicts` jobs are in its list. `maxLog` has
  room for all their entries. Symmetric in the coroutines, and in the events, which have
  the same addresses.
- `registry`: two cycles at a time (every race is between two) and three trainings,
  so two overlap and a third compares with what they left; two scores, so there are
  ties; two files, so a copy can be half done and mixed. Symmetric in the cycles.
- `datasets`: three files are one fetched, one at hand and one to come; three runs
  are one that breaks something, one that meets it and one that repairs it. Every
  script and every one of its modes is an initial state or a choice.
- `loaders`: a file of four rows in chunks of two, so that a stride and a budget end in
  the middle of a chunk and at its end, and one of a row, so that a limit is reached
  between files; samples of 1 and 3 and strides of 1 and 3 divide neither; limits 0 and
  2. Every sequence of labels is an initial state; clocks interleave, once with a
  tie, and vectors repeat within a file and across.
- `experiments`: corpora of up to nine rows, or up to four days of seven, in which
  classes are apart, mixed, and on both sides of each other, with gaps below, at and above window
  and guard; three permutations for each seed, under which every row of three is once on the
  test side; limits 0 (none), 2, 5; two runs, so the second meets what the first left. `WindowSeconds = 2`,
  `GuardSeconds = 3`: `BenignIsBenign` relies on `WindowAssumption`, that a window is no
  wider than the guard around an attack.
- `CHECK_DEADLOCK FALSE`: all the systems may stop when the bounds are used up, or
  when nobody calls them.

`AuditComplete` and `BothLanesFed` are checked under failures too,
for the verdicts no failure hit: an exception between `decide` and the append of its
decision leaves a block that is in no entry, and one in the fast lane skips the deep
lane, but neither may cost another request anything. `EnforcedOnce` is about one life of
the process, as a restart forgets the correlator. `JobsConserved` and
`CorrectionNamesLatest` are claimed on local back ends only: on networked ones the
first is violated (`system_drain_race`), and a correction may be logged before the
decision it names.

## 4. Fairness

Only the buses state liveness. `BackendSpec` (as `LiveSpec` of `EventBus`) assumes weak
fairness of `Subscribe(r)` and `Get(r)` for the readers of `Steady`, in memory: a
coroutine that awaits a queue is resumed by the event loop once an item is there,
and the `Steady` readers are those that come back for the next. Of other readers, of
publishers and of `close` nothing is assumed, so `SteadyGroupServed` holds though the
other group never reads. Of a broker nothing is assumed. All other specifications are
safety only: the code promises no progress there (a window closes when somebody sends
another event, a job is explained when somebody drains, a live feed sends when its
client is there).

## 5. Proofs

All proofs are checked to the last leaf. The assumptions are those on the constants,
named in the module that declares them (`PolicyAssumption`, `InSyncAssumption`,
`ClientAssumption`, `EngineAssumption`, `LogbookAssumption`, `FeedAssumption`,
`TopicAssumption`, `BusAssumption`, `RedpandaAssumption`, `BuilderAssumption`,
`FeaturizerAssumption`, `ExtractionAssumption`, `LanesAssumption`, `SystemAssumption`,
`RegistryAssumption`, `FetchAssumption`, `LoaderAssumption`, `ExperimentAssumption`), which TLC evaluates in the runs; none bounds
a set of values, and the bounds named `Max...` may be any natural number. `InSyncAssumption` is
what the bundle says of itself, that its thresholds are kept in sync with those in
Python by hand; three of the policy's theorems use it.

- **`ResponseProofs`**, the policy — the four properties of an evaluation, over
  `ClientSpec`. `PolicyTotal`: a well-formed input gets exactly one decision, by cases along
  the else-chain of the bundle. `BlockAnswer`: what a block implies about its input; the
  engine's proofs use it. `DerivationInvisible`: with thresholds in sync, deriving a
  label does not change the decision. `ConfidenceMonotone` is by the bands that
  `DecisionBands` cuts the confidences in: the rules compare with the thresholds only,
  and every rule that a higher band reaches is at least as strong.
- **`ResponseProofs`**, the engine — `RateCap`, `WindowActedOnce`, `BlockLastsTTL`,
  `AllowlistTakesEffect`, `BlockedOnlyByDecision`, none inductive alone. `IInv` ties
  the state to the history of block decisions: the deque holds the `now`s of the
  latest of them and what it lost is over a minute old (`DequeInv`); an entry of the
  block table belongs to one decision and expires one TTL after its `now`
  (`TableInv`), and every decision has an entry that lasts at least as long less the
  skew (`EntryInv`); nothing was decided about an address after it was listed
  (`ListedInv`). The rate cap then follows because a block needs a deque shorter
  than the cap, so the block that is `MaxActions` back has left it.
- **`KronusSystemProofs`** — all six properties of the composition, for any number
  of coroutines, events and addresses, in every environment.
  - `AuditOrder` and `AuditComplete` need to know what each coroutine has written.
    `Trail` says, for every place in the code, which entries of the verdict in hand are
    in the log and which are not yet; `HandsApart`, that no two coroutines have the same
    verdict, so nobody else writes them; `DecisionsApart`, that a verdict is decided on
    once; `EntriesName`, that entries refer to what there is. `AllSettled` is
    `AuditComplete` put so that a step keeps it: a verdict that nobody has in hand and
    no failure hit has its last entry.
  - `EnforcedOnce` is `WindowsHeld`: the window of a decision that acted is in
    `resolved`, of this process's decisions only (`born`).
  - `BothLanesFed` is inductive with `AuditInv`: an event leaves the hands of its coroutine
    for the buffer, and the buffer as a whole for the verdict that covers it.
  - `CorrectionNamesLatest` holds because of `LocalInv`: on local back ends one
    coroutine at a time is between two halves of a call, so the decision about to be
    logged is the newest and those logged are in order.
  - `JobsAccounted`: `JobsInv`, on all back ends, says that a job is in one place (queue,
    worker's list, a drain's list, explained) unless it is in `again`, which on the
    in-memory bus is empty: every action is shown to put a job in a second place only
    together with putting its verdict in `again` (`YieldOnce`, `ReplayOnce`). `JobsKept`, on local ones, that a drain's
    snapshot of the log is the log as long as it holds the loop, and so has the
    detection of whatever is in the list it swaps. This is what fails on networked
    back ends (`system_drain_race`).
- **`LogProofs`**, the audit log — over `FeedSpec`, that is with edits, live clients and
  power failures: `LinksBack` on both stores, `TamperLocated` on SQLite, `AppendsNeverMask`,
  `FeedOnce`. `LogInv` compares the table with the rows as inserted: they differ in
  payloads only (`RowsInv`), a half-done append holds the hash of a row (`TipInv`), and
  on SQLite the inserted rows are one chain (`ChainInv`). So the walk breaks at a row
  exactly when that row was altered, and a prefix of a table that keeps this, as a power
  failure leaves it, keeps it too. `FeedInv` is about a client: it has been sent a beginning
  of the log, and what it holds goes on where that ends. `AppendsNeverMask` is a step
  property: an append leaves the rows before it and their hashes alone, so the least
  broken row stays the least.
- **`LogProofs`**, the Event Stream — over `BackendSpec`: both buses implement `EventStream`
  (`Refinement`, `RedpandaRefinement`).
  In memory, `IInv` says of each queue object that handed-out and waiting messages make
  up its part of the topic, element by element (`QueueInv`), which queues are registered
  (`KnownInv`) and who may hold them (`HoldInv`). On Redpanda, `BrokerInv` says where a session
  stands in the topic (`SessionInv`), that it has not read past it (`ReachInv`), that what
  is committed is something a session of that group could commit (`CommitInv`), and what
  is left of the sessions that ended (`PastInv`); `SessionsJoin` is how the last two fit the
  choice `Assign` makes.
- **`LanesProofs`** — `EventsOnce`, `WindowTimes`, `WindowExact`, `CaptureExact`,
  `GraphAccounts`, over `LanesSpec`. The lanes do not read each other's state, and each has an invariant.
  - `BuilderInv`: `BufferInv` bounds buffered events by the open window; `ElapsedInv`
    remembers that the event which closed a window was at or after its end, so later
    ones are not much older.
  - `FeaturesInv`, about one source: whatever was evicted was stale for a later event
    (`Evicted`), and the order of timestamps is off by at most the lateness (`Late`); a
    `reset` starts a source anew.
  - `ExtractionInv`: while a capture is read, finished and open flows together cut the
    packets read so far exactly at the timeouts (`ReadingInv`): at most one flow of each
    conversation is open, and it is the last of it (`Succeeded`), so that a flow which
    goes on after another was opened because that one had timed out. The sort at the end is a
    rearrangement, sorted (`InOrderSorts`, from `Place` being a bijection).
  - `ReplayInv`: what was fed is a beginning of the sorted flows, so nothing is ever late,
    and the windows of both lanes are cut by time alone.
  - `GraphAccounts` follows from the type of the windows. A sum over a set is a recursive
    function on its subsets; `CountsAddUp` gives the function it must be (how many events go
    into a subset), which solves the recursion, and shows by a least counterexample that
    every solution is this one where it matters.
- **`DatasetFetchProofs`** — `CheckedRunIsWhole`, `HonestRunHeals` and the action
  property `GoodFilesStay`, for any number of files and runs. `Tests` states the few facts
  about the tests of each of the eight scripts that the arguments need. `IInv`: while a
  run that checks is past a file, that file is whole (`CheckedInv`); likewise while a run
  that repairs is given whole files only (`HonestInv`); what is ahead of a script that
  starts over is not there (`AheadInv`); only a direct download writes to a file in
  place, and not to a whole one (`WriteInv`).
- **`ModelRegistryProofs`** — `CurrentIsWhole`, `CurrentIsUnmixed`, `PromotesBetter`. `IInv`
  says that a version a cycle compares or promotes, and one that was installed, has its
  version.json and all its files (`WholeInv`); that a version being copied is in nobody
  else's hands (`OwnInv`); that a cycle which overlapped with none is the only one
  running (`AloneInv`) and finds its own files only (`MineInv`); that `current.json`,
  unless it is being written or its writer died, names the last install (`LastInv`); and
  that a lone cycle on its way to promote has beaten that install (`BetterInv`), which is
  what an overlapping cycle would invalidate.
- **`ExperimentProofs`** — `ReportIsOfTheseWeights`. `Outcome` says how training a lane can
  end in each of the nine scripts, whatever the data. `IInv`: the lanes whose weights are
  of the run under way are those it has trained (`RunInv`); a run that has ended, and was
  not cut short, has left no weights unless it wrote the report (`EndedInv`), which needs
  that a script which gives up for want of rows does so before it has saved anything; the
  weights of a reported lane are of its run or a later one (`ReportInv`).
- **`ExperimentProofs`** — `TestsUnseen`, for any corpora, permutations, limits and days. The
  operators first: ranks along a chain of sets are distinct (`ChainOrders`), so `InOrder`,
  `SortBy` and `Kept` list what they are given, each element once; prefixes, strides
  and even subsamples pick each position at most once (`Picks`, where a stride needs
  `Quotient` and `Spread`); the two sides of a split share no position
  (`SplitApart`), even for an `order` that is no permutation. What goes into an example
  lies within the stream that was replayed (`HistoryWithin`, `FlushedWithin`), so scores are
  apart where streams are (`FourParts`); windows of one stream are apart even when the
  split is one of windows (`FlushedApart`, `WindowsApart`), and files, days and captures
  are. `ResultUnseen` puts the scripts together. The substitution needs memory: that the rows
  of the Detective on the disk are within the training side of a split of *some*
  download under *some* limit (`FittedInv`, kept with `DataInv`), which is the
  split that is made again when both agree.
- **`ExperimentProofs`** — `BenignIsBenign`, under two assumptions more. `WindowAssumption`: the
  window (2 s) is no wider than the guard (3 s). `Loaded`, what a script can count on in
  its rows: `run_api_experiment.py` sends each class from hosts of its own, the loader of
  CSE-CIC-IDS2018 sorts a day by its clock, a capture of CIC IoT 2023 has the class of
  its folder. `Clean` examples are those of the property, `Calm` rows those with no
  attack on the lane; each stage of each script is shown to keep one or the other. Where
  a history is cut by hosts or groups it is calm at once (`CapturesCalm`, `DayVectorsClean`,
  which needs that a host that floods loses its benign rows of the whole day); where
  windows are cut by time it takes the guard: the opener of a window is a recursive
  function of the day, so that there is one, at or before each row, and what it
  satisfies (`OpenerFacts`) comes from a minimal counterexample (`Ascent`); then the rows of a window
  lie within its width (`DayCutSpan`), and an attack among them is within the guard of
  the benign row that named the window (`BenignWindow`). `BouncerScored` ties `LaneScored`,
  which reads the stage, to the scores that stage keeps.
- **`LoaderProofs`** — all four properties of a load, for every loader and any files,
  samples, limits, chunks, clocks and features.
  - `TimesFollow`: while a timed load reads (`TimedInv`), its rows and their times run in
    parallel (`Parallel`), in the order of reading (`InReadingOrder`), and all lie behind the
    place that has been reached (`Behind`), so that what a chunk adds comes after them
    (`TakeStep`); the positions that a chunk or an even sample gives ascend
    (`PickedAscends`, `EvenAscends`). At the end the sort by (time, place) is applied to
    both lists, and breaks ties by that order; the limit keeps an ascending choice of
    places (`KeepAscends`).
  - `IntervalsTell`: `IntervalsOfLoad` says it of every instant, the property of those that TLC
    tries. By induction (`Ascent`) over the attacks in order, the intervals of the first
    *k* begin one after another, the last ends with the last attack's span, and together
    they are the spans (`Tells`, `MergeTells`); as they begin in order, a search that stops
    early misses none (`SearchFinds`).
  - `LoadIsSample` compares a loop over files and chunks with a set that knows of neither.
    `Earlier` is a strict total order of the rows of the files (`EarlierOrders`), and it is
    the order of reading in every loader; `Visited` are the rows of the sample that have
    been looked at. `Underway` then says of what is loaded that it is in that order, due and
    visited, has nothing due missing before it (`FirstDue`), is *all* that is due and
    visited unless the limit is reached (`AllDue`, `Full`), and that of the rest the rows
    with a label the loader counts are counted (`CountInv`). This is kept by any step that goes on where the last one ended
    (`Continues`, `TakeDue`), and the chunks do: what a stride picks of a chunk are the
    multiples of the stride in it, and the budget left when a chunk begins is what the
    multiples before it have not used (`KeptInv`, with `Ceil`). The sort rearranges
    (`Permutes`), so that the row that is *k*-th in the end has *k* - 1 sooner ones
    (`RankIs`), which is what an even choice needs. A limit of 0 is the exception
    throughout (`Stopped`, `RoomOfNone`): a loader that tests it after a chunk stops with
    rows due, and no more than one loaded.
  - `AmbiguityIsKnown` follows from the same invariant. The sum of the majorities is what the
    best guess gets right (`SumIsBest`), no guess gets more (`BestIsMost`), and the rows of
    a vector of one class are all right (`WaysAgree`). Where ambiguous vectors are left out,
    each other vector has an earliest row (`EarliestRow`), and that is the one that is due
    (`DueVectors`).

Checked by TLC only: `SteadyGroupServed`. Liveness under fairness is out of this prover's
reach, and so are `ENABLED` and `RECURSIVE` operators (no module declares one). The
library's induction theorems cannot be used, as they take an operator; where a proof
needs induction (`Ascent`, `CountsAddUp`, `SmallestSubset`) it takes a least
counterexample, from the well-foundedness of an order.

## 6. Divergences found

Two have a run of their own:

- **Postgres forks the chain** (`logbook_fork`). The newest hash is read and the next
  entry inserted in two thread hops (`postgres_store.py:33-52`); appends that overlap
  link to the same row, and `verify_chain` reports a break nobody made. `README.md:56`
  promises "100%, 0 broken hash links".
- **A drain loses jobs on networked back ends** (`system_drain_race`). `read_all`
  suspends, the worker receives a job meanwhile, and the swap at
  `kronus_system.py:255` takes it although its detection is not among the entries
  read; it is passed over. `kronus_system.py:236` says every collected job is
  processed.

The following were met while modelling. They are part of the models, but the
properties checked are the weaker ones that the code does keep.

In the running system:

- `allowlist_add` leaves an active block in force (`engine.py:100`;
  `docs/instructions.md:57-61` says such an address "should never be auto-blocked").
  What holds is `AllowlistTakesEffect`: it is free one TTL later.
- A late event joins the open window, which then spans more than its length
  (`builder.py:113`, against `builder.py:94`). What holds is `WindowSpan`.
- A window closes only when another event arrives (`builder.py:114`), and the API never
  flushes: after the last event of an attack the deep lane is silent. Nothing promises
  otherwise, and no property covers it.
- An exception in the fast lane keeps the event from the graph
  (`kronus_system.py:121`, against `:107-108`). `BothLanesFed` holds without one.
- `flush_graph_window` returns a verdict that is neither logged nor decided on
  (`kronus_system.py:150`, against FR-11 as quoted in `engine.py:33-34`).
  `AuditComplete` is about verdicts that are handled.
- `serve` starts the system in an event loop of its own, `asyncio.run`, which cancels
  the job worker when it returns (`api/serve.py:72`); no route drains. Jobs of a served
  system stay in the queue for ever: under `Served`, `JobsAccounted` finds them there.
- With Redpanda a verdict may be explained more than once. What the worker read and the
  consumer had not committed comes again after a restart or a new `start`, and a record
  whose acknowledgement was lost is in the topic twice (`event_bus.py:105-121`); the drain
  takes each job as it comes, without a look at the explanations in the log it has just
  read (`kronus_system.py:257-267`). What holds is `JobsAccounted`: nothing *else* is
  explained twice.
- `start` "registers the job-queue consumer group before anything can be enqueued to it"
  (`kronus_system.py:76-88`): true in memory. With Redpanda it does not wait for the
  partition, and a group that has never committed begins at the end of the topic, so
  jobs published meanwhile are never explained. The model has them in `dropped`.
- An explanation is logged under the verdict_id of a verdict rebuilt for the
  occasion, which no detection has (`kronus_system.py:276`;
  `docs/frontend_guide.md:91-94` joins the two). The model keeps the missing
  reference as `about`.
- The lanes never share a window_id, so both may act on the same traffic
  (`kronus_system.py:117`, against `README.md:35`). What holds is `EnforcedOnce`, per
  window_id.
- The deep lane may block the victim: the verdict is held against
  `evidence.node_ids[0]`, the first endpoint in string order
  (`kronus_system.py:132`); `docs/instructions.md:14` says "The source IP is blocked".
  The model blocks the same address.
- `record_correction` names the last decision about an address, which may be a dry
  run later than the block it lifts (`kronus_system.py:218`). What holds is
  `CorrectionNamesLatest`.
- After a power failure the table may end earlier (`sqlite_store.py:52`), and the shorter
  chain verifies: nothing tells that entries are missing.
- `_get_producer` sets `_producer` before its start has succeeded (`event_bus.py:98-101`):
  a publish meanwhile raises, and when the start fails every later one does, until the
  process is restarted. Before a group's first commit, what is published while it has
  no session is lost to it (`event_bus.py:114`).
- The queue of a group without readers grows without bound (`event_bus.py:61`), as does
  the history of sources that never send again (`features.py:38`).
- `activate` starts the real listener and then the decoy; when the second fails, the first
  stays up (`mtd.py:66`). Not modelled.

In retraining and downloads:

- Overlapping cycles may promote a worse model: both compare with the same current
  one, and the worse candidate may write last (`model_registry.py:50-60`, against
  `docs/instructions.md:137`, "A worse candidate is never promoted"). They may also
  register each other's files, as they share `MODEL_DIR` (`train.py:119`). What holds
  is `NeverWorse` and `CurrentUnmixed`, for cycles that overlapped with none.
- A cycle that dies between the truncation and the write of `current.json` leaves a
  file that cannot be parsed: `get_current` raises from then on, in every later cycle
  (`model_registry.py:60`). `CurrentWhole` is about a file that can be read.
- A fetch that was cut off is not repaired where a script asks whether *some* file
  is there: the re-run says "already have" and exits 0
  (`download_unsw_nb15.py:271-277`, and those of DoHBrw-2020 and CIC-IDS2017). What
  holds is `HonestRunHeals`, for runs that found something to do.
- A truncated CIC-DDoS2019 archive passes for one, as only its first bytes are
  looked at, and is never fetched again (`download_cicddos2019.py:296`, against
  its docstring at `:56`, "already present and intact").
- `download_dohbrw2020.py:24` says every mode checks bytes; `--from-zip` and
  `--from-local` do not. `CheckedRunIsWhole` is about modes that check.
- A DNS-EXF-2021 re-run overwrites good files and removes the ones whose new
  download is cut short; `GoodFilesStay` leaves that script out.

In the loaders:

- A sample with a budget takes every `max(1, total // budget)`-th row and stops when the
  budget is used up (`cicids2018.py:354-403`): of a file of nearly twice the budget it
  reads the front half, though the docstring at `:337-340` says "end to end".
  `LoadIsSample` holds it to more than half.
- The docstring of `load_cicids2017` says that rows of no KRONUS category are "dropped and
  counted" (`cicids2017.py:239-240`), and `unsw_nb15.py:224-226` that they are "dropped
  and counted by the caller". Neither loop counts (`cicids2017.py:264-268`,
  `unsw_nb15.py:314-319`), nor do those of DoHBrw-2020 and DNS-EXF-2021. CIC-DDoS2019
  counts unmapped labels but no repeated headers (`cicddos2019.py:592`); only
  `cicids2018.py:520-526` counts both. `LoadIsSample` holds each loader to what it does
  count (`counts`), so it says nothing of rows dropped uncounted.
- A limit of 0 means one row at most to some loaders, no row to CIC-DDoS2019, no limit to
  DoHBrw-2020 and DNS-EXF-2021, and a division by zero to CIC IoT 2023.
- CIC-DDoS2019 counts rows without an address under `unmapped_labels`.
- A DoHBrw-2020 file of an unknown name gets the class of its first row.
- `extract_flows` raises at `max_flows` also for a packet that would replace a timed-out
  flow of its own conversation, and counts an IPv6 packet in a VLAN as `non_ip`.
- CIC-IDS2017 falls back to latin-1, where the dash in "Web Attack" labels becomes a
  control character the table does not have: these rows are dropped. A row count
  assumes that the last line ends. Neither is modelled: characters are not.

In the experiments:

- `collect_detective` of `run_cicids2018_experiment.py` (docstring at `:500-503`) and
  `docs/experiments_guide.md:906` say its quota is an evenly spaced stride, so that no
  "time-of-day prefix biases the set". The code keeps the *first* windows of each kind
  of a day (`:532-536`). `DayWindows2018` models that; no leakage comes of it.
- `run_cicddos2019_experiment.py` replays a day whole and then splits vectors, whose
  histories overlap: test vectors share rows with training ones. `TestsUnseen` holds
  its blocks across days, not its split.
- The lane substitution scores a frozen Bouncer on rows it may have been fitted on, and
  its split is the Detective's only under the same limit and download, and if that was
  trained on whole files: `--sample-per-file` changes the rows that are split, and the
  substitution loads without it. `TestsUnseen` is about weights of that limit and
  download; the flag is left at its default.
- The cadence sweep of `run_cicids2018_experiment.py` (`:156`) labels windows of 5 to 120 s
  with the same guard of 3 s, so that a window it counts as benign may hold an attack.
  `WindowAssumption` is about the windows a model learns from (2 s); the sweep is a
  measurement and not modelled.
- `run_api_experiment.py` labels a window by the event that closed it, which is in the
  next one; `BenignIsBenign` leaves its Detective out.
- A lane that is skipped leaves weights of an earlier run in place, and four scripts
  (CIC-IDS2017, UNSW-NB15, DoHBrw-2020, DNS-EXF-2021) then load and vouch for them; `run_cic_experiment.py` reports a Detective as not
  loadable when the Bouncer was skipped, and without data overwrites a
  complete report while it keeps the weights. `run_cicids2018_experiment.py` may give
  up after it has saved a Bouncer. `ReportIsOfTheseWeights` is what remains.

## 7. What is not modelled, and why

- **Numerics**: model inference and training, calibration, PSI and KS, feature values,
  scores. Floating-point arithmetic is out of TLC's reach; a model is a choice of a
  verdict, an example the rows it is made of.
- **Moving target defence and SSH sessions**: a session has one writer and ends in
  `handle_decoy_session`, which is modelled; the two listeners of MTD share no state with
  anything.
- **Digital Twin scenarios** (`twin/synthetic.py`, `twin/topology.py`): fixed example data.
- **Conversion of fields**: `telemetry_exporter` and the loaders turn columns into
  numbers, and rebuild addresses where a data set has none. Only whether a row is kept, under which class and
  at which time is modelled; rows without a time (NaT) are not.
- **Read-only API routes, observability, configuration, demo,
  `validate_cicids2017.py`**: no state another component reads.
- **In the experiments**: sample and thinning flags (every run has the same; another
  `--sample-per-file` would be another split for the lane substitution), cadence sweeps, label-quality and
  service-level verdicts, probes of the API, sensitivity to order: measurements on
  examples that are modelled.
- **The broker**: one partition, no rebalancing between processes; a group's readers
  compete within one process, and in `KronusSystem` there is one, to whom stopping,
  starting and restarting give the partition anew.

## 8. Plan

The modules are there; what is left is to prove more about them.

1. `KronusSystem` shown to implement an abstract `AuditedResponse`: verdicts are
   made, decided on at most once per window, and every decision that acted is
   in the trail before its verdict is let go.
