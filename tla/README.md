# Verification of the review pipeline

TLA+ models of the review pipeline - collectors in Go and Python, analyzers, alerter, dashboards -
with their TLC configurations and TLAPS proofs. Source
paths are relative to the repository, which is `src/` in `PROJECT.json`. `PROJECT.json` lists the
components, the runs, the mutant of every property, the source lines of every definition, the
hazards and the theorems.

## 1. The system

Several `collector` processes share a fixed list of products. Each claims products through
assignment keys in etcd that are bound to its lease, runs one goroutine per product that fetches
reviews from a marketplace, and passes them to Kafka (`cmd/collector`) or, aggregated in windows,
to NATS JetStream and an Arrow Flight store (`cmd/arrow-server`). Python processes consume the
topics: analyzers, an alerter and dashboards. A Python collector does the work of the Go one with
other means.

| component | state | operations | talks to | hard behaviour |
|---|---|---|---|---|
| coordinator (`internal/coordinator`) | maps `ownedProducts`, `leasedProducts` under `mu`; channels of lost and freed products; a lease | ClaimProducts, TryClaimOne, MarkProductCollected, WatchAssignmentChanges, VerifyOwnership, keepAliveLoop, ReleaseAll, Close | etcd; the collector through two channels | four goroutines around two maps; events that arrive after the state has moved on; leases that end; calls that fail after they were applied |
| collector (`internal/collector`) | map of worker goroutines, reviews channel | Run, claimAndSpawn, spawnWorker, removeWorker, stopAllWorkers, Stop | coordinator, marketplace, forwarder | a lost product while its goroutine collects; closing the channel |
| aggregator (`internal/aggregator`) | window store, input and output channels, `stopCh`, `flushedCh` | handleReview, reapWindows, emitWindows, flushAllAndClose, Stop | forwarder, output reader | late reviews, eviction, a full output, Stop with input waiting |
| `cmd/collector/main.go`, `cmd/arrow-server/main.go` | wiring | forwarder, output reader, shutdown sequence, crash-after | everything | order of the shutdown |
| NATS publisher (`internal/natspub`) | `pubAckCh`, counters, `stopped` | publishJSON, ackLoop, retryPublish, drainPending, Close | JetStream | lost acknowledgements, retries, deduplication, Close with messages pending |
| Kafka publisher (`internal/kafkapub`) | counters | PublishRaw, PublishBatch, Close | Kafka | partial batches |
| queue monitor (`internal/monitor`) | two gauges | poll | JetStream | none |
| Arrow Flight server (`internal/arrowserver`) | bounded list of aggregates | Push, Query, DoGet, ListFlights | output goroutine, Flight clients | concurrent readers, the limit |
| validators (`rust-validator`, `py-validator`, `internal/validator`, `clients/clean_reviews.py`) | none | validate | callers | three implementations of one rule |
| Python collector (`clients/collector.py`) | `_owned_products`, counters of published and recorded reviews | claim, collect, publish, stop | etcd, NATS | claims without a watch and without looking again; a stop between two requests |
| Kafka analyzer (`deploy/.../analyzer_kafka.py`) | sliding windows, `_last_offsets` | poll, commit, window loop, stop | Kafka | commit before use, rebalancing, a bad message |
| NATS analyzer (`deploy/.../analyzer.py`) | a buffer | on message, flush | NATS, a Parquet file | acknowledgement before the write, redelivery, restarts |
| alerter (`streamlit/alerter.py`) | buffer of windows, cooldown per product | check, send | NATS, Telegram | cooldown of an alert that was not sent |
| dashboards (`streamlit/*.py`) | a queue per tab, session state | listener, drain, draw, rerun | Kafka or NATS, alerter, user | the script starts anew for each run, the thread does not |
| simulator, Arrow clients, benchmarks, manifests | none to speak of | | | |

What makes the main ones correct:

* coordinator: no two workers go on believing in one product; a worker's belief is true or about
  to be corrected; products of a dead worker are freed and taken; a release should free only one's own
  (it does not always, see section 3).
* collector: one goroutine per product; nothing is sent on the closed channel.
* aggregator: an accepted review is reported, and what was reported last is what the window holds.
* publisher: no aggregate is stored twice or forgotten; a publication has one outcome, which is
  counted once, and one counted as published is in the stream; Close ends.
* Python collector: what a worker believes and what it holds differ only in named ways; the keys of
  ended workers become free; every product is collected; the metrics say what was published.
* Kafka analyzer: no offset is committed beyond a message nobody handled; a committed review is in an
  aggregate, or will be; a shutdown ends.
* NATS analyzer: an acknowledged window is in the buffer or in the file, in its newest version.
* alerter: a bad product is told of, again and again while it is bad, and not more often than that.
* dashboards: what arrives is shown, in order.

The Python programs are asyncio processes (collector, analyzers) or threads beside a script
(dashboards, alerter). In the former one action is what runs between two awaits.

## 2. The modules

| module | models | correspondence |
|---|---|---|
| `Etcd` | external: keys, leases, DELETE events of a prefix watch | `holder`, `lease`, `watching`, `deletes` |
| `Coordinator` (EXTENDS Etcd) | `coordinator.go`, any number of workers | one action per etcd call or critical section of `mu` |
| `Collector` (EXTENDS Coordinator) | `collector.go` on top of the coordinator | the actions of Coordinator unchanged, joined to the loop's reaction |
| `TumblingWindow` | `aggregator.go` with the forwarder and the output reader as environment | one action per handler, cut at the sends |
| `ReviewLedger` | abstract: a review accepted is pending until reported | refined by TumblingWindow |
| `JetStreamPublisher` | `publisher.go` with the output goroutine and the shutdown of `cmd/arrow-server` | one action per step of each goroutine |
| `PublicationLog` | abstract: the stream is a log, a publication is settled once and counted once | refined by JetStreamPublisher |
| `PyCollector` (EXTENDS Etcd) | `clients/collector.py`, any number of workers | main, claim task and collect task; one action between two awaits |
| `KafkaAnalyzer` | `analyzer_kafka.py`, a group of consumers; group, positions and offsets external | main, run and `_window_loop`; one action between two awaits |
| `NatsAnalyzer` | `analyzer.py`, one process that is restarted; JetStream and Polars external | pull loop and `periodic_flush`; one action between two awaits |
| `Alerter` | `alerter.py`, the thread | one action per check, per message sent, per wait |
| `Dashboard` | `dashboard_kafka.py` and `dashboard.py`, tabs with script and listener; Streamlit, Kafka and JetStream external | one action per access to the session state or a queue |
| `MCCoordinator`, `MCCollector`, `MCTumblingWindow`, `MCJetStreamPublisher`, `MCKafkaAnalyzer`, `MCNatsAnalyzer`, `MCAlerter`, `MCDashboard` | instances | symmetry, scenarios, small data |
| `CollectorProofs` (the coordinator's too), `TumblingWindowProofs`, `PublisherProofs`, `PyCollectorProofs`, `KafkaAnalyzerProofs`, `NatsAnalyzerProofs`, `AlerterProofs`, `DashboardProofs` | theorems | section 5 |

Operators called `...Mutant` are wrong variants of the definition that follows them. No
specification uses them; each stands for a plausible bug that one of the properties must find.
Variables marked "history" record what happened, for the
properties (and, in `Dashboard`, whether the button of a drawn page is there to click).

**Coordinator.** An element of `Workers` is one run of one process: the worker identifier contains
the start time (`defaultWorkerID`), so a restarted process is another worker. `owned[w]` and
`leased[w]` are the two maps; `todo`, `won` are the locals of a claim, `toVerify`, `missing` those of
the ownership check, `forgetting`, `freeing` the watcher's position between its critical sections,
`toRelease` the loop of ReleaseAll. `proc = "releasing"` means that ReleaseAll holds `mu`: no other
action that needs `mu` is enabled. Every worker starts by opening the watch, then claims; the reclaim
ticker and a freed product both start another claim. Failures are switched on per run by `Faults`
(a failed transaction or delete may or may not have been applied), `Crashable`, `Expirable` and
`Stoppable`. `PrevKvSupplied` is FALSE for etcd as the code opens the watch (without `WithPrevKV`) and
TRUE for another implementation of the interface `EtcdStorage`, which the coordinator accepts.
Abstracted: the order of events of different keys (a count per key is kept), the order in which a
claim or a check walks its products, and BootstrapProducts, whose result is the constant `Products`.

**Collector.** A goroutine is a number up to `MaxGoroutines` with a position (fetch, send, mark);
`tracked` is the map `workers`. Its reviews are one send. `done` and `removeWorker` are one step with
the mark before them. ReleaseAll can start only when the loop has ended, as `main` waits for the
aggregator's `Flushed`, which needs the closed channel. `detached` is a history variable.
`MCCollector` runs three instances in one, told apart by `mode`: two processes of which none loses its
lease (`leased`); one that may lose it (`alone`); and one that has lost it and, believing what it did
before, frees the key of a second process when it releases (`robbed`). The second one then claims the product
again while its old goroutine collects, so it has two goroutines of one product.

**TumblingWindow.** One goroutine owns the store, so its locks are never contended and are left out;
what interleaves is the clock, the sender, Stop and the reader. A handler is one action up to its
sends: `flushing` and `outbox` hold what it has still to do, and no other handler starts until both
are empty. Counts and sums are the sets of reviews they come from. Time is counted in ticks, `phase`
is when the ticker fires. `accepted` and `offered` are history variables.

**JetStreamPublisher.** `call` is the position of the one caller in publishJSON, `ackLoop` the
position of that goroutine, `retrying[a]` the attempt a retry goroutine is at. The stream discards a
message whose id it remembers; a future fails when the connection is lost, with the message stored,
lost or still on its way. `Forget` assumes that DedupWindow (two minutes) outlasts a publication with
its retries (1 + 2 + 4 s of backoff and 3 times 30 s); an outage that delays the failure of a future for
longer than that is outside the model. Marshalling errors, which these types cannot have, are left out.

**PyCollector.** The keys and leases are those of `Etcd`, the same as the Go collector's; there is no
watch, nobody looks whether a key is still its own, and no product leaves `_owned_products`. `main`,
`claim`, `collect` say at which await the three tasks are. Cancelling a task does not cancel a
request that is under way: `astray` holds those. A request that fails may have been carried out; then
the worker does not learn of it: `unheard`. `robbed` holds the keys of a worker that another deleted.
A fetch returns 1 to `MaxReviews` reviews, and what a stop leaves unpublished stays in `left`.

**KafkaAnalyzer.** `assigned`, `position`, `committed` are the group's; a rebalance gives every member
its even share, from the committed offsets on, and waits for commits that are under way; a member that
was killed or whose `run` has raised is evicted in the end. `last` is `_last_offsets`,
which is kept across rebalances, as in the code. `age[c][m]` is the time since `c` took `m` into its
window; the window holds what is at most `Window` old, and `_window_loop` publishes every `Slide` ticks.
As the file stands it does not start: line 347 reads a name that is not defined. `patched = FALSE`
is that file; `patched = TRUE` is the file with the two names of that line corrected, of which everything
else is said. `handled`, `reported`, `missed` (publications of a review that failed) and
`excused` are history. An aggregate is published or fails by itself (`unsent`), and which reviews share one is
left open. A start that fails may have joined the group before. Contents of the topic and what may befall it are one choice from `Scenarios`.

**NatsAnalyzer.** A message is its sequence number; a later one with the same key is a newer version of
the window. The kinds say what Polars makes of it: `whole` and `fraction` are an `avg_rating` written
as an integer or not, `odd` makes no frame with the others, `bad` is no JSON. Two kinds of
column do not merge: such a flush fails, and its batch is lost. `limited` says whether `max_deliver` is
in force, since `add_consumer` gets a dict and its errors are ignored. A process that has ended is
started again, up to `MaxStarts` times.

**Alerter.** Time is counted in check intervals (60 s) and kept as ages; a window has its age, a product
what is left of its cooldown. A window comes in any of the `Ages`, since the aggregator sends it again for
late reviews until window and watermark have passed, and a topic may be behind. The messages of a check are
sent one after the other, each with a timeout of 10 s, in at most `Sending` intervals (one for every three
products). A window that is too old to be looked at again frees its slot: that it stays in the buffer makes
no difference. `told`, and of a window `ready` (the age at which a check can first alert on it) and `alerts`
(the alerts on its product since it came), are history. Left out: a message that is no object ends the
thread, and the alerter with it.

**Dashboard.** Streamlit executes the script anew for each run, so the module's queues are new ones,
while the listener keeps those of the run that started it: `own` says whether they are the same.
Listeners outlive their tab and share one consumer group. An aggregate is numbered when a listener gets it,
each time anew: Kafka, with automatic commits, gives messages again after a lost session, and JetStream those
of which the acknowledgement failed. What comes, and comes again, is left to them, and so is the rest of a
fetch that a failing acknowledgement drops; what becomes of what has come is modelled. The alerter's thread and
its flag are one step, so the second thread that a click between them would start is left out. `repair` is part of the scenario: `none` is
the code, `start` is a `dashboard.py` that does not read `has_data` before it is assigned (as it stands
its first run raises), `queues` has the queues outlive a run as well. The liveness property is stated of
the repaired program, the freeze of the others. `Lasting` stands for that last repair.

## 3. The runs

| run | instance | shows |
|---|---|---|
| `belief` | 2 workers, 1 product, both lose leases and stop, failing transactions and watches, etcd as it is, symmetry | BeliefBacked, WonBacked, ExclusiveBelief |
| `departure` | w1 crashes, stops or is cut off, w2 stays, failing transactions, deletes, lookups and watches, PrevKv supplied | EndedReleases, FreeShardTaken, StaleBeliefDropped |
| `takeover` (violation) | w1 crashes, w2 stays, etcd as it is | FreeShardTaken fails: the survivor panics on the nil PrevKv |
| `handover` | 2 processes that keep their leases, w1 crashes or stops; or 1 that may lose its lease; or 1 that has lost it and robs another; 2 goroutines each | SingleWhileLeased, NoSendWhileLeased, UntrackedWereDetached, ClosedOnDetached |
| `ledger` | 4 reviews of 2 products in 2 windows, late or not, window = watermark = 2 | NothingForgotten, FlushedIsCurrent, LedgerKept (refinement, with fairness) |
| `publish` | 3 aggregates, one an update, channel of 1, 1 retry | PendingCounts, StoredOnce, AckedKeyStored, LogKept (refinement), AcceptedSettles, CloseEnds |
| `shards` | 2 Python workers, 1 product, up to 2 reviews, every request may fail, w1 may crash or lose its lease, both may stop | HeldIsKnown, LeasedBeliefHeld, RecordedArePublished, OnlyLosersRob, EndedReleases, ProductCollected |
| `group` | 2 consumers, 2 partitions of up to 2 messages, window 2, slide 1; a crash or stop with refused commits, failing publications, or a poison message | CommittedWereHandled, CommittedReported, ReviewsReported, StopEnds |
| `file` | 3 messages, the first and the last versions of one window, batches and fetches of 2, 3 deliveries, 2 starts; 4 contents with their faults | AckedAccounted, NewestWins, GivenUpWasCut, HandledInTheEnd, BufferEmpties |
| `alerts` | 2 products, 2 recent windows at once that come 1 or 4 minutes after their start, the durations of the code (60 s, 600 s, 300 s) | AlertedInTime, ToldApart, KeptTold |
| `tabs` | both dashboards as they are and repaired; 1 tab and up to 4 aggregates, or 2 tabs and 2; a queue of 1, a memory of 2 | InOrder, FrozenAsWritten, ShownInTheEnd |
| `realtime` (violation) | the instance of `tabs` | ShownInRealTime fails: the next run of the Kafka dashboard reads another queue than its listener fills |

Why the bounds suffice. The keys of different products never interact in the coordinator except
through the bounded channels, whose capacities (100) are 1 here: with two events of one product
underway they are full. In `departure` w1 meets one fate, an end or being cut off
(the action constraint `EndsOrCutOff`), for the size of the graph; `belief` has leases lost and stops in
any combination. Two workers give every pair of old and new holder; in `belief` each may be either. Two
goroutines per process are an old and a new one of one product, which `handover` reaches
after a robbery. In the
aggregator one late and one early review per product, two products in one window and a second window
make every branch of the reap fire; both channels hold one element, so they are full at once; the
clock runs to 7, past the eviction of both windows, then stands while the ticks go on. Three
aggregates fill the acknowledgement channel with one waited for and one blocked in the call.

In the Python collector two products meet only in the order of a pass, which no property tells apart;
two reviews are one that is published and one that is not when a stop comes. Two consumers give every
handing-over of a partition, and a partition of two messages has a commit between them; a window of two
slides is published more than once, so that one publication may fail and the next not. In the
analyzer's file two messages fill a batch and a fetch, the third is redelivered, late or in the second
run; two starts are a run that dies and one that finds its file. Two recent windows of one product
are a bad one and one that hides or follows it; the slots are free again when their windows are too old,
so a behaviour has any number of windows. A window of 1 minute outside a cooldown is in time for two alerts, one
of 4 minutes in a cooldown for one or none. Four aggregates fill the dashboard's queue of one and memory of
two at once with one more at hand, and two tabs take messages from each other.

Deadlock is not checked: every system here may end (processes stop, input ends, tabs close).
The runs do not repeat the type invariants: `TypeOK` of every module is a theorem (section 5).

The two violations, with the line of the code and of the text that says otherwise, are under `findings`.
More behaviours that a reader of the code may not expect come out of the same models. Their properties
are stated so as to name them, and they have no run of their own:

* the watcher may forget a lost product before the ownership check sees it, so that LostProducts never
  tells; a late DELETE event of an earlier holder makes a worker forget a product it has just claimed;
  the ownership check may mark a product lost that was claimed again since its lookup; after a lost
  lease the old goroutine collects beside the new holder's and may later send on the closed channel;
* after a lost lease `ReleaseAll` deletes a key that another worker holds by now (LeasedKeysStay: only
  then), and so does the stop of the Python collector (OnlyLosersRob names the workers that may);
* with `Watermark < Window` the aggregator evicts windows before it reports them: NothingForgotten needs
  the assumption; a review that arrives after its window was evicted makes a new window, published
  with IsUpdate false; the deduplication of JetStream discards an update that has the id of its first version
  (AckedKeyStored speaks of the key for that reason);
* the Python collector never hears of a key it won when the reply is lost, keeps it until its lease
  ends, and collects nothing for it (`unheard`); a stop counts the reviews it did not publish as recorded;
* `analyzer_kafka.py` raises a NameError at its start (line 347); with that repaired, a message that is
  JSON but no review ends `run` while main waits for a signal, and the same message ends the next run;
* the NATS analyzer loses a batch whose column type differs from the file's, and an `odd` message ends its
  flush task and stays in the buffer, so that no later batch makes a frame and nothing is written any more;
* an alert whose message fails is repeated only after the cooldown: a window that comes into a cooldown, or
  late, has one alert or none before it is too old (AlertedInTime says from which age on);
* the Kafka dashboard's listener, when it makes room, may drop the aggregate it has just got instead of an old
  one: the script drains the queue between `qsize` and `get_nowait` (`Evict`; `gone` has it);
* `dashboard.py` raises at its first run (has_data); with that repaired, both dashboards show nothing
  new after their first drawing (FrozenAsWritten), since the next run drains a new, empty queue.

## 4. Fairness

* `Coordinator!Fairness`: weak fairness for each goroutine's steps (the Go scheduler and the two
  tickers), strong fairness for a winning transaction and for a lookup that finds a loss, because both
  are repeated at every tick and a call to etcd does not fail for ever; the lease of a process that has
  ended runs out. Nothing makes a worker start, stop, crash or lose its lease.
* `TumblingWindow!Fairness`: time passes, the handler in progress goes on, and strong fairness for the
  reap: a select chooses at random among its ready cases, so a waiting tick is taken in the end. There
  is no fairness for the sender, Stop and the reader.
* `JetStreamPublisher!Fairness`: the goroutines go on, and every future is resolved in the end, since
  the NATS client reconnects without limit and fails the open ones. Nothing makes a publication
  succeed or main shut down. With a connection that never comes back the ackLoop waits for ever (its
  inner select looks neither at the context nor at stopCh), and so does Close.
* `Collector`: none; its properties are safety.
* `PyCollector!Fairness`: weak fairness for each task (the event loop runs what is ready), strong
  fairness for the listing of the keys and for a winning transaction, which are repeated every
  RECLAIM_INTERVAL and do not fail for ever; the lease of an ended process runs out. Nothing makes a worker
  start, stop, crash or lose its lease.
* `KafkaAnalyzer!Fairness`: time passes, Kafka completes a rebalance or evicts who does not take part,
  and the two tasks and the shutdown go on. Nothing makes a consumer start, stop or crash, nor a commit
  or a publication succeed.
* `NatsAnalyzer!Fairness`: the process is started again (Kubernetes), its pull loop goes on, an
  acknowledgement that does not come leads to a redelivery; strong fairness for the flush task, which
  takes turns with the loop at its awaits, and for the fetch of each redelivered message.
* `Alerter!FairSpec`: time passes, the thread checks and wakes, a request to Telegram ends; strong
  fairness for a success: Telegram does not refuse every message for ever.
* `Dashboard!FairSpec`: an open tab is refreshed, and strong fairness for the steps of its script: a
  click may end a run at any of them, but not every run there will be. Nothing makes a tab open or close,
  nor a listener receive.

## 5. What is proved

All by TLAPS, for every finite set of workers, products, consumers or tabs, every bound and every data,
from the assumptions the modules state of their constants. Three of those are more than a type: in
`KafkaAnalyzer` a slide is not longer than a window (60 s of 300 s in the code), in `Alerter` the messages of
three products take at most an interval (six timeouts of 10 s), and in `NatsAnalyzer` `MaxDeliver` is at
least 2 (the code asks for 3), since with one delivery nothing is ever delivered again. Every safety
property that a run checks (invariants and action properties) is the statement of a theorem below, five of
them under an assumption that is named there.

**Coordinator** (first part of `CollectorProofs`). `TypeCorrect`, `LeasedOwned` (what ReleaseAll walks is
all that is leased; no run checks it); `BeliefsBacked`, `ClaimsBacked`, `BeliefsExclusive` with
`~PrevKvSupplied`, that is, for etcd as the code uses it. The inductive invariant is BeliefBacked together
with WonBacked, plus that a process that has not started believes nothing. WonBacked is needed because
the maps are updated after the transaction: a claim whose key is gone by then must have one DELETE event
more to come than an older belief has, or the event that corrects the older one would leave the new one
uncorrected. With PrevKv supplied an event that is handled between transaction and update would be
consumed as a foreign one, and the invariant fails; the panic on a nil PrevKv hides this, which the
mutant `WatchPanicMutant` shows.

**Collector** (`CollectorProofs`). `CollectorTypeCorrect`, `UntrackedDetached`, `ClosedDetached`, with any
leases lost. UntrackedWereDetached is inductive on the types together with `Placed` (a goroutine that
runs has a product). ClosedDetached needs that every goroutine is tracked or detached, and `Shut`: outside
the loop nothing is claimed and nothing spawned, so that what stopAllWorkers has waited for stays ended.

`LeasedCollectAlone` and `LeasedSendOpen` are about processes that lose no lease, of any number, with
failing requests, crashes and stops (`MCSpec` with `mode = "leased"`). The invariant `LInv` adds `Kept` for
every worker: while it runs, whatever it owns, has claimed or is going to verify is a key that it holds,
and it has found nothing lost (`OwnsAll`); when it releases, it is going to delete its own keys only; each
of its goroutines collects a product whose key it holds; nothing is detached. A step is split into what it does to etcd (`Creates`, `Deletes`, `Drops`:
a worker takes free keys and frees its own only, which rests on `toRelease` being its own keys), what it
leaves of the memory of the others (`Same`), and what it does to the memory of the one that moves. So one
worker's step cannot break another's `Kept`, and two goroutines of one product have one holder and one
entry of the map `workers`. `LeasedKeysStay`, an action property that no run checks, says it of the keys: no
claim, ReleaseAll or end of a process takes a key from another that runs.

**Aggregator** (`TumblingWindowProofs`). `TypeCorrect` and `FlushedStaysCurrent` without further
assumptions; `NothingIsForgotten` and `ImplementsLedger` (every behaviour satisfies the safety part of
`ReviewLedger`) with `Watermark >= Window`, without which a window is evicted before it is flushed. The
refinement maps pending to the reviews in windows that are not flushed and reported to those in the
aggregates computed; it needs that what waits in the input was never accepted, and that a review is only
in the entry of its own window.

**Publisher** (`PublisherProofs`). `TypeCorrect`, `PendingIsExact`, `NothingStoredTwice`: the inductive
invariant adds to these that the aggregates not yet handed to PublishAsync have left no trace, and that
the stream remembers the id of every stored aggregate of which a copy may still come. `AckedAreStored`
needs `Backed`: whatever vouches for a key has the stream behind it, that is, an id the stream remembers,
a future resolved well, and an open future whose message is not on the wire any more.
`DrainWaitsForItself` (no run checks it): drainPending cannot end but by its deadline while a future waits in
the channel, since its own goroutine is the one that takes it out.
`ImplementsLog` is the refinement of `PublicationLog`: the stream is its log, `published` its counter.
It needs `OneOutcome`: a publication that is not settled waits in one place only (in pubAckCh, with the
ackLoop or in one retry goroutine), one that is settled or not yet queued waits nowhere; so whoever
settles it finds it open. With `AcceptedHeld` (an accepted publication is settled or waits) this is the theorem
`AcceptedInOnePlace`, the safety half of AcceptedSettles; no run checks it by itself. That a confirmed publication is in the log is AckedKeyStored after the step,
that the log does not repeat is the memory of the ids.

**Python collector** (`PyCollectorProofs`). `TypeCorrect`, `HeldKeysKnown`, `BeliefsHeld`, `LosersRob`,
`MetricsMatch`. The first three facts about keys are one invariant, carried by a lemma on what any request
does to `holder` and to `unheard` and `robbed` (`Effect`); MetricsMatch needs `Ahead`: while a product is
published, what was recorded and what will be recorded for the reviews of it that are done covers what was
published or failed.

**Kafka analyzer** (`KafkaAnalyzerProofs`). `TypeCorrect`, `HandledBeforeCommit`, `CommittedAccounted`, for
every window and slide. The first needs that all before a position, a noted and a committed offset was
handled. The last needs a clock argument: a review that has been in a window for `age` ticks has been
published, or `age <= missed * Slide + timer`; so one that leaves the window unpublished has missed every
publication there was.

**NATS analyzer** (`NatsAnalyzerProofs`). `TypeCorrect`, and one invariant for each of three questions.
`AckedKept` (`AckInv`): a message is buffered before it is acknowledged, and a flush moves a version of
every window from the buffer to the file or to what is lost. `GivenUpOnlyByCuts` (`CutInv`): a message that never
reached the buffer was delivered once for every fetch that was cut short, and once more while it is at
hand. `NewestVersionWins` (`OrderInv`) is the hardest: messages are first delivered in the order of the
stream and a batch keeps it (`InStreamOrder`); in the line of the file's rows followed by the buffer, an
older version that was delivered once stands before every newer one, and a newer one that was buffered is
in the line or lost (`InLineOrder`). What `unique` returns is the lemma `UniqueKeeps`: one row of every
key, the last. The rows come in no particular order, as the code does not ask Polars to keep one.

**Alerter** (`AlerterProofs`). `TypeCorrect`, `MessagesApart`, `AlertedBeforeTooOld`, for all durations. The
last says what a window can count on by its `ready`, the age at which the interval or the cooldown it came
into is over: an alert sent for after it came if `ready + Sending <= Window`, and a second one, which repeats a
message that failed, if `ready + 2 * Sending + Cooldown <= Window`. With the durations of the code and up to three
products that is `ready <= 9` and `ready <= 3`: a window that comes outside a cooldown in the first two minutes
of its age is repeated; one that comes into a cooldown, or as a late update, may have one alert, whose message
may fail, or none. The invariant is `InTime`: what a window still has to get in alerts fits into what is left
of its age, counting the cooldown and the intervals that may pass until the next check (`Ahead`).

**Dashboards** (`DashboardProofs`). `TypeCorrect`; `Frozen`: without the repair a tab that has drawn reads a
queue into which nobody writes (`Parted`, `Running`), whatever the user does; `LineOrder`: what a tab of
either dashboard shows, has taken, has waiting and is receiving is one increasing line (`Ordered`), of aggregates that
have come (`InLine`), and the next one to come is newer than all of them (`LineInv`). The
operations are lemmas on such a line: to take the head of the queue, to evict it, to trim what is shown, to
receive. Numbers are given at receipt (section 2), so the order is the listener's, not the topic's.

Only model-checked: everything about liveness (EndedReleases, FreeShardTaken, StaleBeliefDropped,
AcceptedSettles, CloseEnds, ProductCollected, ReviewsReported, StopEnds, HandledInTheEnd, BufferEmpties,
KeptTold, ShownInTheEnd, and the fairness half of LedgerKept), since the prover handles neither fairness
nor ENABLED. No module uses a RECURSIVE operator.

## 6. Not modelled

* Kafka publisher (two counters around one library call), queue monitor (two gauges), Arrow Flight server
  (a list under one mutex, every operation one critical section), simulator (a random generator; its results
  are the nondeterministic inputs of the other models), validators (pure predicates on text).
* Arrow clients, benchmarks, examples: scripts without state of their own. The Python collector's
  benchmark mode and its CSV of metrics: measurement.
* The dashboards' plots, filters and preview of anomalies: presentation.
* The manifests, but for two facts: a process is restarted, and has a grace period to stop.
* The two Go `main`s are modelled only as the environment of the modules above: what waits in the
  channels between forwarder, aggregator and output reader when they stop is not followed.
* In `analyzer_kafka.py`, a review whose date is not a string, which makes the comparison of dates
  raise when an aggregate is computed.
* Logging, the health server, the formats of messages and the computation of averages, everywhere.
  Capacities are parameters.

## 7. Plan

1. done: Etcd, Coordinator, Collector, TumblingWindow with ReviewLedger, JetStreamPublisher, PyCollector,
   KafkaAnalyzer, NatsAnalyzer, Alerter, Dashboard, and the proofs of section 5.
2. `Pipeline`: forwarder, aggregator and output reader composed; reviews that wait in the input when
   Run sees stopCh; the order of both shutdowns; aggregates that are dropped when the output is full.
   Abstract specification: every review that leaves the collector is counted as reported or lost, once.
3. Proofs: every safety property that is checked is proved. Left are abstract specifications of the
   custody of a message by the analyzers and of the ownership of a product, with their refinements.
4. The Flight store and its snapshots; `KafkaPublisher` with partial batches; the validators as pure
   operators compared with one another.
