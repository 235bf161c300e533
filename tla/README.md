# crypto-cdc-pipeline: TLA+ models, checks and proofs

The repository is a small data platform for exchange data: collectors write
Upbit trades into MySQL and Binance market data into Kafka, Debezium carries the
MySQL ledger into Kafka, Flink jobs compute windows, alerts and an order book,
ClickHouse keeps the results, and Airflow DAGs watch, reconcile and back up the
whole. This directory holds TLA+ models of its core logic, TLC configurations
that check them on small instances, and proofs that TLAPS checks for all values
of the constants.

    tlc -workers 2 -config DepthBook.cfg DepthBook      model-check
    tlapm DepthBookProofs.tla                           check the proofs

`PROJECT.json` is the machine-readable side: components, runs, a seeded fault
for every property (`mutants`), the map from definitions to source lines,
hazards, findings and theorems.

## 1. Inventory

Modelled components come first. "Hard" names what tests hardly reach.

### Upbit trade producer (`producer/producer.py`)
- *State*: the write buffer; the MySQL table `crypto_trades` (the only durable
  part); `last_event_ms`, `disconnected_ms`, `pending_startup_fill`; running
  `gap_fill` tasks.
- *Operations*: receive a trade, periodic `flush` in batches, reconnect, gap
  fill over REST (`fetch_gap_rows`, `insert_direct`), startup fill, SIGTERM.
- *Interaction*: Upbit WebSocket and REST; MySQL with `INSERT IGNORE`; binlog
  readers see rows in the order of insertion.
- *Hard*: trades arrive reordered around an outage; failed attempts inside an
  outage; a batch whose commit is unknown; an exception out of `flush`; windows
  that live in memory only; crash and restart; a startup that cannot look up the
  newest row.
- *Correct when* every trade is in the table, under way, or in a window that
  somebody will ask for. Module `TradeIngest`.

### Binance depth path (`binance-collector`, `BinanceDepthJob`, `OrderBookReconstructor`)
- *State*: keyed book, `lastId`, `synced`, emit timer; Flink checkpoints; the
  Kafka partition; WebSocket position and the pending REST snapshot.
- *Operations*: stream frames, fetch and publish snapshots, apply or drop a
  message, emit the top levels, checkpoint, restart.
- *Interaction*: two sources (WS and REST) race into one Kafka partition.
- *Hard*: frames lost silently, snapshots overtaken by frames, phantom levels,
  replay after a restart, recovery.
- *Correct when* a synced book is a real book of the exchange, it never goes
  back, and recovery comes. Modules `BookMirror` (abstract), `DepthBook`,
  `DepthBookProofs`.

### Market alert detector (`MarketAlertDetector.java`)
- *State* per market: ring of minute closes, last minute, level, last judged
  minute, last sequential ids of two minutes, registered timers.
- *Operations*: `processElement` (seven paths), `onTimer` (two paths).
- *Interaction*: trades come through MySQL, Debezium and Kafka in the order of
  insertion, late ones from gap fills; levels go to `market_alerts`.
- *Hard*: order of trades around a minute's end, late timers, silence longer
  than the timer chain, reuse of ring slots.
- *Correct when* a verdict is the level of the exchange's own closes, each
  minute is judged once, silent minutes too. Module `MarketAlertDetector`.

### Virtual trader and its ledger (`virtual-trader/trader.py`, `mysql/ledger.sql`)
- *State*: `virtual_orders`, `virtual_fills`, `binance_user_events` (durable);
  the epoch, the `WsApi` connection, `amend_then_cancel` tasks (memory).
- *Operations*: place, on_event (record, upsert, fill), amend and cancel, adopt
  open orders, check and apply a testnet reset, reconnect, restart.
- *Interaction*: the exchange's user data stream, its REST-like WS API, MySQL
  with one commit per statement.
- *Hard*: repeated, lost and reordered events; failure between two statements;
  tasks lost by a restart; a connection that is open but not subscribed; resets
  noticed late.
- *Correct when* a row is the state of one report and never goes back, fills
  have their orders, resting orders are canceled. Module `VirtualLedger`.

### Health check and escalation (`health_check.py`, `slack_callbacks.py`)
- *State*: `alert_events` in ClickHouse, which is at once the log of what was sent
  and the filter that suppresses repetitions for an hour; the XComs of a run.
- *Operations*: sixteen checks, `_evaluate_health` (verdict, restart of a silent
  connector, lookup, post, record), `escalate_persistent` (escalations and
  all-clears on a second channel), the failure callback.
- *Interaction*: ClickHouse, Kafka Connect, Flink and Slack over HTTP; Airflow
  retries a task once and joins the checks with `all_success`.
- *Hard*: lookup, post and insert are three steps; the start of an incident is
  rebuilt from a sliding window over rows that are themselves suppressed; the
  table lives in the store that is watched; a connector that reports RUNNING.
- *Correct when* a problem is posted once an hour, escalated in time and once,
  cleared when it is over, and an outage is heard of. Modules `HealthCheck`,
  `AlertPath`.

### External watchdog and heartbeat (`cdc-watchdog.py`, `heartbeat-push.sh`)
- *State*: `heartbeat.json` (pushed), `state.json` (level, time of the last message).
- *Operations*: push a verdict, `judge`, `should_send`, send, write the state.
- *Interaction*: sees nothing but the file; shares Slack with the health check.
- *Hard*: the state is written although the message failed; lost heartbeats.
- *Correct when* silence is reported and repeated. Modules `Watchdog`, `AlertPath`.

### Trade stream jobs and reprocessing (`CdcPipelineJob`, `BinanceTradeJob`, parsers, `ClickHouseSinks`, `reprocess-day.sh`, `flink-cdc-redeploy.sh`)
- *State*: source offset, rows held by the batching sinks, checkpoints, the
  group's committed offset, `ReplacingMergeTree` tables, dead letters.
- *Operations*: parse, batch, flush with retries, checkpoint, restart a limited
  number of times, redeploy from a savepoint, resubmit by hand, run a past window
  again and judge the result.
- *Interaction*: Kafka in, ClickHouse and the dead letter topic out; the bounded
  second run writes to the same table beside the live one.
- *Hard*: at-least-once sinks under crashes, a batch whose effect is unknown,
  starts without an offset, a redeployment that stops the job and exits, messages the parser cannot use, a reader by arrival
  time of a window of trade times.
- *Correct when* nothing the job has read past is missing and a reprocessing
  repairs its window. Modules `StreamJob`, `Reprocess`.

### Order-book job (`OrderbookJob`, `OrderbookAggregator`)
- *State* besides the above: minute windows, the watermark (not checkpointed).
- *Hard*: late snapshots, two snapshots of one time, restarts that forget the
  watermark, retried inserts into a table that keeps copies. *Correct when* a
  minute's row is the summary of its snapshots and none that was in time is lost. Module `StreamJob`, kind `"orderbook"`.

### Order-book collector (`orderbook-collector/collector.py`)
- *State*: the list of markets, the subscription, counters, the bounded producer
  queue. *Operations*: connect, back off, receive and produce (a refused frame is
  tried once more), delivery reports, refresh of the list on the same connection.
- *Hard*: the queue at its limit, an exception raised inside the handler of
  another, short answers, a market listed while the process runs.
- *Correct when* no frame is lost without a trace and a new market is received.
  Module `OrderbookCollector`.

### Ledger mirror (`clickhouse/ledger.sql`)
- *State*: change events in Kafka, the Kafka engine's position, the
  `ReplacingMergeTree(version, is_deleted)` table.
- *Hard*: events delivered again, tombstones against rows inserted again.
- *Correct when* it shows the orders as MySQL has them. Module `LedgerMirror`.

### Backup chain and retention (`backup_daily.py`)
- *State*: full and incremental directories in the staging area and on the remote.
- *Operations*: back up (full or over the latest), free the remote, `rsync`
  without deletion, retention on both sides, a check; each with retries.
- *Hard*: room is freed before the transfer; a directory is judged by its name; a
  retry builds upon the remains of the failed attempt.
- *Correct when* the newest restore point is never given up. Module `BackupChain`.

### Daily pipeline and reconciliation (`daily_pipeline.py`, `reconcile_trades.py`)
- *State*: task states, XComs, the day's data, which goes on changing.
- *Hard*: trigger rules, final failures, skipped mapped tasks, a gate that joins
  two branches, posts that Slack swallows. *Correct when* a report goes out only for a day that passed, and
  without it somebody gets an alarm. Module `DailyRuns`.

### Notifiers (`market_alerts_notify.py`, `quality_alerts.py`)
- *State*: `alert_events` by `dedup_key`. *Hard*: overlapping windows, failures
  between post and insert, skipped rules, rows inserted late, runs left out. *Correct when* a key is posted once, and
  not never. Module `Notifiers`.

### Label pollers (`scripts/labels`)
- *State*: a state file and the event table. *Hard*: partial snapshots look like
  delisted markets; insert and file are two steps. *Correct when* the table says
  of each market what the last full run saw. Module `LabelPoller`.

### Partition swap (`mysql-trades-partition-swap.sh`)
- *State*: the old and the new table, which of them has the name, AUTO_INCREMENT.
- *Hard*: a producer that goes on, a retention that deletes, `INSERT IGNORE` that
  passes over taken ids, statements whose failure the script does not see (line 6),
  the rollback. *Correct when* the live table has every
  trade. Module `PartitionSwap`.

### Table onboarding (`onboard_table.py`)
- *State*: topic, views, the connector's list, the signal. *Hard*: the incremental
  snapshot overtakes and is overtaken by changes; a stop between any two steps and
  the rerun. *Correct when* ClickHouse shows the table. Module `TableOnboarding`.

### Not modelled
dbt models (declarative SQL over ClickHouse), Debezium, Kafka topics and schemas
(configuration of other systems), dashboards, monitoring, n8n and CI (no state of
this program's own). What they do enters the models as environment actions.

## 2. Modules

| Module | Models | Composes |
|---|---|---|
| `BookMirror` | abstract: what the order-book path promises a reader | |
| `DepthBook` | exchange, collector, topic, operator, checkpoints | refines `BookMirror` |
| `TradeIngest` | exchange, connection, producer, table | |
| `MarketAlertDetector` | ledger order, queue, operator, clock | |
| `VirtualLedger` | exchange, stream, trader, MySQL tables | |
| `HealthCheck`, `Watchdog` | the DAG and its alert table; the machine outside | |
| `AlertPath` | one world, one Slack, the clock | `HealthCheck`, `Watchdog` |
| `StreamJob` | a Flink job of one of three kinds | |
| `Reprocess` | the script and its bounded job beside the live one | extends `StreamJob` |
| `OrderbookCollector`, `LedgerMirror` | collector; mirror of the order rows | |
| `DataPath` | behaviours of one of the three parts each | the four above |
| `BackupChain`, `DailyRuns`, `Notifiers`, `LabelPoller`, `PartitionSwap`, `TableOnboarding` | scheduled jobs and scripts | |
| `Operations` | behaviours of one of the six each | the six above |
| `DepthBookProofs`, `TradeIngestProofs`, `MarketAlertProofs`, `VirtualLedgerProofs` | invariants and theorems | each extends its model |
| `AlertPathProofs`, `DataPathProofs`, `OperationsProofs` | invariants and theorems | extend `AlertPath`, `DataPath`, `Operations` |
| `Maxima` | lemmas: a set of numbers has a least, a bounded one a largest element | used by the proof modules |

The modules are checked as they are, without wrapper modules: every constant is
a small number or a set of small values and is given in the `.cfg`. Every
module names its assumptions on the constants (`DepthAssumption`, ...), which
TLC evaluates in each run. The parts of `DataPath` share no state in the code
(topics and tables of their own), nor do those of `Operations`; the variable
`part` therefore fixes at the start which of them a behaviour looks at, and the
composition costs the sum of the parts instead of their product. The parts of
`AlertPath` do share state - the world, Slack - and run interleaved.

### DepthBook
One symbol and one side of the book. `hist[i]` is the exchange's book at update
id `i`; a frame carries the levels touched by `first..last`. `StreamDiff` and
`LoseDiff` are the WS loop, `FetchSnapshot`, `PublishSnapshot`, `FailSnapshot`
the snapshot loop, whose REST call runs in an executor thread while frames go
on. `Process` is `processElement`, one disjunct per path; `Emit` is `onTimer`.
`queue` and `off` are the topic from the last checkpoint on, so `Restart` sets
state and offset back together. A message that carries only `SnapLimit` levels
says nothing about deeper ones: `cov` and `known` record, as history, which
levels a message or a state speaks about. They are read by properties only.

### TradeIngest
Time is counted in trades: a window of time is a set of trades, and the margin
and the reordering are distances in trades. `Receive` lets a trade overtake
another by at most `Reorder`. `Flush*` are the outcomes of `MySQLWriter.flush`:
all batches, a failed one put back (whether or not the server had committed it),
or an exception out of `reconnect`. `FetchGap` and `InsertGap` are the two
phases of `gap_fill`. The history variable `forsaken` collects the trades that a
named step gives up (a REST page that fails, a failed batch of `insert_direct`,
a hole the startup fill skips, because it is too long, the table is empty or
`last_event_ms` came back empty-handed from MySQL, a straggler before the window, the part of a hole
behind the newest row after a stop). Each action computes it from its own step
alone, so the invariant says that there is no other way to lose a trade.

### MarketAlertDetector
One market. `Insert` puts trades into the ledger in any order and at any time,
`Process` reads them in that order, `Timer` fires any due timer, oldest first, at
any time later. Prices and thresholds are scaled so that four levels exist.
`verdict` records the level of each judged minute. `spoiled` records minutes
whose trades came too late, were skipped as backfill or were overtaken in the
first minute; `lagged` records minutes judged after their reference slot was
reused. Both limit the claim `VerdictExact`; the run `detector_silence` drops
`lagged` and shows what it hides.

### VirtualLedger
One symbol. `log` is the exchange's sequence of reports, an execution id is its
index. `OnEvent(i, n, again)` delivers a report, of whose statements the first
`n` commit, and may leave it to come again. `amend_then_cancel` takes one step
per sleep (`Amend`, `Cancel`, `Abandon`). `Disconnect(clean)` distinguishes the
close that leaves `ws` set (`dead`): `run` never reconnects from it. Nor does it
from `deaf`, the connection whose logon or subscription was not answered
(`Connects`): orders are placed and no event of them arrives. `check_reset`
is split where it awaits an answer: `MissOpen`, `MissFilled` or `ProbeEnds`, then
`ApplyReset`, or `FailReset(n)` when one of its two deletions fails and the
exception ends the process. Meanwhile the main loop places no orders and does not
reconnect, but events arrive and tasks wake up. The history `harmed` names the orders a
fault has hit: an answer lost, a cancellation failed, the events lost or late, a
row deleted with its generation.

### HealthCheck, Watchdog, AlertPath
A tick is a run of the DAG (ten minutes). Rows of `alert_events` carry their age,
and rows older than any query looks at are dropped. `RunChecks` is the sixteen
checks with `check_kafka_connect`'s restart, `Evaluate`, `Post`, `Record` are
`_evaluate_health` cut where it calls outside, `Escalate` and `Stamp` are
`escalate_persistent`; each call may fail, the worker may be killed at any of
these points and the task then starts again. `AlertTable` is the table from a
check's result to the names it raises. `trail` and `calm` are history, read by
properties only: since when a name is unhealthy, when it was sent, how long ago
the last fault hit the alert table. `Watchdog` is `judge`, `should_send` and the
state file. `AlertPath` adds the clock, the heartbeat and the changes of the
world, and `heard`: has Slack taken a message about what is worst now? `Worst` is
the cause an operator would have to be told of first - the host, the store, the
trades -, and `About`, `AboutRaised` and `AboutLevel` say which cause a message
is about: an all-clear is about none, nor are the names of other checks.

### StreamJob, Reprocess
One partition; a position is the number of messages read. `Parse` says of each
sort of message what the parser of each job does with it. `Consume` reads a
message into the sinks and, for the order book, into its minute; `Advance` emits
the watermark; `Flush(s)` and `FlushFails` are a sink's batch, with or without
effect; `Checkpoint(commits)` saves offset and windows, after which the job may
die before the group's offset is committed; `Restart` goes on from the checkpoint
or, without one, from the committed offset or the job's own default; after
`MaxRestarts` only `Resubmit` helps, without state. `Withdraw` is the savepoint of
`flink-cdc-redeploy.sh`, after which `Deploy` starts the new build or `GiveUp` exits
and leaves the job gone. The minutes are a bag, because `orderbook_1m` keeps what
is inserted twice. `Reprocess` is the script:
`Begin` takes its snapshot and marks the time, `Finish` and `Trouble` are its
bounded job, `Judge` its verdict, which looks at the table only. `past` is
history: what a start skipped, what was in time, whether window state was lost.

### OrderbookCollector, LedgerMirror
The collector's frames are counted; `Enqueue`, `Refuse`, `RefuseTwice` are the
three ways `produce` and its nested retry can end, `Delivered` the report. The
mirror reads create, update and delete events; `Replace` is the merge by version
(a tombstone carries its row's version plus one), `Rewind` any repeated delivery.

### The parts of Operations
`BackupChain`: a directory is a name; that it is incomplete (`whole`) shows only
when something is restored from it or built upon it, as in the code. `DailyRuns`:
both DAGs over one scheduler (`Succeed`, `Fail`, `Bar`) with the dependencies of
the files, `Repair` changes the data under a run, `Send` lets Slack take or swallow
each post (`muted`). `Notifiers`: two rules, one cycle of lookup, post and record;
a row may appear when its event has any age (`GoesWrong`), the next run may come
after a pause (`Period`), and `runs` counts, as history, the runs a row was in the
window of. `LabelPoller`: snapshot, insert,
state file, a failure between any two. `PartitionSwap`: the phases of the script,
`Produce` and `Cleanup` at any time between them; `live` says which table has the
name, and each statement may fail without the script noticing (`undone`). Two facts about its surroundings
are assumed there: between two statements of the script come fewer rows than
`Gap` (100000; the script renames a moment after it has set the AUTO_INCREMENT), and the retention, which goes by `created_at`, never takes the
newest row. `TableOnboarding`: the steps of
the script against the application's writes, connector and view.

## 3. Runs

`alert_path` and `alert_escalation` check for deadlock: the clock never stops. The
others do not: the exchange, the topic or the calendar ends at a bound and
everything else then comes to rest, which is the normal end of a bounded history.

| Run | Bounds | Shows |
|---|---|---|
| `depth_book` | 2 levels, 1 quantity, 3 updates, 1 lost, 1 restart, queue of 1 | types, `BookExact`, `RowExact`, `ForwardWhileSynced`, implementation of `BookMirror`, `CatchesUp` under `FairSpec` |
| `depth_desync` | the same with a queue of 2 | violation of `SnapshotEndsDesync` |
| `trade_ingest` | 5 trades, reordering 2 with a margin of 1, 3 faults | types, `EveryTradeAccounted`, `OutageCostsStragglersOnly`, `EverythingLands` |
| `trade_restart` | 4 trades, 2 faults | violation of `CleanRestartLosesNothing` |
| `alert_detector` | 6 minutes, ring of 4, lookback 2, chain of 2, 3 trades | types, `VerdictExact`, `JudgedOnce`, `SilenceIsJudged` |
| `detector_silence` | the same | violation of `SilentMinutesJudgedAlike` |
| `ledger` | 2 orders, 3 events and a cancellation each, 1 reset, 2 faults | types, `RowIsOneReport`, `FillsHaveOrders`, `RowNeverBack`, `MakersAreCanceled` |
| `ledger_reset` | 3 orders, 4 events, 1 reset | violation of `OnlyOldGenerationDeleted` |
| `alert_path` | 3 checks, an hour of 2 ticks, escalation after 1, window 4, 1 fault, 2 changes of the world | types, `SentHourly`, `EscalatedInTime`, `ClearedOnce`, `OutageHeard`, `GhostEnds` |
| `alert_escalation` | 1 check, window 24, no fault, 3 changes | violation of `EscalatedOnce` |
| `data_path` | 3 kinds of job, 3 messages, batches of 2, 1 retry, 1 restart, 2 faults, trades up to 2 late, a window of the first trade with a margin of 1; collector: 2 markets, queue of 1, 3 frames, 3 troubles; mirror: 2 orders, 5 events, 1 rewind | types, `NothingSkipped`, `MinuteExact`, `MinuteComplete`, `ReprocessRepairs`, `NoSilentLoss`, `MirrorMatches`, `MessagesLand`, `NewMarketHeard` |
| `operations` | backup: full every 2 of 7 days, 2 kept, 3 mishaps; verdicts: 2 coins, 2 slips; notifiers: 2 keys, 4 stops; poller: 2 markets, 3 moves, 2 breaks; swap: 3 trades, 1 removed; onboarding: 1 key, 5 writes, 1 abort | `PointKept`, `DayJudged`, `NotifiedOnce`, `LabelsCurrent`, `SwapLosesNothing`, `OnboardedMirrors` |

*Why the bounds are enough.* Depth: a snapshot lists one of two levels, so truncation,
phantom levels and levels learnt from diffs occur; one lost id and one restart
suffice for a gap and a replay, three updates for a frame of several ids behind
a stale snapshot. `QueueCap` limits only the distance between checkpoints.
Ingest: `Reorder > Margin` is the measured situation (4.8 s against 2 s), three
faults allow a failed flush inside an outage inside a restart, and `StartupMax`
can be exceeded. Detector: the ring wraps (6 minutes, 4 slots), the chain ends
before the clock does, and a new trade can come after it; trades are few because
only two closes matter to a verdict. Ledger: an order can be filled twice,
amended and canceled with the reset between, and two faults can meet, such as a
failed statement and a crash, or a half-applied reset and a disconnection. Alert
path: two critical names that fail together and one that is not critical; the
window is two hours, so an incident begins, is repeated, escalated and cleared
within it and its rows leave it; two changes are an outage and its end, or two
outages at once. Data path: a batch is full or not, a retry is used up, the
restarts are used up and somebody resubmits; three messages are one in the
reprocessed window, one within its margin and one behind both, and a trade of the
window may be any of them, or two snapshots of a minute and one that closes it; three troubles of the collector are a full queue, a lost
connection and a short answer in one history.
Operations: three mishaps are one more than the retry of one task, so that a
task fails for good and another fails beside it; seven days are three full
backups and the day on which the first is freed; the notifiers' window is missed
if two runs fail twice, if the row comes too late or if the pause is too long; a trade of either day falls before and after each
phase of the swap; a key is inserted, deleted, inserted again and updated around
its snapshot. The theorems about the proved modules have no bounds.

*Fairness.* Depth: the snapshot loop never ends and some of its publications
succeed (strong fairness of `PublishSnapshot`, because failures can interrupt
it); Flink processes, checkpoints and fires timers. Ingest: the receive loop
receives, flushes and reconnects, tasks run to their end, the container has
`restart: unless-stopped`. No fairness makes a disconnection, a failure or a
trade happen. Detector: `WF(Run)`, that is, time, the source and the timers do
not all stop; the order among them is open, because a finite history leaves
none of them for ever enabled and neglected. Ledger: events arrive, tasks wake
up, the loop reconnects unless `dead`, `check_reset` runs; nothing makes the
exchange fill an order, and nothing ends `deaf` but a disconnection. Alert path: `WF(Step)`, that is, Airflow and cron go on;
the faults are finite, the world owes nothing - it may stay broken for ever, and
`OutageHeard` then demands a message. Data path: `WF(Step)`, the jobs, the
collector and the Kafka engine go on (containers restart, the collector's loop
never ends); nobody must resubmit a job that used up its restarts or that a
redeployment left stopped. `Operations`
states no fairness: its properties are about what a run leaves behind.

### Disagreements between the code and its own words
- *A snapshot does not always end a desync* (`depth_desync`). Frames dropped
  while the REST answer is on its way leave a hole behind the snapshot.
- *A clean restart can lose trades* (`trade_restart`). SIGTERM during a gap fill
  flushes rows newer than the hole; the startup fill begins after them.
- *Silent minutes are not always judged alike* (`detector_silence`). After a
  silence longer than the timer chain the reference slot has been reused.
- *A reset deletes more than the old generation* (`ledger_reset`). Orders placed
  before the reset is noticed carry the old epoch.
- *An incident can be escalated more than once* (`alert_escalation`). When the
  window still holds rows from before an all-clear, the newest alert is taken for
  the beginning of the next incident; a lasting problem is alerted anew every
  hour, so its beginning moves on and it is escalated again each time.

Each is quoted with its lines under `findings` in `PROJECT.json`.

### What the properties excuse
A property names what the code does not promise instead of leaving it out of the
model. `EveryTradeAccounted` excuses what a named step gives up, the skipped startup
fill among them; `SentHourly` excuses an hour after a fault of the alert table;
`NothingSkipped` what was in the topic at a start with neither checkpoint nor
committed offset; `MessagesLand` a job that used up its restarts or was stopped by a
redeployment that did not go on; `MinuteExact` a second row of a minute after a
restart, and one more copy for every insert that took effect and was retried
(`orderbook_1m` is a plain MergeTree); `ReprocessRepairs` a trade of the window that
came later than the margin, of which the script says `short`; `NoSilentLoss` one frame per reconnection
that a nested `produce` raised; `MirrorMatches` and `OnboardedMirrors` a row
inserted again below its tombstone; `PointKept` a remote that lacks as
many full backups as it keeps; `DayJudged` a day without any trade, and one whose
report or alarm Slack swallowed: the task that sent it is green; `NotifiedOnce` an
alert that was in the window of no run, or only of runs that stopped;
`LabelsCurrent` a market whose row was written by a run that could not write its
file, and after a torn file every market then alive; `SwapLosesNothing` the silent
failure of a statement that is `Needed` - a copy, the numbering, the delta, the
copy back -, a trade of a past day that a deletion hides from `verify`, and what
comes between the two statements of a rollback; `GhostEnds` a host or a store that is down. Each is a
behaviour the code really has; a reader who minds one of them has found a change
to make.

## 4. Proofs

TLAPS checks these for every value of the constants that the named assumptions
allow (`DepthAssumption`: naturals and positive quantities; `LedgerAssumption`:
naturals; `DetectorAssumption`: a lookback shorter than the ring, positive prices;
`RunsAssumption`: finitely many coins, percentages; and so on). Those about `TradeIngest` assume more:
`Margin # 0` (see below).

**`DepthBookProofs`.** `Invariance` proves the inductive invariant

    IInv == TypeOK /\ QueueOK /\ NotAhead /\ BookExact

`BookExact` alone is not inductive: applying a message keeps the book exact only
if the message is true. `QueueOK` says that each message still in the topic
quotes the exchange's book at its last id, that a snapshot is empty where it
covers and does not list a level, and that what a diff does not list has not
changed since the id before its first. `NotAhead` says that neither the live nor
the checkpointed state names a version the exchange has not reached, so that a
new update makes nothing false. `TypeCorrect`, `BookIsExact` and `NeverBack`
follow. `Refinement` proves `ImplementsMirror`: an applied message is `Show`, a
break in the sequence is `Hide`, a restart is `Rewind` because the checkpointed
state is exact too, and the rest stutters. `RowsAreExact` proves `RowExact`: a book
that is right where it is known and empty elsewhere has the true best levels as
soon as these are known (`SameBest`), because the first level that counts in the
true book only would itself be among the best.

**`VirtualLedgerProofs`.** `LedgerInvariance` proves

    IInv == TypeOK /\ LogGood(log, DOMAIN placed) /\ RowIsOneReport /\ FillsHaveOrders

`LogGood` is the fact about the exchange: every order has been reported and
nothing follows its final report. The actions keep it because they report only on
orders whose last report is not final; that the last report exists (`MaxInSet` of
`Maxima`) rests on the well-foundedness of the naturals. `RowsGoForward` proves
`RowNeverBack` from it: a row is a report, so a newer report of a finished order
would follow its final one. `FillsKeepOrders` holds because rows are committed
before fills and deleted after them. `RowsAreReports` and `LedgerTypeCorrect`
follow. The proofs cover a step's failure after any of its statements.

**`TradeIngestProofs`.** The inductive invariant is

    IInv == TypeOK /\ Shape /\ EveryTradeAccounted /\ Overdue

`Shape` ties the parts of the producer together: nothing in memory while it is
down, windows only of what has happened. `EveryTradeAccounted` is not inductive: a crash
turns what the next reconnection would have asked for (everything since
`last_event_ms` less the margin) into what the startup fill asks for (everything
since the newest row less the margin). `Overdue` says that this loses nothing
more than it names: a trade nobody has yet, which a reconnection would ask for,
is younger than the newest row and than whatever rows the running tasks may still
insert, less the margin. The end of a startup fill, now plus the margin, is
exclusive, hence `Margin # 0`; the code's is 2 s. `IngestTypeCorrect`,
`TradesAccounted` and `OutageBound` follow, for all batch sizes, reorderings and
sequences of faults.

**`DataPathProofs`, the stream jobs.** `JobsSkipNothing` proves `NothingSkipped` of `DataPath`, thus
with the reprocessing beside the job. A restart forgets what the sinks hold, so
the invariant `SJInv` says of a checkpointed or committed position more than of
the current one: what is behind it is stored or dead, and not merely held.

`MinutesAreExact` and `MinutesAreComplete` prove `MinuteExact` and
`MinuteComplete` from `SJInv` and `MXInv`. `Sums` says what an accumulator is in
terms of the snapshots it names: the earliest of the first time is its open, the
latest of the last time its close. `AddSums` shows that `Add` keeps this because
snapshots are read in the order of the topic (`Windows`: a window names only what
was read), and `SumsAreReference` that it makes a row equal to `Reference`.
`Single` adds that a row's minute is behind the watermark and an open window's is
not, `Complete` that the windows of a checkpoint and the rows stored at it hold
what was in time up to its offset. `CopiesOK` counts: a row on its way is in the
table at most as often as batches of it took effect and came back as failed
(`past.again`). The second needs that a running job is never
behind its checkpoint.

`ReprocessingRepairs` proves `ReprocessRepairs` from `Repairing`: from its submission
on the second job has the window and its margin in the topic behind it, so that
what the property asks for - a message of the trade within reach - was there to be
read, the snapshot taken before says no more than that, and the stores only grow
(`Grows`). How late a trade may be plays no part; a trade that came later than the
margin is outside what is read, and the property says that the script's `short`
means such a one.

**`DataPathProofs`, mirror and collector.** `MirrorAgrees` proves `MirrorMatches`. `LMInv` says that the
topic tells the whole story (of each row its last version, of each grave its
deletion, nothing above either) and that the mirror holds, of what it has ever
read, the row of highest version; repeated delivery changes neither.
`CollectorLosesNothing` proves `NoSilentLoss` from a balance of counters. It and
`OCTypeOK` are the whole of `OCInv`.

**`DataPathProofs`, the types.** `DataPathTypeCorrect` proves `TypeOK` from `TInv`,
beside `SJInv`, `MXInv`, `OCInv` and `LMInv`. What `TInv` adds: a job that is down
has a restart left (`JobOK`); a message's key is no greater than the length of the
topic, copies and defaults included (`StoresOK`); minutes are naturals, so that a
watermark that begins anew at 0 has passed none of those a checkpoint restores
(`WindowsOpen`, with `EndIsPositive`); and the second job reads only what is in the
topic, `Stop <= Len(topic)` from its submission on (`ScriptOK`).

**`MarketAlertProofs`.** `VerdictsStand` proves `JudgedOnce` from

    IInv == TypeOK /\ Shape

A pass of `onTimer` judges only minutes later than `evaluatedMinute`; what remains
to show is that none of those has a verdict yet, and that the first pass, which
has no such minute to start from, finds nothing judged. `Shape` says so: no verdict
later than `evaluatedMinute`, and before the first trade neither a timer nor a
judged minute. `DetectorTypeCorrect` follows the ring through forward filling
over gaps longer than itself.

`VerdictsAreExact` proves `VerdictExact` from `RingInv`. The exchange's close of a
minute is put as a trade, `CloseTrade`: the last one of the last minute with
trades. `Held` says that each of the last RING slots has the price of that trade,
if all trades of its minute were taken (`Whole`). To keep it when one more trade is
taken, `Cur` and `Prev` say what the two minutes that can still change hold and
which `sequential_id` the operator remembers of them, none included; `Due` says that
a trade still to come for a closed minute has spoiled it, and `Ahead` that a trade
that was taken did not lie behind the last minute, so that a silent minute may take
its close. That slots of different minutes differ is `SlotsDiffer`, on the
remainder.

**`OperationsProofs`.** `LabelsAreCurrent` proves `LabelsCurrent`. `LBInv` says
between which steps the table agrees with the state file and from which on it
agrees with what the run saw; `RowsComplete` is the bridge: the rows of a run are
the difference of the two. `DaysAreJudged` proves `DayJudged`. `DRInv` says of
every task that ran or was barred what its upstream must have been (`Ordered`,
from the trigger rules), and that what an open gate has read stands
(`DailyInv`, `ReconcileInv`), so that a day repaired under the run changes no
verdict. What was handed to Slack is what was `posted` or `muted` (`Tried`, `SentIsTried`).

`AlertsAreNotified` proves `NotifiedOnce`. `NTInv` counts: a key was posted once
more than it was forgotten only if the table has it or the run is about to enter
it (`Counted`), and a row that is untold has cost its stops for every run it was in
the window of (`MarketWatched`, `QualityWatched`, by rule and by where the current
run is), however it came to be there and whatever runs were left out. `SwapIsLossless` proves `SwapLosesNothing`. An INSERT IGNORE
loses a row whose id is taken, so `SWInv` says where ids come from: until the
rename an id stands for one row in both tables; from then on rows of the new
table below `oldmax + Gap` are copies and all others are newer (`Low`,
`RenamedInv`), hence copying back meets no taken id; `CopiesInv` and `CoveredInv` carry
what the last copy missed. Each conjunct holds while the statements it rests on
were carried out, and a statement carried out again takes it up anew. `OnboardedTablesMirror` proves `OnboardedMirrors`: `OBInv`
says that topic and snapshot name only versions their keys have had, a deletion
one that is buried (`Truthful`), that the snapshot is not asked for before the
connector has the table (`Included`), that from then on the version of each row is
in the topic, among the rows read or among the keys to be read (`Scanned`), and
that the target is the event of highest rank the view has read (`Highest`).

`NewestPointKept` proves `PointKept`, an action property. `BKInv` rests on one fact
about full backups, `NotPast`: nothing made since a full backup is built upon
anything older. Hence a restore point at least as new as the newest full backup
needs that backup and nothing before it, and all that `Retain` and `Prune` take
is older (`OutdatedIsOld`). `Leads` says that this backup stays in the staging
directory, `Founded` that an increment was built upon a complete one, so that
after a backup that counts as done the leading one is complete. `Copies` says that
a name means the same chain on both sides and that no remote copy is better than
the local one: `rsync` may replace, but not spoil. For the remote alone
(`FreeKeepsRemote`) the full backups newer than the newest point's are all among
`Missing`, by `NotPast` again, so if these are fewer than what is kept, the one
the point needs is among the last `KeepFulls`.

**`AlertPathProofs`.** `AlertPathTypeCorrect`, `EscalationInTime`, `NamesSentHourly`
and `ClearsAnswerEscalations` prove the safety properties of the alert path from
`AInv`. Its parts say what table, run and history know of each other. `SentRows`:
what was sent since the last fault of the table has its row, or the run is about to
write it; with the last conjunct of `TypeOK`, its converse, `NamesSentHourly`
follows. `Incidents` is about incidents the table knew nothing of and nothing has
disturbed: the oldest row is as old as the incident, which makes it the `Start` of
`escalate_persistent` because there is no all-clear (`StartIs`), and the name has
been escalated if and only if it is old enough (`Due`). It needs that a run knows
every name that is unhealthy (`Named`) and that a dead host runs nothing (`Firm`):
a tick either finds a finished run or interrupts what is under way. `Openness` says
that of the rows written since the last fault the newest tells whether an escalation
is open, except between the message and its row. For that, an escalation and an
all-clear of one name never have the same age (`Distinct`): a run that has not
stamped has no row of its own tick (`Unstamped`). A step that fails resets `calm` and
interrupts the incidents, which is all that `Disturbed` has to show.

**Model-checked only.** Every invariant and every action property of a passing run is
a theorem. Liveness (`CatchesUp`,
`EverythingLands`, `SilenceIsJudged`, `MakersAreCanceled`, `OutageHeard`,
`GhostEnds`, `MessagesLand`, `NewMarketHeard`) stays with TLC: the prover handles
neither fairness nor ENABLED. Induction theorems that take an operator as a
parameter are out of its reach too; where a least counterexample is needed, the
proofs cite `WFMin`, which takes a set. No module uses a RECURSIVE operator.

## 5. What the models leave out

- *Depth*: refresh of the symbol list, the one-minute window over emitted rows,
  trade mode, the second side of the book (same code).
- *Ingest*: `refresh_markets` (a new subscription on the same connection), the
  lineage rows of `record_repair`, markets other than as the order of arrival.
- *Detector*: severities and texts of alerts, the other rules; prices are small
  numbers and the thresholds 50, 100 and 200 percent of them.
- *Ledger*: prices and sides, the daily cap, position snapshots and the hourly
  reconciliation, which reads only. EXPIRED and REJECTED are final like CANCELED.
  Between a reset and its detection the trader may place orders; that a *filled*
  one hides the reset for good is listed as a hazard and has no property.
- *Mirror*: the tables without a version (events, snapshots) and the views.
- *Alert path*: thresholds and texts of a check are its outcomes. `CRITICAL_NAMES`
  lists "Kafka Health" and "Producer Activity", which no check raises, so that
  "Kafka/Pipeline" is never escalated; the model has the list as it is.
  `send_health_alert` shows the first ten names only; the model counts the
  message, not its lines.
- *Stream jobs*: several partitions (keys do not cross them), Kafka's retention. Of
  a snapshot in `orderbook_raw` the model says whether it is there, not how often.
  An abort of `reprocess-day.sh` between its DETACH (line 67) and ATTACH (line 85)
  leaves the view of latency statistics detached; that view is not modelled. Its
  verdict ignores the state of the job, which the model shows as it is.
- *Backup*: retention of the Parquet files, which does not touch the chain; the
  restore rehearsal, whose restore gives the definition of a restorable backup.
- *DAGs*: the SQL of dbt and of the rules; `weekly_digest`, which reads and posts.
- *Label pollers*: the events poller (the same with fewer steps) and the notices
  poller, which pages back until it meets what it knows (line 107).
- *Partition swap*: the unique keys of the new table include the instant of a trade;
  the model takes rows of one id for rows of one instant, which is the worse case.
  That the script itself dies between two statements is the end of a behaviour; a
  swap is begun again only after a RENAME that failed.
- *Onboarding*: `--remove` and `--dml-check`; tables without a version column, whose
  ranking goes by the time of the source. A rerun that line 186 refuses never comes
  to the last check, so the property is silent about it.

## 6. Plan

What remains, most useful first:

1. `VirtualLedger`: a property that a reset is noticed, with the case in which a
   fill after the reset hides it.
2. The composition of `VirtualLedger` with `LedgerMirror` through the binlog instead
   of the mirror's own copy of the rows.
