# Formal model of onchainradar

TLA+ specifications of the parts of onchainradar (`ocr`) in which several
goroutines, processes or services act on the same state, and of the arithmetic
its decisions rest on; the TLC runs that check them on small instances; and
TLAPS proofs for every value of their constants. Paths are relative to the
repository; every definition's source lines are in `PROJECT.json` under `map`.

## 1. The system

`ocr supervisor` (`cmd/ocr/main.go:469`) is one Go process whose stages run as
goroutines and share nothing but Postgres, one wallet and a few clients. The
same work can be started as one-shot commands (`backfill`, `aggregate`,
`detect`, `enrich`, `attest-pending`, `outcomes`, `discover`, `poolmeta`), each a
process of its own beside the supervisor. `restart: always` brings a dead
supervisor back; all that survives is Postgres, the chain and Telegram.

| Component | State | Operations | Interacts with |
|---|---|---|---|
| collector `internal/chain` | cursor, raw_logs | `RunOnce`, `Run`, `Backfill` | RPC node; aggregator through raw_logs; watchdog through the cursor |
| aggregator `internal/aggregate` | buckets, raw_logs | `RunOnce`, `Run`, `pruneRawLogs`, `DecodeSwap` | collector; detectors and grading through buckets |
| detectors `internal/detect` | signals, large_swaps | six `ScanOnce` one after the other, `Replay` | buckets, raw_logs; hand their signals to the hot path; a one-shot process beside the loop |
| hot path `processSignal` | signals, an alert | attest, persist, status, dispatch, message id | wallet, delivery; recovery and enrich through signals |
| recovery `attestPendingOnce` | signals | loop and command | wallet; hot path through signals |
| enrich `enrichOne` | signals, the alert | note, status, edit | LLM, delivery; hot path through signals |
| delivery `internal/deliver` | a request under way, the channel | `Dispatch`, `EditSignal`, `Telegram.call` | Telegram; called by hot path, enrich and watchdog |
| wallet `internal/attest` | mutex, local nonce | `Send`, `Attest`, `AttestOutcome` | RPC node; all attesting stages of all processes |
| outcome grading `internal/outcome` | signal_outcomes | `Measure`, `ScoreOutcome`, `AttestPending` | buckets, wallet |
| live feed `internal/api`, `web/src/lib/sse.ts` | hub, channels, tail cursor | `subscribe`, `Broadcast`, `Close`, `handleLive`, `runLiveTail`, `Serve` | signals; dashboards |
| rate limiter `internal/api/ratelimit.go` | a bucket per client | `allow`, `evictIdle` | every request under `/api/` |
| watchdog `watchdogLoop` | last cursor, last alert | a check per tick | cursor, delivery |
| registry `seedPools`, `internal/discover`, `poolmeta` | pools | upserts | listing service, chain; collector through pools |
| pool statistics, `internal/marketdata` | pool_stats | a snapshot per pass | chain, pools, buckets |
| REST API, texts and cards, decoders, configuration, contracts, dashboard | none that lasts | | see section 7 |

### What is hard about it

* **Snapshots.** Recovery, enrich, grading, `discover` and `poolmeta` read rows
  once and then work through them for minutes, with RPCs and LLM calls in
  between, while others change the same rows (`main.go:1256`, `main.go:1068`,
  `outcome.go:627`, `main.go:1601`).
* **Effects outside Postgres.** A broadcast transaction or a sent message
  cannot be rolled back, its answer may be lost, and the record of it is a
  separate write that may fail or never happen (`main.go:924`, `telegram.go:321`).
* **One account, many senders.** The nonce is read from a node that lags, by
  goroutines that share a mutex and by processes that do not.
* **Cursors.** The collector's cursor is a promise about raw_logs; the
  aggregator has no cursor but starts at the last bucket it wrote; the live tail,
  each dashboard and the watchdog have one each.
* **Clocks.** The rate limiter and the watchdog judge by a clock that is read
  before, or after, the state it is compared with.
* **Limits.** Row caps, batch limits, pruning, bounded channels, drain
  timeouts, cooldowns: each decides what is dropped or postponed.
* **Numbers.** Four event layouts, medians of few values, renormalised weights,
  prices derived along chains of pools.

What makes the components correct is stated in section 4, next to the run that
checks it; `hazards` in `PROJECT.json` lists the places where it could go wrong,
with the property that would catch it or the reason why none does.

## 2. Modules

| Module | Models | Lives with |
|---|---|---|
| `NonceManager` | `nonce.go` and the send closures of both attestors, mempool and chain around them | `MCNonceManager`, `SupervisorProofs` |
| `SignalPipeline` | hot path, recovery loop and command, enrich stage on the signals table | `SignalPipelineProofs` |
| `Delivery` | `Dispatch`, `EditSignal`, Telegram's client with its retries, a Telegram that may be late | `DeliveryProofs` |
| `Collector` | `RunOnce`, `Run`, `Backfill`, the chain | |
| `Aggregator` | sweeps and pruning, over a raw_logs and a clock it is given | |
| `Ingest` | `Collector` extended, `Aggregator` instantiated: raw_logs shared, the newest block is the time | `MCIngest`, `IngestProofs` |
| `LiveStream` | hub, handlers, tail, shutdown, dashboards | `ServerProofs` |
| `Detectors` | the six scans of `detectLoop` and of `detect -once` | `MCDetectors`, `DetectorsProofs` |
| `Outcome` | measuring and attesting report cards, loop and command | `OutcomeProofs` |
| `TokenBucket` | what a rate limiter promises (abstract) | |
| `RateLimiter` | `allow`, the janitor, the map under its mutex | `ServerProofs` |
| `Watchdog` | the loop, the check, the throttle; a collector and backfills as the cursor sees them | `SupervisorProofs` |
| `MarketData` | a pool's figures and prices derived over pools, as operators | |
| `PoolRegistry` | `MarketData` extended: supervisor, `discover`, `poolmeta`, operator and statistics stage on one pools table | `MCPoolRegistry`, `MarketProofs` |
| `SwapDecoding` | `DecodeSwap` and the sums of a bucket, as operators | |
| `FlowScoring` | median, deviation, z-score, the flow detector's and `Replay`'s choice, as operators | |
| `OutcomeScore` | `FlowScoring` extended: `ScoreOutcome`, as operators | |
| `FlowHistory` | the three together over the history of a pool | `MCFlowHistory`, `MarketProofs` |

Three modules put components together: `Ingest` (collector, aggregator),
`PoolRegistry` (registry, market data) and `FlowHistory` (decoding, detection,
grading). One abstract specification is refined: `RateLimiter` implements
`TokenBucket`. `Delivery` opens a step that `SignalPipeline` takes whole: its
outcomes *sent*, *failed* and *sent without the stage knowing* are the ends of a
run of `Delivery`. The two flow modules decide what `Detectors` and `Outcome`
take as given (which bucket is an outlier, which card is made).

State corresponds to code as follows. A Postgres table is a function or a set
(`rows`, `raw`, `buckets`, `outcomes`), each SQL statement one step. A stage is a
record with a `pc` and the locals that live across a blocking call; one step of
the model is the code between two calls that can block or fail. A crash resets
those records and nothing else. Faults are nondeterministic steps guarded by a
kind (`Failing`) and, when they destroy information, counted in `faults` up to
`MaxFaults`. Names are the source's; `hot`, `recovery`, `enrich`, `grader`,
`worker`, `agg` are the stages. Variables marked *history* are read by no guard
of an action; they let properties name the exceptions they make. A definition
whose comment starts with *Fault* belongs to no specification: it is what an
operator would be with a plausible bug in it, and shows that a property would
notice.

**NonceManager.** `mgr[p]` is the struct of process `p`, `mu[p]` its mutex.
`Call`, `Lock`, `PendingReturns`/`PendingFails`, `Prepared`/`PrepareFails`,
`BroadcastAcked`/`BroadcastFails`/`AnswerLost` are the steps of `Send` with the
closure inside. `PendingViews` is what a lagging node may answer: the account
nonce plus any prefix of the contiguous mempool. `Evict` loses a transaction,
`Restart` a process.

**SignalPipeline.** `onChain[s]` counts broadcasts, so `attestTx = k` means
"the hash of the k-th". `alert[s]` is what the Telegram message shows: whether
it was sent, its proof link and its note. `RecoveryPass` and `EnrichPass` take
the snapshot; the enrich stage keeps the whole row (`seen`) because `enrichOne`
renders the message again from it.

**Delivery.** `stage` is the method being called, `tries` how often, `wire` the
last request or its answer. A request the client has given up on (`late`) may
still arrive. Answers are the classes `call` and `classifyByStatus` tell apart;
*doubtful* ones leave open whether the request was carried out. A call ends after
its attempts, or before them when the backoff's fifteen minutes are over, as after a
long wait that Telegram asked for (`Overdue`).

**Collector, Aggregator, Ingest.** A log is `<<block, pool>>`, at most one per
block and pool, its time the block. A scan is `GetCursor`, `LatestBlock`, then
per chunk `InsertRawLogs`, `AdvanceCursor`; a backfill sets the cursor first.
`origin` and `jumped` are history: where the cursor's promise begins, and what a
start from scratch or a backfill left out by jumping ahead. A sweep is
`StartSweep`, per pool `ReadPool`, per bucket `WriteBucket`. `deleted` and `cut`
are history: pruned rows, and buckets that lost a row before being closed.

**LiveStream.** `handler[h]` is one connection's goroutine: `Subscribe`,
`Seek`, `ReadReplay`, `WriteReplay`, `Stream`, `Unsubscribe`. A channel is a
sequence and a flag `open`. `afterId` is `afterID` and then `lastWritten`.
`skipped` is history: ids that a replay cut short by its limit or a failed read,
or the seed of a tail that starts, leaves to nobody.

**Detectors.** `det[p]` is the scan state of a process: which of the six scans, what
is left of its list, the signals it has inserted (`out`), `firedRefs` (`fired`), and
what it has read and not yet written (`pick`, `into`). `LedgerCandidates` is the
first pass of smart money; `Item` takes one pool, actor or event up to the
statement that writes, `InsertSignal` and `FoldIntoAggregate` are that statement.
A swap is *large* (it enters the ledger) or a *whale* for good; a bucket is an
outlier when it holds a whale; the median price is below the peg when more swaps
are below it than not, and may be when as many are. A unit of time is a detect
interval; time passes within a scan and while the supervisor is down, for as long
as it likes. `at` of an event is the time of its block: `Arrive` stores it now or
later (`Lags`), as far behind as the collector may be. `due` is history: the events
that a scan answers for, stored and in its window when it begins (`Due`). So are
`round`, `by` and `raced` of a signal, `seen` of what is about to be one, and
`dropped`.

**Outcome.** A card is the set of buckets it was made from, each with a flag
that says whether the bucket was complete, which is what decides whether two
measurements give the same hash. `counted` is how far the aggregator is. `late` and
`overlapped` are history: signals graded with the aggregator far behind, and signals
that a pass took to attest while another had them.

**RateLimiter.** Time is counted in ticks, allowance in units of which a token
has `Cost`, so that the code's fractions are whole numbers. A call first reads
the clock (`calls[h].at`), later takes the mutex and decides; the janitor does
the same (`sweep`).

**Watchdog.** `probe` is the read under way, with the history of the value it
found; `due` the ticker's channel of one. `Advance` and `SetBack` are all the
writers of the cursor.

**PoolRegistry, MarketData.** Of a row there are `present`, `enabled` (which
stands for all that an upsert overwrites) and `binStep` (which it does not
clear). `intent` is history: the last word of the file or the operator on a pool;
`overtaken`: that word came while a command held a copy saying otherwise. A price
is an exponent of two, so that products along a chain of pools are sums.

**FlowHistory.** A behaviour is a sequence of swaps; buckets, alarms and cards
are functions of it. Halves and fractions are avoided by carrying twice the
median and scores as numerator and denominator; the code's floats agree up to
rounding. Half a word has `Half` values.

## 3. Runs

`tlc -config X.cfg M`; the longest takes two to three minutes on two cores.

| Run | Instance and bounds | Shows |
|---|---|---|
| `nonce` | 2 processes, 3 senders (hot, recovery, cli; one bounded), 4 sends | freshness, no gap, no wedge, bounded callers return |
| `pipeline` | 1 signal, loop and command, scan 1, batch 1, every failure, 1 fault | truthful rows and alerts; bounded duplicates; healing |
| `ingest` | 1 pool, blocks 0..5, confirmations 1, chunk 2, cold start 2, lookback 3, width 2, row cap 3, retention 2, 1 failure | buckets right, convergence |
| `backfill` | the same chain, loop and backfill command, node up to 1 block behind, 1 failure | raw_logs right up to the cursor |
| `live` | 1 dashboard, 2 handlers, 4 signals, buffer 1, capacity 1, replay 1, tail batch 2, 2 faults of any kind | open iff registered, order, nothing missed, catching up |
| `outcome` | loop and command, buckets 0..6, 2 signals, horizon 2, at least 1 bucket before, batch 1, attest batch 1, 1 fault | reports match, full window, bounded attests, progress |
| `detectors` | loop and command, 2 events, 1 pool, recent window 1, aggregate window 0, cooldowns 2 (1 for an actor), time 1..2, logs stored at once or 2 late, 1 fault, symmetric events | handed on once, cooldowns, suppression, nothing lost |
| `delivery` | 2 attempts per call | copies explained, lost alerts and edits honest |
| `ratelimit` | 1 client, 2 handlers, 1 token per second of 2 ticks, burst 2, idle after 6 ticks, clock read up to 1 tick early, 12 ticks | `RateLimiter` implements `TokenBucket` |
| `watchdog` | threshold 2, re-alert 3, blocks 0..2, reads up to 1 tick, 1 failed read, 14 ticks | alarms mean stalls; stalls are noticed |
| `registry` | 3 pools (curated, a bridge, one with false tokens), 4 tokens, 2 starts, 1 edit, 1 pass, 1 fault | last word kept, bin steps kept, prices right |
| `flow` | every pool type, up to 5 swaps of 2 sizes, 2 per window, gaps 1 and 2, half word 16, baseline 3, warmup 2, cooldown 2, threshold 1, horizon 3 | buckets honest, live and replay agree, grades honest |

Why the bounds are enough. Four sends let two processes and an old counter
conflict twice and leave something pending; a gap needs two nonces. One signal
suffices for the races on a row, which is all its stages share. Six
blocks hold three chunks, three buckets, a cold start that clips and one that
does not; the row cap is larger than a bucket and smaller than two. The
retention of `ingest` cuts inside a bucket. The live run's buffer of one makes
every second event of a burst a drop; the second handler is the reconnect that
overlaps the first. In `outcome`, seven buckets hold two signals that can be
graded, each with a bucket before it, a horizon and the settle margin, and a grader
that comes late; batches of 1 make both limits bite, and let an older signal that
can never be graded stand before one that can. In `detectors`, two events make two
swaps of one actor (what smart money needs), a smart-money signal and a whale on one
swap, or two transfers of one aggregate. The clock makes one step, at any point of
any scan of either process: it ends the cooldown of an actor and the window of an
aggregate and leaves the other cooldowns running, and a log stored
at once is in the window before and after it, by two rounds of the loop and one of
the command; a log stored 2 late is in no window any more, though its block time was
in the one before. Longer windows, clocks and more
events are covered by the proofs. Two attempts in `delivery` are a call that ends at
once or is ended by the backoff, and one with a retry. In
`ratelimit`, twelve ticks fill a bucket, leave it idle and evict it, and two
handlers reach it out of order. Fourteen ticks of `watchdog` hold a stall, its
alarm, a suppressed one, a second alarm and another stall. In `registry`, two
starts put the file over an operator's edit, and three pools make a chain of
prices. Five swaps in `flow` give a baseline, an outlier and something after it.
Deadlock is checked in `nonce`, where it must not happen; the others switch it off
because their bounds let them run out of work.

## 4. Properties

* `NonceFresh`, `NoGap`, `PooledIsMined`, `BoundedReturns` (`NonceManager`):
  `Send`'s claim "can never collide on a nonce", made precise: not within a
  process between two failed broadcasts; with a second process on the key a
  collision is possible (it replaces or is refused) but never a gap, so
  everything pending is mined, unless the mempool loses a transaction (`evicted`). A caller with a deadline returns unless somebody
  without one holds the mutex in a call that hangs.
* `AttestBound`, `StatusTruthful`, `AlertHonest`, `ProofKept`, `EventuallyHealed`
  (`SignalPipeline`): what survives the races on a row. A signal is broadcast at
  most once per attesting party and once more per fault that lost a record; the
  status and the alert never claim what did not happen; no later edit takes a
  proof away; every signal is attested, recorded and noted in the end.
* `BucketsRight`, `Converges` (`Ingest`): a closed bucket is exact, an open one
  never counts too much, and in the end everything is counted. `BucketsRight`
  leaves out buckets that lost a row to pruning before they were closed (`cut`).
  `RawLogsRight` (`Collector`, run `backfill`): up to the cursor and from where its
  promise begins, raw_logs has every log, and below the confirmations only logs
  of the final chain, whoever moved the cursor.
* `OpenIffRegistered`, `InOrder`, `NoneMissed`, `CatchesUp` (`LiveStream`).
* `ReportsMatch`, `FullWindow`, `AttestBound`, `EventuallyRecorded` (`Outcome`):
  what is on chain is the stored card, and a card has the whole window unless the
  aggregator was behind by the settle margin. A card is broadcast once, once more for
  each failure that lost the record of a broadcast, and, where two passes overlapped
  on it, once per grader. A signal that can be graded gets its card and its
  attestation, unless older ones that never can fill every batch.
* `HandedOnce`: a signal reaches the hot path from the scan that inserted it and no
  other, or from none if that scan fails. `Throttled`: a cooldown is a look-up
  before an insert, so it holds within a process and fails between two by a race
  only, of a signal inserted after the look-up (`raced`). `RicherWins`: no whale on a swap that the same round reported as smart
  money. `WhaleNotMissed`, `LoansReported`, `TransfersCounted`: what a scan that goes
  through its items without a failure has done for the events it answers for, those
  stored and in its window when it began, whatever others insert and fold meanwhile.
  An event that no such scan answers for is not promised anything: one stored later
  than the window, or while no scan runs for as long (see below).
* `CopiesExplained`: each copy of an alert beyond the first has a doubtful answer
  behind it. `BothPathsFailed`: an alert is lost only after photo and text have
  both failed or the context is over. `EditReported`: an edit that reports success
  is in the message, and a note that is there without one had a doubtful answer.
* `Limited`: the specification `TokenBucket!Spec`, with the level of a bucket what
  a lazily filled one would hold now (`Worth`). An eviction, a clock read early and
  a bucket filled from it are then forfeits of an allowance, never gains, beyond
  `Delay`.
* `AlarmIsStall`, `StallNoticed`: an alarm means the cursor stood still for longer
  than the threshold unless a backfill had lowered it; a stall is reported within
  the threshold and a slack that is linear in the duration of a read and the number
  of failed ones, and again within the re-alert interval.
* `IntentKept`: what the file or the operator said last of a pool holds unless a
  command's stale copy overtook it. `BinStepKept`: no statement clears a bin step.
  `PricesRight`: every stored price is what the token is worth, and a pass whose
  reads succeed prices every token that a chain of pools reaches.
* `BucketsHonest`: whatever the layout, net flow is what traders got less what they
  paid and volume both together. `ReplayAgrees`: an upward alarm on a filling
  bucket is found by `Replay` when it is complete. `GradeHonest`: more activity in a
  window that has some does not lower a grade, nor, where no direction counts, does a
  further window as busy as the busiest and at least at the baseline (a quieter one
  may, see below); three times the baseline throughout earns a hundred, or ninety where
  the flow that counts as a direction has turned, and nothing is confirmed that stayed
  below its baseline.

### Where code and documentation differ

The properties above are what holds. Where a comment or a document says more,
the models show executions in which the code does otherwise:

* `main.go:913-914` bounds the hot path's attestation to 30 s. The bound does not
  cover the wait for the nonce mutex, which the recovery pass keeps with a context
  without a deadline while a node hangs.
* `SignalAttestor.sol:16-18` says that a signal with an `attest_tx` in Postgres is
  never attested again. Recovery may attest from a snapshot in which the hot path
  had not recorded its own, without any fault: `AttestBound` says how many there
  can be.
* `main.go:1499-1500` ("re-running never double-attests"), `outcome.go:612-613` ("a
  re-run never re-attests") and `OutcomeAttestor.sol:24-26` (the Go attestor "never
  calls attestOutcome() for an outcome that already has an attest_tx") say the same of
  report cards. The loop and an `outcomes` command that overlap list the same rows and
  both attest them, without any fault: the exception `overlapped` of `AttestBound`.
* `outcome.go:454` says that a large backlog drains over several ticks. A signal that
  cannot be graded stays in front of the backlog for good, is read again at every tick,
  and a batch full of such signals starves those behind them: the exception of
  `EventuallyRecorded`.
* `whale.go:37-39` says that swaps older than the window were evaluated on prior ticks,
  and `lending.go`, `lstflow.go` take the window over. It is a window of block times: a
  log that the collector stores later than ten minutes after its block, or that is that
  old when a loop that was down comes back, is in no scan's window. A whale, a loan or a
  transfer of that kind is never looked at. A transfer that another process's fold takes
  out of its aggregate again is lost if no later scan has it in its window.
* `README.md:52` says the note is edited into the alert once enrich completes. A
  row read before the message id was recorded is noted and never edited.
* `lstflow.go:40-42` calls overlapping scans harmless. A transfer folded shortly
  before its aggregate's window ends opens a second aggregate at a later scan.
* `main.go:637-638` promises one signal per swap. At the tick after a smart-money
  signal its actor cools down, no ref is returned, and the swap, if fresh, fires
  as a whale. `main.go:715-718` says the refs are empty when the scan fails; the
  code returns the ones it has.
* `server.go:170` promises a clean drain. With a dashboard connected `Shutdown`
  waits for handlers that wait for the hub, which is closed after it: the drain
  ends by its timeout.
* `aggregate.go:69-70` says that no aggregation can still need a deleted row. A
  quiet pool is aggregated from its last bucket again and again; once rows of that
  bucket are pruned, its stored count goes down.
* `detector.go:258-260` says that the live loop and `Replay` match. Alarms on net
  flow, and downward ones, may rest on a part of a bucket and are not found by
  `Replay`; nor is the first bucket that `ScanOnce` judges, which counts the
  candidate among the `Warmup` buckets. With `BASELINE_BUCKETS=11`, which
  `config.go:331` allows, the live loop fires on twelve buckets and `Replay` never does,
  since it wants a baseline of twelve (`detector.go:380-382`).
* Not a contradiction but easily overlooked: a further bucket with little in it lowers
  the mean of the post window and so may lower the grade (`outcome.go:220-246`). Around
  a median of 2, a post window of one bucket of 4 is graded 89, one of 4 and 1 is graded
  39, where a quiet bucket that is missing from the table altogether costs nothing.
* `outcome.go:469` gives the pre-window as [T-H, T). The query leaves out the
  bucket at T-H (`queries.go:467`), so the window is (T-H, T).
* `main.go:1831-1832` says that a frozen cursor means a real stall. After a
  backfill has set the cursor back, progress below the highest block seen counts
  as none. A stall alert that Telegram refuses counts as sent.
* `poolstats.go:10` says that the dashboard keeps the previous value of a figure
  that could not be read. NULL is stored over it.

### Fairness

Stages are goroutines driven by tickers, so a stage with something to do takes
its next step: weak fairness on the stage as a whole, never on a single outcome
of a call. Where recovery needs a call to succeed at some point, strong fairness
on that call says that the node, the LLM or the lagging head is not broken for
ever: `RecoveryAttest(Loop)` and `EnrichNote` in `SignalPipeline`,
`LatestBlock(Live, head)` in `Ingest`. In `NonceManager`, `Lock` is strongly fair
because Go's mutex hands over to a starving waiter, `Rpc` weakly for the senders
whose context has a deadline only, and `Mine` because blocks are made. In
`LiveStream` the tail and the handlers run, dashboards reconnect for ever (strong
fairness of `Connect`, since a hub at capacity refuses some attempts) and a server
told to stop stops. In `Outcome` time passes, the aggregator runs and the stage is
woken by its ticker; the command may stop anywhere.
Failures and the start of one-shot commands have no fairness. `Delivery`,
`RateLimiter`, `Watchdog`, `PoolRegistry`, `Detectors` and `FlowHistory` have no
liveness property: what must happen there is stated as an invariant over a clock
(`StallNoticed`) or at the end of an operation (`WhaleNotMissed`, `EditReported`).

## 5. Proofs

TLAPS checks eight modules; nothing is assumed but the named ASSUMEs on constants,
which TLC evaluates in the runs. Each proof module states an inductive invariant
`IndInv` (or one per component, where it covers two), a lemma that it holds
initially, lemmas for the steps (one step per action, and one lemma per conjunct
where that is long), the theorem that it holds throughout, and the properties that
follow from it. None of the safety properties below is inductive as it stands, but
for those of the flow, which are about functions of the state.
Every invariant and every action property of a run has its theorem; what has none
are the six liveness properties.

**`SupervisorProofs`, the nonce manager** (any senders, processes, number of sends
and set of bounded senders): `TypeCorrect`, `NoncesFresh`, `GapFree`,
`CounterIsCovered`.

* `HolderInv`: whoever is past `Lock` holds the mutex of its process, so no two
  goroutines are both about to take `next` (lemma `Exclusive`).
* `EpochInv`: what was acknowledged since the counter was last dropped lies below
  the counter; there is no such nonce while the counter is not in use.
* `AssignedInv`: the nonce being sent is not below the counter, and every nonce
  between the account's and it was accepted.
* `CounterCovered`, `NoGap`: every nonce below a counter in use, and below any in
  the mempool, was accepted. Each needs the other: a broadcast keeps the mempool
  free of gaps because the counter was covered; the counter is covered because an
  acknowledged broadcast put its nonce in the pool, and what a node answers to
  `PendingNonceAt` is a prefix of a pool without gaps (`ViewsCovered`).

**`SupervisorProofs`, the watchdog** (any threshold, re-alert interval, delay and
number of failures): `WatchdogTypeCorrect`, `AlarmsAreStalls`, `StallsAreNoticed`.
`AlarmInv`: what the watchdog remembers is behind what a read finds and that behind
the cursor, and where they are level the cursor has not moved in between.
`NoticeInv`: how far away the next check can be (`Begin`) from the moment the cursor
stopped, from the moment it is seen to have stopped, and from the last alarm; a
failed check puts it off by a `Round`.

**`IngestProofs`** (any pools, depths, chunks, widths, caps, retention and faults):
`RawLogsAreRight`, `NoneCountedTwice`, `TypeCorrect`, `BucketsAreRight`.

* `RawInv`, for any number of backfills beside the loop and a node that falls
  back: `FinalInv`, no stored row is of a block that may still be replaced;
  `CoverInv`, each block up to the cursor has all its logs stored or was jumped
  over. For that a scan must have begun at a cursor that was covered (`Begun`) and
  have stored its chunk before it moves the cursor (`ChunkStored`), whoever else
  moves it meanwhile.
* `NoOvercount`, for any number of aggregators at once: a bucket counts at most
  the rows stored for it. What a sweep has summed up and not yet written
  (`PendingReal`) counts rows that were stored, and rows only come.
* `ExactInv`, that a bucket left behind counts every row, holds where the loops run
  alone (`Alone`): no backfill, at most one aggregator, a node that does not fall
  back. A backfill inserts rows into buckets that were closed; a second aggregator
  writes over a bucket what it summed up earlier; a node that falls back during a
  cold start makes the scan begin before rows that are stored. Each of the three
  breaks `BucketsRight`, as TLC shows on the instance of `ingest`. `FrontInv`:
  without them, rows arrive in the order of their blocks, which is what
  `processPool` relies on when it starts at its last bucket. `CutInv`: a row pruned before its bucket was closed is in `cut`.

**`DetectorsProofs`** (any events, pools, wallets, commands, windows, cooldowns and
faults, logs stored however late): `TypeCorrect`, `OnceEach`, `CooldownsHold`,
`RicherAlwaysWins`, `NoLoanMissed`, `NoWhaleMissed`, `NoTransferMissed`.

* `IndInv` is a conjunct for each process and one for each row. `PlaceInv`: where in
  its round a process is, and what its list holds. `OwnInv`, `FiredInv`: the rows of a
  process are of its rounds so far, and the whale scan knows the smart-money rows
  of its round, even if that scan failed after inserting them. `OutInv`: a signal
  on its way to the hot path is nowhere else. `CoolInv`: between the look-up of a
  cooldown and the insert only others insert, and what the look-up saw only grows
  older. `AimInv`,
  `FoldInv`: what is about to be written is of a subject there is and of a row
  there is. `KeyInv`: no two rows have one key. `EventInv`: the ledger and the
  events agree.
* A step is one of six (`StepsAre`); what it leaves alone of the other processes
  and rows is a lemma for all of them (`Touches`, `OthersKeep`).
* That nothing is missed is one invariant for the three kinds of events, `AnswerInv`:
  an event that a scan answers for is still on its list (`ItemOf`), or is what it is
  about to insert or fold (`InHand`), or has left its trace (`Noticed`). It needs no
  condition on windows, cooldowns or faults. A whale may be passed over for another of
  its pool, and the insert meet a row that is there already: that row is of a swap in
  the same window, which is why `WhaleNotMissed` allows for one as old as the window.
  Another process's insert leaves no trace undone; its fold may, and takes the events
  it overwrites out of every `due`.

**`ServerProofs`, the live feed** (any dashboards, handlers, signals, buffer,
capacity and replay limits): `TypeCorrect`, `ChannelsClosedOnce`, `ShownInOrder`,
`NoneIsMissed`.

* `FeedInv`, `PlaceInv` (for `NoneIsMissed`): once a replay has been read, each id
  below the tail's cursor (below what the channel holds, if it is closed) is in the
  replay, shown, waiting in the channel, or in `skipped`; a handler's cursor is the
  last signal its dashboard has shown.
* `UnsubscribedInv`: before `Subscribe` a handler has no open channel; a refusal
  at capacity therefore leaves nothing behind.
* `RowsInv`: the tail's cursor, its poll's end and the table are in this order, and
  a replay has no row the table lacks; so what is broadcast or replayed is an id.
* `ServedInv`: a dashboard's connection is served by the handler it opened, which is
  not idle.
* `WrittenInv`: that handler's `lastWritten` is never behind what the dashboard has
  shown; before its replay is planned, `lastSeen` is exactly that. This is why an
  overlap of replay and stream, or of a reconnect's replay with the previous one,
  shows nothing twice: `Stream` writes only beyond `lastWritten`.

**`ServerProofs`, the rate limiter** (any clients, rates, bursts, idle times and
delays with `FullBucket + 2 * Delay <= IdleTTL`, which the code's constants satisfy):
`LimiterIsBucket`, that each step of `RateLimiter` is one of `TokenBucket` or a
stutter under the mapping `Worth`; `ServedBounded`, that of each client at most the
capacity and what flows in since are served in any window. `TimesInv` bounds how
old a clock reading can be: without it, an eviction could give a client more than
it had, and a request could fill a bucket twice for one time.

**`SignalPipelineProofs`** (any number of signals, recovery commands, batches and
faults): `TypeCorrect`, `StatusIsTruthful`, `AlertsAreHonest`,
`BroadcastsAreBounded`, `ProofsAreKept`.

* `WorkInv`, `UnseenInv`: stages work on inserted rows, rows not inserted are
  untouched.
* `TxInv`, `DoneInv`: every tx in a stage's hand or in the table was broadcast for
  the signal it stands for, and what a stage has done before the step it is at
  shows in the table.
* `ProofInv`: an alert is sent once, its id recorded after that, and its proof link
  after the tx; hence a later edit of a row read with an id has the tx too. The
  order of the hot path's five steps matters here and nowhere else.
* `SpentInv`: the count. A broadcast belongs to the hot path, to a fault, or to one
  recoverer that has *spent* its own. A recoverer's snapshot may be stale, so it is
  not enough to count those that broadcast: once a tx is recorded no new pass takes
  the signal, and every recoverer is past it or still has it ahead of it.

**`DeliveryProofs`** (any number of tries): `CopiesAreExplained`, `NotLostToImage`,
`EditsAreReported`. `CallInv` orders the calls and their tries; `CopiesInv` counts
copies and requests that may still arrive against doubtful answers; `NoteInv` says
where a note can come from.

**`OutcomeProofs`** (any commands, horizon, batches and faults): `TypeCorrect`,
`ReportsAreStored`, `WindowsAreFull`, `BroadcastsAreBounded`. `PassInv`: a grader
works on signals that have matured, and attests rows as the table has them, since
a card is stored once; `CommitInv`: what is committed is the card; `WindowInv`: a
window that has passed gets no more trades, so a card that was full stays full;
`OnceInv`: a signal that no two passes have had at once is in the hands of one at
most, which found no tx recorded, and until that one broadcast it was broadcast for
faults only; `SpentInv`: the count for the others, as in the pipeline.

**`MarketProofs`, the registry** (any pools, restarts, edits and faults):
`TypeCorrect`, `WordsAreKept`, `BinStepsStay`, `PoolsAreConfirmed`. `AgreeInv`: of a
pool that somebody spoke of and no stale copy is about, the table is as was said,
and what the commands are about to write agrees with it. `ConfirmedInv`: what is
proposed was confirmed on the chain.

**`MarketProofs`, the prices** (any pools, tokens and spot prices in a market
without arbitrage, any subset of the pools readable): `PricesAreRight`, `Derived`.
`MarketInv`: a figure with a price has the right one, in the table and in what the
stage is about to write, and a pool that is about to be written has a price exactly
if its token is reached. The work is in `Derived`, that the nested folds of
`DerivePrices` compute a least fixpoint: `PassDoes` says that a pass keeps prices
right, stays inside every set of tokens that is closed under the pools, and gives
both tokens of a pool a price if one had it; hence a pass that does not settle the
pools adds a pool whose tokens both have a price, and one pass more than there are
pools is enough.

**`MarketProofs`, the flow** (any trades, gaps, layout of the Swap event, baseline,
warm-up, threshold, cooldown, horizon and width of a word; `ReplayDoesAgree` for a
baseline at least as long as the warm-up, without which it is false): `FlowInductive`,
`BucketsAreHonest`, `ReplayDoesAgree`, `GradesAreHonest`. The invariant of the
steps, `FlowInv`, only says what may be in the windows; what the properties claim is
about the functions of them, and is proved of every history of that kind.

* Buckets: `DecodedIs` shows for each layout that what a swap is decoded to is what
  went in and out, through two's complement (`SignedIs`) and two amounts in a word
  (`PackedIs`); `BucketSums` adds that up.
* Alarms: `RankedHas` shows that the k-th smallest of a sequence exists, the
  medians and deviations follow. `OutlierGrows`: on a metric that only grows, what is
  above its baseline and an outlier stays one; `BaselineIsLong`: Replay's check on the
  length of the baseline is met after the warm-up; `SameBaseline`: the live loop judges
  the newest bucket by the rows that Replay takes; `ReplayIs`: Replay picks a bucket
  by what it picked before. `HistoriesAgree` compares a window that is still filling
  with the same window when it is complete.
* Grades: a composite grade is the rounded quotient of a weighted sum over the
  product of the denominators. `AnyFirst` shows that a fold over a set by an
  operation that does not mind the order may take any element first, though the
  model takes the one that CHOOSE gives; `GradeOfThree` and `GradeOfFour` are the
  closed forms. `RoundedMonotone` compares two grades with different denominators,
  `MoreThree` and `MoreFour` make the grade grow with its sub-scores, and `FtMore`,
  `PerMore`, `EscMore` make those grow with the activity in a window. For a further
  window as busy as the busiest, `FtFurther`, `PerFurther` and `EscFurther` say that no
  sub-score falls, over other denominators, and `GradeFurther` that the grade does not.

**Folds** (in `MarketProofs`). The library's induction theorems have an operator as
a parameter, which the provers do not instantiate; but `Lowest` follows from the
well-foundedness of inclusion, and from it `Induction`, for a set of numbers up to a
bound. A fold of the community modules is a CHOOSE of a function that satisfies a
recursion over subsets: `FoldExists` and `SetFoldExists` show that there is such a
function when the operation is a function on a set, and then the values after each
prefix of the sequence, or at each subset of the set, obey the recursion step by
step.

The greatest and least elements that batches and windows are taken by (`Min`, `Max`
of the community modules) are CHOOSE expressions; `MinIn`, `MaxIn`, `Least` and
`LastRow` show, from the well-foundedness of inclusion on finite sets, that a
finite set of integers has them.

Only model-checked: the six liveness properties (`PooledIsMined`, `BoundedReturns`,
`EventuallyHealed`, `Converges`, `CatchesUp`, `EventuallyRecorded`), which need
fairness and ENABLED. That a sub-score with floats is the fraction that the model
has, up to rounding, is not claimed by either.

## 6. Hazards

`PROJECT.json` lists forty places where this code could go wrong in a way that a
test would hardly reach, each at its line. Four have no property: two aggregators
that write one bucket in turn, a signal inserted between a client's replay and the
first read of the newest id (with signals of several writers that become visible
out of order), a folded transfer that opens a second aggregate, and the order of drain
and close at shutdown, which is wrong in the code.

## 7. Not modelled

* **REST API, mapping, compression.** They read rows, format them and keep no
  state. The queries behind the lists of the dashboard are not modelled either.
* **Protocol decoders** (lending, liquid staking, factories): fixed offsets of
  words in a log and static tables. What they yield is the input of `Detectors`.
* **Texts, cards, prompts and the LLM's answer**: formatting of one row.
* **Configuration**: read once at start; its limits are the constants here.
* **Contracts**: they emit events; what the Go code needs of them is in the
  environment of `NonceManager` and `SignalPipeline`.
* **Dashboard**: presentation, apart from its subscription.
* **`errgroup`**: that one failing stage ends the others is part of each module's
  crash actions and not a state of its own.
* **Fixed-point formulas** for a spot price and for reserves, block-time
  interpolation, token symbols and logos, display sizes, the hash of a card.
* **One-shot `detect` modes** of one detector, which do of `-once` what they name;
  `-once` of all six is in `Detectors`.
* **One-shot `enrich`.** It writes a fallback note where the LLM has none, sets the
  status to *enriched* without looking at what it was, and never edits the alert: the
  note is on the dashboard only. None of that is in `SignalPipeline`.

## 8. Plan

Done: the nonce manager, the pipeline, ingestion, the live feed, grading, the
detectors, delivery, the rate limiter with its abstract specification, the
watchdog, the registry with market data, the flow arithmetic; proofs of the safety
of all of them. Left, in the order of what they would add:

1. Two aggregators on one table in `Ingest`, and an abstract table of exact counts
   that grows towards the chain, for `Ingest` to refine.
2. Several writers of signals, with ids visible out of order, in `LiveStream`.
3. An abstract attestation register (per signal a set of broadcasts and at most
   one recorded) that `SignalPipeline` and `Outcome` both refine, with proofs that
   build on their `SpentInv`.
