# Memecoin-copytrader: TLA+ models, checks and proofs

This directory models the backend in TLA+: its concurrent core (execution, RPC
budgets, ingestion, the ledger) and the background services around it. TLC
checks the models on small instances, and TLAPS proves every safety property
that the passing runs check for every value of the constants (section 4).
Paths without a prefix are under `src/backend/app/`.

## 1. The system

The backend is a set of processes that share a PostgreSQL database, a Redis
server and a Solana RPC provider:

    Solana websocket -> listener -> Redis streams -> ingest writers -> database
                                                          | PUBLISH events:trades
                                                          v
             analytics, enrichment, evaluation      copytrader worker -> chain
             (periodic jobs over the database)            ^
                                                          | approvals, stop, resume
                                                     API / Telegram (operator)

| Component | State it keeps | Operations | Interacts with | Hard behaviour | Correct when |
|---|---|---|---|---|---|
| Executor `execution/executor.py`, worker `execution/copytrader.py` | `copy_trades`, `copy_positions`, lock keys, our transactions on the chain | evaluate and execute a leader's buy, mirror a sell, approve a pending trade | rails, RPC, Jupiter, database | two processes run `run_approved`; sessions roll back after irreversible steps; unconfirmed broadcasts | one position per token, one broadcast per trade, nothing bought is untracked |
| Safety rails `decision/safety.py` | emergency stop, streak, day's PnL, cooldowns (Redis) | gate, record result, record PnL, trip, clear | executor, operator | read at one time, acted on at another; two-step updates | no start while halted; a streak or loss at the limit stops trading |
| Evaluator and sizing `decision/evaluator.py`, `sizing.py` | `trade_decisions` | score, size, decide | rails, risk engine, vetting, ranking | the size is fixed early | limits still hold when the money is spent |
| Approvals and controls `api/copytrading.py` | none of its own | approve, reject, stop, resume, freeze, unfreeze | executor, rails, RPC | concurrent requests | a trade is executed once |
| RPC client `services/rpc.py` | daily counters, alert marker, freeze key, cached freeze state | call (with retries), acquire a credit, freeze | every worker | shared counters, midnight, failing Redis | spend is bounded, one alert, a freeze drains |
| Listener `ingestion/ws_listener.py` | dedup keys, two streams | receive, claim, add, release | Redis | calls that fail after the claim, or have an effect and no answer; two subscriptions of one transaction | a claim without an entry takes a second failure |
| Ingest writer `ingestion/fetcher.py` | pending entries | read, fetch, persist, publish, ack, requeue, drop, autoclaim | RPC, writer, Redis | crashes between steps, several writers, two lanes | published at most once, settles |
| Parsers `ingestion/parsers/` | none | net a transaction's balance changes into events | writer | fees, tips, rent, several venues in one transaction | the events are the trade |
| Trade ledger `ingestion/writer.py` | `trades`, `positions`, `dex_pools` | insert a trade, fold it into a position | database | two writers, order of folds, row locks, pools seen first by two sessions | each trade is folded once, sessions deadlock over new pools only |
| Risk engine `decision/token_risk.py`, learning `analytics/risk_learning.py` | assessments, weights (database and Redis) | assess, reuse, label, tune | evaluator | stale looks, failing probes, weights anyone may write | a copy rests on a fresh, complete look |
| Vetting `analytics/vetting.py`, `funding.py` | verdicts (database and Redis) | vet, run a cycle | evaluator | the same | a verdict has its row |
| Ranking `decision/ranking.py` | a score per leader (Redis) | record an outcome, factor | executor, evaluator | read-modify-write | no outcome is lost |
| Follow lane `analytics/follow_lane.py`, `api/wallets.py` | followed set (Redis) | publish, nudge, watch | listener | two writers of one key, subscriptions that the node refuses | a tracked wallet is asked for in the end |
| Job loops `services/jobs.py`, workers | none | run cycles for ever | all periodic jobs | failing cycles, teardown | one job's failure stops no other |
| Notifications `services/notifications.py`, `api/ws.py`, Telegram | recent list, pub/sub | emit, replay, forward | operator | replay, then subscribe | the list is bounded, nothing falls in between |
| Models `analytics/ml` | artifacts and registry rows | train, promote, predict | evaluator | file and row, labels that come later | the champion is what its row says |
| Wallet statistics `analytics/wallet_metrics.py`, `confidence.py`, `strategy.py` | `wallet_stats` and snapshots | compute, score, label | follow lane, evaluator | two jobs on one row, small samples | no job undoes the other |
| Grading and regime `evaluation/prediction_eval.py`, `regime.py`, `regime_strategy.py` | outcomes, regimes | grade, label the market | models | batches, late closes, hysteresis | graded as trained, no flapping |
| Reports `evaluation/reports.py`, `runner.py` | `reports` | generate | all tables | restarts in a period | one report per period |
| Patterns, other enrichment, read API, frontend | append-only rows | statistics, display | database | little concurrency | arithmetic |

`PROJECT.json` lists every part with its status, and the hazards at their
lines with the properties that watch them.

## 2. Modules

| Module | Content |
|---|---|
| `SafetyGuard` | the four rails and one operator per method of `SafetyGuard` |
| `CopyExecution` | extends it: worker, approvals, database sessions, chain, operator, clock |
| `CopyBook` | abstract specification: a token is flat or held by one entry |
| `CopyProperties` | invariants, action and liveness properties, the refinement of `CopyBook` |
| `CopyInvariant` | the inductive invariants of the proofs |
| `CopyBooksProofs`, `CopyRailsProofs`, `CopyChainProofs` | theorems about it |
| `RpcBudget`, `RpcProperties`, `RpcProofs` | budgets, freeze switch and `SolanaRpc.call`; their properties and theorems |
| `IngestStream`, `IngestProperties`, `IngestProofs` | listener, streams and writers; their properties and theorems |
| `Basics` | `None`, small arithmetic, the n-th of a set of numbers, a sequence at some of its places |
| `Sums`, `SumProofs` | the sum of a function over a finite set; lemmas on sums, folds, maxima and minima |
| `SwapParsing` | the parsers as operators: from a transaction to swap events |
| `TradeLedger` | extends it: the ledger as if one writer recorded transactions one by one |
| `PositionLedger` | extends that: several writers, sessions, row locks, redeliveries, rollbacks; shown to implement `TradeLedger` |
| `LedgerInvariant`, `LedgerProofs` | the ledger's inductive invariants; theorems about it, the parsers and the trades of `ChainTrades` |
| `TokenRisk`, `CopyDecision` | the risk engine's probe and scores; the evaluator's gates, ranking factor, sizing, the learning loop |
| `WalletVetting` | a vetting cycle, its rows and its mirror in Redis |
| `PredictionLearning`, `ModelRegistry` | predictions, labels and grades; training gates, versions, artifacts, champion |
| `WalletStats` | metrics, confidence score, styles; two jobs on one row |
| `MarketRegimes`, `Reports` | regime detector and per-regime statistics; daily and weekly reports |
| `FollowLane` | publisher, star and unstar nudges, the listener's subscriptions |
| `ServicesProofs` | theorems about the background services, from `TokenRisk` to `FollowLane` |
| `ChainTrades` | extends `SwapParsing`: trades as the chain reports them (external) |
| `MC*` | instances for TLC; `MCServices` puts the background services side by side |

Definitions named "Faulty variant" are plausible bugs of one operator each.
No specification uses them; they are there to show that each property fails
when the code is wrong in that way.

### CopyExecution

A process is the worker (`handle_message`, one message at a time) or a request
to `/approvals/{trade_id}`. Its program counter `pc` stops where the code
awaits something after which the world may have changed; `job` holds the
locals and what the session has written and not committed.

| Code | Actions |
|---|---|
| `gate_reasons`, one awaited read per step | `ReadClear`, `AllClear`, `NotClear` in `EvaluationReads`, `GateReads` |
| `evaluate_buy`: size and rails, then the rug assessment, then `no_duplicate_position` | `EvaluateBuy`, `EvaluationPasses`, `EvaluationBlocks`, `DecideBuy` |
| `execute_buy`: lock, row | `ExecuteBuyLockedOut`, `ExecuteBuy` |
| `approve_trade`: row lock, status, gate | `ApproveTrade`, `ApprovalPasses`, `ApprovalBlocks` |
| `run_approved`: gate, attempts, backoff, give up | `GatePasses`, `GateBlocks`, `PrepareFails`, `Retry`, `GiveUp`, `CoolDown` |
| `_live_fill`: keypair, swap, signature, simulation, send, confirm | `PrepareHardFails`, `PrepareSwap`, `SendAccepted`, `SendRaises`, `SendVoid`, `ConfirmLanded`, `ConfirmGivesUp` |
| `_paper_fill`, `_open_position` | `PaperFill`, `OpenPosition`, `OpenPositionRefused` |
| `_fail`, `record_execution_result` | `RecordFailure`, `TripAfterFailures`, `RecordSuccess` |
| commit, rollback | `CommitBuy`, `CommitSell`, `Abort`, `RollBack` |
| `mirror_sell` | `MirrorSell`, `SellLockedOut`, `BookExit`, `SellNotReady`, `SellReady`, `SellSend*`, `SellLanded`, `SellGivesUp`, `AbandonSell`, `ClosePosition`, `TripAfterLoss`, `CommitSell` |

What is uncommitted is invisible to other processes, with two exceptions that
PostgreSQL makes: an insert on the unique index of open positions waits for
another session's uncommitted row (`IndexUndecided`), and `SELECT ... FOR
UPDATE` waits for the row's holder (`RowFree`). Redis writes and broadcasts
are never undone. `Abort` ends a session at any point, as a crash or as any
raising await does (a failing `getSignatureStatuses`, a database that is away).

The chain is external: a broadcast transaction may land at any time or never;
a sell lands only when the wallet holds tokens. Locks and cooldowns may be
found expired at any use, because their TTLs bound nothing the code waits for.

`gate_reasons` awaits four reads of Redis and then a query, and anything may
happen between two of them: `job[p].read` is the rail that a look has come to.
What a look returns is no view of any one moment: a session may pass although
some rail blocked at every moment of its look. On the instance of
`copy_approvals` it reads the stop while only the day's loss blocks, the stop is
set, midnight leaves the day's counter behind, and the loss is read as none;
with one session more, a success that deletes the streak does the same. What
does hold is said rail by rail (`NoNewRisk`): while the stop, the streak or the
day's loss blocks, the SOL in open positions and in sessions past the read of
that rail does not grow. A read that fails blocks, as the code has it.

Simplifications: once a read has given a reason, the code reads on and the
model ends the look there, since the answer is settled and reading changes
nothing. The query of the books is one step. All gates of the evaluator other
than the rails, the size and the duplicate check are nondeterministic. SOL
amounts are small integers. Drops below the dust floor are skips. An evaluation
that skips changes no state of the model.

### RpcBudget

A caller is a task inside one `SolanaRpc.call`: poll the switch when the cached
answer is old (`BeginPoll`, `PollAnswers`, `PollFails`), take a credit
(`Acquire`, `AcquireFails`, `AcquireUncapped`), alert and sleep when there is
none (`Notify`, `SleeperPolls`), post (`PostReturns`) or retry (`PostRetries`).
`paid` and `late` count HTTP requests by the day of the credit they ran on.
The counter stops at one beyond the limit, since the code compares it with
nothing else. The pace of `_RateLimiter` is time between steps.

### IngestStream

The listener is sequential (`Receive*`, `Enqueue`, `EnqueueFails`, `Release`);
a writer's loop is `peek`, `read`, `fetch`, `persist`, `publish`, `ack` and the
requeueing of what failed. `_requeue_or_drop` runs concurrently for all
retries, so its steps of different entries interleave. A stream holds the
entries that no consumer has read; reading moves them to `pending`. `MAXLEN ~`
may or may not trim. The look at an empty priority lane is `BLOCK 0`: it waits
without limit, so `PeekEmpty`, its coming back without an entry, may happen and
nothing makes it happen. A signature stands for a successful transaction with
one swap; dedup keys do not expire during a behaviour.

Any call may raise. A rolled back write (`PersistFails`), a fetch without an
answer and a failed XADD of the main lane are ordinary. The rest is counted, and
`Faults` says which kinds a run has: the listener's `slips` (`ClaimUnanswered`:
the dedup key is set and the call raises; `EnqueueUnanswered`: the entry is added
and the call raises; `PriorityFails`; `ReleaseFails`: the claim stays), and the
writers' `mishaps` (`CommitUnanswered`: the row is in and the commit raises;
`PublishFails`, heard or not; `LoopError`: an XACK or a
requeueing XADD raises and the rest of the batch is abandoned; `Crash`).

### SwapParsing and ChainTrades

A transaction is a record: payer, calls (each decoded to a form and the pool it
names, at the top or as an inner instruction), token accounts before and after, lamports, fee and tips. `TokenDelta`,
`NativeSolDelta`, `InferSwapEvents` and the venues' `Parse*` operators follow
`ingestion/parsers/util.py` and the venue modules; `ParseTransaction` is the
registry: every venue that recognises a program contributes, equal swaps are
kept once, the aggregator is asked only when no venue answered. Mints are
numbers in the order in which `sorted()` has them; the order of the stable
mints is that of a Python set and therefore any. `ChainTrades` is the other
side: it builds the transaction of a trade that somebody wants, hop by hop,
with tip and rent, and `TradeRecovered` asks the parsers for the trade back.

### TradeLedger and PositionLedger

`TradeLedger` is the promise: a transaction's new trades are recorded in one
step and folded into the open position of wallet and token (`Fold`, `Bought`,
`Sold`, `Exhausted` are `update_position`'s branches). `PositionLedger` has one
action per statement of `persist_transaction`:

| Code | Actions |
|---|---|
| `_persist`: fetched, parsed, session begun | `Deliver` |
| `upsert_wallet`, `upsert_token`: `ON CONFLICT DO UPDATE` locks the row | `UpsertWallet`, `UpsertToken` |
| `get_or_create_pool`: a SELECT, an INSERT on the unique address when there is none | `SelectPool`, `InsertPool`, `PoolTaken` |
| `insert_trade`: `ON CONFLICT DO NOTHING` | `InsertTrade` |
| `update_position`: `SELECT ... FOR UPDATE`, fold, flush | `SelectPosition`, `WritePosition` |
| commit, rollback, Postgres ending a deadlock | `Commit`, `RollBack`, `Deadlock` |

At READ COMMITTED a session sees its own writes and what others have
committed; a locked row makes it wait. An open position that another session
has inserted and not committed is not there to be locked: `IndexNeverRefuses`
says why no two sessions get that far, and its faulty variant, upserts that
lock nothing, shows that the early wallet lock is the reason.

A new pool is a lock of its own: it is inserted after the wallet and the first
token and held until the commit, so a session that meets it between its two
tokens may wait for another one that has it and waits for a token
(`WaitsFor`, `Circle`). Postgres finds such a circle and ends one of its
sessions. A session that inserts a pool which another one has meanwhile
committed is refused (`PoolTaken`). Either way the entry is requeued.

### CopyDecision and TokenRisk

`TokenRisk` is pure: `Probe` (authorities, holders; `None` is "could not
determine"), `HardFilters`, the six component scores, the weights with their
clamp, `NewAssessment`, `Reusable`. `CopyDecision` adds the state: what is
stored of assessments, what the chain is like now, the weights in Redis and in
the database, the running engine's version.

| Code | Actions and operators |
|---|---|
| `evaluate_buy`: unknown token or leader; assessment reused, probed, or failed | `EvaluateUnknown`, `EvaluateReusing`, `EvaluateProbing`, `EvaluateUnassessed`; `FailedGates` has one line per gate |
| `adjustment_factor`, `compute_position_size` | `AdjustmentFactor`, `CopySize` |
| `resolve_outcomes`, `tune_weights` of risk learning | `ResolveOutcomes`, `TuneWeights` (committed or not) |
| environment: chain, snapshots, deployment, operators | `ChainChanges`, `SnapshotTaken`, `Deploy`, `OpsWriteWeights` |

What the code selects from a list by a condition is a set of places here
(`Labeled`, `Reusable`), and what it orders by time is the largest of them.
`copy_enabled`, `rug_check_enabled` and `require_market_cap` keep their
defaults, so their gates are not in `FailedGates`. Scores are percents, weights
fortieths.

### WalletVetting

`Verdict` is computed from three kinds of evidence (`RepeatCast`,
`SharedFunder`, `InsiderProfits`); the funding walk is one answer, which may
fail. A cycle takes a batch of `Candidates`, flushes a row per wallet
(`VetWallet`), mirrors the verdict at once (`MirrorVerdict`, `MirrorFails`) and
commits all rows at its end (`CycleCommits`), unless it dies or the database
has broken its session (`VetFails`, `CycleDies`). The batch is the set of
wallets still to vet, taken in the order of the candidates.

### PredictionLearning and ModelRegistry

`Predict`, `GradePredictions` and `TrainingExample` share the labels of closed
positions; closes are recorded up to a tick late and statistics arrive in
between. A metrics cycle stamps its statistics when it starts
(`SnapshotStarts`, `metricsRun`) and they are visible when it commits
(`SnapshotCommits`), if it does. `GradedAsTrained` compares what a prediction was
given and what it was graded by with the training example of the same buy; the
evaluator's read of the statistics and the record of its prediction are one
step. In `ModelRegistry` a cycle
trains both models (`Trainable`: enough rows, both classes in every slice);
`Retrain` leaves the artifact, `SaveCommits` the row; between them the process
may die, and files may be lost. What a training learns is its number.

### WalletStats

The table is a function of the wallets that have a row. The metrics job
(`MetricsCycle`, `ComputeMetrics`, `MetricsCommit`) and the
style job (`StyleCycle`, `StyleCommit`) keep different columns of one
`wallet_stats` row, each in a session of its own; either may abort. The metrics
are those of `_compute_wallet_metrics`, `ScoreWallet` is `confidence.py` in
hundredths. With enough wallets styles come from k-means, which is any
assignment of wallets to at most that many styles.

### MarketRegimes and Reports

`DetectRegime` labels the market from the snapshots of the lookback
(`TrendLabel` with hysteresis) and raises the six flags; `RegimeStrategyStats`
groups closed positions by the regime they were opened in. `Reports` decides
which report is owed by looking at the ones there are (`ReportCycle`,
`ReportThere`, `GenerateReport`); what a report says is left out, since nothing
but the API reads it back.

### FollowLane

`PublishReads`, `PublishWrites`: the analytics cycle's selection and its
authoritative write. `Track`, `NudgeReads`, `NudgeWrites`: a star or unstar,
committed, then read-modify-write of the same key, in which an error of the
read is an empty set. `Connect`, `Subscribes`, `RefusesOne`: the listener asks
for the set, cut at `follow_lane_max` in address order, and the node answers each
request for itself; one it answers with an error is passed over. `WatcherCloses`:
the connection ends when the set differs from what was asked for.

## 3. Checks

| Run | Question | Result |
|---|---|---|
| `copy_worker` | live worker alone, two tokens, buys and sells, retries, frozen sends, unreadable rails, one dying session | six invariants hold |
| `copy_approvals` | live, two concurrent approvals of two trades of one token, rails read one after the other, lost answers, one dying session | books are unambiguous, no new risk past a rail that blocks, `CopyBook` is implemented |
| `copy_paper` | paper mode under fairness | sessions end, paper sells close |
| `rpc_budget` | two callers, both lanes, Redis failures, restarts, midnight, freeze | bounded spend, one alert, recovery, draining |
| `ingest` | two writers, two transactions, both lanes, a peek that may wait for ever, one counted failure of any kind beside rolled back writes and failed XADDs | published once, stranded claims within the failures, priority entries settle |
| `ledger` | two writers, six transactions, one of them delivered twice, shared pools, one rollback | the ledger implements `TradeLedger`, tokens are conserved, circles of waiting sessions go through a new pool, sessions finish |
| `services` | each background service on an instance of its own, with failing calls, dying jobs and interleaved cycles | twelve properties hold, one or two per service |
| `lost_answer` | `OneBroadcastPerTrade` when a send's answer is lost | violated |
| `orphan` | `BroadcastIsAccounted` for two approvals, nothing fails | violated |
| `rpc_blocked` | `ExecutionNeverBlocked` | violated |
| `ingest_crash` | `CrashLosesNothing` | violated |
| `ingest_peek` | `MainLaneServed` with Redis' `BLOCK 0` | violated |

### What the violations show

* `lost_answer`: `_live_fill` calls every exception of `send_transaction`
  retriable (executor.py:347). When only the answer was lost, the next attempt
  broadcasts a second buy of the same trade. The worker alone never buys it
  more often than there are attempts (`BroadcastsWithinAttemptsHolds`).
* `orphan`: approvals lock their own row only. Two pending trades of one token
  pass the gate together; the second position is refused by the unique index
  after its buy went to the chain, and the session rolls back.
* `rpc_blocked`: `call` acquires from the priority budget without `exempt`, so
  execution methods sleep until the next day once the budget is spent.
* `ingest_crash`: XAUTOCLAIM's answer is thrown away and `>` never delivers an
  entry that is pending: a crashed writer's entries are never processed.
* `ingest_peek`: a writer that looks at an empty priority lane stays there.

### Bounds, and why they are enough

* Two tokens, two trades: two positions are needed for exposure, two trades of
  one token for the index; a third adds no new relation between sessions.
* `MaxAttempts = 2` (one retry), `MaxTx = 2` (a double broadcast is visible),
  `MaxStreak` 1 or 2, `MaxOpen` 1 or 2, `MaxExposure = 3` with wanted size 2, so
  that the second buy is clamped to 1. Proceeds 0 and 3 make a loss over the
  limit and a profit.
* `MaxAborts = 1`: one rollback at each point of each session. Runs that need
  more deaths would repeat the same state: a dead session leaves only its
  Redis keys and its transactions.
* RPC: one credit in the priority lane, so that every second attempt meets the
  wall, none in the main lane (opted out), one retry. Both callers share a
  client, so that one reads what the other cached.
* Ingestion: batches of two, two attempts per signature, `MAXLEN` 1 and 2, so
  that trimming happens, one counted failure: a slip of the listener or a mishap
  of a writer, at any of its calls. Failures that are not counted (rolled back
  writes, fetches without an answer, XADDs of the main lane) may all happen.
* Ledger: two wallets, two tokens, six transactions: a curve buy, an AMM sell
  that leaves dust, a stablecoin buy through an unknown route, a token-for-token
  swap by each wallet in opposite directions through one pool, and a buy of one
  of these tokens through it; the curve buy is delivered twice, one session is
  rolled back. Two tokens are what a lock cycle needs, and the pool between them
  what the code's order leaves open; a buy and a sell per pair are what
  reordering needs, two writers what every race of two sessions needs.
* Services: the parts share tables but no variable that one of them writes and
  another one's property reads, so the run chooses a part and runs it alone:
  their interleavings would multiply states and show nothing. Each instance is
  chosen for its boundary cases (`MCServices` names them): leaders just above
  and below a bar, tokens before and after graduation, streaks of 12 and 15
  wins, prices that cross the threshold of a trend and fall back inside the
  band, tables that are empty or full, training sets too small or with one
  class, three vettings of two wallets with one funder, batches of two with three
  predictions, trades of up to three hops with calls at the top or inside, three
  wallets for a lane of two. Time is bounded by 1 to
  5 ticks, enough for a TTL, a horizon or a period to pass once; faults by 1 or
  2, so that one job may fail at any point and its repetition be seen.

Symmetry is used in the two core safety runs only (row ids, tokens or approval
requests are interchangeable); liveness runs use none.

### Fairness, and why the code justifies it

* `CopyExecution`: weak fairness of the worker's and of every approval's next
  step. Each await has a timeout (HTTP clients, database, `_confirm`'s
  deadline) and attempts are bounded. Nothing is assumed of leaders, operator,
  chain or key expiry. An RPC call asleep on a budget resumes on the next day,
  which `RpcBudget` shows separately (`LanesRecover`).
* `RpcBudget`: weak fairness of a call's steps, of the cache's expiry and of
  midnight; strong fairness of an answered poll, that is, Redis does not fail
  every single time. Draining needs it, because a client whose Redis always
  fails keeps its last state for ever.
* `IngestStream`: weak fairness of the listener's and the writers' steps, none
  of failures, crashes or notifications, and none of a peek that comes back
  without an entry (`BLOCK 0`).
* `PositionLedger`: weak fairness of every writer's session (`Persist` or
  `Refused`): statements end, by an answer or by an error, and nothing obliges a
  transaction to be delivered. Waiting for a row lock is a disabled step; that
  Postgres ends one session of a circle is `deadlock_timeout`.
* `MCServices`: weak fairness of the grading cycle, of the publishing cycle,
  of a request's nudge, of the listener's reconnect and watcher, and of the node's
  answers, each in the form that succeeds: loops of the workers that come round
  every few minutes, and requests that end. Mishaps, refusals of the node among
  them, are bounded and have no fairness.

### What the properties leave out on purpose

* `WorkerBroadcastsOnce` and `WorkerAccountsForBroadcasts` hold for the worker
  alone. With approvals a session that dies after its broadcast leaves the
  trade pending, and a second approval broadcasts again.
* `LossCounterExact` and `StreakTripsStop` hold while no session dies: the
  Redis counter moves before the commit, and the stop is set after the streak.
* `ExposureWithinLimit` is about the worker: several pending trades approved
  one after the other may exceed `copy_max_exposure_sol`, because the gate
  compares the exposure before the buy. `ExposureOvershoot` says by how much:
  less than one largest trade per approval that can run at once.
* `NoNewRisk` is about each rail from the moment it is read. Sessions already
  past it run on, retries included, and a look may pass although all rails were
  never clear at once.
* `FreezeDrains`: a call that sleeps or retries when the freeze is engaged
  still posts; the approval endpoint's client has no switch at all.
* `StrandedWithinFailures` bounds what is lost, and each loss is real: a dedup
  key that could not be released, or was set by a call that raised, keeps its
  signature out of the streams until the key expires, and a writer that dies or
  whose Redis call raises leaves up to a batch pending that nobody reads
  (`ingest_crash`).
* `PriorityEntriesSettle` is about followed wallets' entries, and holds until a
  writer's first mishap. An entry of the main lane has no such property: with
  `BLOCK 0` it waits as long as no followed wallet trades (`ingest_peek`). A
  crash, a failing PUBLISH or a commit without an answer leaves a row that is
  never published: the retry inserts nothing, and a leader's sell is missed.
* `SessionsFinish` says that sessions deadlock over a pool that is not committed
  yet, and over nothing else; it does not say that they never do.
* `GradedAsTrained` supposes for the label that nothing closed, and for the
  features that no committed snapshot was stamped, between the buy and the
  prediction. A metrics cycle that was at work then stamped its statistics
  before: if it commits, training takes them, and the prediction was made with
  the ones before. The property says so; `dataset.py` takes the latest row at or
  before the buy.
* `KnownOutcomesGraded` holds while fewer than a batch of older predictions can
  never be graded. Such predictions do not expire: a batch full of them is
  looked at for ever, and no younger one is ever graded
  (`prediction_eval.py:77`).
* `LaneSettles` is about at most `follow_lane_max` tracked wallets. Beyond,
  the publisher takes them in the database's order and the listener in the
  order of addresses. A wallet whose subscription the node refused is not
  asked for again on that connection, and the watcher does not see it: it stays
  unfollowed until the connection ends for another reason, and the property
  says no more than that the others are subscribed. Until the next cycle a nudge that reads an error may
  leave the set with one wallet or none.
* `TradeRecovered`: the price may be off by the rent of an account that the
  trade opens. `PaysRent` only happens next to a SOL leg: 0.00204 SOL of rent
  is above `MIN_SOL_FLOW`, so a stablecoin buy that opens an account is
  recorded as paid with the rent in SOL.
* The ledger takes `blockTime` as present. Without it `block_time`
  (`parsers/util.py:57`) answers the time of parsing, which is part of the
  trades' primary key: a redelivery would be recorded and folded again.
* `ImplementsTradeLedger` says that folds are atomic and single, in the order
  of the commits. When a sell is persisted before its buy, that order gives
  other positions than the chain's; `TokensConserved` is what remains true.
* `CopyBackedByProbe` is about what the probe looks at. The latest snapshot
  that liquidity and market cap are read from has no age limit
  (`evaluator.py:210`). LP mints and vaults are never recorded, so LP shares
  are always unknown, the liquidity of AMM pools is never probed, and vaults of
  AMMs other than the pool's own account count as holders; a curve's row
  outlives its graduation, so the curve's exemption from the mint authority
  does too.
* `MirrorTracksVerdict` leaves out wallets whose verdict Redis refused.
* `NoComponentDominates` is about what the engine uses. Weights whose commit
  fails stay in Redis, and their version is given again to others.
* `NoFlapping` is about a market left for want of a trend; a cycle without
  prices stores sideways and drops the band.
* `StyleSurvivesMetrics` is about the row; its snapshot keeps the style that
  was read at the start of the cycle. Both jobs lock rows of `wallet_stats` in
  an order of their own, so the database may abort one of them
  (`MetricsAborted`, `StyleAborted`).

## 4. Proofs

Every safety property of the passing runs is proved for every value of the
constants, but for the invariant in `SessionsFinish`. Each theorem is named after its property (`SpendBoundedHolds`), and
`PROJECT.json` lists them all. Five say what no run asks:
`BroadcastsWithinAttemptsHolds`, `ExposureOvershootHolds`,
`EventsAreNetChanges`, `FollowsTheBest` and `LaneWithinLimitHolds`.

### Assumptions

The theorems rest on named assumptions about the constants only, which TLC
evaluates on the instances of the runs: limits are positive numbers
(`RailLimits`, `Parameters`, `Configuration`, `Setup`, `LedgerBounds`,
`LedgerUnits`, `ParsingUnits`, `RiskSettings`, `MarketNumbers`,
`ReportPeriods`, `VettingValues`, `HorizonIsTime`, `LaneParameters`), what
arrives from outside is typed (`TransactionShape`, `DecisionValues`,
`RecordsTyped`, `RegistryValues`), and `None` is none of the values it stands
beside (`NobodyIsNone` and parts of the others). `TradesAreSwaps` and
`HopsAreCalls` say what a trade is: a token against something else, a price in
SOL above the dust limit and the rent, and executed swaps that name their pool.
Trades, signatures, RPC callers and wallets that may be followed are finite sets
of any size; approval requests, ingest writers, ledger sessions and
transactions, wallets and tokens are any sets. Three theorems have hypotheses
beside them: `LuckyStreakGatedHolds` supposes that the bar of the follow lane is
a number above 6477 hundredths (the default is 65, `copy_min_wallet_confidence`
in `config.py`), and `ExposureOvershootHolds`, whose bound counts the approvals
and takes the largest wanted size, supposes that both are finite and that there
is a size; and `NoNewRiskHolds`, which sums over the sessions, supposes that the
approvals are finite.

### Sums and folds

The library's induction theorems take operators, which the installed provers
cannot instantiate. `SumProofs` therefore argues by smallest counterexample
(`SmallestSubset`: any set of subsets of a finite set has a smallest member):
the function by which the community module defines a fold exists and is unique.
From that follow the lemmas that the other modules cite: a sum's type, the sum with one element
more, over disjoint sets, with one value changed, and bounds of a sum by bounds
of its terms; and that finite sets of integers have a maximum and a minimum.

### Copy-trade execution

`CopyBooksProofs` proves `TypeCorrect`, `OneOpenPositionHolds` and
`OneSessionPerTradeHolds` from the inductive invariant `BooksInv`
(`BooksCorrect`), and `ImplementsCopyBookHolds`: every step of `CopyExecution`
opens or closes one token's book or leaves all of them alone.

Neither invariant is inductive alone. A session's right to insert or commit
rests on what its row looks like to others: `ShapeInv` says that a session with
a row owns a row of its token in the one status its kind expects (invisible for
the worker, pending and locked for an approval), that an opened position exists
only between insert and commit and with a status that will be committed, and
that a committed position belongs to a bought row. With it, the insert is safe
because the index was free and no other session's insert was undecided; the
commit is safe because nobody else can have opened the token meanwhile; and an
approval cannot find a row that another session executes. Most steps touch
only a session's private state, and the lemmas `MidStepShape`, `MidStepBooks`
and `MidStepInv` treat them together; the others have a lemma each.

`CopyRailsProofs` proves `StreakTripsStopHolds`, and `LossCounterExactHolds`
from `ResultsBooked`: what is counted belongs to a closed position, or to the one
whose closing is about to be committed, so that no result is counted twice.
`NoNewRiskHolds` takes two states of a step in which a rail blocks: a session gets
past that rail only by reading it, which finds it clear (`ReadFrom`); every other
step keeps a size where it is, moves it from its session to the books at a commit,
or drops it (`RiskMoves`). `RiskInv` says that a session carries the size of its
row, so that the commit moves the same SOL, and begins its last look with the
first read. It extends `CopyChainProofs` for
`ExposureOvershootHolds`: what is open and what sessions past the gate will add
is less than the limit and one largest size per approval. Each passing of the
gate renews it, since the exposure is below the limit then and what is on its
way is at most one size for each approval; between two passings the sum never
grows, because a size only moves from a session to the books, or is dropped. It
rests on `RowSizes` (a session carries its row's size, at most the largest
wanted), together `OvershootInv`.

`CopyChainProofs` proves

* `ConfirmedHasLandedHolds` from `LandedInv`: a session about to record a
  confirmation has seen the transaction landed, and landed transactions stay so;
* `WorkerBroadcastsOnceHolds` from `SingleSend`: a session that may still send
  has sent nothing;
* `BroadcastsWithinAttemptsHolds` from `AttemptsCounted`: when answers may be
  lost, a session that may still send has sent less often than it has begun an
  attempt, and a row that was sent for is never taken again;
* `ExposureWithinLimitHolds` from `ExposureInv`: the size that the worker fixed
  at its evaluation fits beside what is open for as long as the session takes,
  because no other session opens a position (`WorkerAlone`);
* `WorkerAccountsForBroadcastsHolds` from `AccountInv`: a session that has sent
  is waiting for the confirmation, about to insert or has inserted, and the
  unique index cannot refuse it, because the token was free when the worker
  looked and only the worker could have opened it.

### RPC budget

`RpcProofs`: `TypeCorrect`; `SpendBoundedHolds` from `BudgetInv`, which counts
the credits in callers' hands: what a lane has paid and what its callers hold
is at most its counter and at most its limit, and the calls that cross midnight
are at most one per caller; `OneAlertPerDayHolds` from `AlertInv`: the alert is
sent by whoever set the day's marker.

### Ingestion

`IngestProofs`: `TypeCorrect` from `StreamInv`, which adds what the listener
and a writer have in hand at each point of their loops; `PublishedOnceHolds`
from `PublicationShape`: who is about to publish has inserted the row, nobody
else is about to publish the same one, and none was published before;
`StrandedWithinFailuresHolds` from `ClaimInv`: a claimed signature is in the
listener's hand, unread in a stream, live in a writer's batch (in hand and not
requeued yet), settled, or counted among those that a failure has set adrift
(`AdriftCounted`). A slip of the listener adds one of them, a mishap of a writer
what it has in hand, which is at most a batch (`HandBound`), and every other
step none: `Fetch` drops none of a batch when it sorts it into its outcomes, a
requeue adds before it acknowledges, and an entry is acknowledged only once its
row is there (`AckedStored`).

### Parsers and ledger

`LedgerProofs` first types the parsers: whatever `ParseTransaction` answers are
events of the transaction's payer and tokens (`ParsedIs`), so the rows of a
session are its payer's. The keystone is `WalletLocked` (in `TypeCorrect`):
from its first upsert to its end a session holds its payer's wallet row, and it
writes positions of that payer only; two sessions of one payer are therefore
never both past the first statement. From it follow, one on top of the other,

* `HeldCurrent`: what the SELECT read is what a session sees until it writes.
  Hence `IndexNeverRefusesHolds`;
* `WritesExtend`: uncommitted episodes go on from the committed ones, and all
  but the last are closed. Hence `EpisodesFinalHolds`;
* `InsertedNew`: a session has inserted those of its rows that were not there,
  and no two sessions have inserted the same one;
* `WritesBalance`: its positions hold what the committed ones hold and what it
  has folded. Hence `TokensConservedHolds`;
* `WritesReplay`: what it has written is what `TradeLedger`'s `Record` folds from
  the committed positions, as far as it has got. A commit is then one `Record`
  and every other step a stutter: `ImplementsTradeLedgerHolds`.

`TradeLedger` and `PositionLedger` share the variables that the refinement
relates, so `ImplementsTradeLedger` is the abstract specification itself.

Two theorems are about the parsers. `EventsAreNetChanges` takes any transaction
at all: each event's token moved for the payer, by the amount and in the
direction that the event says, against a mint that moved the other way, and no
two events are the same swap. `TradeRecoveredHolds` goes the other way, from a
trade to its transaction and back. The trader's net change of each mint is the
trade's, however many accounts and pools take part (`TraderDelta`), and the
native SOL with fee and tip put back is the price less the rent; so that
`InferSwapEvents` gives the same event for every venue (only the venue differs),
deduplication leaves the first one, and Jupiter is asked when no venue answered.
That the pool is the right one is a matter of each venue's own calls. The index
sets of `SwapParsing` (`Calls`, `FirstSeen`, the smallest place with a property)
are what makes this provable: they stand for the loops that break at the first
match.

### Background services

The services have no specification in common: each theorem of `ServicesProofs`
is about one service's `XInit /\ [][XNext]_xVars`.

* `OneReportPerPeriodHolds`: a report is made only when none is as young as its
  period, and only one process makes them.
* `NoFlappingHolds`: each stored label follows from its trend and the label
  before; between the label left and the same label again all are sideways.
* `ChampionServesHolds`: the next version is after every version on record, so
  that a save under way replaces no row's file and finds its own or none; one
  row is active and no other was evaluated better.
* `GradedAsTrainedHolds`: a pair's closes are recorded in order, so that the first
  one after a prediction, and the label it gives, never change once recorded; no
  two metrics cycles are at work at once, so that what is stamped and not
  committed when a prediction is made is the one it notes.
* `MirrorTracksVerdictHolds`: a verdict is in Redis or owed to it
  (`verdictDue`), within the cycle and for what was committed; a wallet that
  was vetted lately is not in a batch.
* `StyleSurvivesMetricsHolds`: a row's style is the last committed one, and the
  style job only labels wallets that have a row. `LuckyStreakGatedHolds` bounds
  each of the five components of a record of at most twelve positions; their
  weighted sum is at most 64.77.
* `CopyBackedByProbeHolds`: an assessment that does not block was made when the
  probe saw a safe token (`LooksMatch`), and both ways to decide, reuse and
  probe, end at such a row.
* `NoComponentDominatesHolds`: the clamp keeps every weight between its bounds
  whatever number was learned, and six bounds add up.
* `FollowsTheBest`: wallets are totally ordered by score and address, so that
  those with fewer than `room` better ones are the best `room` of them.
* `LaneWithinLimitHolds`: what was read for publication was cut when it was
  read, the listener cuts what it asks for, and is subscribed to no more than
  that; `LaneInv` adds the set in the publisher's hand. The key itself has no such bound, because nudges add to
  it.

### Only model-checked

* Liveness (`SessionsEnd`, `PaperSellCloses`, `LanesRecover`, `FreezeDrains`,
  `PriorityEntriesSettle`, `SessionsFinish`, `KnownOutcomesGraded`, `LaneSettles`):
  fairness and ENABLED are out of the prover's reach. The first half of
  `SessionsFinish` is an invariant, checked with the rest of it.
* The five properties whose runs expect a violation.

## 5. Plan

Done, in this order: rails and execution, the abstract book and its proofs, RPC
budgets, ingestion, parsers and ledger with its abstract specification, the
decision chain with risk engine and learning, vetting, follow lane, predictions
and models, wallet statistics, market regimes, reports; then the proofs of
section 4.

Next, the most important first:

1. Notifications and the live feed: publish, then push and trim; backlog, then
   subscribe; the forwarder of the Telegram bot.
2. `record_outcome`'s read-modify-write beside the session of the sell that
   calls it.
3. `patterns.py`: co-trading clusters and entry sequences.

Composition: `CopyExecution` extends `SafetyGuard`; `PositionLedger` extends
`TradeLedger` extends `SwapParsing`, and is what `Persist` of `IngestStream`
stands for; `CopyDecision` extends `TokenRisk` and supplies the gates that
`EvaluateBuy` of `CopyExecution` leaves open. Execution, ingestion, ledger and
services are checked apart, since they share only rows and keys that each model
treats as its environment.

## 6. Not modelled, and why

* Notifications, websocket feed, Telegram bot, `patterns.py`: planned.
* The fit of a model and its measures, k-means, percentiles of features and the
  wording of reports are library calls and formatting; the models keep the
  decisions taken on their results.
* Enrichment jobs other than the security and liquidity probes append what an
  API answered.
* The read API, authentication and the frontend keep no shared state.
* Migrations and deployment files are configuration.
