# A formal model of the AI trading engine

TLA+ specifications of the parts of this repository that decide about money,
orders, signals and recorded runs, model-checked with TLC on small instances and,
for most modules, proved with TLAPS for every value of the constants. All paths
below are relative to the repository; the code of the platform is in `src/src`,
its command-line programs are in `src/scripts`.

1. [The system](#1-the-system)
2. [The modules](#2-the-modules)
3. [The runs](#3-the-runs)
4. [The proofs](#4-the-proofs)
5. [Where code and documentation disagree](#5-where-code-and-documentation-disagree)
6. [What could be added](#6-what-could-be-added)
7. [What is not modelled](#7-what-is-not-modelled)

## 1. The system

The platform simulates and researches. Historical bars go through a **backtest
engine** (one symbol) or a **paper-trading engine** (many symbols, state kept
between sessions). **Strategies** answer a signal per bar; **research** programs
sweep, optimise and validate them and condense the results into a **regime
policy**. A **decision layer** turns scans into portfolio plans, a **live signal
pipeline** applies a policy to fresh data, a **real-time engine** repeats
monitoring cycles, and an **automation scheduler** behind a REST API starts all of
these as pipelines and keeps a record of every run. One adapter can send orders to
a broker; nothing in `src/src` constructs it.

Nothing in `src/src` creates a thread. Concurrency comes from FastAPI, which runs the
synchronous routes on a thread pool; from several processes on the same files; from
`stop()` calls on a running engine; and from the executors of the research runner.

| Component | State it keeps | Operations | Talks to | What is hard | What makes it correct |
|---|---|---|---|---|---|
| Backtest engine (`core/`) | cash, totals, one position, order queue, kill switch | per bar: risk exits, fills, square-off, signal, record | strategy, data handler | risk exits sell past the queue; five steps per bar in a fixed order; stops move with the bar they are compared with | money balances; queue and position agree; no lookahead |
| Paper engine, risk engine, cost model (`paper_trading/`, `risk/`, `execution/`) | portfolio: cash, positions, orders, prices | per bar and symbol: fills, exits, signals, marking; forced close | state store | symbols share one balance in rank order; a session replays old bars over new state; checks are made a bar before the fill | realized profit agrees with positions; a pending order always fits the positions |
| Strategies (`strategies/`) | a trailing stop, day counters | a signal per bar; two bring a backtest of their own | engines | windows of the day, square-offs, daily limits, state set on a signal rather than a fill | nothing overnight, limits count what was traded, a position keeps its stop |
| Scanner, pick engine, planner, hand-off (`scanners/`, `decision/`) | none between calls | scan, filter, rank, select, allocate, export | monitor, paper runner | caps applied in sequence to rounded quantities; two sets of caps | every cap holds on the final plan; nothing is left out without a cap |
| Live signals (`live/`) | estimates of the session | load, rank, decide, export | policy, risk manager | each accepted signal changes the limits of the next | the session's signals fit the limits together |
| Regime policy, walk-forward, portfolio research (`research/`, `decision/regime_policy.py`) | none between calls | group, build, look up; train, freeze, judge; assemble | backtest | window arithmetic over frames of different length; shares of capital | judged out of sample; the return is that of the trades |
| Research runner, strategy matrix (`scripts/`) | checkpoint and rows on disk | run, save, resume | file system | a crash between rows and checkpoint; checkpoints that fail | a resumed run neither loses nor doubles a row |
| Strategy research (`research/`, `research_lab/`) | none between calls | optimise, rank, simulate, discover | backtest | failed runs, ties, defaults that stand for missing values | scores come from the runs they name |
| Market intelligence (`market_intelligence/`, `regime_engine` modules) | the last regime | breadth, rotation, volatility, composite regime | monitor, policy | six classifiers of one market | they agree where they look at the same frame |
| Derivatives (`analysis/derivatives/`) | a chain, contract families | build and analyse chains; roll, stitch futures | providers | quotes repeat, arrive in any order or miss values | a chain holds the last quotes; a series follows the front contract |
| Market hours (`utils/`, `realtime/market_clock.py`, `monitoring/scheduler.py`) | holidays | is it open, when is the next run | pollers, API | four answers to one question; seconds dropped by some | the answers agree; the next run is in a session |
| Real-time engine, monitoring (`realtime/`, `monitoring/`) | status, stop flag, regime memory, windows of seen alerts, alert file | start, run_cycle, stop; publish, de-duplicate, persist | subscribers, poller | callbacks that raise; stop from another thread; marking before persisting | a run leaves a stopped engine; every cycle is recorded; alerts appear once |
| Market data, instruments (`data/`, `instruments/`, `realtime/data_poller.py`) | cache file, registry | poll, fetch in pieces, refresh, hydrate | vendor APIs, processes | retries, fall-backs, a temporary file of one name | what arrives is whole, or a failure that says so |
| Providers (`providers/`) | status cache, `os.environ`, `.env` | configure, validate, status, build | vendor APIs, API threads | verdicts arrive after the credential has changed; read-modify-write of one file | what is answered is about the credential in force |
| Broker adapter, safety gate (`brokers/`, `execution/safety_gate.py`) | mode, client | login, place, cancel, query | Kite | answers that are lost; environment that changes under a call | an order only from a call the gate let through, one at the most; answers are true; lost orders are found |
| Automation scheduler, run store, notifications (`automation/`) | last-run stamps, preferences; records and manifests on disk | trigger, record, run, retention; load, put, send | orchestrator, channels, API threads | check-then-act without a lock; a crash between any two steps; retention that races | a cooldown between runs; records agree with manifests; a message is sent once per contact |
| Runners, orchestrator, paper state store (`scripts/`, `runtime/`, `paper_trading/state_store.py`) | bundles of files, one lock file | write artifacts, publish, judge; lock, load, save | one another through files | discovery of the newest bundle; a lock that survives its owner | bundles are whole when read; sessions exclude one another; everybody ends |
| Analysis scores, metrics, reports, REST routes, UI, configuration | none that outlives a call | | | | |

`PROJECT.json` lists every component with its sources, and under `hazards` each
place of the code where one of these difficulties bites, with the properties that
watch it.

## 2. The modules

A module has a record-valued or a handful of variables, `...Init`, one action per
operation or handler, `...Next` and its properties. Names are those of the source
where TLA+ allows it. Modules that are checked together are `EXTEND`ed by one MC
module, which gives the sets of inputs and starts **one** of the parts per
behaviour (`part` or `study`); the parts share no variable, so a run of several
parts is the sum of its instances, never a product.

| MC module | Parts |
|---|---|
| `MCBacktest` | `Backtest`; `ExecutionCosts`; `LiveOrders` |
| `MCPaperTrading` | `PaperTrading` |
| `MCDecision` | `Decision` = `Scanner` + `PickEngine` + `PortfolioPlan` + hand-off |
| `MCStudies` | `IntradayBacktests` with `StrategySignals`, over one clock; `RegimeWalkForward`, `PortfolioResearch`, `LiveSignals`, `StrategyMatrix`, `StrategyResearch`, `MarketRegimes`, `MarketHours`, `Derivatives` (options, futures), `ResearchRunner` |
| `MCRealtime` | `Realtime`; `Notifications` |
| `MCProviders` | `Providers`; `InstrumentMaster`; `MarketData` |
| `MCRunners`, `MCResearchRunner`, `MCDerivatives` | their module |
| none | `AutomationScheduler` is checked directly, its sets are in the cfgs |

### TradingAccount - what an account promises

Three variables (`cash`, `book`, `realized`) and two steps. Buying turns cash into
book value and never overdraws; selling takes book value off the books and
realizes what comes in above it. Both engines implement it: `Account` in
`Backtest` and in `PaperTrading` is `INSTANCE TradingAccount` under a refinement
mapping (book value = entry prices and entry costs of the open positions), and
`ImplementsAccount` is checked as a property and proved for both.

### Backtest - `BacktestEngine.run` and the objects it drives

`pc` names the next step of the loop for the current bar `i`:

    risk_exits -> pending_orders -> square_off -> signal [-> fill_at_close] -> record

| Action | Code |
|---|---|
| `StopLossExit`, `TakeProfitExit`, `DrawdownKill`, `HoldPosition`, `NoPositionAtRisk` | the branches of `Broker.check_risk_exits`, with `Position.update_trailing_stop`, `check_stop_loss`, `check_take_profit` and `Broker._execute_risk_exit` |
| `FillSell`, `FillBuy`, `OrdersProcessed` | `Broker.process_pending_orders`: sells before buys, oldest first; `Portfolio.open_position` may refuse an order already marked as filled |
| `SquareOff` | `_should_force_square_off` and the `is_killed` check |
| `HandleSignal` | the signal, `submit_buy` with sizing, `submit_sell`, the choice of execution mode |
| `RecordState`, `EndOfBacktest` | `Portfolio.record_state`, the close at the end of the data |

The strategy is any sequence of BUY, SELL/EXIT and HOLD, the feed any sequence of
bars from `Bars`; `SessionLast` are the bars followed by another trading day and
`EntryBars` those on which `_can_enter_on_bar` allows entries. What depends on a
calendar is thereby an arbitrary set.

### ExecutionCosts, LiveOrders

`ExecutionCosts` is a function of a trade log and of a fill request (`cost` holds
the input and the outcome): the fill model in every mode, the costs of a leg, the
gross and net sums by symbol and strategy. A log is its columns and its trades. A
blank is NaN, as in a numeric column: it makes the cost of its trade a blank (`LegCost`,
`PlusOrBlank`), the sums pass over it (`SumOf`), a blank name drops the trade out of the
groups (`Grouped`), and without a column of names all are of the group "ALL" (`Key`). A
column in which every value is None keeps its Nones and raises in the code; such a log is
not modelled.
`LiveOrders` is the Zerodha adapter behind the safety gate. A call is three steps.
`PlaceOrder`, `CancelOrder` and `Query` (of an order, of the orders, of the account)
are its checks: login and, for the first two, the gate. `KiteTakesOrder`,
`KiteTakesCancellation`, `KiteTellsStatus` (also with an empty history),
`KiteListsOrders` and `KiteTellsAccount` are Kite handling it. `Returns` and `Raises`
bring the answer or lose it; the caller cannot tell a lost answer from a refusal.
Between these steps `EnvironmentChanges` may turn the environment and `Exchange`
executes, rejects or cancels orders at its own time. `call.seen` keeps what the check
saw, `attempts` what became of each call of `place_order`, `told` the ids the caller has
been told.

### PaperTrading - `PaperTradingEngine.run` over several sessions

`pc` and `k` say which of the walks over the ranked symbols is under way:

    idle -> fill -> exit -> evaluate -> mark -> (next timestamp | close | idle)

| Action | Code |
|---|---|
| `StartSession` | `run` up to its loop: frames up to `session_date`, timeline, any ranking of the symbols, the flags of the session |
| `FillPending`, `NothingToFill` | `_fill_pending_orders` with `_execute_order` |
| `ProtectiveExit`, `Unprotected` | `_process_protective_exits`, with the bar's high fed to the trailing stop first |
| `BuySignal`, `SellSignal`, `NoOrder` | `_evaluate_symbol` with `check_entry`, `compute_position_size` and the plan's quantity cap |
| `MarkToMarket` | prices, trailing stops and the snapshot of `_record_pnl_snapshot` |
| `CloseAtSessionEnd`, `EndSession` | `_close_all_positions_at_end` and the last snapshot |

A second session starts from the state the first one left and replays the bars
from the first one, as the code does. The regime decides which limits prevail; the
model takes any member of `Limits`.

### MarketDay, IntradayBacktests, StrategySignals - intraday

`MarketDay` is the clock: the same grid of bars every day. `DrasBar` is one turn of
`backtest_dras` (daily reset, partial exit at the first target, stop, square-off,
entry) and `EndOfData` its end; long and short are mirror images. `TrendBar` is one
turn of the trend-following backtest. Both are in `IntradayBacktests`. `StrategySignals` is the rest of the
library: each of 26 strategies is the list of rules of its `if / elif` chain over
the comparisons it makes, with the state some keep between bars (the trailing stop
of the compression burst), run by an engine that fills on the next bar or refuses.
Indicators enter as the outcome of the comparison, one small level each.

### Scanner, PickEngine, PortfolioPlan, Decision

`ScanJob` is one (symbol, strategy, timeframe) job that may fail, hold or become a
scored setup, `FinishScan` the ranking. `StartPicking` filters and scores
(conviction with its penalties) and ranks, `Select`/`Reject` are the greedy
selector. `WeighPick`, `SelectPick` and `RejectPick` are `build_plan`: priorities,
then allocation under the caps for a trade, a sector, a cluster, the deployment
and the drawdown mode, with both sizing methods. `Decision` chains them as
`scripts/run_decision.py` does and adds `WriteHandoff`, in which positions are
found again by symbol alone. Given scans with sectors, clusters and ATRs stand for
callers other than the scanner, which never sets them.

### RegimePolicy, RegimeWalkForward, PortfolioResearch, LiveSignals

`RegimePolicy` has no variables: groups of result rows, `BuildPolicy` and
`SelectForRegime`. The other three extend it. `TrainSymbol`, `FreezePolicy`, `TestSymbol`,
`NextWindow`, `SummarizeWalk` are the walk-forward loop; `RunSymbol`,
`Aggregation`, `ExportOutputs`, `NextRun` the portfolio backtester, with the files
that several runs leave in one directory; `Begin`, `LoadLatestData`,
`RankSymbols`, `ComputeRegimes`, `GenerateDecision`, `StrategyRaises`,
`ExportSession` the live pipeline with its rejections in order and its growing
estimates.

### ResearchRunner, StrategyMatrix, StrategyResearch

`ResearchRunner` is the batch script with `--resume`: the serial path writes rows
first and the checkpoint after each symbol (two file steps each), in the parallel path
every worker fails, as the code stands (`WorkerFails`, section 5), the later phases and
the exports follow, `Crash` may strike between any two
steps, and `Start` may bring other settings. `StrategyMatrix` is its sibling with
windows and units (`StartRun`, `RunUnit`, `UnitFails`, `CheckpointFails`,
`SaveMatrixCheckpoint`, `Condense`, `MxCrash`): a checkpoint that cannot be written is
an error of its unit and is tried again, a second failure ends the run like a crash. A
row is written in one step; a death inside `to_csv`, which may leave a part of
it, is not modelled. `StrategyResearch` is the optimiser under the walk-forward
test (`RunCombination`, `TestWindow`, `AggregateWindows`), `RankCandidates`, the
multi-asset portfolio (`RunAsset`, `AggregateCurves`), Monte Carlo (`Simulate`,
`Summarize`) and discovery (`EvaluateCandidate` ... `AnalyzeSurface`). What one
backtest comes to is open; what is made of it is not.

### MarketRegimes, MarketHours, Derivatives

`MarketRegimes`: `LoadSymbol` meets each shape of data or error, `AnalyzeMarket`
is the market state engine over breadth, sectors, volume, volatility and flow,
`ClassifyRegime` both composite classifiers, `MonitorRegime` the label of the
monitor, `RankStrength` the relative strength. Prices are small whole numbers,
standard deviations are compared by their squares.

`MarketHours` counts half minutes, so that a component that drops the seconds can
differ from one that does not: `Elapse` moves the time, `Sleep` is what the
real-time engine does with `next_run_time`, `AddHolidays` changes the calendar.
`Derivatives` has two independent halves: `BuildChain` (a row of any of the three
feeds) and `Enrich` for options, `Advance` (a day passes) and `ListContract` for
futures. The option price enters as a function that rises with the volatility.

### Realtime, Notifications

`Realtime`: `Call`, `Runner` (the next step of `run`/`run_cycle`), `RequestStop`
and `ClearRunning` (the thread that calls `stop()`), `Renew` (a new engine over
the old files), `Tick`. A subscriber may raise at any event of `settings.faults`; the
monitor's and the dispatcher's de-duplication stand in a row. `Notifications` has
one action per step at which two threads of the pool can change places: load,
remember, put, open, write, answer, send, deliver; `PageSaves` is the settings
page, which edits masked contacts.

### Providers, InstrumentMaster, MarketData

`Providers`: requests store, read and validate credentials over `os.environ`,
`.env` and the session cache, one action per shared read or write. `file` is
truncated and written in two steps; `TokenExpires` and `Restart` are the
environment. `InstrumentMaster`: processes refresh one cache file through one
temporary name (`OpenTemporary`, `WriteTemporary`, `ReplaceCache`), load it and
hydrate a registry. `MarketData`: one poll, symbol by symbol and call by call,
with retries, pieces of a long range and every failure of every provider.

### AutomationScheduler - `trigger_pipeline` and `RunStore`

One program counter per thread of the API's pool. A step ends where another
thread may come in; file writes are two steps (truncate, write) and retention is
three (list, stat and sort, unlink), because that is where requests collide.

| Action | Code |
|---|---|
| `Trigger` | `_enforce_cooldown`; a request inside the cooldown changes nothing |
| `MarketClosed` | the gate of pipelines that need live data |
| `CreateRecord`, `OpenFile`, `WriteFile` | the RUNNING record and `save_run`; the same two file steps write the final record. A file unlinked between them takes the write with it |
| `ListFiles`, `SortFiles`, `RetentionFails`, `EnforceRetention` | `_enforce_retention`; a listed file that has vanished raises out of the request |
| `SaveFails` | `save_run` raises: the file cannot be opened, or stays truncated |
| `RunPipeline` | the runner: success, failure or exception |
| `WriteManifest`, `ManifestFails`, `StampLastRun` | the manifest, the error nobody catches there, `_last_run_times` |
| `Crash`, `Tick` | the death of the process (memory gone, files kept); the clock |

`Faults` names what an instance lets happen: `"crash"`, `"manifest"` (it cannot be
written), `"save"` (a record cannot be written) and `"torn"` (a crash or a failing disk
leaves half a record). Two history variables are used by no guard: `lastSeen` is when a
run of each job was last put on record, `unsaved` the runs whose outcome could not be.

### Runners

Processes that meet in the file system. `Start` is a command line, `Step` the next
step of the program it names (find the newest bundle, create a directory, write an
artifact, write the manifest, check the contract, take and release the lock, load
and save the paper state, or time out), `AcquireFails` a failed
write of the lock file, `Judge` the orchestrator's verdict on a child, `Crash` its death,
`Tick` the second that directory names are made of.

### Units and abstractions common to the models

- Rates are integers over `Den`, percentages or basis points, as each header
  says. In the two engines a bar price is a whole number of ticks; other
  prices are counted in 1/Den^3 tick and money in 1/Den^4 tick, in which
  slippage, stop levels of a fresh fill and fees come out exact. Only a stop derived
  from another derived price is rounded down.
- Quantities are whole lots. The code divides floats in its sizing rules; the
  model rounds down, which only makes orders smaller.
- Orders of the engines are market orders: nothing in `src` submits a limit order.
  The cost per trade is 0, as in the configurations of the runners.
- Notifications are left out of the scheduler: every failure of theirs is caught.
- Names, reasons, journals and reports are left out, except the exit reason,
  which a property reads.

## 3. The runs

Each property of a passing run has a deliberately broken variant of some
definition (`X_Something` beside `X`, marked "Broken variant"); under it TLC finds
the property violated, so the bounds are large enough for the property to matter.
Where a run has several parts, a property of one part is trivially true in the
behaviours of the others.

| Run | Instance | Properties and what they say |
|---|---|---|
| `backtest_next_bar` | six bars of five kinds (quiet, rally, sell-off, gap up, gap down), two session ends before the last bar; every risk control, next-bar fills. Two calls of `place_order` that pass the gate, and any others, with refusals and lost answers, a change of the environment, two logins. Every trade log of two trades and some of three, every fill request | `LedgerAndQueueAgree`, `ExitsAreReal`, `ImplementsAccount`, `NoLookahead` (the backtest); `CostsAreCounted` (the cost report is that of the trades it keeps); `OrdersStayUnderControl` (an order only from a call the gate let through, one at the most; true answers; lost orders are found) |
| `paper_sessions` | two symbols, three bars, two sessions that each take next-bar or same-bar fills, a forced close or none, any ranking and either of two limits | `RealizedMatchesPositions`, `QueueAgreesWithPositions`, `TradesAreReal`, `ImplementsAccount` |
| `decisions` | two symbols with two jobs each that may fail, hold or buy; every hand-made scan of four of seven setups; six regime contexts, three planner configurations, three drawdowns | `BudgetsHold` (capital, sector, correlation and position limits on the final plan), `ItemsMatchTotals`, `NothingIsLeftOutForNothing` (whatever was rejected met a cap that still stands), `HandoffAgreesWithPlan` |
| `studies` | one study at a time, see below | intraday: `FlatOvernight`, `HeldHasStop`, `EntriesRespectDailyLimits`; live, matrix, research, market: `SignalsFitTogether`, `MatrixIsComplete`, `ResearchIsHonest`, `MarketViewsAgree`; index research: `NothingCompletedIsLost`, `ResumeKeepsProgress` |
| `realtime` | two runs of two cycles under every configuration: subscribers that raise at any event, a failing alert file, a poller with and without market hours, new engines per run; `stop()` at any moment. Three callers of the notification service, one restart | `ReturnedEngineIsStopped`, `StopIsPrompt`, `HistoryKeepsEveryCycle`, `FileHasEachAlertOnce`; `NotificationsFitTogether` (memory, file and deliveries) |
| `providers` | three requests on one broker in nine installations, a restart, an expiring token. Two processes, two exchanges, two lists, two refreshes, a crash. Polls of two symbols over every provider and failure, ranges of several pieces | `SecretsStayCurrent`, `StoredCredentialsAreDurable`; `InstrumentsStaySound`; `DataArrivesWhole` |
| `runners` | three processes in every schedule of the catalogue: a chain, two producers in one second, three paper sessions, pipelines of the scheduler, a dry run; one death or failed lock write anywhere | `LockExcludes`, `ReadsWholeBundle`, `SuccessHasOwnBundle`, `SerialSessionsAccumulate`, `EveryRunnerEnds` (liveness) |
| `automation_restart` | one request at a time, two jobs (one needs live data), three runs, two crashes between any two steps, records that fail to be saved | `CooldownRespected` across restarts, `FinalRecordsHaveManifests` |
| `automation_concurrent` | two requests at once, manifests and records that may fail or be left half written, a history of one record | `ReturnedRunsAreSettled` (liveness): no run whose manifest is written and whose record could be stays on record as RUNNING or half written |
| `automation_duplicates` | two requests | violation of `NoDuplicateRuns`, section 5 |
| `research_settings` | three runs with two settings, two crashes | violation of `ExportsAreCoherent`, section 5 |
| `max_pain` | option chains of two rows | violation of `MaxPainHurtsBuyersMost`, section 5 |

### The studies

| Study | Instance | What its property demands |
|---|---|---|
| DRAS, trend backtest | two days of nine bars: one before the windows, five in them (a third entry is possible), one at the session's end, two after 15:20 | nothing is held overnight but the one entry the trend backtest lets through; no entry after the daily limits of closed legs; the equity is the sum of the legs |
| strategies | the same days, each of 26 strategies, an engine that may refuse a fill | strategies with a square-off of their own end the day flat; a held position of the compression burst has a stop |
| walk-forward | two windows over frames of equal, shorter and later data | no policy is judged on a bar it was trained on; no bar is judged twice |
| portfolio | two backtests of two symbols in one directory, shares of twelve units | the return is that of the trades wherever each symbol ran on its own share; shares never exceed the capital |
| live | two sessions of three symbols | each accepted signal found room; together they exceed a cap by less than a slot; the hand-off is the session's |
| matrix | three runs, two crashes, units and checkpoints that fail | a completed unit has a row, no unit two; windows tile the frame |
| research | eight bars, a grid of two, two symbols, two simulations | tests are ahead of training; scores, curves and rankings are those of the runs they name |
| market | a benchmark and two symbols of nine shapes of data | classifiers agree where they see the same frame; no symbol is counted twice; the strongest are on top |
| hours | eight days of 24 half minutes, up to three holidays, three intervals | the clocks agree but where named; the next run is in a session but where named; a schedule is complete |
| options | chains of up to three rows | last quotes only, volatility brackets the price, the analysis is that of the rows |
| futures | five expiries in months of eight days, every roll rule, day by day | the series follows the front contract, signals agree with the family |
| index | three runs over one directory, fresh and resumed, serial and with workers (which fail), with and without the regime filter, other settings, two crashes | the checkpoint never names a symbol whose rows are not on disk; a resumed run exports every symbol it skips |

### Why these bounds

A trade of the backtest needs three bars (signal, fill, exit) and every rule looks
at most one bar back; six bars hold an entry, an exit, a kill and a re-entry
attempt in three sessions. Two symbols are what it takes to compete for cash, a
slot or a sector; two sessions are what it takes for orders of later bars to meet
earlier bars; two processes, threads or requests are what it takes to collide, a
third sees what they left. One crash per file protocol and two per resume protocol
let a second run die over the remains of the first. Numbers of bars, sessions,
runs, crashes, restarts and refreshes are bounded by the constants `Max...`; no
other part of a state is cut off.

`automation_restart` keeps crashes and failing disks out of the instant between truncating
and writing a record (a save may fail before it), and its history is as long as there are jobs. Outside these two
bounds the cooldown is lost, as the code stands, and within them it holds for every number
of jobs, runs and crashes (`CooldownSafety`, section 4): a half-written record cannot be
read back, and a record evicted by other jobs cannot be either (`max_history` is
500, so the second needs 500 runs within one cooldown). `CHECK_DEADLOCK FALSE` is
set where programs end: every loop, study or process of these models does.

**Fairness.** `FairSpec` of `AutomationScheduler` assumes weak fairness of
`Handle(t)`, the steps of a request that wait for nothing outside the service: a
thread that holds a request is scheduled again, and file operations return. It is
not assumed that a pipeline comes back (`subprocess.run` has no time-out), that
anyone triggers one, or that the clock advances. `Runners` assumes weak fairness of
`Step(p)`: the operating system runs every process, and a process that waits for
the lock runs into its deadline. Nobody has to start a process, and a process may
die. Everything else is a sequential loop or a safety property and needs none.

## 4. The proofs

All are checked by TLAPS to the last leaf, for every value of the constants that
satisfies the named assumptions.

| Module | Theorem | Statement |
|---|---|---|
| `Backtest_proofs` | `TypeCorrect` | `Spec => []TypeOK` |
| | `LedgerBalances`, `CashNeverNegative`, `QueueAgreesWithPosition`, `KilledEngineIsFlat`, and `LedgerAndQueueHold`, which has the form of the run's property | `Spec => []Balanced`, `[]NeverOverdrawn`, `[]PendingMatchesPosition`, `[]KilledIsFlat`, `[]LedgerAndQueueAgree` |
| | `KillSwitchIsFinal`, `BacktestImplementsAccount` | `Spec => FrozenAfterKill`, `Spec => ImplementsAccount` |
| | `NextBarHasNoLookahead`, `NextBarTradesWithinSession` | with next-bar execution, `Spec => NoLookahead`, `Spec => []TradesWithinSession` |
| | `ExitsWithinBars`, `NextBarExitsAreReal` | `Spec => []ExitWithinBar`; with next-bar execution, `Spec => []ExitsAreReal` |
| | `OrdersUnderControl` | `LoSpec => OrdersStayUnderControl` |
| `PaperTrading_proofs` | `PaperLedger`, `PaperQueue`, `PaperCashNeverNegative` | `Spec => []RealizedMatchesPositions`, `[]QueueAgreesWithPositions`, `[]NeverOverdrawn` |
| | `PaperTradesAreReal`, `PaperImplementsAccount` | `Spec => TradesAreReal`, `Spec => ImplementsAccount` |
| | `PickSafety` | `PickSpec => []NothingIsLeftOutForNothing` |
| | `HandoffIsOfThePlan` | when the selection policy takes a symbol once, `DecisionSpec => []HandoffAgreesWithPlan` |
| `Studies_proofs` | `StopSafety` | `SignalSpec => []HeldHasStop` |
| | `FlatSafety` | when two bars of the day lie at or after 15:20, `DrasStudy \/ TrendStudy \/ SignalStudy => []FlatOvernight` |
| | `DrasLimits` | when a bar of the day lies at or after 15:15, `DrasStudy => EntriesRespectDailyLimits` |
| | `LiveSafety` | `LiveSpec => []SignalsFitTogether` |
| | `CheckpointSafety`, `ProgressSafety` | `Spec => []NothingCompletedIsLost`, `Spec => ResumeKeepsProgress` |
| | `MatrixComplete` | `MxSpec => []MatrixIsComplete` |
| | `WalkForwardOutOfSample` | for frames in order, `WfSpec => []JudgedOutOfSample` |
| | `PlanSafety`, `TotalsSafety` | `PlanSpec => []BudgetsHold`, `[]ItemsMatchTotals` |
| `Providers_proofs` | `SessionSafety`, `DurableSafety` | `Spec => []SecretsStayCurrent`, `[]StoredCredentialsAreDurable` |
| | `InstrumentsSound` | `ImSpec => InstrumentsStaySound` |
| | `DataWhole` | `MdSpec => []DataArrivesWhole` |
| `Realtime_proofs` | `StopSafety`, `StopIsPromptSafety` | `Spec => [](ReturnedEngineIsStopped /\ StopIsPrompt)`, `[]StopIsPrompt` |
| | `HistorySafety` | `Spec => []HistoryKeepsEveryCycle` |
| | `AlertsOnFileOnce` | `UsedOnceExports` implies `Spec => []FileHasEachAlertOnce` |
| | `PreferencesAreSaved` | whatever preferences there may be, `NtSpec => []PreferencesInUseAreSaved` |
| `Runners_proofs` | `LockSafety` | `Spec => []LockExcludes` |
| | `BundleSafety`, `SuccessSafety`, `SerialSafety` | `Spec => []ReadsWholeBundle`, `[]SuccessHasOwnBundle`, `[]SerialSessionsAccumulate` |
| `AutomationScheduler_proofs` | `FinalRecordsSafety` | `Spec => []FinalRecordsHaveManifests` |
| | `CooldownSafety` | `OneRequestAtATime` implies `Spec => CooldownRespected` |

**The backtest.** None of the properties is inductive alone. `IInv` is the type
invariant, the four safety properties and two facts about the order of the loop:
`QueueDrained` (when the signal is asked for, every older order has been
processed - without it a second order could join the queue) and
`KilledNeverSignals` (the kill is decided before the step that skips the strategy -
without it a killed engine could submit). There is one lemma per action, all
resting on two lemmas about the portfolio: `OpenKeepsAccount` and
`CloseKeepsAccount`. The action properties and the refinement use `IInv` at each
step: `CloseIsSell` and `OpenIsBuy` show that `ClosePosition` and `OpenPosition`
are steps of the abstract account, everything else stutters. The theorems about
next-bar execution carry an invariant of their own: `OrdersLag` (a waiting order is
older than the bar it will fill on) and `SessionInv` (after the square-off of a
session's last bar nothing is held). Their hypothesis is necessary: in same-bar
mode the second is false (section 5). What an exit brings in needs no such
hypothesis: `ExitInv` says that no trade on the books is of a later bar and that each
one closed on this bar was sold within it, and rests on a lemma of integer division,
that slippage keeps the order of two prices.

**The live orders.** The gate is checked in one step and the order sent in a later one,
with the environment changing in between, so that "nothing is sent unless live" is a claim
about what the check of the call under way has seen. `LoInv` says it of every such call
(`CallUnderWay`), and that its reply, if there is one, is true and stays true until it is
returned. The orders at Kite are of different attempts, one for each; the attempt under way
is the last and has no order before Kite has handled it, which is what makes one call one
order; and an order nobody was told of is of an attempt that raised or waits.

**The paper account.** `IInv` has four parts: `Walking` (the walk is at a ranked symbol
on a timestamp of the session), `Books` (what is held, what is realized and the cash
balance), `Priced` (whatever is held has a last price or gets one at the end of this
walk) and `Matched` (one position and one order of a symbol at most, and how they fit).
The book is a sum over a set of positions, which the community modules take in an order
`CHOOSE` picks. `SetSums` shows, by a smallest counterexample, that the order makes
no difference and what a member more, a member less and other names do to a sum.
A purchase and a sale are then steps of the abstract account. For `TradesAreReal` the
low and the high of a bar are whole ticks, where the slippage is exact; at the price
between them it is rounded down, so a sale at a stop can bring in up to two units of
price per lot more than one at the high, and the property says so.

**The picks.** What may be left out depends on what was picked before, so the
invariant keeps the order: `InOrder` says that queue and picks are candidates of one scan
in the order of their ranks, which is a strict total order because a scan has one setup
for each symbol, timeframe and strategy (`GivenScansAssumption` for the scans given,
`IsScan` in the guard of `PickSpec` for the rest). `CountersOK` says that each counter of
the selector counts the picks it is named for; with both, a counter at its limit is a set
of better picks, which is the excuse `RejectionsOK` keeps for each rejected setup.

**The hand-off.** `_write_paper_handoff_csv` finds the position of a pick by its symbol.
That is the right one because the selector takes no symbol twice while
`enforce_unique_symbol` is on: `PicksOK` says that its counter knows every symbol taken,
`PlannedOK` that the planner looks at each pick once, in their order (`LookedAt` counts
how far it has come), so that no two positions have one symbol, and `HandoffOK` that the
file is written of the finished plan. The default is `True` (`decision/config.py:197`) and
only a unit test of the selector changes it; without it the hypothesis, and the property, fail.

**The plan.** The code rounds twice: a target in money to a number of units, and
that number times the price. `PlanInv` joins the types of the plan, that nothing is
chosen while new risk is paused, and `BudgetsHold`; lemmas on integer division
show that a rounded quantity costs at most its target and that the target is at
most what is left of each cap, so that adding an item keeps every sum. The budgets are
kept by running totals; `Tallied` says they are the totals of the chosen positions, by
the lemmas of `SetSums`, and that each position keeps to its own caps.

**The stop of the burst.** `HeldHasStop` is about the position, but the strategy
learns of no fill: the strengthening `OrderHasStop` says the same of a BUY that
waits, and a stop is given up only together with an exit signal.

**Flat overnight.** The three studies share the clock, and `NextBarFacts` says what a
bar's time is: the next on the grid, or the first after the last. For the DRAS
backtest, 15:15 lies outside both entry windows, so a bar either closes what is open
or finds nothing to close. For the trend backtest the session test and the exit
meet at one time only, the end of the session, and the entry carried is of that bar.
For the strategies `Squared` splits the square-off into its two bars: from 15:20 nothing
is bought and what is held has its exit ordered, so it is gone on the next bar; only
a strategy past its warm-up buys, which is why the answer at 15:20 is an exit and not
silence. With one bar from 15:20 the exit would fill on the next morning, so the
hypothesis `ExitFills` is necessary.

**The daily limits.** The kill switch of `backtest_dras` reads counters; the property is
about the list of closed legs. `BookOK` ties the two: the equity is what the legs earned, the
equity of the morning what those of earlier days did (`Ledger`), the leg before the
counted losses is of another day or a winner (`Streak`), every trade closed today and the
one still open were counted (`EntriesCounted`), and without equity in the morning nothing is
entered (`NoMoneyNoTrade`, without which the loss limit would not bind, as the code tests it
for a positive equity only). `LegKeepsTheBook` covers all ways a leg is closed. A new day
resets the counters, which is right because the day before ended flat; without a bar from
15:15 on a trade could be closed on a day that did not count it, so the hypothesis is
necessary.

**The live signals.** `SignalsFitTogether` is nearly inductive: each acceptance is a new
witness, as it was checked against the estimates of all before it, and every
other step keeps what the property reads (`KeepsSignals`).

**The matrix.** `MxInv` says that what a checkpoint or a running process calls completed
has a row, that what is still to do has none unless the run began anew, and that the two
make up the units of the run. Rows are written before the checkpoint, so a crash between
leaves a unit with a row that no checkpoint names; a resumed run counts the rows as well
and does not repeat it.

**The walk-forward.** A window is a range of positions in the first symbol's frame, cut out
of every other frame as well. `WfInv` says in which positions of its own frame lie the
days a symbol was trained on and those it was judged on, also where a frame is too short
and a slice is cut off by its end; `WindowsAdvance` is the arithmetic of two windows. Positions
order days only if frames are in order (`FramesInOrder`): the sources sort them
and `DataHandler.set_data` refuses duplicates in every backtest, but the walk-forward
itself checks neither, so this is a hypothesis.

**The instruments.** `OneWriter` holds while refreshes have not overlapped: the temporary
file belongs to the one process that writes it and is whole when it is moved.
`ListsAreOfToday` says of every copy of the list - in memory, in the file, in a download -
that Kite has published it and that a process never replaces its list by an older one;
`OneEach` that a registry has one instrument per key.

**The market data.** `RoundedUp` is the arithmetic of `_date_chunks`: the number of pieces
is a division rounded up, so they reach the end of the range, and stop short of a bar at
the very end only where nothing is left over. `MoreCovered` says that a piece brings the
bars after those of the pieces before it, and `SortedJoin` that sets of times one after the
other, sorted, are sorted together; so `Asking` can say of a download under way that its bars
are those of the pieces so far, and that no more calls were made than its attempts so far -
with the last piece answered the attempts begin anew, without which the bound would be
one retry too weak. `InTurn` says that the records are of the symbols before those
still to do, and the errors those of the records without success. The routes need no
invariant: the first candidate that serves is the least index of those that do.

**The secrets.** What the cache answers is about the credentials held now. The
invariant follows a verdict on its way: `AskedOfNow` (the secrets a request has sent to
the broker are those of now, or the request is marked as late) and `Remembered`
(the same of the cache, between updates). It holds for any number of requests and
anything they ask.

**The stored credentials.** An update rewrites `.env` as a whole, so what becomes of one
credential depends on every update of the others. `DurableInv` says, of a credential without
clashes, where its last value is: in the file, or in the lines read by the request that has
emptied the file (`OnFile`), and in the environment, unless it is just being replaced
(`InForce`). `Alone` makes this inductive: as soon as two updates overlap, every
credential counts as clashed. Steps that take no part in an update are `Aside` and share
one lemma.

**The stopped engine.** `Left` says of which places of `run()` the engine is known
to be stopped at or not yet entered, `Prompt` where a request to stop can have been
overtaken by a cycle. Most steps are `Ordinary` - they touch no flag - and one
lemma deals with all of them.

**The history.** `HistInv` has two parts: `Counted` (each id on record was given to
a cycle that has been counted, by this process or an earlier one) and `Past` (what is
on record is not newer than the cycles that are over, and the newest of them are
there as far as the window reaches). Putting one more cycle at the end and dropping
the oldest shifts the window, and `Past` says that nothing between is lost; the file
is written whole, so a crash leaves the record of before or of after.

**The alerts file.** `Marked` is the heart of `AlertInv`: as long as an engine lives, its alert
engine remembers every row sent or on file, or a later one of the same key, so what the next
monitoring lets through is a window apart from all of them (`KeptAreApart`), although the
cycle in between may have failed. The dispatcher can only leave rows out of it
(`ThoseKeep`), and the rewriting of the file at the end only puts the rows of this run, which are
`Spaced`, in place of others. A new engine remembers nothing: until it exports, the file may
hold an alert of the last engine and the same one of this. That is why `UsedOnceExports` asks of
an engine renewed between persisting runs that each run reach and complete its export; if the
run raises, a subscriber of `engine_stopped` raises, or the disk fails, TLC finds the alert
twice in the file, for each of the three. Engines that are used again need no such hypothesis.
Both dedupes are written as sets of places in a list (`Kept`, `Those`) and not as folds, so that
facts about them can be proved (`AtPlaces` of `SetSums`, `ThoseAre`).

**The preferences.** `InStep` relates memory, file and requests as long as nothing has
overlapped or failed: one update at most is under way and is what the memory holds, what
was loaded for an empty memory is still what the file gives, and otherwise the memory holds
what is in the file. The ways in which two updates, a first load beside an update or a failed write
break this are those `nt.clean` records, so the theorem says that there are no others. It is
for any set of preferences closed under what the page makes of them (`ArePreferences`).

**The checkpoint.** `Backed` (every symbol the checkpoint names has its rows in the
incremental results, made under the checkpoint's hash), `Kept` (the same of a
running process's own list, in memory and on disk) and `Exported`. The order rows
first, checkpoint second is what makes `Backed` inductive under a crash. For
`ResumeKeepsProgress`, `Resumed` says that a resumed run has completed whatever a
checkpoint of its settings names.

**The lock.** `LockInv` adds to the exclusion the types its steps depend on. A
process that dies leaves the lock, which harms liveness and not exclusion.

**The bundles.** A stage writes its manifest last. `BundleInv` says who is in a stage
directory (`Placing`), that a manifest there is by a writer that has passed its data
file (`Filed`), and that the directory of a stamped run belongs to those that name
it (`Taken`); so a reader that finds a manifest finds the data beside it.

**The pipelines.** `SuccessInv` follows one pipeline: `Coded` (its exit code is given
only at its end), `Private` (no one else writes into the directory it named, where files are half-written
only while it fills or publishes them) and `Judged` (one that is judged successful is
done, and its manifest and outputs are its own).

**The paper sessions.** `SessionInv` joins to `BundleInv` that whoever has been met at
work ended for good (`Met`) and, when the sessions are run one after the other, that
the one at work has loaded all that is on disk (`Saved`); without that hypothesis two
sessions overwrite each other.

**The records.** `Owned`: a thread at work has a run that no other thread touches.
`Phases` follows that run: its record says "running" until the pipeline has returned,
no final record of it is on disk until its manifest is written, and from then on
the manifest agrees with the record in memory, which is what the second save
writes. `Fresh` says that ids not yet given out have no file. Retention and crashes
only remove or tear files, and what fails ends its request, so they keep all of it; the
theorem holds for any number of threads, ids, crashes and faults.

**The cooldown.** A restarted process has no stamps, so the cooldown rests on what the store
still holds. `HistInv` says that it holds enough: the files are in the order of their runs
(`Listing`), the times of the records follow that order, and records of one job are a cooldown
apart (`InTurn`); stamps in memory are not older than the records (`Stamps`); and the last run of
a job that ran within the cooldown is on file (`Remembered`). Retention is the hard step:
by `FewFilesAfter` the files behind such a run are of other jobs, no two of one job, since the
cooldown would have kept them apart - so they are fewer than there are jobs, and the run is
neither removed by `_enforce_retention` nor beyond what `get_runs_by_job` reads. The files that
stay are the members of a list at some of its places (`Those`), about which `AtPlaces` is proved.
Each part of `OneRequestAtATime` is needed: two requests at once start one job twice
(`NoDuplicateRuns`, section 5), a manifest that cannot be written leaves an old stamp in memory
that hides the newer record (a record that cannot be saved does no such harm: the stamp is set
before the second save), a torn record cannot be read back, and a history with less room than
there are jobs evicts a record within its cooldown. The code has room for 500 records
(`run_store.py:23`) and fewer than ten jobs.

**Assumptions**, all evaluated by TLC in the runs: rates are fractions and bars
consistent, configurations pass the validation of `utils/config.py` (`Backtest`);
rates leave something of a sale, symbols are finitely many and bars are what
`validate_ohlcv_dataframe` neither rejects nor warns of (`ConfigAssumption` and
`FeedAssumption` of `PaperTrading`);
picks and configurations are those the code can be given (`PlanAssumption`);
limits and thresholds of picks are numbers (`PickAssumption`) and given scans have no setup
twice (`GivenScansAssumption` of `Decision`); the limits, capital and prices of the DRAS
backtest are numbers (`DrasAssumption`);
signals are distinct and levels numbers (`StrategyAssumption`), a day has bars (`GridAssumption`),
a session begins before it ends (`TrendAssumption`), limits and sizes are numbers (`LiveAssumption`); an empty secret
differs from every secret (`ProvidersAssumption`), contracts have numbers of their own and the value for no list differs from every list
(`InstrumentsAssumption`), ranges, pieces and retries are numbers, a range lists finitely
many bars and the known providers are those of the table (`MarketDataAssumption`), the word for no execution mode is none of the modes and a call asks
for no negative quantity and names its symbol (`OrdersAssumption`), the settings of a matrix have windows and bars
(`MatrixAssumption`) and the shell answers for every variable
(`SettingAssumption` of `Providers`); windows and bounds are naturals
and scans are sequences of keys (`RealtimeAssumption`); the universe lists a symbol once (`ConfigAssumption` of
`ResearchRunner`); command lines are of known kinds (`JobAssumption`) and the values for no
holder and for a torn file differ from processes, sets of processes, directories and
Booleans (`NoneAssumption`, both of `Runners`); the values for an absent and a torn file are two, and no records
(`AbsentAssumption` of `AutomationScheduler`).

The hypotheses of `WalkForwardOutOfSample`, `HandoffIsOfThePlan`, `PreferencesAreSaved`,
`AlertsOnFileOnce` and `CooldownSafety` hold of the instances the runs use.

**Only model-checked.** Liveness, which is out of this prover's reach. What is folded, filtered or
flattened over sequences, since the library defines those operators by recursion and a proof
about them is an induction over data: the costs of a report (`CostsAreCounted`), the
research statistics and the contacts of a dispatch (`EachContactIsServed`). Of the composite properties `ResearchIsHonest` and
`NotificationsFitTogether` the parts `JudgedOutOfSample` and `PreferencesInUseAreSaved` are
proved, the others are not. And all properties of the modules not named above.

## 5. Where code and documentation disagree

Three are runs in which TLC exhibits the behaviour; `PROJECT.json` quotes the lines.

| Run | The code | The text |
|---|---|---|
| `automation_duplicates` | two requests pass the cooldown before either is on record | `scheduler_service.py:6` |
| `research_settings` | a resumed run exports the rows a dead run with other settings has left with its own | the research runner's `--resume` |
| `max_pain` | `_compute_max_pain` adds, for a candidate strike, the calls above it and the puts below it - the ones that expire worthless there - instead of those in the money | docstring and comment, `analytics.py:360`, `:372` |

The rest was met while modelling and is in the models as the code has it; where a
property would be false, it names the exception. Paths are relative to `src/src`
unless they say otherwise.

**Engines.** A trailing stop is raised by the bar's high before the bar's open is
compared with it, so a bar that rallies may be sold at its open as if it had
gapped down (`core/position.py:112`). Sizing adds the rates, the fill multiplies
them: an order for the whole cash is refused at an unchanged price, after it was
marked filled (`core/broker.py:335`). In same-bar mode the signal of a session's
last bar is filled after the square-off and held overnight
(`tests/test_intraday_mode.py:160`). The kill switch is evaluated only while a
position is open. The position limit of the paper engine counts open positions and
not waiting BUYs (`risk/risk_engine.py:34`); a BUY accepted before the drawdown
limit is filled after it (`paper_engine.py:484`); SELL orders are created beyond
`max_orders_per_session`; slippage is charged in the fill price and again in the
cost of a BUY (`execution/cost_model.py:104`).

**Automation and runners.** `subprocess.run` has no time-out
(`workflow_orchestrator.py:221`). Two paper sessions that overlap both load before
either saves, and the trades of one are lost (`state_store.py:47`); two producers that
start in one second share an output directory. A failed manifest leaves the previous stamp in memory,
which hides the newer record (`docs/AUTOMATION.md:35`). A crash between truncating
and writing a record (`run_store.py:32`) loses the cooldown; retention may unlink a
record its own request is rewriting. `scheduler_service.py:285` overwrites
`run_manifest.json`, which `docs/SAFETY.md:32` and `docs/AUTOMATION.md:62` describe as
the runner's. The daily dry run counts as a success whatever
`monitoring_result.errors` holds.

**Intraday strategies.** DRAS takes its partial profit before it looks at the stop
(docstring line 27 says the opposite), and stop exits fill at the level, not at
the close; consecutive losses count legs, not trades; `continue  # skip bar`
(`:729`) continues an inner loop only; the strategy class never assigns the
`_position` and counters it reads (`:363`, `:430`); the equity recorded at a
square-off excludes the leg if it is long and includes it if it is short. The
trend backtest enters on the bar at exactly `session_end` and carries it overnight
against its comment (`:599`). The burst lowers its trailing stop on a repeated
entry signal and keeps it through `initialize()`. An exit at 15:20 is never reached
on 15-minute bars; many intraday strategies have no square-off of their own.
`strategies/intraday/intraday_trend_following_strategy.py` is a second copy of the
registered strategy that only a test imports.

**Decisions.** The scanner never sets sector, cluster or ATR, so the selector's caps
never apply, every pick is of the sector "unknown" and the sector cap (40 %) bounds
the whole deployment despite `max_capital_deployed_pct` of 90 %; ATR sizing always
falls back. A trade sized by ATR estimates its risk by ATR, so its stop may risk
more than `max_per_trade_risk_pct`. The hand-off exports rejected picks with no
quantity, also under `no_new_risk`. Under REDUCED_RISK a riskier pick may be selected
than in NORMAL. The `notional > remaining_capital` and `risk_per_unit <= 0` branches
are dead; `atr_fallback_stop_pct`, `prefer_higher_rr_on_tie` and
`stable_tie_breaker_keys` are never read. A failed watch-list scan rescans the
default universe where a comment says it returns an empty result
(`market_monitor.py`).

**Research and policy.** A Sharpe ratio of exactly 0 counts as none; the preferred
strategy need not be an allowed one (`regime_policy.py:104`). Walk-forward slices by
positions of the first symbol's frame. In the portfolio backtester a failed
symbol's capital is a loss without a trade, reserve capital is missing from the
curve, `should_trade=False` still trades a fall-back strategy, the regime is detected
on the whole data set and empty frames leave older CSVs in place. In the live
pipeline, at a drawdown of exactly the maximum the overlay's `no_new_risk` is
overwritten (strict comparison), the fall-back may be a suppressed strategy while
an allowed one exists, stale bars only warn, and a session without signals leaves
the hand-off of the one before. The parallel path of the index research never delivers a row: `pool.submit` hands
`_process_symbol` by position what it takes by keyword only
(`scripts/run_nifty50_zerodha_research.py:1607` and `:710`), so that each worker raises
a `TypeError`, every symbol is reported as failed and the run goes on without it, where
the comment at `:1676` says that "both paths produce identical result rows". A matrix
resumes over rows made with other
settings (the unit key has no hash), a fresh run appends to the old CSV and the
summary reads all of it; a frame at the minimum length makes one window that then
raises. The optimizer hands the first failed row's parameters to the walk-forward
test when all runs failed; an exception in a test window loses the whole study; a
negative `step_size` never ends, one below the test length tests bars twice. A
symbol without a curve vanishes from the multi-asset portfolio while the initial
capital stays whole. Reshuffled trades always end at one equity, so Monte Carlo's
probability of profit is 0 or 1. Discovery gives failed candidates the default
robustness of 50; a surface point may be both stable and unstable.

**Market views.** Realized volatility is annualised but compared with thresholds of
0.03 and 0.01, so that almost every instrument is HIGH and the composite regime
RISK_OFF; the module's table and its rules 5 and 7 differ from the code for
RANGEBOUND and BEARISH; strong breadth with unknown volatility is RISK_ON; a
single sector is always LEADING and IMPROVING is never assigned; sectors with short
history count missing windows as 0; an error on the benchmark's volatility aborts
the state engine despite `continue_on_error`; the label names the benchmark when the
first symbol stood in for it; `require_min_bars` defaults to False where its docstring
says True.

**Monitoring.** A subscriber that raises on `engine_started` leaves `run()` before its
`try`, and the engine stays RUNNING (`realtime_engine.py:103`); `start()` clears a stop
request that came before it (`:64`). An alert is entered as seen before it is written,
so a failed write suppresses it for the window (`alert_dispatcher.py:57`); the regime memory
moves on before the alert about the change is dispatched, so a cycle that fails later
never reports it (`market_monitor.py:84`).

**Market hours.** After the last poll of a session `next_run_time` returns the same
time of day a day later instead of the next opening; on Saturday 10:00 it answers
Monday 10:00, on Saturday 16:00 Tuesday 09:15; a poll in the seconds of 15:30 skips
the whole next session, because one function truncates to the minute and another
compares to the second; an interval that crosses midnight may be accepted at night.
The clock ignores the holidays that the API knows. `next_run_time` has no caller but
tests.

**Derivatives.** `dte_roll` leaves the days from the roll to the previous expiry
without data; `calendar_roll` has the expiry day twice; the family's
`is_roll_imminent` uses 5 days whatever threshold the signal reports;
`implied_volatility` returns an unconverged midpoint where its docstring says None;
a volatility of 0 is missing in one feed and a value in another; a row without a
strike lands on strike 0; `docs/ARCHITECTURE.md:196` names a field the code does
not have.

**Providers and data.** `configure_multiple_credentials` stores one credential after
the other ("Atomically store multiple credentials"); the OAuth callbacks report
success when storing failed or validation said INVALID; `.env` is rewritten without a lock, so that of two
concurrent changes one is lost (`credential_store.py:197`); a verdict, also a transient
failure, stays cached until the next validation; a variable of the shell wins over
`.env` after a restart. The router answers its default although it cannot serve the
request (`provider_router.py:176`). `_load_cache` only warns of a stale file that its
docstring refreshes; a refresh of one exchange replaces the cache of all, a failed
download drops its exchange, and the temporary file has one name for all processes;
a nameless contract is read back as "NAN". `DerivativeDataFetcher` calls a method its
source lacks. Live quotes of Zerodha subtract a naive time from an aware one, so
the poller records a failure after five attempts, without the historical fall-back
it has for sources that say they cannot. A bar in the second between two pieces at the very end of a
range is dropped; CSV providers ignore the range.

**Orders and notifications.** The Zerodha adapter sells on any side it does not know
and sends a market order on any unknown type; an answer that is lost is reported as
a failure although the order stands; a cancel is answered CANCELLED whatever became
of it; a failed login keeps the old client. In next-bar mode the fill model has no
lower bound for its index. The gate is checked before the order is built and sent, so a change of the
environment in between does not stop the call under way (`zerodha_broker.py:202`,
`:229`). An order with an empty history is answered as PENDING, a success that names
neither symbol nor quantity (`:291`). A trade with a blank price or quantity is counted
in the cost report without any cost, where the docstring says that costs are
applied "as a **round-trip** cost per trade" (`execution/__init__.py:174`). `save_preferences` changes memory before the file and writes it in
place; a slow first load overwrites a PUT until the restart; the settings page puts
masked contacts back; a numeric target is saved, then answered 400, and every later
GET fails; a failed SMTP `quit()` reports a delivered mail as failed; `send_test`
ignores that a channel is off.

## 6. What could be added

- **Composition**: paper sessions over `Runners`' lock with the portfolio in place of
  the set of sessions; the scheduler over the runners in place of its arbitrary
  outcome. Both multiply state spaces that are near the bounds of a quick check.
- **Larger instances**: a third symbol in `decisions` would let two sectors compete
  with a cluster; a second broker in `providers` would exercise the router's order.

## 7. What is not modelled

- **Indicators, analysis scores, performance metrics, reports**: stateless arithmetic
  on data frames. Strategies and classifiers meet every outcome of their
  comparisons instead.
- **Vendor SDKs, HTTP, file formats, AI provider calls**: the models start where an
  answer or a failure has arrived.
- **Floating point**: all arithmetic is exact. Comparisons with a tolerance
  (1e-9 in `_execute_order`) become exact comparisons.
- **Limit orders** of `core/execution.py`: submitted by no caller.
- **REST routes**: one call of a service each; that they run on a thread pool is in
  the models of those services.
- **User interfaces, logging, the frontend, argument parsing, reports' text**: display
  or constants.
- Parts listed as `partly` in `PROJECT.json` name what is left out of each.
