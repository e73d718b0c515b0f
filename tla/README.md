# ArbitrageStation in TLA+

ArbitrageStation keeps hedged positions on crypto exchanges: a short perpetual
against a long one (spread arbitrage, funding strategies), or a short perpetual
against a spot holding (spot-basis). Several jobs, the price loop and API
requests work on one database and on the same exchange accounts, with almost no
locks between them. These modules are about what can go wrong there: a position
nobody remembers, a leg sold twice, a row that never gets closed, a guard that
never runs.

All paths below are relative to `src/backend/`.

## Inventory

| Part | State | Operations | What makes it correct |
|---|---|---|---|
| Spread arbitrage engine, `core/spread_arb_engine/` | `spread_positions`, the times of the last recovery attempts | entry, exit, recovery, manual close | no exposure forgotten, no double entry, a closed row is flat, stuck rows get closed |
| Order calls, `core/exchange_manager/hedge_orders.py`, `order_close.py` | none of their own; the exchange holdings | place, close, close with variants | what they report agrees with what they did, as far as they can know |
| Cross-exchange and spot-hedge strategies, `strategies/` | `strategies`, `positions` | open, unwind of a failed open, close | an active pair is hedged, a closed one holds nothing |
| Risk manager, `core/risk_manager.py` | same tables | list active strategies, close one | it cannot interfere with another closer |
| Trading API, `domains/trading/router.py` | same tables | open, close | "already closing" is refused |
| Spot-basis reconciler, `core/spot_basis_reconciler/` | same tables, a lock | close what lost its legs, recover what is held and not in the tables | recovers orphans, invents none |
| Spot-basis auto engine, `core/spot_basis_auto_engine/` | configuration, retry queue, mismatch state, failure streak, a lock file | a cycle: retries, repair, guards, rebalance | guards run and win over everything else; a rebalance settles and asks for no money that is not there |
| Spot-basis runtime, `core/spot_basis_runtime/` | history rows, when each leg was tried, cached statistics, configuration | scan, score, refresh, switch on and off | one refresh job at a time, a leg that counts as tried has its rows |
| Spot-basis data layer, `core/spot_basis_data_layer/` | candles, universes, jobs and their status rows | collect, backfill, import, freeze, run a job | no partial candle stays, a job's result is not taken back |
| Backtest and search, `core/spot_basis_backtest*/` | none kept: a book stepped over bars | run, walk-forward search | no look-ahead, no test on training bars |
| Funding ledger, `core/funding_ledger/` | cursors, ledger rows, shares | ingest, deduplicate, assign | each payment counted once, none skipped, each holder has its share |
| PnL v2, `infra/pnl_v2/runtime/`, `core/pnl_v2_logic.py` | read-only, a daily reconcile | summaries, quality states | "ok" hides no gap; cut lists have counts that are not cut |
| Market-data service, `src/scripts/sandbox_ccxt_pro/lib/marketdata/` | queues, `latest_quote`, `l0_raw` and candle levels, worker states | take quotes, write, compact, boot and restart collectors, supervise processes, slow down | quotes arrive once, never go back, and are rolled up; dead workers are noticed; slowing down is reversible |
| Price loops, `domains/websocket/router.py`, `core/data_collector/` | caches, clients | refresh, broadcast, trigger entries and exits | no work on stale prices |
| OKX private WebSocket, `core/okx_private_ws.py` | connection, health per account | connect, reconnect | reconnects |
| Scheduler, `main.py` | job table | start each job at its interval | a job does not overlap itself |

`PROJECT.json` lists the rest (dashboards, statistics, gateways, e-mail, tools,
frontend) with the reason each is left out.

**How they meet.** All trading parts share the tables and the exchange accounts.
Sessions have autoflush off (`models/database/base.py:30`), so a thread sees
neither the uncommitted work of others nor, in its queries, its own. Positions
net per market at the exchange: two strategies on one symbol share a unit of
account nobody else keeps. The scheduler starts each job in a thread pool and
never twice at once; the price loop and requests have threads of their own. The
locks `_entry_lock`, `_exit_lock` (price loop), `_RECON_LOCK` (reconciler) and
`_CYCLE_LOCK` plus its lock file (auto engine) each keep a part from itself only.
The funding ledger reads the spans of positions and feeds the PnL reports; the
history refresh and the data layer feed the scanner and the backtest. The
market-data service is a process of its own that the backend does not import.

**What is hard.** Check and act are always separated by slow orders; a reply may
be lost after the order was executed; a process may die between an order and its
commit; two closers may work on one row; a job may act on what it read seconds ago;
a cursor moves in another commit than some of the rows it covers; a cached value
outlives what it was computed from. `PROJECT.json` lists each such place as a
hazard, at its line.

## Modules

| Module | Models | Extends |
|---|---|---|
| `SpreadLife` | what the engine promises of a spread position | |
| `SpreadArb` | the life of a spread position; refines `SpreadLife` | |
| `StrategyBook` | strategies and positions under requests, risk job and auto engine | |
| `Reconciler` | the reconciler's pass, composed with the book | `StrategyBook` |
| `AutoCycle` | the cycle of the auto engine | |
| `Rebalance` | what a cycle plans and executes when no repair is due | |
| `FundingLedger` | ingests of funding events, the cursor, the shares | |
| `PnlV2` | the reports over the ledger | `FundingLedger` |
| `HistoryRefresh` | refreshes of the funding history | |
| `CandleStore` | 15-minute candles and daily universes | |
| `JobBoard` | what the status of a data job promises | |
| `JobTable` | rows and threads of data jobs; refines `JobBoard` | |
| `Backtest` | the backtest's bars, the walk-forward search | |
| `QuoteStore` | a quote's way into the two tables | |
| `Rollup` | compaction into candles, the emergency deletion | |
| `Collector` | boot, watch and restart of the collectors | |
| `Supervisor` | worker processes and their restarts | |
| `HealthGate` | a worker's stages of slowing down | |
| `SpreadArbProofs`, `StrategyBookProofs`, `ReconcilerProofs`, `HistoryRefreshProofs` | theorems about the module of the name | their module |
| `AutoEngineProofs` | theorems about the cycle and the rebalance | `AutoCycle`, `Rebalance` |
| `FundingLedgerProofs` | theorems about the ledger and the reports | `PnlV2` |
| `SandboxProofs` | theorems about the market-data service | `Collector`, `Supervisor`, `QuoteStore`, `Rollup` |
| `DataLayerProofs` | theorems about candles, jobs and the backtest | `JobTable`, `CandleStore`, `Backtest` |
| `MCSpreadArb`, `MCStrategyBook`, `MCReconciler`, `MCAutoCycle`, `MCServices` | small instances for TLC | |

### Conventions

One step is one commit or one call to an exchange; what a thread does between two
of them is local to it and part of the next. A leg is one unit: sizes, prices,
fees and rounding are abstracted. Signals (a z-score, a profit target, a score)
are free choices. A call to an exchange has as outcomes what its code can make of
the answers: executed and reported, executed and the reply lost, not executed.
Where `close_hedge_position` tries three variants of an order, the number of
variants bounds how often a unit can be sold. `faults` counts what failed and its
bound is `MaxFaults`; each abort of a thread or crash of the process counts too.

SQLite lets one writer in at a time and makes the others wait up to 30 s. The
models let them all go on, a superset of its interleavings (on another database
they are the real ones); a writer refused after the wait is an `Abort`.

### SpreadArb

`status`, `flag` and `stops` are the rows; `venue` is what the exchanges hold;
`cool` is `_last_recover_attempt`; `pc`, `job`, `row`, `leg`, `tries`, `todo`,
`mem`, `noex` and `why` are the local variables of a thread. Threads are "fast" (the
price loop: entries, recovery twice, exits), "sched" (`run_spread_arb`: recovery,
exits) and one per manual close. An entry checks duplicates and caps, places the
short leg and then the long one with retries, cancels the short leg if the long one
failed, and writes the row. A close commits 'closing', sends each leg that is not
flagged, verifies it at the exchange, retries, and commits flags and final status.
The user may delete `MaxDeleted` exchanges that are in use (`gone`).

`SpreadLife` is the engine seen from its rows, without threads: a row is opened when no
other row of its symbol is, marked, its legs sold only then, each confirmed on
evidence, and it is closed when both are. Its `seen` is what somebody knows of a row:
the flags, and what the workers with the row in hand have in memory (`Known`). The
evidence is gathered in one step and committed in a later one, so it is a variable: it
may get lost in between (a rollback, a crash, a retry), it is never made up, and it
never reaches another row. `RowsLive` is the refinement.

### StrategyBook and Reconciler

`sst` and `pst` are the tables; `book`, `local`, `todo`, `err` and `plan` what a
worker has in hand; `local[w][l] = "kept"` is a leg the session has not touched.
`Flushed` says what a commit writes, and that the count of remaining positions
ignores it is why a spot hedge whose close sold everything stays 'active' until the
reconciler or a second close ends it. `stray` counts units no row records,
`adrift` the strategies whose closer died.

`Reconciler` adds the pass: close what has no open legs, read the tables, read the
shorts, read the wallets, pair and write. Deletions of exchanges inside a pass
are part of the module (`listed`) but no run exercises them.

### AutoCycle

A strategy is the set of legs it has open (`st`), since `StrategyBook` has its orders
in detail. `queue` and `due` are the retry queue, `mis` the mismatch state, `streak`
the breaker's count, `orphan` the lock file of a dead process; `pc` and the variables
after it are the locals of `run_spot_basis_auto_open_cycle`. The order of the code is
kept: retries, which end the cycle; scan, reads, breaker; mismatch repair with its
fallback closes and its breaker; guards; rebalance, closes before opens. Which
strategies a plan of the profit lock, the soft drawdown, the basis shock or the
stale-data mode names, and whether a rebalance is confirmed, covered and allowed, are
free choices in `Guard`; the hard drawdown is not. `lies` counts wrong reads in
a row for one property.

`Rebalance` has what `Guard` leaves free in the last part: the target from the
scanner's rows, the delta plan with its dead bands, the rounds of confirmation, the
closes before the opens, the retries of single items, and the executor's own caches of
spot and margin money, which may be older than the wallets. A close that sells open legs
reports failure (see `StrategyBook`), so a cycle that closes opens nothing: `ClosePhaseEnds`
drops its opens, and a later cycle plans them anew. `retry` is the retry queue; the retry
that merely ends a strategy already sold is left out, it moves neither legs nor money.
Sizes are units of ten dollars.

Two abstractions to know: a repair whose order was executed and whose commit failed
counts as not executed (it is rolled back, and its unit is then `StrategyBook`'s kind
of stray); the queue's trim at 200 items is left out.

### FundingLedger and PnlV2

`posted` is what the exchange lists, `committed` the tables, `work` the same as the
session with the write lock sees them, `ingest[w]` the locals of one call of
`ingest_exchange_funding_events`. A page is any set the exchange's paging may answer
with (`style`); what a call has read is `got`, what it still has to write `todo`. The
first savepoint of a call is released outside a transaction and so commits by itself:
`Insert` then writes to `committed`, and a crash may leave the row without shares.
`overflow` is history: an answer was longer than a fetch reads. Positions have a notional
above 0; where every candidate has none, `resolve_assignment_allocations` gives the whole
event to the first (`pnl_v2_logic.py:152`) and `Holders` is not what it does. `PnlV2` adds
no state; its operators are the reports. `EventLimit` is `event_limit`: a page's two lists
and their merge are cut to the newest (`Shown`), its counts are not.

### HistoryRefresh

`rates` are the rows under the normalised symbol, `triedAt` when a leg was last tried,
`refresher[r]` the locals of a refresh by the background job or in a request's or scan's
own thread, `unlisted` the legs whose exchange has no history, `brokenOff` (history) the
legs at which a refresh broke since. `Skip` and `Try` are the look at `triedAt`, which
`Try` sets before it fetches; `Fetch`, `Look` and `InsertRows` are the exchange's answer,
the query of the existing rows and the commit; `LegFails` takes the try back.

A refresher normalises symbols (`BTC/USDT:USDT`, `funding_history_io.py:51,209`). The
collector's rows and the statistics with their cache use the symbol of the cached rates
(`BTC/USDT`, `funding_collect.py:137,154`, `funding_stats.py:122-163`). They share nothing
with a refresh, so neither is in the module.

### CandleStore, JobTable, Backtest

`candles` has one market's buckets, "none", "partial" or "final"; `collect`, `backfill` and
`freeze` are the writers under way. `JobTable` has the rows, the registry of threads
(`slots`), the threads, the sweep of stale rows and failures of an update. `Backtest`
steps `book` over the bars of a tape that holds the future too, so that a lookup could
use it.

### QuoteStore, Rollup, Collector, Supervisor, HealthGate

One action is the code from one `await` that can suspend to the next. `QuoteStore`
follows a quote through `on_quote`'s queue, the writer loop's batch, the broker's
priority queue with its coalescing, the retry loop and the chunked transaction.
`Rollup` takes a step of a roll-up as a transaction and lets the writer and the time
budget in between. `Collector` has a worker's boot with retries, its statistics loop and
restarts, and the boot state derived from all. `Supervisor` keeps of the queue of
metrics each worker's last one, which is all the supervisor uses; that the queue stays
readable when a worker is killed in the middle of a put (`supervisor.py:130`) is assumed.
`HealthGate` keeps of a window's numbers the two comparisons.

`MCServices` checks all modules from `Rebalance` on in one run: a behaviour picks one of
them and is a behaviour of it, since they share no state (but `PnlV2`, which reads
`FundingLedger`'s).

## Runs

| Run | Shows | Bounds |
|---|---|---|
| `SpreadRows` | entries, exits and recoveries of two threads on two rows of one symbol forget no exposure while no exchange in use is deleted, open no second row, keep the first one hedged | two rows: the second entry on a symbol; a failed leg, a lost reply or a crash; one deletion; one funding strategy; the rows are interchangeable (symmetry) |
| `SpreadManual` | three closers of one row: the engine implements `SpreadLife` (no unit is sold for an unmarked row, no leg confirmed that nobody saw flat, no flag taken back), closed means both legs confirmed, a closed row never opens again; a row left 'closing' or 'error' is closed in the end | one row, all three kinds of thread, two faults |
| `SpreadReentry` | violation: a pair stopped out is entered again at once | |
| `SpreadDuplicate` | violation: re-entering a symbol with a stuck row leaves the new row half hedged | |
| `BookMixed` | opens and closes by three workers forget no exposure (while at most two orders are refused), leave nothing 'closing', keep the only active pair of a symbol held | one strategy of each kind on one symbol, a fault, deleted exchanges |
| `BookUnrecorded` | violation: a successful cross-exchange open leaves no row | |
| `BookShared` | violation: two closers of one strategy sell the unit of another | |
| `RecPass` | passes interleaved with opens and closes: nothing promised is lost, quiet recoveries are real, orphans are recovered, empty strategies closed | two slots, one open, one fault |
| `RecDuplicate` | violation: a pass that runs into an open recovers the pair twice | |
| `AutoGuards` | retries and a left-over lock file never keep the guards from running; a hard drawdown closes everything held; one wrong read sells nothing | two strategies on one pair, one retry round, breaker at two, one failure, one switch of the configuration |
| `AutoTopUp` | violation: two hedges on one pair are taken apart without any failure | no failure |
| `Services` | each of the other modules by itself, see below | |

What `Services` checks, and the instance of each module:

| Module | Properties | Bounds |
|---|---|---|
| `QuoteStore` | `LatestNeverGoesBack`, `QuotesAreStoredOnce`, `QuotesAreStored` (liveness) | two keys with two quotes each, a queue of one, batches of two, one refused write, one task of another priority: both queues overflow |
| `Rollup` | `NothingVanishes`, `CloseIsLast` | five instants, four levels of width 1, 2, 4, 8, batches of two rows: buckets cut apart by the batch and by the cutoff |
| `Collector` | `RunningIsWatched`, `BootIsDecided` (liveness) | two workers, one boots at a time, two tries, one restart, two fatal errors |
| `Supervisor` | `EndsWhenOver`, `SupervisorEnds` (liveness) | one process, two restarts, two crashes (with two processes the same properties hold of 1.7 million states; the theorem is for any number) |
| `HealthGate` | `DegradationIsReversible` (liveness) | limits 1 and 2, a delay of 4.8 s, which meets the cap of 5 s and the way back, up to three shards |
| `FundingLedger` | `NothingIsSkipped`, `HoldersGetTheirShare` | one market and one strategy, the job and a request, two instants, pages of two, a fault; ascending and descending lists |
| `PnlV2` | `OkHidesNothing` | all windows of the ledger's instants, settlement every one or two instants, lists of one event, so that they are cut |
| `Rebalance` | `OrdersAreCovered`, `PortfolioSettles` (liveness without fairness: no change for ever) | two rows on one exchange with a separate or unified account, three quotes, snapshots up to two cycles old, one move of the market or close by another caller, one failed order or missed balance |
| `CandleStore` | `PartialsAreRewritten` | two days of three buckets, three buckets back, one gap, one other writer |
| `JobTable` | `BoardIsKept` (refinement) | two jobs for one slot, one failure, rows stale after one tick |
| `Backtest` | `NoLookAhead` | two pairs on one spot market, three days of three bars, three combinations; six patterns of missing candles, a price jump, a turned rate, a pair out of the universe for a day |
| `HistoryRefresh` | `TriedIsStored` | one leg, two requests for the job, its thread, a scan, three instants with two settlements of which one fits in a page, one failure |

The bounds are small because each hazard needs few actors: two strategies that
share a market, two or three threads on one row, one or two failures that hit in the
wrong place. What they do not show is what needs three rows of one symbol or more
failures than `MaxFaults`; the theorems below do not depend on them. In the
liveness runs with failures, failures are finite in number, as the properties
would be false otherwise.

`CHECK_DEADLOCK FALSE` is set where the bounds let a system stop: all slots used,
no failure left to happen, the last instant reached.

### Fairness

`SpreadArb`: weak fairness of the price loop and of the scheduler's job (both loops
never end, `main.py:177`, `domains/websocket/router.py:85`), of each request once it
runs, and of the recovery cooldown, which is time. `Reconciler`: weak fairness of the
pass, a job every 30 s (`main.py:199`) whose lock nobody else holds long. `AutoCycle`:
weak fairness of the cycle (a job every 5 s, `main.py:197`), of the backoff of a
queued item and of the age of the lock file. The market-data service: asyncio runs
every task whose wait is over, so the writer loop, the broker, the loops of the
collectors, the supervisor's loop and the end of a window are weakly fair; a worker
process that is draining or failing ends. Nothing is assumed of users, quotes, other
threads or failures. Weak fairness is enough: none of these steps is disabled
again by others for ever.

## Theorems

For every value of the constants that satisfies the named assumptions of the modules
(`ConstantsAssumption`, `BookAssumption`, ..., at the head of each). Most say that a bound
is a number or a set finite. Those that say more: no batch of quotes is longer than a
transaction takes (`QuoteStoreAssumption`; `runtime_loops.py:17` takes the minimum), the widths of
the candle levels divide one another and their retentions increase
(`RollupAssumption`), the collector's window covers its longest gap twice
(`CandleAssumption`; eight buckets, the default, allow three), a tape counts its bars
from 0 (`BacktestAssumption`), the largest pair is not smaller than the smallest
(`RebalanceAssumption`).

`SpreadArbProofs`:
* `TypeCorrect`. Inductive: `Bookkeeping`, that is `TypeOK`, `RowInHand` (a worker past
  the choice of a row has one, whose status fits its stage) and `LoadedRowsExist`.
  `TypeOK` alone is not inductive: `flag[row[w]]` means nothing without a row.
* `ClosedIsConfirmed`, `ConfirmationIsStable`, `ClosedStaysConfirmed`. `StepsMoveRows`
  says once what a step may do to a row (leave it, create it, advance it); the
  three follow from it with `Confirmation`. No run repeats `ConfirmationIsStable`, `RowsLive`
  contains it.
* `NoDuplicateOpen`, `CapHolds`. Inductive: `SerialEntry`, which adds `EntryChecked`:
  during an entry no row of its symbol is open and the cap has room. It rests on
  one fact about the code, that "fast" alone enters (`StepsKeepEntry`). No run repeats
  `CapHolds`.
* `FirstPositionIsHedged`. Inductive: `Hedging`, which adds `EntryHolds` (the entry of a
  symbol without rows holds what its orders filled), over `ClosesAreMarked` (whoever
  sends the close of a leg has committed 'closing' before).
* `NothingForgotten`: `OwnedUntilDeleted`, every unit held has a row, until an exchange
  in use is deleted. `HeldIsOwned` is carried by three claims about a step: owners keep
  their legs until they are empty (`OwnersKept`), strays stay strays (`StraysKept`), and
  what is newly held is recorded (`HeldKept`); `GoneStaysGone` says that the excuse lasts.
* `EngineImplementsLife`: `RowsLive`, with deletions as well. One lemma per step of
  `SpreadLife` says what the engine has to do for it (`ShowSell`, `ShowConfirm`, ...), and one per
  group of actions that it does (`LegLives`, `BeginLives`, `EndLives`, ...). Besides the
  invariants above it needs `MemoryIsTrue`: the exchanges a worker remembers as missing
  are deleted, and one without a row remembers no flags. What the leg machine adds
  to a memory is a leg it was given or a missing one (`Gains`).

`StrategyBookProofs`:
* `BookTypeCorrect`. Inductive: `Typed`, that is `TypeOK`, `BookInHand` (a worker past
  its choice has a strategy) and `LegsPlaced` (an opener has a result for each leg
  it tried, so that no row says "kept"). `CloseOutcomeType` shows that no outcome of a
  close takes a holding below zero.
* `ClosingIsAttended`: a strategy is 'closing' only while a worker closes it or after
  its closer died. `CloserKept` is the claim about a step.
* `FirstPairIsHedged`. Inductive: `Sound`. While nothing has failed, `Orderly` says what a
  worker at each stage has in hand and that nobody shares a strategy with its opener;
  `FirstHeld` says that what the opener has filled, and what the rows say, is held
  unless a closer has already sold it and has the result in its session.
* `ExposureIsOnRecord`: `HeldIsRecorded`, what `HeldIsPromised` becomes when any number of calls
  may fail. A unit that is neither in flight nor lost by an opener has a row that does
  not say it is closed, though its strategy may be. Inductive: `OnTheBooks`, which adds
  `InOrder` (a worker has uncommitted changes only to the strategy it works on, and an
  opener is alone with one that has no row). A close that says "ok" has sold a unit or
  found none (`OkTakesAUnit`), so it may give up one row; what dies with a thread is counted
  as stray. `CallCovers`, `ReportCovers`, `PlaceCovers`, `LostCovers` and `StillCovers` say so of
  any set of rows, for this theorem and the next.
* `FourFailuresForgetNothing`: `HeldIsPromised` for every instance, as long as at most four
  calls, threads or processes have failed; the fifth can break it (see below). Inductive:
  `HeldForSure` with `OnTheBooks` and `AllInRole`, the roles of workers (only the risk manager
  writes 'error' in a close, and an opener that unwinds has met a failure). A row is
  `Sure` when it is on record, its strategy will not be called closed over it (`Attended`:
  a closer that finishes without an error still has its leg to close), and whoever
  may write it 'open' again has paid for it (`Paid`): `Cost` counts the failures behind
  such an opener, one for its leg, one for its unwind, one for a close that failed and
  left the strategy on the risk manager's list, two for the risk manager's own orders.
  A row that is already 'error' when its opener reopens it costs five, which is where
  the last commit (`SettleSure`) could lose it.

`ReconcilerProofs`:
* `ReconcilerTypeCorrect`: `PassTyped` with the book's `Typed`, whose lemmas also serve here
  since the workers' steps are the book's.
* `QuietRecoveriesAreHeld`, a property of a step. Inductive: `QuietPass`. In a quiet
  pass, what was read of the tables is what they say for each symbol not yet paired
  (`AsTracked`), and what was read of an exchange is what it holds, or nothing at all.
* `RecordSurvivesReconciler`: `HeldIsRecorded` also with the reconciler's pass between the
  workers' steps, from the same `OnTheBooks`.
* `ReconcilerForgetsNothing`: `HeldIsPromised` up to four failures also with the reconciler,
  whose failed reads count. What it closes has no open leg (`PassSure`), and nobody has
  the slot of a recovery in hand, so that its rows are sure (`RecoverHeldSure`).

`AutoEngineProofs` (`AutoCycle`, `Rebalance`):
* `AutoTypeCorrect`. `TypeOK` is inductive by itself; the proof takes it in parts, one
  lemma per action.
* `OneWrongReadSellsNothing`. Inductive: `LieInv`, that is `AbnormalIsLie` (an abnormal
  read that is remembered was a wrong one), `SellInRepair` and `SellIsLiedAbout` (what
  is to be sold has its short only after a second wrong read). `HedgedIsLive` is why
  an empty market contradicts a strategy that has its short.
* `OpensAreCovered`. Inductive: `RebalInv`. Its core is `Below`: a balance in a cache is one
  of a wallet the leg pays from and not more than that wallet has. A filled
  order is taken off each cache and each wallet alike, also where both legs pay from
  one; a close by somebody else only adds money. A retried open starts with empty caches,
  and what is queued is an item of some earlier plan.

`FundingLedgerProofs` (`FundingLedger`, `PnlV2`):
* `LedgerSkipsNothing`, `LedgerSharesWithHolders`. Inductive: `LedgerInv`. An event is
  `Good` in tables that have it with the share of each holder; behind a cursor all are
  (`BehindIsDue`), and whoever has the write lock sees at least what is committed
  (`WorkIsAhead`). For a call under way: all before `since` is good (`SinceIsDue`), what it has
  read has no gap (`Upward`, `Downward` while it reads, by the paging; `NoGap` after), and what
  it has worked off is good in the tables it sees (`Writing`). The properties alone are
  not inductive, since they say nothing of a call. `PageOf` is the one fact about a page.
* `ReportsHideNothing`. Inductive: `ReportInv`, `LedgerInv` with `SharesRight`: an event has the
  shares of all its holders or none, and never one of a strategy that did not hold
  it. What the page's lists leave out has `EventLimit` newer ones (`MergedIsNewest`: the merge of
  two cut lists is the cut of the whole). `CalendarCounts` says how many settlements a span has. A row can then not have more
  events than are due in its span, so that equal totals mean equal rows
  (`TotalsCompare`), and the worst quality of the rows is that of the summary
  (`CombinedIsWorst`).

`HistoryRefreshProofs`:
* `HistoryJobRunsAlone`, from what each thread and each request has seen of the job's flag.
* `TriedLegsAreStored`: `TriedIsStored`. Inductive: `TriedInv`, which also says of a refresher
  at work that its records and the stored rows together have what was due (`InHand`).
  That more was listed than is read needs the cardinality of a finite window
  (`GivenAreDue`).

`DataLayerProofs` (`JobTable`, `CandleStore`, `Backtest`):
* `JobTableImplementsBoard`: `BoardIsKept`. Each action of the table maps to one of the board,
  or leaves the status alone; what a thread's state says of its row's status carries it.
* `StoredCandlesAreFinal`. Inductive: `CandleInv`. A partial candle is at most a gap older
  than the last collection (`PartialsAreYoung`); a collection under way covers its window
  (`Planned`), and what it or a backfill brings is partial only in the bucket it was
  fetched in and not written later than in the next (`Fresh`).
* `BacktestSeesNoFuture`: `NoLookAhead` compares the decision on a tape with the one on the
  same tape cut off after the bar. Each lookup is shown to give the same on both, and so
  the bar's step; the search's training bars are shown to end before its test bars.

`SandboxProofs` (`Collector`, `Supervisor`, `QuoteStore`, `Rollup`):
* `CollectorIsWatched`: `WatchInv` must know that a subscribed engine is up
  (`SubscribedIsUp`).
* `SupervisorEndsRightly`, `SupervisorTypeCorrect`: what forbids a restart must be known of
  every metric from the process through the queue to the supervisor (`ErrorsAreBarred`).
* `LatestStaysLatest`: the upsert compares times itself, so types suffice (`StoreTyped`).
* `StoredQuotesAreStoredOnce`. Inductive: `StoreOnceInv`. A quote is in one place of its way at
  a time (`OnePlace`) and once in it (`OnceEach`), and each task of quotes is written
  by one transaction (`OneChunk`).
* `NoQuoteVanishes`, `CandlesCloseRight`. Inductive: `LadderInv`, `CloseInv`. A level's rows are
  newer than what has left the level below (`OlderAbove`), no bucket is rolled up in part
  unless its rest follows (`Whole`, `BucketIsOver`), and each candle on the way closes at the
  last of its quotes that was rolled up.

**What the proofs asked of the models.** Some definitions are written so that a proof can
use them, with the meaning they had: a plan's opens are a set and not a sequence
(`Rebalance`), the best pairs are those with few candidates ahead of them (`Backtest`),
the last quote of a key is found by its positions (`QuoteStore`), PnL's totals count
pairs (`PnlV2`).

**Only model-checked.** Every liveness property, since liveness under fairness and
`ENABLED` are beyond the proof system: `StuckRowsAreClosed`, `OrphanIsRecovered`,
`EmptyIsClosed`, `GuardsRun`, `HardStopCloses`, `QuotesAreStored`, `BootIsDecided`,
`SupervisorEnds`, `DegradationIsReversible`, `PortfolioSettles`.
Every invariant and every action property of a run is stated by a theorem, `HeldIsPromised`
with the bound it needs: `faults <= 4`.

## What does not hold

The findings of `PROJECT.json` are the violation runs above. Further statements that
are false of this code and have no run:

**Trading**

* `strategies/cross_exchange.py:213` leaves a failed leg open "for risk manager
  monitoring", but its strategy is 'error' and `run_risk_checks` lists active ones.
* `HeldIsPromised` fails from five refused orders on (TLC finds the run on one spot hedge and two
  requests with `MaxFaults` 5; the theorem covers up to four): the
  second leg of a spot hedge fails, its unwind fails, and while the opener has not yet
  committed a request's close fails (strategy 'active') and the risk manager's does (row
  'error'). The opener then counts no open row in the table, calls the strategy 'closed'
  and writes the row 'open' again (`spot_hedge/strategy.py:66` to 102): the leg is held
  and no scan lists it.
* `cross_exchange.py:50` flushes before its two orders, so that SQLite's one write lock is
  held while the exchanges answer.
* A stuck spread row is not closed once an exchange of it is deleted
  (`StuckRowsAreClosed` has `MaxDeleted` 0).
* A second orphan on a pair whose strategy has an open leg is "already_tracked" in every
  pass (`spot_basis_reconciler/runner.py:108`) and never recovered. `OrphanIsRecovered`
  speaks of pairs the tables know nothing of.
* A strategy that lost a leg to the mismatch guard has `initial_margin_usd` 0, and the
  force-close plan of the hard drawdown skips it (`close_plan.py:12`).
  `HardStopCloses` excepts it by name.
* A strategy without a spot leg counts as a failure of the exchange in every cycle, and
  so switches the auto engine off after `api_fail_circuit_count` cycles; from then on no
  guard runs. `GuardsRun` speaks of an enabled engine.
* Opens from the retry queue pass no guard, also while the data is stale or the
  drawdown hard (`retry_queue.py:155`), and one that had succeeded before an exception
  ended the batch is done again (`retry_queue.py:208`).
* Funding strategies and spread rows share `max_open_strategies`, but only the spread
  engine looks at it.

**Rebalancing**

* A rotation takes two executions: the closes of a plan report failure although they sold
  (`close_ops.py:73`, `base.py:7`), so its opens are skipped (`open_cycle.py:215`) and the
  money lies idle until a later cycle has planned and confirmed them again.
* With `basis_shock_exit_z` switched on (it is off by default) a row whose basis stays
  shocked is closed and opened again in every cycle; `PortfolioSettles` excepts it.
* The executor's separate spot and margin caches overestimate a unified account used by
  cross-exchange pairs (`open_executor.py:155`), and a balance that cannot be read leaves
  the size uncapped; `OrdersAreCovered` speaks of readable balances of one exchange.
* An account with exactly nothing free counts with its whole total in the capital
  snapshot (`spot_basis_runtime/base.py:195`), and the target is planned as if nothing
  were held, against balances the holdings already use (`target_state.py:77`).
* The confirmation compares sizes to the cent: in a moving market it may never come.

**Funding and reports**

* An event the exchange lists late, or at the instant a full page ended in, is behind
  the cursor and skipped; bybit is asked for one page; okx and mexc list the newest
  first and lose the oldest rows at the page cap or at a swallowed exception. These are
  `overflow`. Shares are not computed again after the cursor has passed.
* Positions of a failed open are candidates for shares too (`assign.py:104`).
* PnL v2 expects events by one interval per exchange; the daily reconciliation looks
  before it inserts; the summary's queries are separate snapshots.
* What a refresh stores reaches no score: its rows are under the normalised symbol, the
  statistics read the one of the cached rates, and the cache entry it drops is under a
  key the scanner never uses (`fee_symbols.py:259-267`). "Best-effort refresh funding
  history from exchange before scan" (`opportunities_api.py:16`) changes no scan.
* A leg at which the handler of a refresh raised counts as tried without its rows.
* `_funding_history_refresh_gate` has no caller. A thread that cannot be started leaves
  the history job "running" for ever. Two refreshers may write one row twice.

**Candles, jobs, backtest**

* `_run_background` (`primitives.py:222`) registers a thread before it is started, and
  another launch drops it as not alive: more jobs than the limit can run.
* A job swept as stale after 30 minutes may still become "succeeded" (`JobBoard` allows
  it); one whose last update fails stays "running" until another job is created.
* `_persist_pair_universe_daily` commits the deletion before it inserts. A freeze across
  midnight gives a past day the markets of the present. The universe of a past day uses
  the funding of the whole day. The last candle of a market that leaves the universe
  at midnight stays partial, and an import may bring a partial candle back.
* A bar of the backtest trades at the close of its own candle, fifteen minutes ahead;
  `NoLookAhead` counts it as known. A combination tested in one window only may lead the
  board.

**Market-data service**

* The supervisor may give up a worker it has just restarted for the error its
  predecessor reported: the old metric is read after the restart
  (`load_balance/supervisor.py:168`). `EndsWhenOver` says so. It may also start a worker
  again that had finished, because the last metric is still in the queue, and never
  restarts one that ended in "error".
* A flush that fails after the broker's queue was empty ends the broker's loop silently
  (`service/db_broker.py:185`); a flush in several chunks is repeated from the start and
  writes rows of `l0_raw` twice; `submit_quotes` may overlay a newer quote with an older
  one (`db_broker.py:92`); the writer's batch is lost at a stop.
* A candle whose rows a batch or the cutoff divides keeps open, high, low and samples of
  its last part. The emergency deletion stops when the oldest batch has no odd bucket.
* The collectors' boot state "error" is never left and switches compaction off
  (`runtime_loops.py:138`); a statistics loop whose restart fails ends
  (`collector.py:217`).
* A merge of shards below the configured number is never taken back, and with a limit
  the exchange does not know (`ValidLimits`) a stage is not taken back either
  (`health_gate.py:50`).

## Not modelled

Scores, fees, z-scores and statistics are floating-point arithmetic: their verdicts
are free choices. Schema, e-mail, dashboards, read-only routes and gateways keep no
state the engines depend on. The price caches are overwritten whole by each tick;
`sync_market_funding_cache` empties and refills two of them while others read
(`funding_collect.py:72`). The OKX private WebSocket keeps a health record nobody acts
on. Of the market-data service the slow-data poller, the HTTP surface and the probes are
left out, of the data layer the choice of pairs and the export, of the backtest the
report and the stability score. The frontend and the tools are not part of the running
system.

## Still worth doing

1. An abstract specification of a hedge (`none`, `hedged`, `exposed`, `closed`) which
   `StrategyBook` and `AutoCycle` implement, as `SpreadArb` implements `SpreadLife`; and one
   of the retry queue.
2. Theorems: the abstract specification of item 1 once it is there; that a shared lock
   file admits one cycle; type correctness of `Rebalance` and `HealthGate`.
3. Larger instances of `Rebalance` and `Backtest` in runs of their own.
