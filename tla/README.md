# Verification of the prediction-market arbitrage engine

The engine watches the same event on two venues, Kalshi and Polymarket, and, when
the two prices leave an edge, buys the outcome on one and its opposite on the other.
It is one Node process (NestJS): one event loop, a Postgres database behind Prisma,
two venue connectors, a dashboard and a Telegram bot for operators. Handlers run to
their next `await` without interruption; between two awaits of one handler any other
handler may run. That, the venues that may answer late, partly or never, and the
process that may die between any two awaits are what this project is about.

At this commit `TradingEngineService.executeCycle` (core/trading-engine.service.ts:65)
and `PlatformHealthService.publishHealth` (platform-health.service.ts:82) begin with a
bare `return`, so the trading cycle and the health ticks are switched off. What follows
those returns is the program's purpose and is modelled as it runs without them (the
constant `ReturnsAtOnce` of TradingCycle and PlatformHealth puts them back); the exit
monitor, the reminders and everything an operator calls run as they are.

## 1. Inventory

Paths are relative to `src/src`. Properties are those that make the part correct;
section 3 says which are checked now.

| part | state it keeps | operations | talks to |
|---|---|---|---|
| Risk budget (modules/risk-management: budget-reservation, risk-state-manager, trading-halt) | per mode (live, paper): open positions, capital deployed, P&L of the day, halt reasons; the reservations; the pairs held in paper mode; the row in risk_states | reserve, adjust, commit, release, close, partial release, update P&L, halt, resume, midnight reset, reload, recalculate, load at boot | called by the queue, the exits, reconciliation, cron, operators; writes risk_states |
| Risk validation (risk-manager, correlation-tracker, stress-test, override controller) | cluster exposure caches | validatePosition, processOverride | reads the budget |
| Execution lock | a promise, its resolver, a 30 s timer | acquire, release | the queue and closes by an operator |
| Execution queue and entry (execution-queue, execution.service, leg-sequencing, depth-analysis, compliance) | none between opportunities but rows | processOpportunities, execute, handleSingleLeg | lock, budget, both connectors, orders and open_positions |
| Exposure reminder (exposure-alert-scheduler) | time of the last reminder by position | checkExposedPositions each minute | open_positions, connectors, events |
| Leg resolution (single-leg-resolution, auto-unwind) | unwinds in flight | retryLeg, closeLeg, onSingleLegExposure | connectors, rows, budget; no lock |
| Position exit (exit-monitor, exit-execution, position-close, residual-size) | failure count of the monitor; rows | evaluatePositions, executeExit, closePosition, closeAllPositions | connectors, rows, budget; only closes take the lock |
| Exit criteria (threshold-evaluator, shadow-comparison) | shadow decisions | evaluate | none |
| Startup reconciliation | discrepancies in memory; rows | reconcile, resolveDiscrepancy, recalculateRiskBudget | connectors, rows, budget |
| Engine lifecycle and cycle (core) | halted, shutting down, cycles in flight | bootstrap, executeCycle, shutdown, NTP checks | all of the above |
| Detection (arbitrage-detection) | none | detect, calculate edge, filter by concentration | books, pairs |
| Contract matching (modules/contract-matching) | contract_matches, correlation clusters and tags, calibration runs | discovery, external pairs, scoring, approval, audit, sync of configured pairs, resolution polling, calibration, classification | catalogues of the venues, LLM, operator |
| Data ingestion and platform health | order books polled and streamed, subscriptions with their counts, time of the last update, degradation | poll, subscribe, publishHealth, degrade, recover | connectors, detection |
| Connectors (kalshi, polymarket, with-retry, rate-limiter) | sockets, token buckets | submitOrder, getOrder, getOrderBook | venues |
| Paper connector | open paper orders | submitOrder | fill simulator |
| Monitoring (telegram, circuit breaker, audit log, exports) | alert buffer, failures, hash chain | enqueueAndSend, drain, append | events |
| Backtest runs and simulation (modules/backtesting/engine) | state of each run in memory and in its row, portfolio, depth cache | create, cancel, time out, simulate chunk by chunk, walk forward, report | historical rows |
| Backtest reports (reporting, utils) | report rows | calibration, sensitivity sweep, coverage, bootstrap intervals | runs |
| Historical data (ingestion, validation) | price, trade, depth rows; freshness by source | ingest a range, daily refresh, validate matches, judge quality, compare sources | Kalshi, Polymarket, Predexon, OddsPipe, PMXT |
| Dashboard, settings, persistence, CLI | read models, configuration rows | queries and forms | everything |

How they interact. The cycle hands ranked opportunities to the queue. For each, the
queue takes the lock, reserves budget, executes, and commits (a success or a position
with one leg) or releases (a failure), then gives the lock back. Execution sends the
primary leg, stores its row, sends the secondary, stores its row and the position row.
When the second leg fails, the position is stored as exposed and an event goes to
auto-unwind, Telegram and the dashboard. The exit monitor polls open positions every
30 s and sells those whose thresholds fire; an operator may close one or all at any
time. Each close writes the position row first and tells the budget after. At boot the
budget loads its row, reconciliation compares rows and venues, recounts the budget,
and may halt trading.

What is hard, and what the modules are built around:
- two ways of selling the same position, only one of which takes the lock, and neither
  of which the leg resolution knows about;
- a lock without an owner whose timer ends holds;
- several counters of the same thing (reservations, memory, the risk row, position
  rows, order rows, the venue) that are updated in different steps;
- answers that are neither yes nor no: pending, partial, lost, repeated;
- a crash or a failed write between a fill and the row that records it;
- overlapping writes of one row that may land in either order;
- flags that keep two runs apart and are lowered by the first to end;
- a health check, a circuit breaker, a buffer: things that must end some day;
- day boundaries, restarts and three independent reasons to halt.

`PROJECT.json` lists these as hazards, each at its line, with the properties that
answer it.

## 2. Plan

| order | modules | contents | state |
|---|---|---|---|
| 1 | RiskBudget, SumTheorems, RiskBudget_proofs | the ledger of capital, slots, P&L and halts | done, all properties proved |
| 2 | ExclusiveAccess, ExecutionLock | what a lock promises, the lock, and that it keeps the promise | done, refinement proved in Trading_proofs |
| 3 | EntryExecution, EntryExecution_proofs | one opportunity to a position | done, safety proved |
| 4 | PositionExit, PositionExit_proofs, ExitMonitor | chunked exits and operators' closes; the poll over the positions of a pair | done, proved (ExitMonitor in Trading_proofs) |
| 5 | LegResolution, LegResolution_proofs | retryLeg, closeLeg and auto-unwind on an exposed position | done, proved |
| 6 | StartupReconciliation, StartupReconciliation_proofs | rows against venues, flags, halts, recount, resolution | done, proved |
| 7 | TradingCycle, EdgeCalculation, ExitCriteria | which opportunities are taken, and when a position is left | done; proved in Trading_proofs |
| 8 | PlatformHealth, MarketFeeds, RateLimiter, AlertDelivery, AuditTrail | the services around trading | done; MarketFeeds and AuditTrail proved in Trading_proofs, RateLimiter in Services_proofs, the others checked |
| 9 | ContractMatching, MatchResolution, ClusterAssignment, CandidateScoring | how pairs are found, approved, resolved and grouped | done, proved in Services_proofs |
| 10 | BacktestRuns, BacktestSimulation, BacktestReports | the replay of the past | done, proved (runs and reports in Trading_proofs, the simulated portfolio in RiskBudget_proofs) |
| 11 | HistoricalIngestion, IncrementalRefresh, MatchValidation, HistoricalData | where the past comes from | done, proved in Services_proofs |
| 12 | CapitalLedger | abstract: capital and contracts of a position as one account, implemented by EntryExecution and PositionExit | not begun; the invariants of both modules state its parts |
| 13 | composition | PositionExit with ExitMonitor, LegResolution and the lock by INSTANCE | not begun; each is modelled with the others' interference as choices |

Theorem left to prove: that entry and exit implement the account of the plan's row 12.

## 3. Modules and runs

The modules form four groups: the money (RiskBudget, ExecutionLock, EntryExecution,
PositionExit, LegResolution, StartupReconciliation), each with a run of its own; the
decisions, with the order books they are taken on; the services; and what must happen in
the end. The members of the latter three share no state in the code that
the properties look at, so one module per group takes them all (MCDecisions and
MCProgress; Services, which MCServices instantiates, so that Services_proofs can speak of
the whole without the values of a run): a variable (`decision`, `service`) says which of them moves
in a behaviour, and the others rest in an initial state. The states of such a run are the sum, not the
product, of those of its members, and every property is that of one member.

A module of pure computation (EdgeCalculation, BacktestReports, CandidateScoring,
HistoricalData) has a variable that holds one computation: what is computed, the input and
the result. Its actions choose any input up to the bounds, so the run goes through all of
them, and its properties say of the result, by quantifiers, what it should be.

A definition commented "fault" is a plausible mistake in the definition that follows it.
No specification uses one; put in that definition's place it must break the property
`PROJECT.json` pairs it with.

### RiskBudget

Variables are the fields of `RiskStateManager` (one function per field, indexed by
mode), the reservations Map, `paperActivePairIds`, the rows of open_positions and
risk_states, and for each caller the upsert it waits for. Each action is a handler up
to its one await. `persistState` takes a snapshot when it is called and the upsert
lands, or fails, in an action of its own (`UpsertLands`, `UpsertFails`), so that
upserts of several callers overlap and may land in either order. `updateDailyPnl` is
awaited by the closes but has done its work by then; the turn of the event loop this
costs is no interleaving point here. `Restart` is boot: load, discard
reservations, restore paper pairs, and the outcome of reconciliation; how many of the
writes of boot reach the database is a choice.

The caller of a close is abstracted to what the ledger sees of it: `PositionRowClosed`
(the row is CLOSED, the budget not yet told) followed by `ClosePosition`, with the mode
the caller passes (`ModesPassed`) and, for operators' closes, the error of pricing a
sold leg as a bought one (`Misjudged`).

Runs of MCRiskBudget:

- **risk_limits** (pass): three paper opportunities, three pairs, two configurations of
  which the tighter may be loaded at any time, sizes 1 and 2, P&L -2 or +1.
  `SlotsWithinLimit` counts positions and unfilled reservations themselves and compares
  them with the limit, so that a counter that loses track is seen; `CapitalWithinBankroll`
  does the same with their capital, where profits returned count as new capital;
  `PaperPairExclusive` says no pair is held twice, restarts included. Slots and bankroll
  are exhausted by two requests, so a third shows the refusal and the wrong grant alike.
  Modes share no state, hence one mode is enough; reservations and closes of live
  requests differ only by the halt, which the next run has.
- **risk_restarts** (pass): one live position, two upserts in flight, two days, rows of an
  earlier version of the engine to boot from, failing writes, all outcomes of
  reconciliation, recalculation while trading. `LossLimitHalts`: a loss at the limit of
  the day is always halted. `LossHaltLatched`: nothing but midnight lifts that halt.
  `RowFollowsMemory`: when all upserts are over and the newest landed last, the row is
  the state in memory, so no handler forgets to save.
- **risk_paper_close** (violation): an operator's close of a paper position changes the
  live counters (finding).

Bounds: `MaxDay`, `MaxLoss`, `MaxProfit`, `MaxUpserts` cap the day, the loss and profit
that build up, and the upserts in flight. Two days give every relation a row's day can
have to today; two upserts give every order of landing.

What the properties leave out. `SlotsWithinLimit` is not claimed when reconciliation
recalculates while a close is between its row and the budget (a hazard: the slot is
given back twice). Reloading a lower loss limit re-evaluates no halt, so
`LossLimitHalts` asks for a loss at the limit of every configuration in use.

### EntryExecution

Each opportunity moves through `stage`; an action is the code from one await to the next.
`Gates` is the compliance check, the sizing and both depth checks: it chooses among the
sizes between the minimum fill and the ideal count, or refuses. `Submit` takes any answer
of a venue (`Answers`): filled in whole or part, rejected, pending with some filled, or an
error behind which anything may have happened. `Resubmit` is `withRetry` sending Kalshi's
order again after a lost answer. `Store` is the insert of a row, which may fail; `Crash`
may come at any await. `Remind` is the minute's query of the exposure scheduler, for live
positions (the only ones it asks for). Prices are the collateral of one contract, fixed
by `KalshiCost` and `PolymarketCost`.

- **entry** (pass): one opportunity with up to ten units of capital and costs 1 and 2, two
  lost answers, one failed insert, one crash. `CommitmentCovers`: reserved or committed
  capital is never less than the fills cost. `OutcomeTraced`: each outcome has its row and
  its settlement, and what the second venue filled, later too, has an order row.
  `SecondLegAfterRecord`: nothing goes to the second venue before the first fill
  is stored. `ExposureAnnounced` (liveness): an exposed position is announced even when the
  process died before its event.
  The queue takes opportunities one at a time and they share nothing in this module but the
  lock, so one is enough; ten units allow every rounding of the two costs.

Fairness: strong fairness of `Remind` and weak fairness of a connector's coming back. The
reminder is an `@Interval` and sockets reconnect by themselves; a connector may flap, hence
strong. Nothing obliges a venue to answer.

Known weakness, outside the properties: a primary order that is left pending ends in a
released reservation while its contracts may still be bought (`CommitmentCovers` speaks of
reservations that are held or committed).

### PositionExit

One position, the monitor's polls and operators' closes as tasks, each with what it has
read (`seen`, `existing`), what it thinks is left (`remaining`) and what it has sold
(`done`). Reading, sizing, checking, each order, each insert, the row and the call of the
risk manager are actions of their own, since every one ends in an await. Money is counted
in contracts, so that P&L and capital "add up" when the numbers of contracts do. Sizes of
an EXIT_PARTIAL position come from the order rows (`Residual`).

- **exit** (pass): entry fills of one to three contracts per leg, unequal ones included; one
  poll in up to two chunks, or two closes at once; one order left pending, one failed write,
  one crash. `ExitsWithinEntry`, `ClosedMeansExited`, `BooksAddUp` (P&L and capital of the
  parts are those of the whole), `ClosedIsFinal`. Each names in its text what it leaves
  out: an exit cut off between a fill and its row, a leg sold alone, a restart. Two chunks
  and two partial exits suffice for a sum that forgets a part; three contracts allow
  unequal remainders.
- **exit_race** (violation): the monitor and a close both sell the position (finding).

Deadlock is not checked: an exit that is over has nothing more to do, and the system stops.

The passing run has a crew of one poll or of two closes: monitor and close together do
oversell, which is what exit_race shows, and so would two overlapping polls.

Left out: the lock's 30 s timer (ExecutionLock has it), closeAllPositions, a loop of
closePosition, and an order answered as partial that filled nothing, after which the monitor
stops chunking (exit-execution.service.ts:311): a partial answer fills at least one contract. A lost answer has the effect of a pending order. A close by hand counts as
capital returned the price times the size of both legs, while the entry deployed one minus
the price for a leg that was sold (position-close.service.ts:482); `SideErrors` is the
difference it makes.

### LegResolution

One exposed position and the calls at work on it (`crew`): retries and a close by an
operator, and the handler of the exposure event. The position was exposed by an entry (one
order linked to the row) or by an exit that sold one leg (both linked); `FromEntry` and
`FromExit` are the rows and holdings those two can leave. `Order`, `Store`, `WriteRow` and
`TellRisk` are the code of retryLeg and closeLeg between two awaits; `Recheck` and
`Estimate` are what auto-unwind does before it calls closeLeg. `held` is what the venues
really hold, `stored` what the order rows add up to.

- **legs** (pass): an operator's retry and close, or two retries, beside auto-unwind, sizes
  one and two, one order left pending, one failed write, one crash. `RowsMatchVenue` holds
  however the resolutions race; `StatusMeansExposure` (an open row is hedged, a closed entry
  is flat) and `SlotReturnedOnce` hold when none begins while another has its order out,
  which is not excluded by the code and oversells, since nothing locks the position;
  `NeverSellsResolved` says that outside this window nothing is sold of a position already
  resolved, in spite of the delay and the estimate of auto-unwind. Three calls are needed
  for a resolution that ends while another waits and a third overlaps; size two gives
  partial fills.

Known weakness: auto-unwind of a failed exit takes the filled leg of the entry for the leg
that is held and sells what the exit has already sold (single-leg-resolution.service.ts:304,
523; auto-unwind.service.ts:43); the properties except positions an exit exposed.

Deadlock is not checked: a resolved position is left alone, and the system stops. Left out:
the set of unwinds in flight (one position is exposed once here) and its cap, the prices, P&L
and loss limits (`Estimate` goes on or gives up), the exit monitor, which may go on selling
an EXIT_PARTIAL position, and the operator's authorisation.

### StartupReconciliation

A task is one call: the boot, a run an operator asks for, an operator's answer to a
discrepancy. A task reads a snapshot of the rows, asks the venues for each pending order and
each position, writes what it found (an order's status and, after it, the link and the
status of the position it completes), flags positions, halts, and recounts the budget. Venues
may be out of reach, orders may fill between the passes, a write may fail, the boot gives up
after one minute, and the process may die between any two steps. An operator's forced close
writes the row (`WriteResolution`) and tells the risk manager after it (`ReleasePosition`).

- **boot** (pass): two positions, one run asked for, one resolution, one failure, one crash.
  `RowsAgree`: after a run the slots counted are those of the rows, and every leg found
  filled is linked. `UnresolvedKeepsHalt`: what was flagged keeps trading halted until the
  last discrepancy is resolved. Two positions: one to be resolved, one left.

`UnresolvedKeepsHalt` is claimed of the first run only: a second boot looks at nothing that is
flagged, finds nothing and lifts the halt (engine-lifecycle.service.ts:144). A venue asked for an order by
the row's own identifier, which no venue has seen (startup-reconciliation.service.ts:262), does
not find it; `RowsAgree` speaks of the orders that are found, and no property of this defect.

### The run decisions (MCDecisions)

- **TradingCycle** (cycle): from the scheduler's guard to the queue. Each await of
  executeCycle, of the pre-screen and of the exposure recalculation ends a step, between which
  positions close, drift halts, reconciliation runs, the configuration changes and the process
  restarts. `PairGatesHeld`: the concurrency limit and the cooldown of a pair, over later
  cycles and restarts, unless the query behind them failed, which lets everything through.
  `ClusterLimitExplained`: a cluster reaches its hard limit only in ways the model names in
  `evaded` (two opportunities of one batch, exposures not yet loaded after a restart,
  recalculations that overlap, a flagged position that comes back). Two pairs of one cluster
  of sizes 4 and 3 against limits 4, 6, 8; two rows; time to 2 with a cooldown of 2.
- **EdgeCalculation** (edge): `WalkTakesBest`, the VWAP of a leg costs what the best prices
  of the book cost; `ActionableIsProfitable`, what passes the threshold still earns it after
  fees and gas when filled as the books allow. Every pair of books of at most two levels over
  four ticks, so that every partial fill and every order of levels occurs; the configuration
  is reloaded, invalid values included.
- **ExitCriteria** (exit): `EntryCostsAreNoVerdict`, prices that have not moved against a
  position neither stop it out nor take a profit for the cost of entering it;
  `TakenProfitIsOne`. All prices of four ticks, three modes.
- **ExitMonitor** (monitor): the poll over two positions of one pair with its circuit
  breaker and `getResidualSize`. `ResidualIsOwn` holds for a lone position. The run
  **pair_residual** (violation) shows that with two the entry orders of one are counted as
  exits of the other (finding).

- **MarketFeeds** (feeds): the live order books. Subscriptions follow the positions with a
  reference count for each contract, and the client rebuilds Kalshi's books from snapshots and
  numbered deltas. A book is one of its two sides, quantities by price; the venue's book at each
  number is a constant (`BookAt`), and a delta changes one level. `TakeIn` is applyDelta: a
  level that is new is put in and the side cut to `FeedDepth` levels, a level that grows or
  shrinks is not cut, and less of a level that is not there is ignored
  (kalshi-websocket.client.ts:346). So a level that others pushed out is gone until the next
  snapshot, or comes back with only what was added since. `FeedsSound`, over lost and repeated
  messages, reconnections, resubscriptions and contracts given up, has two parts.
  `ClientFollowsPairs`: counts and subscriptions are those of the active pairs.
  `BooksWithinVenues`: a book shows no more at a price than the venue has at the book's sequence
  number, and exactly that at every price that was among the venue's best `FeedDepth` at each
  number since the snapshot; a level that was not may be missing or too small, as the code has
  it. Two pairs with a contract each and one in common; a side of two levels of three prices, so
  that the third pushes the worst out (the depth of the code is 50); three changes
  (`MaxMoves`), so that a level pushed out grows, shrinks or goes afterwards; up to two messages
  in the channel (`MaxChannel`) before a change, one lost; three subscription ids, so that a
  reconnection leaves an old one.

### The run progress (MCProgress)

- **ExecutionLock**: `holder` and `timer` stand for `lockPromise`, `releaseFn` and
  `lockTimeout`; the code has no holder, so `holder` is a history variable that no guard but
  "is it null" reads. A release wakes all waiters of one promise and the first to run takes
  the lock before any other callback, so release and entry of the next waiter are one step
  (`HandOver`). `LockSound` (no orphaned hold, nobody waits for a free lock),
  `ExclusiveUntilTimeout`, `ImplementsAccess` and `EveryWaiterEnters` (liveness).
  ExclusiveAccess is what a caller may rely on: callers ask, enter and leave, one at a
  time until somebody was overtaken. The mapping takes the queue of waiters to the set
  `asking` and the history of a timeout to `slipped`. Known weakness: the late release of a
  holder the timer has ended ends the hold of the next, which is why the promise ends at the
  first timeout. Three callers, since a late release beside two waiters needs three.
- **AlertDelivery**: consumer, batches, circuit breaker, buffer and drain. `AlertsLeave`: the
  buffer holds at most one alert more than its size; once the API answers for good, an alert
  that was raised is delivered, given up to a full buffer or lost with the process, or else it
  is `Stranded`, in the buffer with no send and no drain under way; and where alerts keep coming
  (`FurtherAlert`, a critical event or the flush of a batch, again and again) it does leave.
  That only a further alert moves a stranded one is the code's: nothing but a send that got
  through starts the drain (telegram-circuit-breaker.service.ts:166). Two failures open the
  circuit and the buffer holds one or two, so eviction, a failed drain and the return of its
  alert to a full buffer occur.
- **PlatformHealth**: polling with its fallback, the check, the protocol. Behind the return
  (`ReturnsAtOnce = FALSE`). `DegradationFollowsVenue`: a venue that answers for good is in
  the end not degraded; one that was heard and is silent for good is. One venue with two
  books, since one of the books may answer while the other does not. Whether
  the last latency was too high stands for the 95th percentile of the last hundred that the code
  keeps (platform-health.service.ts:424).

Fairness. Weak fairness of `TimerFires`, `BreakEnds`, `HalfMinutePasses` and `CronFires`:
timers and `@Interval`s of the process. Weak fairness of `Drain`, `CycleStep`, `CheckStep`
and `Answer`: continuations after an await, and the HTTP client that ends a request by its
own timeout. Strong fairness of `FlushBatch`, the timer of a batch that is set again for
each. None of any event: that alerts keep coming is the hypothesis of the second half of
`AlertsLeave` and not assumed of the run. None of `Release`: nothing makes a caller return from
a venue.

### The run services (MCServices)

- **AuditTrail** (`TrailSound`): verifyChain over any range of dates says yes exactly when
  every row in it is untouched, over appends, pruning, tampering and restarts. Excepted by
  history variables: two rows of one instant (`tied`), which the order by time may swap, and
  a row stored by a call that then failed (`torn`), after which the chain forks.
- **RateLimiter** (`LimiterSound`): in every window of time no more requests than the burst
  and the refill, for calls that do not overlap. Two whose calls overlap see the one token
  that is left, and both pass: the model has them, and the property leaves them out.
- **BacktestRuns** (`RunsSound`): memory stays within the concurrency limit but for
  creations that overlap, a run announced complete has all its positions in the database, and
  the row of a run that is over says how it ended; with a lost answer or crash anywhere and a
  cancellation at any await.
- **BacktestSimulation** (`SimulationSound`): capital is conserved in the portfolio and in both
  walk-forward portfolios, no pair is held twice, everything is closed at the end, and training
  sees nothing from the split on. Two pairs may be held at once while the capital lasts. Three steps in chunks of two, so that a position crosses a
  chunk, with caches that are eager, lazy or absent.
- **BacktestReports** (`ReportsSound`): ranges are cut without gap or overlap, the depth found is
  the latest, a window and its complement share nothing, a sweep is read at its best.
- **ContractMatching, MatchResolution, ClusterAssignment, CandidateScoring**
  (`MatchingSound`): a pair a person rejected is approved again by a person only; the approval
  on which a pair is traded was announced, is about to be, or was cut off between its row and
  its event, by a restart or, for an operator's, by the failure of the read in between
  (match-approval.service.ts:187: `Approve`, `AnnounceApproval`, `ApprovalReadFails`);
  outcomes whose directions disagree are not approved by a program; recorded
  resolutions are those of the venues and a divergence is counted once; a cluster is
  explained by a tag, an answer or an operator; a shortlist is the best of its candidates.
- **HistoricalIngestion, IncrementalRefresh, MatchValidation, HistoricalData**
  (`HistorySound`): a pair said to be ingested has every row of its range from the right side
  of Kalshi's cutoff, though the cutoff moves, but for what an answer was silent about: a live
  answer without the market is warned about and passed over, one without its list is taken for
  an empty one (`MarketMissing`, kalshi-historical.service.ts:370), and the pair is complete
  without those rows (`skipped`); the refresh leaves no hole before the row the
  next one starts from; every pair of a source is in the report of a validation, once, with a
  verdict its evidence supports; gaps, jumps, crossed books and deviations are found where
  they are.

Bounds of this run are named in Services.cfg with the constant of each module. They give one
of each kind of trouble per behaviour (a lost or silent answer, a failed write, a restart), two actors
that overlap, and lists and ranges long enough for a first, a middle and a last element. Runs
of a backtest are interchangeable (SYMMETRY; the run has no liveness property).

Deadlock is not checked in decisions and services: a member that has used up its bounds or
its one computation stops.

## 4. What is proved

All proofs hold for every value of the constants that satisfies the ASSUMEs of the module.

| theorem | states | argument |
|---|---|---|
| RiskBudget_proofs!TypeInvariant | `Spec => []TypeOK` | inductive as it stands, one lemma per group of actions; the floor of the counters and the reset of a null timestamp at boot are what it rests on |
| RiskBudget_proofs!LossLimitAlwaysHalts | `Spec => []LossLimitHalts` | inductive with TypeOK: every action that moves the P&L sets the halt when it reaches the limit, those that lift the halt put the P&L back to zero, boot decides both from the row's day |
| RiskBudget_proofs!PaperPairsExclusive | `Spec => []PaperPairExclusive` | needs `PairsActive` (each pair at stake is in `paperActivePairIds`, which is what the code checks) and `UnfilledHasNoRow` (a reservation that is not filled has no row, so a close cannot free the pair of another) |
| RiskBudget_proofs!RowAlwaysFollowsMemory | `Spec => []RowFollowsMemory` | `RowInv`: the newest snapshot of a mode is the memory of that mode while it is in flight, and the row once it has landed; only between the two upserts of the midnight job may the paper row lag. Every action that changes memory takes a snapshot after it |
| RiskBudget_proofs!LossHaltStaysLatched | `Spec => LossHaltLatched` | an action property: of the actions, only the midnight job, a load on a later day and a load from a row that lags memory lift the halt; the third is excluded by RowFollowsMemory |
| RiskBudget_proofs!SlotsAlwaysWithinLimit | `Spec => []SlotsWithinLimit`, under a hypothesis | needs `StakeCovered` (what is at stake never outnumbers the counters) and `TakenWithinLimit` (the counters pass no limit); counts finite sets of requests |
| RiskBudget_proofs!CapitalAlwaysWithinBankroll | `Spec => []CapitalWithinBankroll`, under the same hypothesis | `CapitalBacked`: the sum of what each request holds is at most the capital counter plus the reservations, less the profits returned; `ClaimsReserved` and `EntryCoversCapital` tie each request's part to its reservation and row. Sums over finite sets, by the lemmas of SumTheorems |
| EntryExecution_proofs!EntryInvariant | `Spec => []IInv` | TypeOK with, for each opportunity, `Covered` (the reservation covers the sizes chosen and filled at each stage), `Booked` (rows and reservation at each stage) and `Traced` (an order row for what the second venue holds) |
| EntryExecution_proofs!CommitmentAlwaysCovers, OutcomeAlwaysTraced | `Spec => []CommitmentCovers`, `Spec => []OutcomeTraced` | both follow from `IInv`. The arithmetic is that of the sizing: a size equalised to the smaller leg costs no more than the capital it is cut from, and `adjustReservation` is given the cost of what filled |
| EntryExecution_proofs!SecondLegAlwaysAfterRecord | `Spec => SecondLegAfterRecord` | action by action: only the submission of the second leg and the late fills of its order move that venue, and at those stages `Booked` has the first order FILLED |
| LegResolution_proofs!ResolutionInvariant | `Spec => [](LInv /\ Footing)` | `Ledger`: holdings are the order rows plus the sum, over any number of tasks, of fills not yet stored; `SoleResolver`: without overlap one task is at its order and the row is as it found it |
| LegResolution_proofs!RowsAlwaysMatchVenue | `Spec => []RowsMatchVenue` | `Ledger` when no task has a fill in hand, however the resolutions raced |
| LegResolution_proofs!StatusAlwaysMeansExposure, SlotAlwaysReturnedOnce, ResolvedNeverSold | the three other properties of the run | from `HeldAsLinked`, `ResolvedIsQuiet`, `ClosesCounted`: once a row is resolved nobody has an order out |
| PositionExit_proofs!ExitInvariant | `Spec => []ExInv`, under SellersApart | `RowAsRead` (nobody writes between a task's read and its write), `RemainingCovers` (what a task thinks is left is what the order rows leave), `SoldIsTold` (order rows are what the risk manager heard and what is still to be told) |
| PositionExit_proofs!ExitsAlwaysWithinEntry, ClosedAlwaysExited, BooksAlwaysAddUp, ClosedStaysFinal | the four properties of the run exit, under SellersApart | all from `ExInv` |
| StartupReconciliation_proofs!ReconciliationInvariant | `Spec => []RecInv` | `CountInv` (without overlap the rows a call counted are the rows there are until it sets the count), `LinkInv` (a filled leg that is not linked is in the hands of a call), `HaltInv` (up to its end nothing but the first run is at work; from then on each flag keeps the halt) |
| StartupReconciliation_proofs!RowsAlwaysAgree, UnresolvedAlwaysKeepsHalt | `Spec => []RowsAgree`, `Spec => []UnresolvedKeepsHalt` | from `RecInv` |
| Services_proofs!LimiterAlwaysSound | `LimiterSpec => []LimiterSound` | `LeftWithinLimit`: what is left in the bucket, refill included, keeps every window within the limit; `CallsBacked`: without overlap a call told to go on has its token |
| Trading_proofs!RunsAlwaysSound | `RunsSpec => []RunsSound` | per run `StatusFollowsPipeline`, `ClosedOnce`, `NothingLost` (each position is stored, buffered or lost to a recorded fault), `EndTold`; over runs `PlacesCounted`, by cardinalities |
| Trading_proofs!FeedsAlwaysSound | `FeedSpec => []FeedsSound` | `BooksRight`: a local book is within the venue's at its sequence number and exact at the levels always among the best, since a cut takes none of these and the check of the sequence leaves no change out. Reference counts by cardinalities of sets of pairs |
| Trading_proofs!PairGatesAlwaysHeld | `CycleSpec => []PairGatesHeld` | `Shaped` (a cycle takes each pair at most once, first as a fetch, then as a candidate, then as an approved opportunity), `Admitted`: a pair that passed the filter stays `HasRoom` (below its limit, past its cooldown) until its own position opens, because nothing else opens one |
| Trading_proofs!ClusterLimitAlwaysExplained | `CycleSpec => []ClusterLimitExplained`, for HardLimit > 0 | until `evaded`: `KnownCovers` (the newest recalculation is at least what the rows hold), `OnePerCluster` and `Fits` (each approved opportunity fits its cluster beside the rows there are) |
| Trading_proofs!MonitorAlwaysSound | `MonitorSpec => []MonitorSound` | `HeldIsUnsold` (what is held is what was entered less what the position itself sold), `TasksAreCurrent` (a task's row is as the round read it), `LoneIsSold` (the residual of the only position of a pair is its own) |
| Trading_proofs!ExitVerdictsAlwaysSound | `CriteriaSpec => []ExitVerdictsSound` | `VerdictStands`: the last verdict agrees with the prices it was made at. At the entry's close prices `Pnl` equals `Baseline`, since spread and fee are counted alike in both, so that neither threshold is passed; the floor of the target keeps a taken profit above zero |
| Trading_proofs!TrailAlwaysSound | `AuditSpec => []TrailSound` | `Rising` (rows in the order of their times, which is strict unless two are tied), `Linked` (each row names the hash of the one before it), `EndsIn` (the hash in memory is the last row's). Then the row before a place in a range is the latest of those with an earlier time, and a verification finds what was edited |
| Services_proofs!RefreshAlwaysSound | `RefreshSpec => []RefreshSound` | `Covered`: what is stored and what a stream holds leave nothing out below the place it has come to; stored rows only grow, so overlapping refreshes keep it. `Unbroken` follows at each insert |
| RiskBudget_proofs!SimulationAlwaysSound | `SimSpec => []SimulationSound` | `Kept`: a portfolio is typed, conserved, holds a pair once, and nothing in it is later than the last step it saw, so that a trade ends before the next position of its pair is entered. The peak follows from the position that leaves last (`LastLeaver`), the limit on pairs from the last pair taken (`TakenFit`); sums and maxima over finite sets |
| Services_proofs!ContractsAlwaysSound | `MatchSpec => []ContractsSound` | inductive with what a run knows: the flag of discovery is down beside a discovery only after two have doubled; the one that created a row and has yet to announce it still carries its pair, as does the request that approved one; only a row there is gets rejected, audited or told about |
| Services_proofs!ResolutionsAlwaysSound | `ResolutionSpec => []ResolutionsSound` | `PollInOrder`: the matches a poll has yet to ask about are unresolved, and what Kalshi said of the oldest still holds. The tiers are disjoint and cover the resolved matches; a match resolved after a calibration adds at most one to what had diverged at it |
| Services_proofs!ClustersAlwaysSound | `ClusterSpec => []ClustersSound` | `TagExplained` and `QuestionExplained`: each tag, and what each classification under way has read, was named by the model; what explains it is not forgotten |
| Services_proofs!ScoringAlwaysSound | `ScoringSpec => []ScoringSound` | the place of a candidate is the number of those before it, in an order that is total, so that places are taken once and the shortlist holds the first ones; the best of a list is found by a recursive function, which is unfolded by induction on the list |
| Services_proofs!MatchingAlwaysSound | `Spec => []MatchingSound` of Services | the four above, each of whose specifications is implied by that of Services |
| Services_proofs!IngestionAlwaysSound | `IngestionSpec => []IngestionSound` | `ToCome`: of the stream under way, each moment is stored, held, skipped by a silent answer, excused by the cutoff, or in a window still to be asked for; `StreamsFull`: the streams that are over are full but for what was skipped or excused; `PairsInOrder`: pairs are judged one after the other. The windows of a range are shown to cover it wherever the cutoff cuts it |
| Services_proofs!ValidationsAlwaysSound | `ValidationSpec => []ValidationsSound` | until a safety timer fires the flag is up exactly while somebody validates (`OneValidates`). The report is a comparison of two lists, and the rest is about that: a key of a match names one match, so a bucket is about it exactly when it has its key; the newest pair of a source is kept under its key (`NewestListed`); of the buckets with a title one is the last met (`LastIsOne`), so that a conflict across two buckets is made of exactly these two, and what leaves the report stands in the conflict |
| Services_proofs!HistoryDataAlwaysSound | `HistoryDataSpec => []HistoryDataSound` | one lemma per computation. Gaps: the places of the rows in time are taken once, so the sorted rows are the rows, and between two rows with nothing between them the sorted list makes one step (`StepPast`). Trades, tries and the pointer into the other source: each recursion moves up or down an interval, so what holds where it stops and carries over holds everywhere (`RecursionUpward`, `RecursionDownward` of SumTheorems); the pointer has passed only prices more than an hour too early. Samples: of finitely many snapshots of an hour one is the first |
| Services_proofs!HistoryAlwaysSound | `Spec => []HistorySound` of Services | RefreshAlwaysSound, IngestionAlwaysSound, ValidationsAlwaysSound and the one before, each of whose specifications is implied by that of Services |
| Trading_proofs!ReportsAlwaysSound | `ReportsSpec => []ReportsSound` | one lemma per computation. Chunks: the ceiling of a quotient, so that each hour lies in the one chunk its distance from the start is divided into. The search: by induction on the length of the window, a place found is the least that is not after the moment, since the list falls. Gaps: the sum over the gaps between rows is what is missing |
| Trading_proofs!EdgeAlwaysSound | `EdgeSpec => []EdgeSound` | `LastLevel`: the walk takes all of the levels before one level and nothing after it; `Exchange`: any other way of taking as much moves contracts from a level before it to one after, which by the order of prices is no gain (`BestWalk`), and the average price only worsens with the number taken (`AverageWorsens`). The threshold is nowhere below the lower of minimum and cap (`ThresholdAboveFloor`), and what a full size earns on average a smaller one earns as well (`FewerEarnAsWell`) |
| Trading_proofs!LockNeverWedged | `Spec => []LockSound` | with `WaitsOnce` (nobody waits twice) the head of the queue is never inside already |
| Trading_proofs!LockExcludes | `Spec => []ExclusiveUntilTimeout` | needs `HolderAlone`: before a timeout the holder is the only one inside |
| Trading_proofs!LockImplementsAccess | `Spec => ImplementsAccess` | the initial state maps to an initial state; each action of the lock, under the invariants above, maps to asking, entering, leaving or being overtaken, or to a stutter |

Assumptions. Each module's ASSUMEs type its constants (naturals for bounds, disjoint sets of
callers and tasks, sentinel values outside the sets they stand beside); the sets that are
summed or counted are finite: `FiniteRequests`, `FiniteTasks`, the words of CandidateScoring, the positions of
StartupReconciliation, the pairs and tickers of MarketFeeds, the positions of
ExitMonitor. The matches due for resolution are a sequence, as the query returns them; no cluster is
called "none" or is the one for matches without; in EdgeCalculation a fee is at most the price,
the position size is above zero and the settings are not negative, as the startup check has it
(edge-calculator.service.ts:65 to :152; a reload may be given anything); days, hours and chunks are above
zero in BacktestReports and HistoricalIngestion, the hour and the number of attempts in
HistoricalData. TLC evaluates all of them in the
runs. Three theorems or groups of theorems have a hypothesis of their own:
- SlotsAlwaysWithinLimit and CapitalAlwaysWithinBankroll: closes that pass the position's
  mode, no recalculation while trading and startups that complete
  (`OperatorCloses = FALSE`, `RuntimeRecalculation = FALSE`, `"failed"` not among the outcomes
  of a boot). Without these the code breaks the limits: risk_paper_close shows the first, the
  hazards of PROJECT.json name the others. The run risk_limits has the same values.
- PositionExit_proofs: `SellersApart`, crews of one poll of the monitor or of any number of
  operators' closes. exit_race shows that without it the position is oversold; the run exit
  has the same crews.
- ClusterLimitAlwaysExplained: `HardLimit > 0`. With a limit of zero every opportunity is refused,
  and a capital of zero is not under it.

SumTheorems. Capital and fills are sums over finite sets (`SumFunction` of the community
modules, a fold). The module proves what the others need of them: the sum of naturals is a
natural, one value changed changes the sum by the difference, a pointwise order carries over
to sums, a sum of ones is a cardinality. The induction theorems of the library take an
operator; `NatInductionOnSets` and `FiniteInduction` say the same of a set, the set of
arguments for which the fact holds, and are proved from the existence of minimal elements.
`RecursionUpward` and `RecursionDownward` say what they give for a function on an interval that
at each place stops or goes on to a later (an earlier) one, and `Ranked` that the places counted
by a key, and by the order of arrival where keys are equal, are taken once each, in the order of
the keys. They reach what a sum, a walk along an interval and a stable sort do, and no
recursive definition of another form.

What the proofs changed. Where an inductive step failed because a definition could not be
reasoned about, it was put differently and the runs repeated with the same states: guards that
exclude each other where alternatives overlapped, one record for several nested updates, the
sum of a function for a sum by recursion, sets of places for selections and sorts of the audit
trail, the first criterion met by CHOOSE for a recursive search, for the shortlist of
candidates and the levels of a book the place of each (the number of those before it) instead
of a sort, for the walk of a book sums over its levels, for the windows of an ingestion and
the chunks of a backtest their closed form, for the resolutions left to poll a set, for the
gaps of a coverage a sum, and for
the folds of the simulation over the positions that leave and the pairs that enter, sums and
maxima over sets (with the equity after each position, in the order of entry, for the peak and
the drawdown). The rows of HistoricalData had a
sort and gaps and partners by recursion over it, and have places, neighbours and the least place
a pointer moves on to; GapsExact now speaks of the rows as a set. The search for a depth and the choice of an entry for a title stay recursive, as functions on
windows of places and on prefixes, and so do the tries of a request, the first window with
too few trades and the pointer into the other source. Type invariants now say all that their modules'
steps rely on. The orders of a batch (by edge, as it
came) were a sort and are now the set of orders it allows, and the list of pairs is assumed to
hold each pair once, as the loader (contract-pair-loader.service.ts:215) and the unique
constraint of the database see to. Two properties were wrong beyond the
bounds of their run: a threshold is recommended on a rate rounded to tenths of a per cent, so
that above 2000 resolved matches some may have diverged (RecommendationSafe now says how
many), and a cluster named "none" could not be told from no cluster (ClusterAssumption now
excludes it; the clusters of the code are an enumeration). The schema of the environment
admits a title threshold of zero, and the model an entry that shares no word with a title:
the code takes none that scores nothing, whatever the threshold, and so does the model. And a
pair was lost from the report of a validation when two buckets had one title, since the model
removed them all where the code (match-validation.service.ts:460) removes the last one met; the
run now has pairs for that. One type invariant was wrong: the bound below on the tokens of RateLimiter failed for more
callers than the run has, since every overlapping caller may overdraw the bucket.

Only model-checked: PlatformHealth and AlertDelivery; the violations, which are counterexamples;
and all liveness (EveryWaiterEnters, ExposureAnnounced, AlertsLeave,
DegradationFollowsVenue), since the proof system does not handle fairness arguments with
ENABLED. The theorems about computations hold for every input their actions choose from: in
HistoricalData two prices, one book, two fills and two files of two snapshots, of a few values,
and lists of times of any length and up to any bound for trades and sources.

## 5. Findings and known weaknesses

Three runs end in a counterexample, each against a sentence of the repository:
risk_paper_close, exit_race and pair_residual. `PROJECT.json` quotes the sentence and the
line of the code for each.

Weaknesses met while modelling. Where a property touches one, its comment or a history
variable excepts it.

Trading:
- a cluster may pass its limit in the ways of `evaded`: a batch is screened against the
  exposures before the batch, they are empty after a restart, recalculations land in any
  order, and RECONCILIATION_REQUIRED is not counted;
- the dynamic threshold may be capped below the minimum edge; capturing a profit may fire below
  its fraction, and the model mode has no fixed stop loss;
- the cumulative difference that the shadow comparison reports is always zero;
- overlapping intervals of the exit monitor sell twice;
- a boot that finds nothing new lifts the halt though positions flagged by the boot before are
  unresolved, since reconciliation passes over what is flagged: the log says "halted until
  resolved" (engine-lifecycle.service.ts:133);
- a lower loss limit that is loaded halts nothing until the next P&L.

Feeds and services:
- a subscription belongs to a pair, so the first exit of a pair that is held live and on paper
  ends it for both; a fill whose handler is overtaken by the close leaves its subscription; a
  leg retried later is never subscribed;
- a level that was cut from a side is missing or too small until the next snapshot, also when
  the levels before it are gone;
- callers of the rate limiter whose calls overlap overdraw it (rate-limiter.ts:140), though the
  limits are called enforced (rate-limiter.ts:21);
- an alert in the buffer waits for the next alert, for ever when there is none.

Matching:
- discovery does not look at its own flag, so two overlap and the first to end lowers it;
- a rejection reads, then writes whatever has happened meanwhile; a pending classification
  overwrites the operator's; a crash after the creation or the approval of a row leaves it
  unannounced, and so does a failed read after an operator's approval;
- configured pairs trade whatever their row says, and the sync approves again what the audit
  has flagged;
- the resolution poll takes the oldest unresolved rows, so rows that never settle starve the
  others; the lowest viable threshold reported is the highest; voided rows count as validated;
- the price check of the audit flags aligned pairs near even odds.

Backtesting and historical data:
- creations that overlap pass the concurrency limit; a run cancelled while its report is made
  may stay COMPLETE; a row is COMPLETE before its last positions are stored;
- both edges of a pair are equal by construction, so the side bought is always the same; a
  resolved pair is entered again at each step; entries without depth are filled at the close
  price;
- a chunk refused with 403 leaves a hole the next refresh does not fill; freshness says
  success though every request failed; an error of the refresh at boot ends the process;
- an instant at the cutoff of Kalshi is lost when a range begins one second before it or ends
  on it, and what moves across a cutoff that is cached is lost;
- a pair is complete though an answer lacked its market or its list;
- a Polymarket price exactly one hour earlier hides the one compared; two validations overlap
  after the safety timer, and the first to end lowers the flag and the timer of the other.

## 6. Not modelled

- Prices and money in full: the financial math, fees, P&L formulas and position sizing beyond
  EdgeCalculation and ExitCriteria; the Monte Carlo stress test and the bootstrap's draws are
  random and numeric, their use is modelled as a choice.
- Text: titles are sets of words, the language model answers anything of its range; prompts,
  parsers, e-mail and Telegram formatting, CSV exports are I/O.
- Venues: sockets, signing, authentication, gas prices, the archive files of PMXT; their
  outcomes are choices in the modules above. The socket of Polymarket sends whole books, so
  it has no sequence to lose.
- The paper connector fills at once or refuses: its answers are among those of EntryExecution.
- Dashboard queries, settings forms, metadata, seeds and CLI: read models and configuration.
- Clock drift, start-up order of modules, the override of a refused opportunity, the poll for
  dislocations without a trade, the divergence monitor.
- Dead code of this commit: fetchPlatformData, the confidence scorer, refreshes switched off in
  incremental-fetch.service.ts:65.

## Running it

    tlc -config RiskLimits.cfg MCRiskBudget
    tlc -config Progress.cfg MCProgress
    tlc -config Decisions.cfg MCDecisions
    tlc -config Services.cfg MCServices
    tlapm RiskBudget_proofs.tla
