# A TLA+ verification of GRID_BOT

GRID_BOT trades BTC/SOL against USDC on price grids.  Every order becomes one
Solana swap (Jupiter) or one simulated swap (paper), and every swap becomes one
entry in the books of a PostgreSQL database.  A worker process, a dashboard's
API routes and an hourly portfolio manager write to those books concurrently,
the worker may crash at any instruction, and Jupiter may answer late, wrongly or
never.  Beside the trading there are an experiment that shadows every decision
with an outside judge, a Lab that replays configurations over past candles, a
live desk in the browser, and scripts that repair the books.  This directory
states what must hold in all of them, checks it with TLC on small instances and
proves the central parts with TLAPS for every instance.

## Inventory

State lives in the database unless stated otherwise.  "engine" is
`packages/core/src/services/bot-engine-service.ts`.

| Component | State | Operations | What is hard | What makes it correct |
|---|---|---|---|---|
| Durable execution protocol: engine, `trade-repository.ts` | `execution_attempts` (one row per bot), `executions`, `position_lots`, snapshots; the run's aggregate and report in memory | prepare, marker, check, submit, save, commit, sell catch-up | crash between any two of them; lost and late replies; repeated submission; stale aggregates | an outcome is booked once and agrees with the chain; nothing submitted is forgotten |
| Lock and bot state: `bot-state-repository.ts` | session advisory lock per bot, `bots.status`, `bot_state_snapshots` | withBotLock, getBotAggregate, createStateSnapshot, updateBotStatus, updateRange | the lock's session can die; the aggregate is two queries | engine writes never undo an operator's halt; the newest snapshot accounts for the lots |
| Jupiter adapter | none of its own (saved raw reports) | prepareExecution, executePreparedSwap, getExecutionReport | which codes prove failure; orders that change between two requests | a failure is reported only when proved; a sale pays for its lot |
| Worker loops: symbol scheduler, price poller, recovery poller, policy timer, shutdown | timers, sets and promises in memory | start, stop, schedule, drain, close | queueing against stop and failure | a priced symbol runs, one loop per symbol, nothing starts after the signal |
| Market prices: `market-price-service.ts` | the block each mint was seen at and since when; an optional store | batch, save, publish | replicas that are behind, restarts, partial batches | a price is never fresher than its blocks |
| Decision: grid, strategy, risk, lot accounting, flat recenter | snapshot metadata (cycles, pending signal, recenter state) | one run on one price | rails, tolerances, partial sells, edits under open lots | budget and books hold, no losing sale, every lot can be sold |
| Operator routes: pause, stop, resume, PATCH, DELETE, resets, sell-only, paper-simulate | `bots.status`, `bot_configs`, snapshots | one transaction each, some with reads before it | races with a running commit | balances are never older than the lots |
| Legacy paper execution: engine 456-585 | orders, executions, lots, positions | non-durable execution | a crash between its transactions | a crash costs one trade at most |
| Portfolio capital: `portfolio-repository.ts`, portfolio part of `trade-repository.ts` | `portfolios`, `asset_strategies`, `grid_bands`, `capital_reservations`, `capital_ledger_entries` | allocate, reserve, mark unknown, release, settle, close | retries under idempotency keys; one unknown blocks all | capital is conserved and never reserved twice |
| Portfolio manager and revisions: `portfolio-manager-service.ts`, `-repository.ts`, `lot-exit-commitment-service.ts` | `grid_revisions`, `lot_exit_commitments`, bands | revise, park, reactivate, create band, resume, archive | decisions on old observations against a running engine | a decision acts on what it saw; entries follow an observation of the same grid |
| Live wallet admission: `live-wallet-capital.ts`, `wallet-budget.ts`, the creating routes | wallet balance against budgets | create, clone, top up, resume, archive, stage, activate | several requests on one wallet, an RPC read under its lock | budgets never exceed the wallet; one model per wallet |
| Policy replay: `portfolio-policy-replay-service.ts` | bands, lots, cash of a replay in memory | points, closes, interventions, cashflows | what a decision may already have seen | money is conserved, nothing is decided on the future |
| Shadow experiment: observations, costs, candidates, Jev outbox, quotes | `shadow_*` tables, one connection | capture, claim, answer, quote | retried hours, leases that expire under a working consumer, one connection | evidence is causal and frozen; one attempt per claim, one result |
| Lab: replay, page, candle history | the page's state; `market_candles`; caches | recommend, replay, compare, stress, promote | late answers, a cache with holes, guards | what is shown is of the inputs shown |
| Desk: stream, console, form | what the page has heard; drafts | push, read, save, select | messages, renders and answers in any order | what is shown catches up; a save goes to the shown bot |
| Portfolio history: recorder, backfill, retention, spikes | `portfolio_snapshots`, `bot_state_snapshots` | record, rebuild, prune, repair | every start rebuilds, pruning races | the newest state survives; rows tell the profit |
| Repair scripts: `packages/db/prisma/*.ts` | lots, books, fees | read, then write | the bot may not be as still as the script thinks | what a script writes fits the books |
| Dashboard pages, charts, indicators, reports, schema, seed | read models | - | - | not modelled: see the end |

How they interact: the price poller hands prices to the scheduler, which runs
the engine for each bot of a symbol; the recovery poller runs the engine for
each bot with an attempt row (`apps/worker/src/main.ts` 82-99).  Engine runs
exclude each other per bot with the advisory lock.  Operators and the manager do
not take that lock (or only try it); they meet the engine in the database, where
the transactions that matter lock the bot row and, for portfolios, the portfolio
row, in that order.  Everything that admits live money takes the wallet's lock
first.  The shadow experiment hangs off the manager's cycle but waits for
nothing; the desk and the Lab only read, and send requests to the routes.

The hazards of this code, each at its line and with the properties that watch
it, are in `PROJECT.json`.

## Modules

| Module | Models | Theorems |
|---|---|---|
| `DurableExecution` | the worker's run, the chain and the operator around one durable attempt per bot | `DurableExecutionProofs` |
| `ExactlyOnceSettlement` | what that protocol promises: authorise one swap, book what the chain did, once | |
| `PortfolioCapital` | the capital accounts of one portfolio and every transaction that moves capital between them | `PortfolioCapitalProofs` over `SumProofs` |
| `WorkerRuntime` | the loops of the worker process and how they stop | `WorkerProofs` |
| `BandRevision` | one band between the engine, the portfolio manager and the operator | `BandRevisionProofs` |
| `LegacyBot` | one legacy paper bot between the engine's separate writes and the operator's routes | |
| `PaperSimulate` | the operator's simulated cross beside the worker | |
| `GridDecision` | what a legacy bot decides from the prices it observes, run by run | |
| `JupiterSale` | one live sell sized over up to three orders, and the reading of its transaction | `TradingProofs` |
| `PriceFeed` | the market price service over responses of lagging replicas and restarts | `WorkerProofs` |
| `WalletAdmission` | everything that claims the live wallet, under its lock and beside the trades | `DeskProofs` over `SumProofs` |
| `ShadowOutbox` | the leased queue of questions to the outside judge | `ShadowProofs` |
| `OneAnswerQueue` | what that queue promises: calls, then at most one final result | |
| `ShadowEvidence` | what is kept of every closed hour, beside the manager's cycle | `ShadowProofs` |
| `ShadowDecisions` | the frozen choices the judge may compare with the policy's | |
| `ShadowQuotes` | the collector process: sweeps, quotes, pacer, deadlines | `ShadowProofs` |
| `PolicyReplay` | the offline replay of the portfolio policy | |
| `LabReplay` | the Lab's candle replay of one configuration | |
| `LabConsole` | the Lab page over its three routes | `DeskProofs` |
| `CandleHistory` | candle table, window cache and the source's rows | `WorkerProofs` |
| `DeskStream` | the runtime stream and the page that hears it | `DeskProofs` |
| `DeskConsole` | the panel, its draft and the requests on their way | `DeskProofs` |
| `BotForm` | the capital fields of the bot form, from keystroke to engine | `DeskProofs` |
| `LotRepair` | three repair scripts beside the engine | |
| `SnapshotHistory` | recorder, backfill and retention of the portfolio's history | `WorkerProofs` over `SumProofs` |
| `PnlSpikes` | which hours the chart hides and the repair deletes | `TradingProofs` |

Two MC modules, `DurableExecutionMC` and `PortfolioCapitalMC`, give one module its
model values, inputs and symmetry, and `ContentionMC` lets two bands of one process, or
one legacy bot of two processes, take the steps of `DurableExecution` (its action
constraint keeps the rest at rest).  The others are suites: `WorkerMC`, `TradingMC`, `ShadowMC`, `DeskMC` and `LivenessMC` instantiate several components, some of them
more than once with different constants, and check each in behaviours of its own.
The variable `part` names the component at work, the variables `x1`, `x2`, ... are
those of its module in the module's order, and what a component does not need is
`Absent`.  The components of a suite share no state, so an interleaving of two of
them would show nothing that their behaviours apart do not.  A property of a suite
is a conjunction `part = "..." => ...` of the properties of its components; an
operator such as `CoveredByAvailable` that no action uses is a plausible bug of the
definition after it, kept to see the properties fail.

`WorkerParts`, `TradingParts`, `ShadowParts` and `DeskParts` hold the instances and the bundled
properties of the components of a suite that `WorkerProofs`, `TradingProofs` and
`DeskProofs` prove about, so that what the run checks and what the theorem states is one
definition.  They are separate from
the suites because a proof sees all definitions of the modules it extends.

Definitions are mapped to source lines in `PROJECT.json`; a small helper whose lines
lie inside those of a mapped definition is covered by that definition's entry.

One handler, transaction or stretch of code between two awaits is one action,
whichever of them the surroundings can see.  Times are counted in small ticks,
as ages or as what is left of a timer; a timer never fires early.

### DurableExecution

One database transaction is one action; every `await` outside a transaction
separates two.  A run of worker `w` on bot `b` has a program counter
`pc[w][b]`, the aggregate it read (`view`) and the attempt it carries (`held`).

| Variables | Code |
|---|---|
| `status` | `bots.status`; "active" stands for running, cooldown and out_of_range |
| `lots`, `snap` | `position_lots` and the balances of the newest snapshot, each as the set of fills it accounts for |
| `attempt`, `result`, `uncertain`, `txid` | the `execution_attempts` row |
| `owner`, `ledger` | `executions`: bot and outcome (`completedAt` set) |
| `chain` | what became of the signed transaction (external) |
| `lock`, `resuming`, `crashes` | advisory lock; legacy resume requests in flight; bound |

| Actions | Code |
|---|---|
| StartRun, ReadBot, ReadSnapshot, Release | runBot, withBotLock, getBotAggregate's two queries |
| Decide, RecoverStatus, RiskBlocks, PassiveSnapshot, PassiveSkipped, RecenterRefused | the decision (a free choice) and its passive outcomes |
| Prepare, PrepareExisting, PrepareRefused | prepareExecutionAttempt |
| ResumePending, SaveMarker, Chain..., Send..., Reply..., FetchFees, SimulateFill, SaveReport | resumeExecutionAttempt with both adapters and saveExecutionResult |
| Commit, CommitIgnored, CommitThrows, RereadSnapshot, Catch | commitExecution, executeSellCatchUp, runBot's catch clause |
| Pause, Stop, ResumeBand, ResumeRead, ResumeWrite | the operator routes |
| Land, Expire, Crash, LoseLock | network, process and database session |

Abstractions a reader should know:
- Amounts are absent: books and balances are sets of fills.  A balance written
  from an old aggregate shows as a set that misses a fill.
- A fill whose network fee is not yet known ("unpriced": Jupiter's Success is
  saved, the report is still Unknown) is a result of its own, because the
  adapter treats it differently from any other Unknown: it is never resubmitted.
- `PrepareRefused` may go to a passive snapshot for every bot side; in the code
  only duplicate exposure of a buy does.  The portfolio context that
  getBotAggregate also reads is not part of this module; what is done with it is
  the subject of `PortfolioCapital`.
- A bot exists with a snapshot and without an attempt; archived bots and the
  admission of legacy live bots are WalletAdmission's.

### ExactlyOnceSettlement

The abstract specification: an execution is authorised, the chain executes it at
most once, and it is booked as what the chain did.  `DurableExecution`
implements it (`SettlesExactlyOnce`) under the mapping outcome = `ledger`,
executed = the successful transactions, book = `lots`.

### PortfolioCapital

Each transaction locks the rows it changes, so one transaction is one action.
`DurableExecution` shows how an attempt reaches its commit through crashes and
lost replies; here that protocol is its outcome, a saved report (`attempt[b].result`)
that one commit consumes.

| Variables | Code |
|---|---|
| `portfolio` | `portfolios`: free quote, native fee reserve, automatic trading |
| `funded` | `asset_strategies.allocatedQuoteAmount` |
| `band` | `grid_bands`: allocated, available, reserved, deployed, realised loss, status |
| `bot`, `books` | the band's `bots.status`; available quote of its newest snapshot |
| `attempt`, `executions` | `execution_attempts` with its portfolio context and saved report; `executions` |
| `reservation` | `capital_reservations`, by execution |
| `lot` | `position_lots` with their exit commitments, by opening execution |
| `wallet` | the USDC really held, on chain or by the paper account (external) |
| `topUps` | bound on fundings of the fee envelope |

| Actions | Code |
|---|---|
| Init | createPaperPortfolio, stageLivePortfolio |
| Park, Reactivate, CreateBand | applyDecision's park, reactivate and revise, create_band |
| PrepareBuy, PrepareSell | prepareExecutionAttempt with preparePortfolioContext |
| MarkUnknown, ReportBuy, ReportSell, ReportFailure | saveExecutionResult before and after the swap |
| CommitBuy, CommitSell, CommitFailed | commitExecution with settlePortfolioExecution |
| Halt, Resume, Archive | pausing and stopping a bot, resumePortfolioBand, archivePaperPortfolioBand |
| Activate, TopUpFees | activateLivePortfolio, topUpLiveFeeEnvelope |

Abstractions a reader should know:
- Amounts are whole units and one unit of SOL is worth one unit of quote.  Base
  amounts are absent: a lot is its zone and its remaining cost.  A sell releases
  a free choice of cost, except where retained-base accounting fixes it
  (`Released`).
- Prices are zones.  That a level's price falls in an occupied zone is decided
  by spacings that are not modelled.
- The manager's decision is an input; what applyDecision checks again is a
  guard.  The exit a lot is committed to belongs to BandRevision.
- The swap and its saved report are one step, and the fee never exceeds the
  adapter's estimate.  A paper trade's fee in USDC is part of `moved`.
- Ledger rows (`capital_ledger_entries`) are the audit trail of these
  transactions and feed no decision, so they are left out.  The branches that
  replay a transaction under its idempotency key are not reached by a commit that
  happens once (`SettlesExactlyOnce`).
- Adopting an existing bot, which nothing in production calls, and the repository
  methods that only tests call (allocateCapital, reconcileReservation,
  releaseReservation, markReservationUnknown, setBandStatus) are not actions.
  The environment's switches for portfolio trading are on, and no bot outside the
  portfolio trades live on its wallet.
- `Reactivate` also stands for what a revision does to a band's status.

### WorkerRuntime

| Variables | Code |
|---|---|
| `queued`, `running`, `drain`, `stopped`, `awaited`, `age` | SymbolRunScheduler: queuedSymbols, runningSymbols, the promises of `drains`, stopped, what stop() waits for, the time since lastRunStartedAt |
| `price`, `recovery` | JupiterPricePoller, ExecutionRecoveryPoller |
| `busy`, `attempts` | the engine's runningBotIds, bots with an attempt row |
| `policy`, `shutdown` | PortfolioManagerService.running with main's policyRun; the signal handler |

The actions are schedule and the loop of a drain (wait, listing, bot by bot, a run
that throws, relaunch), the two pollers with their timers and failed reads, the
policy timer, and the signal with its drained and closed phases.  A bot's run is a
step that ends or throws: what it does is the matter of the other modules.

### BandRevision

| Variables | Code |
|---|---|
| `status`, `band`, `revised`, `snapshot`, `lots`, `attempt`, `lock` | `bots.status`, `grid_bands` with the newest `grid_revisions`, the newest snapshot, `position_lots` with their commitments, the attempt row, the advisory lock |
| `newest` | who read the row that is still the newest (createStateSnapshot's check) |
| `memory`, `run` | the engine's last observed price and revision; the run's program counter and what it read |
| `manager`, `observed`, `log` | the hourly cycle, its last complete observation in memory and in `system_logs` |
| `fresh` | history: which recorded prices were observed since the last change |

Run steps are the reads, the baseline pass, the decision, the passive write, the
attempt and its commit; manager steps are the staged reads, the decision, apply
(reviseBand, park, reactivate) and its record.  The operator pauses and resumes, the
hour passes, the lock's session breaks, the worker dies.  A run observes any price: the
model has no other reader of the market.  The
envelope arithmetic is any other grid of `Grids`, and cash and peers are
PortfolioCapital's.

### LegacyBot and PaperSimulate

`LegacyBot` writes a paper trade as the engine does, in separate steps: order,
execution, lots, position, status, snapshot (engine 456-585), with the sell catch-up
and the flat recenter; PATCH, range migration, sell-only, resume-buys, resume and
the two resets read first and write in one later step, with the fences the routes
have.  Amounts are counted in lots (a buy costs one, its sale returns two), and the
signal is a free choice.  `raced` marks histories in which a request was written
across a run: the books are claimed whole only without it, since the code does not
promise more (see the observations below).  `granted` is a history too: the cash the
books were given, by creation, a reset and every raise of the budget.  The PATCH that
lowers a paper bot's budget writes no snapshot and takes no cash back, and a raise after
it grants cash once more, so BooksAgree compares cash, cost and profit with what was
granted, which is never below the budget; what a buy may spend is limited by the budget
(maxDeployable).

`PaperSimulate` has the same bot's books in two writes, for the interleavings of the
route that simulates a cross: read, choose a level, count executions, try for the
lock up to `MaxTries` times, write the state it read, run the engine under the lock,
count again.  A lot is sold from the level above its own.

### GridDecision

`bot` holds the rows of a legacy bot (status, range, open lots, retained base,
newest state with cycles, pending signal and recenter metadata), `last` the
observed price in memory, `turn` the sells of the current run.  One run on one price
is one action: risk rules, pending signal and confirmation, boundary, crossing and
recovery signals, buildOrderIntent over the cycles, the quote guard, the fill over
lots with partial sells and retention, out-of-range handling and the flat recenter.
`SellAgain` is the sell catch-up.  `near` and `away` are histories: how long every
observed price has confirmed a rail or a side.  Arithmetic grids only; the entry mode
sell-only, failed swaps and the status Error are left out; the quote-sized sell of
live accumulate-base bots is `JupiterSale`.

### JupiterSale

Actions: `Prepare` (one order with the adapter's checks and the next size, up to
three; it ends early when the answer is held or refused, covers the lot, or when the
next size is the one already asked for) and `Fill` (the confirmed transaction with its native delta, read into the
report).  Base is SOL, so principal and fees leave one balance, partly as wrapped
SOL.  The fill is at the quoted or at the worst rate; nothing else moves the wallet
between the check and the fill.  Slippage counts hundredths, the price is an integer.

### PriceFeed

`seen` is blockObservations, `stored` the observation store, `cached` latestBySymbol,
`batch` the batch in flight; `Respond` gives any block to any mint, also none or an
older one, `Save`, `Saved`, `Load` and their failures are the store, `Restart` loses
the memory.  All symbols make up one batch, there is one quote mint and one process.
The store is optional in the code, and the worker constructs the service without one
(`main.ts:51`): `durable` says whether there is one, and both are checked.  Without it
every process starts its own history of first uses, so NoRenewal says of it what one
process can know; with the constant `Lasting` the history goes on through a restart
also then, which is what the service's comment claims, and `feed` finds it false.
`NoRenewal` speaks of blocks that were used in a published price: observations of a
refused batch are not saved (a hazard of its own).

### WalletAdmission

| Variables | Code |
|---|---|
| `wallet` | USDC on the chain (external) |
| `row` | bots with config, newest snapshot and open lots; the live portfolio with its bands as one owner `V2` |
| `attempt`, `lock` | `execution_attempts`, pg_advisory_xact_lock of the wallet |
| `req` | requests in flight: what they read, what is stored meanwhile (`fresh`), the wallet as observed |
| `stale` | history: bots whose newest snapshot a resume replaced by an older one |

Actions: asking for each kind of request, its validation outside the transaction, the
search for a key, the lock, the RPC read under it or its timeout, and the commit;
resume and archive with their own fences; preparing, sending and settling trades.
Amounts are whole units, a trade moves one, nobody else spends from the wallet, and
claims in SOL are left out.  Preparing is atomic because prepareExecutionAttempt
checks the snapshot it was computed from (expectedSnapshotId).

### ShadowOutbox and OneAnswerQueue

`row` is `shadow_jev_outbox` (status, attempt count, holder, lease and delay as time
left), `attempts` the rows of `shadow_jev_attempts`, `local` what each consumer is
doing, `claimant` a history of the claims.  Actions: capture, claim (first, after a
delay, over an expired lease), a claim whose rows cannot be read, the call and its
end, complete and fail with and without their reply, stall, crash, the poll and the
clock.  `OneAnswerQueue` is the abstract specification: a captured job is called
some number of times and then answered or given up, for good.

### ShadowEvidence, ShadowDecisions, ShadowQuotes

`ShadowEvidence`: the manager's cycle over the bands of an hour, the captures it
schedules on a client with one connection (the profile of costs from completed fills,
the snapshot in one read view, the observation with its decision), and the outcome
written later.  The state of the portfolio is a version number; a fill's report is
the set of facts it proves; hours are the clock.  The read limit of 500 rows, quote
comparisons and the fine market are left out.

`ShadowDecisions` is a pure pipeline in three steps (candidates under the policy's own
costs, the merge with experiments priced from observed costs, the exits of the open
lots), evaluated over every input of the small sets.  Indicators only propose
geometries, so any is tried.

`ShadowQuotes`: the sweep with its tasks in order, the bots that are due, the
comparison (sizes, endpoints, both legs), the request waiting for the pacer or sent,
and its deadline.  Quotes are answered, refused or never answered; pool checks and
candle reads succeed or fail.  A timer may fire up to `Lag` late, never early.

### PolicyReplay

Events are the four points of each candle's path and its close, over all assets in
the order of the code's comparator.  A point sells and buys, a close lets every band
of the asset decide (`Decide`, one band a step), and an intervention waits for the
candle after its availability.  A decision is any that validateDecision lets through
(what the policy or a selector proposes is open); money is whole units and the only
cost is the fee per swap.  Revision counts, day limits and the validation of the
request are left out.

### LabReplay, LabConsole, CandleHistory

`LabReplay`: `Tick` is one of the four prices of a candle (signal, simulated order,
flat recenter), `Close` the adaptive plan, the regime guard and the recenter policy.
Which rail is crossed, confirmed, locked or cooling down and which regime the
indicators give are free choices; base is whole units and the fee is per unit.

`LabConsole`: one operator; a question carries its generation, inputs and
configuration, and its answer is handled in one step.  A result is told apart by the
inputs and by whose range and changes its configuration has.

`CandleHistory`: a candle is whole or partial.  `Ask`, `Read`, `SourceAnswers`,
`SourceFails` and the unawaited `Write` run between the page's window cache, the
table and the source, which has published every row that is due.

### DeskStream, DeskConsole, BotForm

`DeskStream`: a bot is its status and latest execution.  The server reads and pushes
(`reads`, `primed`, `sent`), the connection carries messages (`wire`) and may be lost,
the page keeps telemetry, keys, toasts and boards, and reads a board again after an
execution.  `missed` is a history of what no connection could carry.  The trimming of
seen keys and the desk's mode are left out.

`DeskConsole`: configurations are the entry mode and one number for the typed fields.
`Operator` selects, types and asks; `Serve` is the server, `World` what others change,
`Answer`, `Refresh` and `Tick` are what the page hears.  `crossed` marks histories
in which the operator moved on while a request was under way.

`BotForm`: budget, reserve, deployable amount, minimum order and rails, in cents,
keystroke by keystroke, with the analysis, the server's reading of the payload and
the cycles the engine can buy.  Names, range, mode and recenter fields are left out,
and a Lab draft arrives already parsed.

### LotRepair, SnapshotHistory, PnlSpikes

`LotRepair`: fills, lots, the books of the newest snapshot and the cycles of one bot;
fills that are booked whole or torn; a script reads in one step and applies in a
later one; the operator has stopped the worker or only paused the bot (`Rule`).  A
fill buys `Base` and a sale sells a whole lot; retained lots, partial sales and
`fix-btc-decimals.ts` are left out.

`SnapshotHistory`: bots write states while the worker starts (backfill, first row,
maintenance), records a row every bucket in two reads, deletes old states and rows,
crashes and fails.  A state holds realized and unrealized profit; an archived bot
writes nothing; every write has an instant of its own.

`PnlSpikes`: an hour is its rows, a row its profit in whole dollars; the chart's
filter and the repair's are the same definition over different spans.

### The suites

| Suite | Parts | Property | What it bundles |
|---|---|---|---|
| `WorkerMC` | runtime, feed, candles, history, hourly, crashing, losing, operated | RuntimeHolds, StartsAreOrderly | everything of `WorkerRuntime` |
| | | StoredDataHolds | PriceFeed NoRenewal, NewestBlock; CandleHistory ServedIsFinal; SnapshotHistory NewestStateIsKept, OneRebuiltRowPerBucket |
| | | RevisionsHold | BandRevision RevisionsHold: EntriesFollowObservation, RevisionsSpaced, DailyLimit, SnapshotNamesRevision; after a lost lock SnapshotNamesRevision and RevisionsSpaced |
| | | ChangesHold | BandRevision AppliedToLotsSeen; SnapshotHistory RowsTellTheProfit, BackfillReachesBack |
| `TradingMC` | spikes, legacy, legacyresumed, legacycrash, paper, balanced, live, follow, sale, torn, rent, rebuild, paused, simulate | BooksHold | LegacyBot BooksAgree, OneLotPerLevel, CyclesMatchRange, CrashCostsOneTrade; GridDecision BooksAgree, WithinBudget, EveryLotTracked; LotRepair BooksBalance; PaperSimulate StateCountsEveryTrade, OneEngineRun |
| | | SaleHolds | JupiterSale SaleCoversLot, SellsInStillMarket, ReserveKept, NativeCostIsExact |
| | | TradesHold | LegacyBot RecentersFlat, OperatorStarts; GridDecision BuysAreConfirmed, NoLosingSale; LotRepair RepairFits, SecondRepairRests, EveryFillCounts |
| | | SpikesHold, RepairTakesWhatIsHidden | everything of `PnlSpikes` |
| `ShadowMC` | outbox, grids, exits, evidence, outcomes, quotes, deciding, seeded, flatlab, adaptivelab | OneAnswer | the refinement of `OneAnswerQueue` by `ShadowOutbox` |
| | | RecordsHold | ShadowOutbox AttemptsTellClaims, CompletedByLastAttempt; ShadowEvidence ProfileIsCausal, SnapshotIsOneView, OutcomeWasReal |
| | | RecordsStand | ShadowEvidence EvidenceIsFrozen; ShadowQuotes CallsAreSpaced, SweepTriesEveryDueBot |
| | | ChoicesHold | ShadowDecisions ProposalIsCompared, ExperimentsCoverCosts, BandsAreFundable, ExitsStayPaid, ExitsAreJudgedWhole; PolicyReplay BooksBalance, NoDuplicateExposure, BandsStayAdmitted; LabReplay BooksAgree, NeverSellsAtLoss, MovesAreSpaced |
| | | ReplaysStand | PolicyReplay MarksAreComplete, LotsKeepTheirTerms, InterventionStartsACandle; LabReplay RailsWaitForLots, DefenceHolds |
| `DeskMC` | admission, form, editing, ending, stream, status, lab, stressed | AdmissionHolds | everything of `WalletAdmission`: ClaimsCovered, OneModelPerWallet, KeysDistinct, BooksMatchBudget |
| | | DeskHolds | BotForm DraftFitsBudget, AutoFollows, NothingHeldBack, UnwarnedGridArms; DeskConsole DraftIsOfShown; DeskStream ShownIsAnnounced; LabConsole BusyIsAsked, ShownIsOfInputs |
| | | DeskStands | BotForm OpeningProposesNothing; DeskConsole TypedStays, SavesHaltedBot; DeskStream HeardMovesForward, ToldOnce |
| `LivenessMC` | durable, runtime, outbox, evidence, quotes, console, lab, admission, simulate, spikes, drawer, board | OutcomeIsBooked, WorkEnds, ViewsSettle | see below |

`LivenessMC` also has a variable `goal` that never changes: in each behaviour one end
is waited for.  OutcomeIsBooked says of a live band that what the chain decided about
its swap is booked, through a crash, lost replies, failed accounting and pauses.
WorkEnds says that whatever waits (a priced symbol, an attempt, a
draining worker, a captured job, a cycle, a capture, a bot to compare, a pressed
button, a question of the Lab, a held wallet lock, a simulation request) is over some
time; ViewsSettle says that from some time on the drawer and the board show the last
execution and a repeated repair finds nothing to delete.

## Runs

Properties are those of the run's cfg; the run that *finds* a violation is the finding.

| Run | Properties | What it shows |
|---|---|---|
| `bands` | TypeOK, BooksMatchChain, SubmittedIsRecorded, BalancesIncludeFills, EveryFillBookedOnce, NoStalePreparation, SettlesExactlyOnce | One live and one paper band, one worker that may crash, a pausing and resuming operator: every submission stays recorded until its outcome is booked, books, lots and balances agree with the chain, and the protocol implements exactly-once settlement. |
| `contention` | OneLiveAuthorisation, TerminalResultKept, OperatorStatusKept | Two live bands on one wallet never hold two unsettled attempts, and while two processes work on one legacy live bot after its lock session died, terminal results and operator halts survive every step. |
| `capital_paper` | TypeOK, ClaimsMatchWallet, BandAccounts, FundingMatchesBands, DeployedIsOpenLots, ReservedForPendingBuy, BandsAreConsistent | A paper portfolio of two assets and up to three bands whose buys, sells, expansions and closures overlap: no cash is lost or counted twice between pool, bands, lots and snapshots. |
| `capital_live` | ClaimsMatchWallet, FeeIsFunded | A live portfolio with failing swaps, fees paid in SOL, an envelope that runs out and is funded again, and automation that goes off and on: claims still match the wallet and every execution in flight is paid for. |
| `worker` | RuntimeHolds, StoredDataHolds, RevisionsHold, StartsAreOrderly, ChangesHold | The worker process: its scheduler, pollers and shutdown start runs one at a time and spaced, the portfolio manager changes a band only over the lots it saw, and prices, candles and the snapshots of the history are stored as they were seen, through errors, restarts and a wait for the lock. |
| `trading` | SpikesHold, BooksHold, SaleHolds, RepairTakesWhatIsHidden, TradesHold | What a run does to the books: the legacy engine beside requests and through a crash and changes of its budget, the grid's decisions in paper and live, with moved ranges, a live sale's orders, the repair scripts, the paper simulation, and the profit history with its repair. |
| `shadow` | ChoicesHold, RecordsHold, OneAnswer, RecordsStand, ReplaysStand | What is only watched or replayed: the outbox of observations implements a queue that answers once and records every claim, the evidence and the quotes stand for what happened, a shadow's choices can be acted on, and the replays of a portfolio policy and of the lab keep their books. |
| `desk` | AdmissionHolds, DeskHolds, DeskStands | What the operator is shown and asks for: live trading is admitted to the one wallet while bots trade, and the bot form, the management console, the runtime stream and the lab's page keep to the bot and the inputs they are about, also while results are unknown. |
| `liveness` | OutcomeIsBooked, WorkEnds, ViewsSettle | Under the fairness of each component's scheduling, what the chain decided is booked through a crash, what waits in the worker, the shadow and the desk is over some time, and views that were outrun by events catch up. |
| `resume` | *finds* BalancesIncludeFills | The legacy resume route writes back balances it read before a commit, so the newest snapshot misses a fill that the lots contain. |
| `paused` | *finds* NewLotsStay | The lot repair runs on a paused bot whose worker is not stopped, as its help text allows: a sell or buy that was under way is booked between its read and its transaction, which deletes the new lot or puts a sold one back. |
| `feed` | *finds* NoRenewal | A price service built without an observation store, as the worker builds it, forgets its source blocks in a restart: a block that is still served is young again. |

### Bounds

Each bound is the smallest at which the case a property is about can happen, and
every property has been seen to fail at these bounds when a definition it guards
is changed the way a plausible bug would change it (the mutants in `PROJECT.json`).

- Durable execution: two executions are enough for a stale aggregate to lose a fill
  (one is read, one is committed in between) and for two live attempts; one bot of
  each kind shows every branch; two workers are needed only where the lock can be
  lost.  One crash, in `bands` and in the band of `liveness`, falls at every step, those
  of a recovery after a lost reply included; the theorems hold for any number.
  `contention` starts either from live bands or from a live legacy bot, the others
  paused, and its action constraint leaves out what the properties do not look at: halts
  of the two bands and a second process beside theirs, a second execution of the legacy
  bot, and its resume while both processes are at work.
- Portfolio capital: two assets with one band each and a third band that either may
  create are the smallest case with a band that is parked for another of the same
  asset; two zones let entries meet and differ; three executions allow two open lots
  and a third trade.  A funding of 5 against first bands of 2 leaves 1 for the third
  band; quotes of 1 and 2 against swaps that move less leave a rest to release;
  proceeds range from 1 to one above cost.  A fee of 1 against an envelope of 1
  exhausts it with one trade, and one top-up starts it again.  `capital_live` uses
  one size of buy and no archive (paper only).
- Worker: two symbols with a bot each and two drain identities, so that a loop that
  ends stands beside one that starts (the identities are symmetric: no property names
  one); a wait of two ticks can be interrupted by a
  price, an error and the signal.  In the liveness suite both bots have one symbol and
  one of them may throw for ever.
- Band revisions: three prices, and grids that share a rail and differ in range; two
  hours for an interval and one daily revision for the limit (`hourly`); then, in parts
  of their own, one crash and one lost lock from the second hour on, when the band may be
  revised, and an operator's pauses and resumes in the first, when it may not.
- Legacy bot: two levels, so that a sale and a purchase can both be pending; two
  trades with pause, an edit that raises or lowers the budget and a range change beside
  them (two edits in one part: lowered, then raised); one level with a resume
  and one trade beside edits of a bot that is out of range or in error, and with resume,
  resets, stop and entry mode around a crash.
- Decision: four rails with prices below, at, between and above; amounts with four
  percent of fee, so that fees decide something; windows and cooldowns of one to
  three ticks.  The live instance has no requests.
- Sale: lots whose margin is worth no, little and enough base; rates below, at and
  above the rail; answers that cheat and that cost too much.
- Prices: two blocks are an advance and its repetition; one restart, with a store and
  without.  Candles: a short
  and a long window over seven instants.  History: two bots, buckets of two ticks and a
  retention of one, so that pruning and rebuilding meet; one crash or failure.
- Wallet: two requests are every pair; four units against budgets of two make two
  admissions fit and a third fail; two trades move claims and wallet apart.
- Outbox: a lease of two ticks can expire under a call; three claims go past the two
  attempts after which a job is terminal; two faults are a lost reply followed by a
  crash.
- Evidence: two bands on one connection, of which one is only watched, over two hours;
  one capture beside two fills (`evidence`), which lie before, inside and after it, or
  three captures without fills (`outcomes`), so that an hour is captured twice.
- Decisions of the shadow: five geometries, three cost profiles and three clamps, two
  of each side of every threshold.  Quotes: four bots over two assets, one of them
  with a foreign mint and two without a taker; timers up to one tick late.
- Policy replay: three hours of two assets with candles that rise, fall and swing.
  Lab replay: three candles, so that an order, a confirmation and a move follow each
  other, with a daily limit that two days straddle.
- Pages: two generations and two questions on their way; two bots, one typed edit
  and two calls on their way; two executions and one lost connection.  Each page is one
  instance, and `DeskMC` looks at it in two parts: the console asks for saves and
  sell-only with three requests (`editing`, its second bot paused so that both ways to
  save occur) or for everything else with two (`ending`); the stream tells of executions,
  which are pending, unknown, filled or, the first of them, failed, while no status
  changes and one connection or one read is lost (`stream`), or of statuses beside one
  fill (`status`); the Lab
  answers everything but stress checks over two inputs (`lab`), or those over inputs that
  stay (`stressed`), where ShownIsOfInputs is false and a flaw listed below.
- Repairs: three to five fills with up to three torn; spikes: five hours of up to two
  rows.

The runs that do not check deadlock are those whose bounds, clocks or inputs run out:
`capital_paper` stops when its bands are all closed, and in the suites a replay ends at
its last candle, a clock at its last tick, a pure pipeline at its result and a page when
the operator's requests are used up.

### Fairness

Safety needs none.  Where a run checks liveness, the specification assumes:

- `DurableFairness` and `RetryFairness` for an attempt (`liveness`): pollers start runs
  again and again
  (`execution-recovery-poller.ts` 28-46 re-arms its timer after every poll, failed or
  not), and a run that is not cut short goes on: weak fairness of starting a run that
  has an attempt and of every step of a run.  Jupiter, the RPC node and the price
  sources fail, but not forever when asked again and again: strong fairness of a lookup
  that tells what the chain decided (LookupTells), of a request that arrives
  (RequestArrives), of a reply that comes back (ReplyTells) and of a commit that has its
  prices.  Nothing is assumed of
  crashes, of the operator or of the network's decision; OutcomeIsBooked speaks of
  transactions the chain has decided.  RetryFairness states the strong conditions of all
  components, in pairs: since `part` never changes, fairness of a disjunction of steps
  of two parts is fairness of each.
- `RuntimeFairness`: ready callbacks run, runs end, time goes on, and the
  listing of attempts succeeds again and again (strong); nothing of prices, errors or
  signals.
- `ShadowFairness`: consumers poll, a crashed one after its restart, and time goes on;
  faults are bounded.  The cycle's own calls return, where the goal is the cycle, and
  nothing is assumed of the shadow's database; a statement timeout ends every query of
  a capture, where the goal is the capture (strong, since captures compete for the one
  connection).  Timers of the quotes fire and their market reads end; the database is
  not down for good; nothing is assumed of Jupiter.
- `DeskFairness`: requests are served and answered or fail, intervals and timers fire,
  messages of a live connection arrive, and the operator repeats the repair.  A request
  for the wallet or a simulation is carried on, by its timers if by nothing else; the
  worker may keep the bot's lock for ever.  The board catches up only if answers keep
  their order (Overtaking is FALSE there); with overtaking answers an old board can
  stay until the next execution.

Fairness is conjoined with `part` and `goal`, so it is assumed only of the component
at work.

### What the runs do not promise

When the lock's session dies, two runs can hold different aggregates and the second
commit can drop lots of the first: EveryFillBookedOnce and BooksMatchChain do not
hold with MayLoseLock, and `contention` checks what survives.  Of BandRevision,
SnapshotNamesRevision, RevisionsSpaced and AppliedToLotsSeen survive a lost lock.
EntriesFollowObservation and DailyLimit do not: a run whose lock breaks between its
reads of the snapshot and of the band can write the old history under the new revision,
and the next hour is then counted without it; one whose lock breaks before its passive
write can undo the observation that parking the band asked for (Observations).  Bytes that expire before
they are ever broadcast leave the attempt Unknown for good; no property claims
otherwise.  On the desk, DraftIsOfShown and TypedStays leave out panels that a late answer
of a save has reached, ShownIsAnnounced speaks of the statuses the stream announces,
ShownIsOfInputs of pages without a late stress check, and the board is promised to catch
up only when answers keep their order.  These hazards are listed without a property, or
with the note that says which half of them is covered.  ClaimsCovered leaves out histories in
which a resume replaced a newer snapshot by an older one, BooksAgree of `LegacyBot`
histories in which a request was written across a run, RowsTellTheProfit buckets whose
states were pruned.

## Findings

`resume` expects a violation: the legacy resume route reads the balances before its
transaction and writes them back as the newest snapshot, so that a commit between the
two is lost from them (BalancesIncludeFills fails), although the route tests say that
operator actions read balances only under the bot's row lock and never overwrite newer
ones.  The portfolio resume, which reads under the lock, keeps the property
(`bands`).

`paused` expects a violation: the help of `repair-open-position-lots.ts` (63-64) says to
pause the bot *or* to stop the worker before `--apply`.  A pause does not end an
execution that is already prepared, the worker books it while the bot is paused, and the
repair's transaction deletes and rewrites the lots it read before (372): the new lot is
gone (NewLotsStay fails).  With the worker stopped nothing is booked meanwhile; the
repair parts of `trading` run under that rule, except `paused`, where no lots are torn
and the books are checked.

`feed` expects a violation: the comment at `market-price-service.ts:223-224` promises that
a restart of the worker cannot make a repeatedly served source block fresh again.  That
takes a store, and the worker's service has none (`main.ts:51`): NoRenewal over the
histories of both processes fails.  With a store it holds through restarts (`worker`, and
PricesStayTrue).

## Observations

Made while modelling, by reading and by earlier instances of the models; no run of the
project checks them, and the properties leave these histories out.

- Expired leases and unreadable claims do not count towards the five calls after which
  a job of the outbox is terminal.
- After a lost lock a band can be revised more than MaxDaily times a day, and a rail can
  be bought for a fall observed before the band was parked and taken up again.
- A run that read the band before a pause and a resume writes its old observation over
  the resume's reset.
- A range edit of a legacy bot drops a lot bought between its read and its transaction;
  an execution left pending by a crash blocks its edits for good.
- The outside timer of an earlier spell below the range survives a sale above it, so the
  next recenter is confirmed at once.
- A candle table with a hole counts as covering the window.
- The Lab's replay lifts a hybrid recenter's guard at the next price inside, not at the
  next close inside.  Stress rows of old inputs appear on the cleared page, and a refused
  candidate can be promoted through its higher-cost row.
- Executions with an unknown result, which every live execution has for a while, are shown
  on the desk and never announced (`bot-runtime-payload.ts:425`), although
  `formatExecutionToast` has words for them (`bot-management-console.tsx:563`); a result
  after it is announced (ShownIsAnnounced).  A save after "Sell
  only" switches buying back on.  Typing a budget leaves only what its first digits said
  as deployable, and the panel calls drafts ready that the server refuses.
- A PATCH that lowers a paper bot's budget leaves the cash of the old one in its books,
  and a raise after it adds cash once more.
- A reconstruction leaves wrong books alone when the lots have the right ids and sells
  the oldest fitting lot instead of the one that was sold; the rent fix lowers fees that
  contained no rent when SOL became cheaper.
- An archived bot's waiting attempt is still executed.
- A reserve-funded band of the shadow is admitted although its only gap does not cover
  the costs; a decision refused and then applied in the same hour stays recorded as
  rejected; a timer that fires late lets two quotes leave closer together than the
  interval.
- A run of the worker makes a skipped simulation answer ok.

## Theorems

TLC shows a property on a small instance; the theorems hold for every value of the
constants that satisfies the named assumptions of the module.

**DurableExecution** (`DurableExecutionProofs`), for any number of bots, workers,
executions and crashes, whether or not the lock can be lost: TypeCorrect,
OneLiveAuthorisationHolds, TerminalResultKeptAlways and OperatorStatusKeptAlways.
The inductive invariant is `TypeInv`, that is TypeOK together with CarriesAttempt: a
run at a label of an attempt carries an execution, not the null value.  TypeOK alone
is not inductive, because a save or a commit would index `result` with the null
value.  OneLiveAuthorisation needs no more: an attempt is set only by Prepare, whose
guard counts the other live attempts.  The action properties follow action by action
from the frame conditions, except at the saves and status writes, where the guard of
saveExecutionResult and preserveOperatorStatus decide.

**DurableExecution, settlement** (the second half of `DurableExecutionProofs`), for any number of bots,
workers, executions and crashes, as long as the session that holds a bot's advisory
lock lives (`~MayLoseLock`): BooksMatchChainAlways, SubmittedIsRecordedAlways,
EveryFillBookedOnceAlways, NoStalePreparationEver, BalancesIncludeFillsAlways (when
every bot is a portfolio band; for the legacy resume it is false, which is the
finding) and SettlesExactlyOnceAlways, the refinement of `ExactlyOnceSettlement`.
The assumption is needed and not only convenient: two runs that both believe in the
lock hold different aggregates, and TLC finds the second commit dropping a lot of the
first.  The inductive invariant `SettleInv` speaks of one execution row (RowOK: what
its ledger entry, its saved result and its transaction say of each other), of one
bot (BotOK: its lots are its booked fills, its snapshot misses none, its attempt is
its own) and of one run (RunOK: a table, by label of the program counter, of what the
view and the held attempt may be relied on for).  None of the properties is inductive
by itself, because a commit writes what the run remembers, not what the tables say.
A step of a run changes rows of its own bot only; OthersKept and StepSettles carry
the rest over once for all actions, and each action is left with its own row, bot and
run.  For the refinement every action is a step of ExactlyOnceSettlement (authorise,
execute, book) or a stutter; that a commit books what the chain did, and once, is
RowOK.

**PortfolioCapital** (`PortfolioCapitalProofs`), for any number of bands, executions
and zones and any amounts, paper or live: CapitalTypeCorrect (no amount goes
negative), ReservationsAreExact, BooksAlwaysMatchBand, BandsAlwaysAccount,
OneEntryPerZoneHolds, FeesAreFunded, ClosedBandsAreEmpty, BandsStayConsistent.  They
follow from one inductive invariant `Inv`.  Two of its conjuncts are not properties
of the runs and carry the rest.  Linked says that what is unsettled belongs to an open
band, has an execution of its own and a fee within its estimate, and that open lots
belong to open bands: without it a commit could bring cash back to a closed band, end
the reservation of another band's buy or charge more than the envelope was asked for.
OneLiveExecution says that a live portfolio executes one swap at a time: without it
the fee charged for one swap could take the envelope below the estimate of another.

The conservation of capital speaks of sums over bands and lots:
ClaimsAlwaysMatchWallet, FundingAlwaysMatchesBands, DeployedAlwaysIsOpenLots.  They
rest on SumsHold, a second induction over `Inv` (SumInv: what the rows of one band and
of one lot tell, what is due between wallet and books, and the sums of cash, funding
and cost), in which every action moves one term of a sum, or two against each other.
`SumProofs` is the library for it: SumFunctionOnSet of the community modules is a
recursive function over the subsets of its index set, and that it exists, does not
depend on the order of its choices, changes by what one term changes, splits over
parts, adds termwise and is monotone is proved there.  The library's induction
theorems take an operator as a parameter; the proofs look for a smallest
counterexample instead, a nonempty set of subsets, for which strict inclusion is well
founded.  The constants' finiteness is assumed for this and nothing else.

**WalletAdmission** (`DeskProofs`), for any requests, bots and amounts:
OneModel, KeysStayDistinct, BooksKeepBudget, ClaimsStayCovered, and AdmissionAlwaysHolds
of all of them.  `IInv` adds to the first three what a request in flight may rely on
(RequestOK): a fresh request has read the newest row, only the holder of the lock is
past it, and nothing is unsettled while the lock is held (LockIsAlone).  Calm is
OneModelPerWallet strengthened by the portfolio's stage; Balanced is BooksMatchBudget.
ClaimsCovered is not inductive even so: an archived bot may still send its purchase, a
sale is money the books do not claim yet, and a grant relies on a balance read earlier.
CoverInv therefore gives every bot a share of the wallet (its cash and what an
execution has moved unbooked, or what an archived bot may still spend), bounds the sum
of the shares by the wallet, says that a bot whose purchase is unsettled can pay for it,
and that who is about to commit under the lock has seen the wallet as it is.

**The desk's pages** (`DeskProofs`): DeskAlwaysHolds and DeskAlwaysStands state the two
bundles the suite checks, for every behaviour of each page that is at work.

- `BotForm`, for any amounts, presets and stored bots: DraftsAlwaysFit and
  OpenProposesNothing.  `FormInv` adds to the bundled invariants that the server only
  stores what it accepts, which is why the normalisation of an opened bot changes
  nothing.  What the normalisation guarantees (NormalizedFacts) is
  linear once every quotient lies within its bounds.
- `DeskConsole`, for any bots, kinds of request and numbers of requests:
  DraftsStayOfShown.  DraftIsOfShown is not inductive, since a render hydrates the draft
  only when the bot shown is not the one it was hydrated for: `ConsoleInv` says that the
  two are the same (`hydrated = Shown`) until what the draft or a request was about
  changed under it (`crossed`: two requests at a time, a panel opened over typed text or
  again, an answer or a refresh that meets other text), and that typed text has a bot.
- `DeskStream`, for any bots, executions, drops and failures: StreamStaysInOrder.  `StreamInv` orders the copies of a row:
  what the page shows is never later than what is on the wire, the wire is in order, its
  last payload is not later than the answered read, and none is later than the row
  (InOrder).  ShownIsAnnounced follows from AllTold: a result in a payload was told, is
  told by an event still on the wire, or was part of a connection's first payload.
  Nothing is assumed of the statuses an execution goes through; a result is one of the
  statuses in `Announced`, which "unknown" is not (listed above).
- `LabConsole`, for any inputs, questions and generations: LabIsAsked, from `LabInv`
  (who makes the page busy is the one flight of the present generation, and is of the
  inputs now set).  LabShowsItsOwn holds as long as no stress check is on its way
  (NoStress): with one it is false, as listed above.

**BandRevision** (`BandRevisionProofs`), for any prices, grids, hours and limits that
satisfy RevisionAssumption (every parameterisation of `WorkerMC` does), and any number
of crashes, pauses and resumes: SnapshotAlwaysNamesRevision, RevisionsStaySpaced and
AlwaysAppliedToLotsSeen whether or not the lock's session can break; RevisionTypes,
EntriesAlwaysFollowObservation, DailyLimitHolds and RevisionsAlwaysHold for behaviours
in which no run loses its lock (`[][~LoseLock]_vars`).  `WorkerParts` instantiates the
proofs' module, so that RevisionsAlwaysHold of `WorkerProofs` says the same of the bundle
the suite checks, each half under its hypothesis, and ChangesAlwaysHold of the action
properties, of bands and history together.  The first rest on `Inv`: the commit of an attempt writes the snapshot
without looking at the revision, so that SnapshotNamesRevision needs RunReads (an attempt
that a run resumes was pending when it read its snapshot, and while one is pending the
manager changes nothing; what a run prepares it decided on the newest snapshot).
CycleReads says the same of the manager's cycle: its revision's hour, its lots, and that
it revises only what had cooled.  The others rest on `LockInv`: the lock is held exactly
while a run is on (LockIsRun), so what the run has read is still what the tables say
(RunFollows), the history carried along in the snapshots is that of all revisions
(HistoryTold, with a bijection between the two counts), a pending signal names a level of
the present grid (LevelsFit), and whatever a run may compare the price with was observed
since the manager's last change, or its snapshot is still marked as a baseline
(SnapshotObserved, RunObserved).

**WorkerRuntime** (`WorkerProofs`), for any symbols, bots and intervals:
RuntimeTypes, SymbolHasOneDrain, QueuedIsNotLost, BotHasOneRunner, ClosesQuietly, the
action properties RunsStartApart and StopStartsNothing, and RuntimeAlwaysHolds and
RunsStartOrderly of all of them.  The invariant `Inv` says where each loop stands: an
alive drain's symbol is marked running and no other drain has it, a bot is marked
exactly while one loop is at it, what stop() waits for are the drains that were alive,
and how far the shutdown has come bounds all of it.  SymbolHasOneDrain is not inductive
without the marks, ClosesQuietly not without `awaited`.

**Stored data** (`WorkerProofs`): StoredDataAlwaysHolds says of each of the three
components below that the bundle the suite checks holds in all its behaviours.

- `PriceFeed`, for any symbols, blocks, times and restarts of a service with a store or
  without: PricesStayTrue.  NoRenewal compares a price with the first use of its blocks, which a
  restart may have erased from the memory.  `FeedInv` follows the observation of a block
  to wherever it is kept: `seen`, the store and what was loaded from it never say later
  than the first use (Knows), never name an unknown block or a future instant
  (BlocksAreKnown, NothingFromTheFuture), and the batch in flight and the cached prices
  carry the times of their blocks (BatchIsObserved, CachedIsBacked).  Assumed is
  `~Lasting`: without a store a first use is one of the present process, as in the worker.
- `CandleHistory`, for any windows, time to live and page limit: CandlesStayWhole.
  ServedIsFinal is about the window cache; `CandlesInv` says of every place a candle
  passes (table, write under way, request, window) that it is whole and closed when it
  was read.
- `SnapshotHistory`, for any bots, buckets, retentions and faults: NewestStatesStay.  A
  maintenance computes what it keeps in one step and deletes in a later one, while bots
  write: `HistoryInv` says that what it keeps contains every newest state that is not
  newer than its read, that instants tell states apart, and that the newest state of
  every bot is stored.  On it rests the history's half of ChangesAlwaysHold: a live row
  sums the newest states of the instant of its write (RowTotal, over the sums of
  `SumProofs`); a rebuilt one also what archived bots ended with, which is what they had
  because an archived bot writes no more (ArchivedIsQuiet); and a backfill that works
  fills the first bucket or the one after it, whatever the buckets' width.

**What a shadow records** (`ShadowProofs`): RecordsAlwaysHold and RecordsAlwaysStand
say of the outbox, the evidence and the quotes that the two bundles the suite checks
hold in all behaviours of each.

- `ShadowOutbox`, for any jobs, consumers, leases and limits: OutboxTypes,
  ClaimsLeaveAttempts, LastAttemptCompletes, OutboxAlwaysHolds of all three, and the
  refinement OutboxImplementsQueue (`Spec => OneAnswer`).  `IInv` ties the status of a
  row to its counter, holder and claimant (RowTells) and says that a consumer which
  holds a job is the one of its last claim or has lost it (HoldsJob).  The attempts
  follow by a second induction (AllRecorded) over it.  For the refinement every step is
  mapped to a call, a final result or a stutter: only complete and a terminal fail of
  the current holder change the abstract result, which is what RowTells is needed for.
- `ShadowEvidence`, for any bands, hours, fills, captures and faults: EvidenceIsTrue and
  EvidenceStaysFrozen.  What is stored was decided a cycle earlier and read in several
  steps: `EvidenceInv` says of every place it passes (the manager's pending list, a
  capture, the stored row) that an outcome that is claimed was applied (Real), that a
  profile is of completed fills before its hour (Causal), and that a capture about to
  store has read cash and lots of one view.
- `ShadowQuotes`, for any bots, sizes, intervals, deadlines and lags: QuotesStaySpaced,
  SweepsTryEveryBot, QuotesStayTyped.  PacerTells bounds the pacer's next start from
  both sides, by the last request and by the one that waits: a request that is given
  up unsent has used up its slot, and its deadline is later than its slot because the
  timeout is not shorter than the interval.  SweepTells says that what was tried and
  what is left make up what is to be tried; ComparisonTells that the comparison under
  way is of a task that is left.

**PnlSpikes** (`TradingProofs`), for histories of any length and any profits:
HoursHaveRows, SpikesHaveShownNeighbours, SustainedMovesStay, SpikesAlwaysHold over
every window, and the action property RepairTakesHidden.  They hold of the filter's
arithmetic: a spike is more than eight gaps away from two values that are near each
other, so its neighbour cannot be one as well.

**JupiterSale** (`TradingProofs`), for any lots, answers, fees and reserves:
SalesAlwaysHold.  `SaleInv` records what one preparation leaves to the next
(SizesWholeLots) and what the checks of the executed order were (AllowedIsChecked), from
which SaleCoversLot and ReserveKept follow.  SellsInStillMarket needs StillNeedsOne: when
the market answers the same twice and the margin is worth four atoms of base, the second
amount already covers the cost, so that a third preparation is never refused.  That is
the one nonlinear argument of the project: what rounding loses and half the margin as
slippage bound together leave the resized amount below the lot and its floor above the
cost.

The steps of the proofs follow the actions, one lemma for each, with a step for each
conjunct that the action disturbs.

Only model-checked:

- liveness (OutcomeIsBooked, WorkEnds, ViewsSettle) and whatever needs ENABLED: out of
  TLAPS's reach;
- BooksHold, TradesHold, ChoicesHold and ReplaysStand: their components have no proof
  module.  The replays' BooksBalance and LotRepair's books are folds over sequences,
  which would need induction over data.

## Not modelled

- Dashboard pages, charts and activity lists (`bot-detail-view.tsx`,
  `bot-price-chart.tsx`, `bot-view-data.ts`, `app/dashboard`, `app/activity`): layout
  and formatting of what the repositories return, without state that outlives a
  render.
- Indicators, range plans, regimes, strategy selection, rebound zones, metrics and
  reports (`indicator-service.ts`, `backtest-portfolio-service.ts` and their
  neighbours): functions over arrays of real numbers.  The models that use their
  results leave them open, which covers every result.
- The question texts of the shadow experiment and the statistics over its stored
  answers: nothing in the system reads them.
- Schema, mappers, seed, deployment; `fix-btc-decimals.ts`, which scales every row of
  a bot by a constant.
- Encodings, signing, formatting, logging.

Within the modelled parts: geometric grids, the entry mode sell-only inside a
decision, the failure counter of the risk rules, claims in SOL, adoption of an
existing bot and the repository methods that only tests call, ledger rows, more than
one quote mint, more than one process of the price service, fine market rows and
quote comparisons, creation, reset, simulation and cloning on the desk (they share its
busy key; the hazard is listed), and the sections above name the rest.

## Plan

Done: the core (DurableExecution, PortfolioCapital), the worker, the band revisions,
the legacy bot, the decision, the live sale, prices, wallet admission, the shadow
experiment, the replays, the Lab, the desk, the scripts and the history; for the core,
the worker, its prices, candles and history, the band revisions, what the shadow
records, the admission, the desk's pages, the live sale and the spikes every safety
property that a run checks is a theorem, and both refinements are.

Left, in this order:

1. Proofs for LegacyBot (OperatorStarts).
2. The desk's remaining requests under their shared busy key.
