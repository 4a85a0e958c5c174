# Verification of HeadacheTradeV2

TLA+ models of the parts of HeadacheTradeV2 that decide, send and reconcile simulated orders,
the TLC instances that check them, and TLAPS proofs of what matters most.

Everything is translated from the code under `src/`. A definition's source lines are in
`PROJECT.json` under `map`; names follow the code where TLA+ allows it.

## 1. The system

HeadacheTradeV2 scans US stocks, keeps a pool of breakout candidates, turns them into trade
plans, and trades the plans in a Futu *simulation* account. Everything is in one SQL database.
Two kinds of processes write it: short-lived CLI jobs that systemd timers start, and a web
process with one background worker.

| Component | State it keeps | Operations | Modelled |
|---|---|---|---|
| Simulation loop `sim_loop.py` | none of its own; the phase it is in | every 30 s: order sync, position sync, reconciliation, exits, portfolio, validation, approval, entry | `SimLoop` |
| Order sync `order_sync.py` | `SimOrder`, `SimDeal`, `Position`, `TradePlan` rows | reads open orders and deals, updates rows, times orders out, cancels | `OrderSync` |
| Position sync `position_sync.py` | `Position`, inferred `SimOrder` | adopts holdings, matches them to unresolved BUYs, closes rows of vanished holdings | `PositionSync` |
| Reconciler `trade_reconciler.py` | `ReconciliationIssue`, gate record in `SystemConfig` | compares broker and tables, opens and resolves issues, saves the gate | `TradeReconciler` |
| Position manager `position_manager.py` | exit `SimOrder`, `Position.last_error` | decides exits, waits, retries, sends SELLs | `PositionManager` |
| Portfolio, validator, rules, executor | `TradePlan.status`, `.rules_approval_status`, entry `SimOrder` | read the account, check quotes, approve one plan, send BUYs | `EntryPipeline` |
| Plan generation `trade_plan.py` | `TradePlan` | makes, refreshes and retires plans from the battle pool | `ScanPipeline`, `EntryPipeline` |
| Pipeline lock `pipeline_lock.py` | the flock of a lock file | one job at a time | `PipelineLock` |
| Background tasks `task_runner.py` | register of tasks, active id | admit, run, end | `PipelineLock` |
| Deployment `deploy/*.service` | runtime directory `/run/headachetrade` | start, stop, time out, restart | `PipelineLock` |
| Structure scan `structures.py` | `StructureEvent` | detects beginnings, confirmations and failures in a window of bars | `Structures` |
| Daily pipeline `pipeline.py`, `screener.py`, `data_ingestion.py`, `battle_pool.py` | `CandidateStock`, `KLine`, `BattlePoolItem` | jobs of the timers: screen, update, scan, rank, make plans | `ScanPipeline` |
| Price levels, across plans, validator, executor, syncs and manager | prices of `TradePlan`, `SimOrder`, `Position` | compute entry, stop, targets and no-chase line; compare quotes | `PriceRules` |
| Manual signal book `approvals.py`, `corrections.py`, `risk.py`, `monitor_state.py` | `TradeSignal`, `Position`, `TradingState` | approve, reject, correct, size, refresh the displayed state | `SignalBook` |
| State machine `state_machine.py`, `entry_trigger.py` | the same rows | advance a symbol from waiting to an entry, and its position to an exit | `StateMachine` |
| Backtest `backtest.py` | tables of its own, the trade being replayed | feeds bars, advances, approves, ends trades, adds up | `Replay` |
| Market `market.py`; indicators, trend | `MarketState`, `Indicator` rows | count strong symbols; numerical | the count in `SignalBook`, the rest enters as facts of bars |
| Data quality, freshness | none | pages, and whether data can be scanned | an input of `Scan` |
| Protective mode `risk_control.py` | `SystemConfig` | settings and their page | an input of the rules |
| Providers, price alerts, web routes, auth, views, frontends, OpenD tools, migrations | – | I/O and presentation | no |

The signal book is the older half of the program. At this commit `advance_state_machine`, which makes its signals, is called by the
backtest only (`backtest.py:142`); the routes that approve and reject signals (`main.py:688-697`) and the refresh of the displayed
state still run on the live tables. Both uses are modelled: the *replay* as `backtest.py` runs it, and the *desk* of
`docs/state_machine.md` and the tests, where a person decides between any two advances. The `Position` table that a desk shares with the
simulation loop is not composed with it.

How the rest interacts: the services of the loop call nothing of each other. They communicate through
rows, each committing in its own places, and through the broker, which moves between any two
calls. What makes this hard is

- *two clocks*: the broker fills and cancels between any two reads of one loop, and the
  order reading and the position reading of one loop are of different moments;
- *partial sight*: an order may be missing from a reading although it is live or filled;
- *no handshake*: a process may die, or an answer get lost, between a placement and its commit;
- *rows that outlive their meaning*: a Position row is reused for the next holding of its symbol, an
  approval outlives its loop, a waiting exit outlives its retry;
- *other writers*: the web process scans and regenerates plans without the lock, and the lock file can
  be removed while it is locked;
- *a window that moves*: each scan rebuilds what lives from the last bars only, and bars it has
  read may change, while its findings stay in the table;
- *one row, three writers*: the state machine, the approvals and the monitor each write the trading state of a symbol, and
  five early returns of an advance come before it manages a position.

What has to be right: never sell more than is held; never open a position on ledgers that do not
agree, beyond the capital gate, or beyond the day's maximum; the gate record follows the issues; nothing the
tables call finished is still working; every holding gets a managed row; the gate reopens; jobs
exclude one another; a structure that failed is marked so and ends its plan; what is bought is not sold by the quote that bought it;
the state of a symbol tells whether it is held, its hard stop is never passed over, and a replay counts what happened. `PROJECT.json` lists each hazard at its line with the properties for it.

## 2. Modules

```
TradeLedger          constants, variables, row types, queries and resets
 ├─ OrderSync        sync_sim_orders, both halves, and its transaction
 ├─ PositionSync     sync_futu_positions_to_local
 ├─ TradeReconciler  the issues, their resolution, the gate record
 ├─ PositionManager  manage_positions
 └─ EntryPipeline    get_portfolio_state ... execute_approved_sim_orders, generate_trade_plans
     SimLoop         composes them; broker, time, crash; Spec and FairSpec
      Account             what the loop promises the owner of the account
       SimLoopProperties  guarantees, and statements of the documentation; the loop implements Account
       MCSimLoop          instances for TLC
      SimLoopTypeProofs   Spec => []TypeOK
       EntryGateProofs    the theorems about entries
        SimLoopSafetyProofs   the theorems about sales, dead orders, the account and the plans of positions
TryLock              what a lock promises its callers
 └─ PipelineLock     lock, task register and units; its properties; implements TryLock
    ├─ MCPipelineLock    instances for TLC
    └─ PipelineLockProofs
Structures           detection over a window of bars, and the table of events
 └─ ScanPipeline     the jobs from the market to the plans; Spec and FairSpec
     ScanPipelineProperties
      MCScanPipeline instance for TLC, also of PriceRules
      ScanPipelineProofs  the theorems about scans, plans, the ranking and the price rules
PriceRules           the levels of a trade, from the structure to the exit; used by ScanPipelineProperties
SignalBook           rows, bars, corrections, approvals, sizes, refresh
 └─ StateMachine     one advance of a symbol: trigger, entry, management of a position
     Replay          the two uses, replay and desk; Spec
      ReplayProperties
       MCReplay      instances for TLC
       ReplayTypeProofs   Spec => []TypeOK
        ReplayProofs      the theorems about the book, the replays and their statistics
FirstPlaces          least numbers and smallest sets; used by ScanPipelineProofs and ReplayProofs
```

### The loop

`orders[i]` (the `SimOrder` row) and `remote[i]` (what the broker has under its id) are the two lives of
order `i`. `held` and `reserved` are the account: shares held, and shares the live exits may sell. `pc` is
the phase of the running loop. The loop runs under the pipeline lock, so there is one; its variables
(`rows`, `saved`, `todo`, `capital`, `context`) die with it, which `LoopOver` states.

- *Order sync* reads all orders once (`BeginOrderSync`) and commits once, at its end. In between, one action
  per order row (`SyncFilled`, `SyncRefreshed`, `SyncSellTimedOut`, `SyncBuyCancelled`, ...), then one per booked deal.
  `saved` is the database below the open transaction: a crash or a failed commit (`RolledBack`) restores it, but
  does not take back a cancel the broker already has. `doomed` records that two new Position rows of one symbol are
  in the transaction; its commit then fails.
- *Position sync* is one action: one read, one commit, nothing sent. Every match of a holding with unresolved BUYs
  is covered by `MatchOutcomes`, the truth of the price comparison.
- *Reconciliation* and the save of the gate are two actions, since each commits. Each can fail by itself.
- *Exits*: one action per position. Whether an exit is called for, and which, depends on prices and is
  an input; waits, retries, quantity, refusal and loss of the answer are not.
- *Entries*: validation moves each plan by the zone its quote is in; approvals take plans in the executor's order
  and end with the first approval; the executor takes up *every* approved plan.
- `GeneratePlans` may happen between two loops, and with `UnlockedGenerate` in the middle of one (`main.py:742`).

`clean` and `passed` are history variables: that this loop's reconciliation ran on ledgers that
agree, and the plans this loop's rules approved. No guard reads them.

`Account` is the promise of all this to the owner of the account, without orders, rows or readings: shares come by buying, are offered while they are there and not
yet on offer, and go only out of what was offered. The loop implements it with `held` for the shares and `reserved` for what is on offer: a placed exit is an `Offer`, a fill is a `Buy` or a
`Sell`, an exit that ends before all of it is sold is a `Withdraw`, and whatever the loop does to its tables is a stutter.

### The lock

Each job goes through the `mkdir`, `open` and `flock` of `pipeline_lock` as separate actions. A lock file is a number; `path`
tells which file each of the two `LOCK_PATHS` names now, `owner` who holds its flock. Where `managed` holds (chosen once, in `Init`), jobs and
web process are units of `deploy/`: a stop removes the runtime directory they all share and with it the name of the
file, not the file itself.

`TryLock` is the promise in three actions: take a lock nobody holds, be refused one somebody holds, end. `PipelineLock` implements it where the
jobs are not units: a job *holds* from its `flock` to the close of its file, and is *refused* from the busy `flock` on; the `mkdir`, the
two opens, the retries on the second path and the file names are stutters. A dying process ends all its tasks at once, which is why `End` takes a set.

### Scans and plans

A bar is the set of facts a detection asks of it (`bottoms`, `rises`, `breaksDown` and their mirror images): prices and
indicators reach the code only through these. `Life` is the loop of `detect_latest_structures`: a fold of `AfterBar` over the
bars of the window, for each side; `Detections` what it finds on the way; `Persisted` what a scan leaves in the table.
`ScanPipeline` has the tables and two runners. `locked` runs the jobs that take the pipeline lock, one at a time; `web` the two routes
that do not (`main.py:757`). A job is the sequence of its steps, each with its own commit; `Abort` cuts it anywhere.
Selection, the facts of new bars, the readable symbols, scores and the stops that can be priced are inputs.
`EntryPipeline` has the same generation seen from the loop: there the pool is the input and all statuses of a plan matter, here the pool is made
and only whether the plan is `ACTIVE`. Rows nothing reads again (archived items, `INVALIDATED` plans) are not kept.
`redrawn` and `basis` are history variables.

### Price levels

`SimLoop` chooses the zone of a quote and the exit of a holding freely. `PriceRules` computes them: `Levels` is the LONG half of
`build_trade_plan_values`, `Zone` the comparisons of the validator (the names are those of `EntryPipeline.ZoneStatus`), `LimitPrice` and `Shares` the
executor's, `Booked`, `Adopted` and `BookedLater` the three ways a new row gets its levels, `Exit` the manager's first decision. Prices are whole
numbers of 0.0001. `Triggers` asks that the structure was confirmed at or above its pivot, which is what a bottom structure means; the detection does not
enforce it (`structures.py:175-181` asks for a close above the last bars' highs, also when these are all below the pivot), and a `TOP_INVALIDATED` plan has its reference below its stop
reference by construction (`trade_plan.py:107-108`), so it is only planned when the two are within 0.6 ATR. For those the no-chase line can be above the targets.

### Signals and replays

Time is counted in 15-minute bars; hours and days are multiples (`Duration`). A bar is its low and close as levels around `Stop`, and what
`entry_trigger.py` reads off it; `signs` is what the `StructureEvent` rows say of a symbol, `after` the bars since the trigger of its latest entry, which is all
that `corrections.py` asks for. `entry`, `exit`, `reduce` and `position` are the latest rows of their kinds: older ones are never read.

- `Stage` is the chain of early returns of `advance_state_machine`, `Advance` the whole call with every row it writes; `Verdict` the one of a managed position.
- `Approve` and `Reject` are the routes, corrections included; an approval that a correction overtakes commits the correction and leaves the trading state alone; `reject_signal` rejects whatever the status was.
- A replay's turn of a symbol is the sequence `bars`, `risk` (the stop against the bar's low), `advance`, `settle` (an exit, an entry, or nothing) and `cool`. It is a sequential program: the steps are its commits.
- A `session` is chosen in `Init`: desk or replay, the symbols, the equity. A replay as it is shipped has tables without `portfolio_sync_status`, so its equity is 0 and it never trades;
  the tests seed an account, and so do the other sessions.
- `Stats` is the loop over the trades that keeps the drawdown and the run of losses, `DoubleMedian` the median and `PositionSize` the size: functions, compared with what they are named for (`StatisticsAgreeOn`, `SizeIsLargest`).

### Abstractions

- In the signal book the industry exposure counts open positions at their entry price; a quote away from the trigger is a fact of the bar
  (more than 3% to either side counts as a failed trigger); script selection and the texts of reasons are left out.
- Of a reading of the provider only the last bar may differ from what is stored; the facts of a bar do not
  depend on the window (the lookback of `detect_latest_structures` is the same in each).
- A failed computation of indicators makes a symbol unreadable for the scan, as does stale data.
- Prices are inputs of the loop: the zone of a quote, the exit called for, whether a price matches.
- Left out: `POSITION_COST_MISMATCH` and `ORDER_STATUS_UNKNOWN` issues (price and wording), `FAILED` rows of refused entries (no query reads
  them), profits, audit texts, an accepted placement whose answer is empty.
- `age` of an order has three values: fresh, past the order timeout, past the retry time. `Tick` ages the orders
  between loops, so that each timeout comes before and after any answer.
- The broker is external. It fills in any portions, ends live orders by itself with a status of
  `DeadByBroker`, and shows any subset of its orders when `MayLoseSight`.

## 3. Runs

A bound is a constant of the `.cfg`; `BrokerActsAt` names the phases before which broker events are
interleaved. An event that falls before a phase which reads nothing of the broker is the same as one
before the next phase that does, so the reading phases are enough; some runs have fewer, to afford another dimension.

| Run | What it shows | Size |
|---|---|---|
| `exits` | `FairSpec`, one symbol, three orders of two shares, both exit reasons, broker-side cancels: `TypeOK`, `ImplementsAccount`, `DeadOrdersAreDead`, `PositionsComeFromTheirPlan`, `InferredEntriesAreFilled`, `HoldingsAreAdopted`, `GateReopens` | 526 k states |
| `lost_sight` | one share per entry, one position at a time: readings leave out any orders, deals come in batches, answers are lost, kills at every commit boundary, after a placement and inside the order sync: `NeverOversold`, `DeadOrdersAreDead` | 960 k |
| `entries` | two plans, two symbols, several days, refusals, the second plan regenerated in mid-loop, a failing account, position sync and reconciliation: `DailyEntriesBounded`, `EntriesFromCleanLedgers`, `EntriesPassCapitalGate`, `GateMatchesIssues` | 575 k |
| `jobs` | `FairSpec`, two jobs, two tasks, by hand or as units, killed and restarted at any point: `OneUnfinishedTask`, `ExclusionByHand`, `RefusalsAreJustified`, `ImplementsTryLock`, `TasksEnd` | 150 k |
| `scans` | `FairSpec`, one symbol, four bars of two kinds, a redraw, two days, a job that dies: `TypeOK`, `LineageIsComplete`, `StructuresRepeatOnlyPastWindow`, `RankingIsFair`, `PlansFollowPool`, `FailedStructuresEndTheirPlans`; and the price rules over 36 structures, 651 quotes, 4 budgets: `EntriesAreNotSoldAtOnce`, `StopsCostUnderTwiceTheBudget` | 435 k |
| `signals` | a desk and three replays: `TypeOK`, `StatesTellPositions`, `NoEntryWaitsOnPosition`, `TradesMirrorPositions`, `PositionsWithinLimit`, `LossesAreBounded`, `EntriesFollowTheirHour`, `CooldownsAreReplayed`, `AbortsAreSecondEntries`, `StatisticsAgree`, `SizesAreLargest`, `NoEntryDuringCooldown`, `HardStopIsNeverMasked`, `StopsOnlyTighten` | 1.2 M |

Why the bounds are enough for what they are for: three orders are an entry, an exit and its retry, or
an entry, an exit and the entry of the next holding (four in `doc_verified_close`, which needs a whole second holding); two shares make a partial fill and a partial exit;
one retry is the boundary of `MaxRetries`; two plans with two symbols have an approved plan wait behind another; an issue
depends on one symbol or one order at a time. What is proved holds without bounds.
In `scans` a window of three bars is a passivation, a structure and its failure, and the fourth bar moves the window past the first; one symbol is enough, because
only the ranking puts symbols beside each other, and `RankingIsFair` asks that of every scoring of four items with one place in S and one in A. The web runner only scans there: the
route that also ranks and makes plans is longer, not different. The route's window, lookback and capacities of the deployment (160 bars, 3 and 10 places) are constants.

In `signals` an hour and a day are both three bars of 15 minutes (`Minutes`), so that a day, a cooldown of one day and the expiry of a signal all pass within a session. The sessions (`AllSessions`) are a desk
of one symbol and six bars, with fewer kinds of bars, since no low is looked at there; a replay of one symbol and seven bars, enough for a trade, its cooldown and a second entry; a replay of two symbols and four bars, which compete for `MaxPositions` = 1; and
seven bars of the replay without equity. The first two and the last start with a passivation already found (`warm`). A structure expires after four bars (`StructureLife`), a signal after one, a failed
trigger is looked for in two. Bars below the stop, at it, above it and above the entry are there; the trailing distance differs by market so that a downgrade would widen it. Statistics are compared
for every sequence of up to four results in -2..2, sizes for the boundary cases of both bounds.

Deadlock is checked in every run but those of `MCReplay`: a loop can always take its next step, and a refused job ends. A session of the signal book ends with its last bar.

### Where the code and its documentation differ

These runs end in a counterexample, and `PROJECT.json` quotes the line each refutes.

| Run | The statement | What happens |
|---|---|---|
| `doc_approved_entries` | every automatic BUY passes this loop's gates (README:292) | an approval left by an earlier loop is executed |
| `doc_one_position` | no position or unfinished order in the symbol (`trade_plan.py:173`) | plans say `X`, rows say `US.X`: the gate's query finds nothing |
| `doc_verified_close` | a close is unverified unless a SELL fill confirms it (README:297) | the fill of an earlier holding confirms it |
| `doc_positions_managed` | positions are managed even when entries are blocked (README:282) | two fills of one symbol in one sync make every later loop fail before it manages anything |
| `doc_backtest` | an ENTRY still valid at its bar becomes a position (docs/backtest.md:14) | the closed row of the symbol's first trade makes the second approval raise, and the replay ends |
| `doc_exclusion` | a second job is skipped (`pipeline_lock.py:36`) | a unit that stops removes the lock file of another |

More was seen while modelling that no run shows:

- candidates with an active plan are dropped, since no code gives them the statuses that would keep them (`screener.py:52`);
- pending entries do not count against `MAX_POSITIONS` (`portfolio_manager.py:45`), and the approvals of a desk do not ask for the limit again (`approvals.py:17`);
- a reopened row keeps the partial-exit flag, the stop and the trailing stop of its former holding (`order_sync.py:162`): a new holding may be sold at its first quote. `PriceRules` is about new rows;
- an exit that fills between the two readings of one loop stays `CLOSED_UNVERIFIED` (`order_sync.py:174`);
- the retry count is that of one waiting order and starts again (`position_manager.py:166`); a waiting SELL the broker no longer reports keeps the gate closed (`trade_reconciler.py:377`), which is why
  `GateReopens` is about ledgers that agree;
- a BUY the broker ends by itself leaves its plan `ORDER_SUBMITTED`, which no validation looks at (`order_sync.py:44`);
- two generations of plans may insert the same plan (`trade_plan.py:63`), and a daily scan holds the lock while loops are skipped (`cli.py:69`);
- an entry position sync infers gets a stop 2% under its cost, not the plan's, whatever the budget was computed from (`position_sync.py:75`); and no code caps the value of a
  simulated entry by `max_symbol_position_pct`, which only serves to recover the equity (`sim_order_executor.py:39`). `StopsCostUnderTwiceTheBudget` is about entries order sync books;
- the trailing rule written on every plan (1R: stop to cost, 1.5R: lock 0.5R, `trade_plan.py:155`) is not what `_manage_position` does: nothing rises at 1R, at 1.5R the partial exit comes first and
  raises the stop to cost, after which the risk is 0.0001 and the lock of 0.5R is void;
- a failed bottom renews the cooldown at every advance (`state_machine.py`), and a REDUCE of `max(1, shares // 3)` closes a position of one share.

`NeverOversold` is false with `PositionSyncFails`: the loop swallows the failure and sells by an earlier
reading. No document promises otherwise, so this is a hazard here and not a finding; the runs
that check `NeverOversold` and `ImplementsAccount`, and their theorems, have a position sync that succeeds.

`InferredEntriesAreFilled` is false as soon as a reading may leave an order out, an answer of `place_order` may be lost or a loop may die between an order and its
commit: then a symbol has shares and an unfinished entry that did not buy them, and the position sync takes the one for the other. With it falls `PositionsComeFromTheirPlan`: the row gets the plan of an
entry that never filled. No document promises otherwise either; `exits` has none of the three, and neither has `InferredEntriesDidFill`.

A side can get a second structure while its first is not marked as ended, without any bar being redrawn: `StructuresRepeatOnlyPastWindow` is what remains true. Once bars have left the window, a scan
rebuilds another life from the rest. The ending of the structure it does not see is found as the ending of another, or its row is already there in the name of another
(`structures.py:300-346` looks for rows by type and time), so the first is never marked. It takes a window of 7 over 8 bars, two scans whose windows overlap in 6.

### Fairness

`FairSpec` of the loop is `WF_vars(LoopStep)`: the timer starts a loop every 30 s, a loop has no
waits and takes all its steps. Nothing is assumed of the broker: it may never fill. `LoopStep` is one action, so
no choice inside it is assumed fair: a reading may fail again and again. In the pipeline, `WF(Step(r))`: a job that runs goes on; and `SF(Start("locked", Hourly))`: the timer fires seven times
each trading day, skips while the lock is busy, and is not skipped forever. Jobs may die, but not always (`MaxAborts`). In the lock, `WF(JobStep(j))` for each job: the operating system schedules
it, its work ends (jobs are finite scans, units have `TimeoutStartSec`), and a queued task is taken up by the executor's worker. Starts, kills
and restarts are not assumed. The signal book has no fairness: a person may never decide.

## 4. Proofs

TLAPS checks these for every value of the constants, under the named assumptions of the modules and nothing else but the hypotheses the table gives. `LedgerAssumption`,
`PositionSyncAssumption`, `ExitAssumption`, `ZoneAssumption`, `BrokerAssumption`, `JobsAssumption`, `WindowAssumption`, `ScanAssumption`, `RankedAssumption`, `SessionAssumption`, `LifeAssumption`
and `PriceAssumption` say what kind of value each constant is (the symbols of a scan and of the book are finitely many, prices have the steps that keep the fractions whole). Two say more: `BarAssumption`, that a bar closes no lower
than its low; and `BookAssumption`, that a bar of 15 minutes is no longer than a day, and that a signal expires after at least one bar and no later than the bars in which a failed trigger is looked for
(`CorrectionConfig`: 4 and 5). TLC evaluates all of them in the runs.

| Theorem | States | Where |
|---|---|---|
| `TypeCorrect` | `Spec => []TypeOK` | `SimLoopTypeProofs` |
| `EntriesOnlyFromCleanLedgers` | `Spec => EntriesFromCleanLedgers` | `EntryGateProofs` |
| `EntriesAlwaysPassCapitalGate` | `Spec => EntriesPassCapitalGate` | |
| `GateAlwaysMatchesIssues` | `Spec => []GateMatchesIssues` | |
| `DailyEntriesAlwaysBounded` | `Spec => []DailyEntriesBounded` | |
| `GateTellsAgreement` | from the save to the last approval, `gate = "ALLOW"` exactly if this loop's reconciliation saw the ledgers agree (`clean`) | |
| `SingleApprovalsAreFresh` | `Spec => ([]OneApproval => EntriesAreApproved)` | |
| `DeadOrdersStayDead` | `Spec => []DeadOrdersAreDead` | `SimLoopSafetyProofs` |
| `NeverSoldShort` | `Spec => []NeverOversold`, where `~PositionSyncFails` | |
| `AccountIsLongOnly` | what is on offer is never negative and never more than what is held, where `~PositionSyncFails` | |
| `LoopImplementsAccount` | `Spec => ImplementsAccount`, where `~PositionSyncFails`: every behaviour of the loop is one of `Account` | |
| `FirstClosesAreConfirmed` | `VerifiedClosesAreConfirmed` of every symbol bought once: `OPEN` becomes `CLOSED` only with a filled exit sent after the purchase | |
| `PositionsFollowTheirPlans` | `Spec => ([]InferredEntriesAreFilled => []PositionsComeFromTheirPlan)` | |
| `InferredEntriesDidFill`, `PositionsComeFromPlansInSight` | `[]InferredEntriesAreFilled` and so `[]PositionsComeFromTheirPlan`, where `~MayLoseSight`, `~AnswersLost`, `~MayCrash` | |
| `LockTypeCorrect` (types, proved only), `RefusalsAlwaysJustified`, `OneUnfinishedTaskAlways` | of `PipelineLock`, managed or not | `PipelineLockProofs` |
| `LockImplementsTryLock` | `Spec => ImplementsTryLock`: every behaviour where the jobs are not units is one of `TryLock` | |
| `MutualExclusionByHand` | `Spec => []ExclusionByHand`, mutual exclusion where the jobs are not units | |
| `ScanTypeCorrect` | `Spec => []TypeOK` | `ScanPipelineProofs` |
| `LineageAlwaysComplete` | `Spec => []LineageIsComplete`, for windows and histories of any length | |
| `StructuresRepeatOnlyAfterAnEnding` | `Spec => []StructuresRepeatOnlyPastWindow` | |
| `PlansAlwaysFollowPool` | `Spec => []PlansFollowPool` | |
| `RankingAlwaysFair` | `Spec => []RankingIsFair`, of any number of items, scores and places | |
| `EntriesAreHeld`, `StopsCostLittle` | `EntriesAreNotSoldAtOnce`, `StopsCostUnderTwiceTheBudget`, for all such structures, quotes and budgets | |
| `BookTypeCorrect` | `Spec => []TypeOK` | `ReplayTypeProofs` |
| `EntriesNeverWaitOnPositions`, `StatesAlwaysTellPositions`, `TradesAlwaysMirrorPositions` | `[]NoEntryWaitsOnPosition`, `[]StatesTellPositions`, `[]TradesMirrorPositions` | `ReplayProofs` |
| `NoPositionDuringCooldown`, `StopsNeverWiden`, `HardStopNeverMasked` | the action properties `NoEntryDuringCooldown`, `StopsOnlyTighten`, `HardStopIsNeverMasked` | |
| `LossesAlwaysBounded`, `PositionsAlwaysWithinLimit`, `EntriesAlwaysFollowTheirHour`, `CooldownsAlwaysReplayed`, `OnlySecondEntriesAbort` | the invariants of a replay | |
| `StatisticsAlwaysAgree` | `StatisticsAgreeOn` for every sequence of results, and so `[]StatisticsAgree` | |
| `SizesAlwaysLargest` | `SizeIsLargest` for every equity, price, stop and market, and so `[]SizesAreLargest` | |

*Entries.* That a BUY leaves only from a clean loop is not inductive: the executor looks at the plan's approval, which
may be old. The invariant `EntryInv` follows the evidence through the phases. `QuietMeansClean`: from the reconciliation on, no blocking
issue means the ledgers agreed (`NoBlockingIssueMeansAgreement`, the heart of the argument: every disagreement raises an issue of severity HIGH).
`OldApprovalsAreVisited`: while plans are being approved, every plan that still carries an approval is still to be visited, and being passed over for the gate
or the rules takes its approval or its status. `ExecutionIsApproved`: so if anything is left to execute, some plan was approved in this very loop, with the gate open,
capital available and the day's maximum not reached. The last step shows that no other action places a BUY. `EntriesAreApproved`, the statement of the documentation,
is one step stronger (*that* plan was approved), and false. `SingleApprovalsAreFresh` says by how little: with never more than one approval
on the triggered plans (`OneApproval`) the plan that is executed is the plan that was approved (`ExecutionIsPassed`), through every refusal, lost answer and crash; so what refutes it
is an approval that an earlier loop has left. `GateTellsAgreement` adds the other direction to the gate: agreement leaves no issue above a warning (`AgreementMeansNoBlockingIssue`), so the
gate also opens in the first loop that sees it, which is the safety half of `GateReopens`.

*Dead orders.* `DeadOrdersAreDead` speaks of the table, but a sync works with a reading and may be rolled back, so `DeadInv` has all three. `OrdersFit`: an order that lives has something left to fill. `ReadingsLag`:
a reading is never ahead of the broker, and what was over when it was read still is. `SavedOrdersFit`: what the open transaction would be rolled back to differs from the rows in memory only in what this sync wrote,
and calls nothing over that lives.

*Sales.* `NeverOversold` compares the exits at the broker with the shares; `SaleInv` explains why a row does not offer more. While a row has its turn to come (`Guarded`), its `available` is at most what is
held and not yet for sale (`RowsAreCovered`). That holds because between the position sync, which sets it, and the exit, only the broker moves, and a broker that sells lowers both sides alike. Rows no position sync has seen
(`OwnRow`) have their quantity from order sync instead; `OwnRowsAreHeld` says that nothing of such a symbol was ever sold, so that the next position sync finds the holding and takes the row over
before anything is sold by it. This is where `~PositionSyncFails` is needed: a loop that goes on without that sync sells by the old row. `FillsAreReal` and `SavedRowsFit` carry this through bookings and rollbacks.

*Account.* `NeverOversold` bounds each exit by itself; a sale of the account needs the other side too, that what it sells is on offer. `OffersAddUp` says that the remainders of the live exits of a symbol add up
to `reserved`. A sum over the orders is a sequence of partial sums (`AddsUp`), so that one order's change shifts the sums from its place on (`SumShifts`), and no remainder is more than the whole (`SumCovers`). A placement adds its quantity to both, a fill or an
end takes as much from both, and a visit that cancels touches entries only. So `reserved` is never negative, a fill of an exit is within it (`LiveExitIsOffered`), and each step of the loop is one of the account or a stutter.

*Closes.* README.md:297 ties a verified close to a filled SELL, and `doc_verified_close` refutes it with the exit of an earlier purchase. `FirstClosesAreConfirmed` says that this is the only way: where one entry alone bought
the symbol, the exit is later than it. `CloseInv` carries the evidence. `RowsHaveGrounds`, of the rows in memory and of those the database would be rolled back to: a row of a position was bought, a `CLOSED` one has its filled SELL, and the position sync infers no SELL.
`SalesFollowPurchases`: below the id of every SELL is an entry of its symbol that bought; a new exit has one because its row was bought, and because ids are given out in order (`TakenInOrder`). `VisitsAreDue`: the order sync visits
unresolved orders only, so no booked fill is taken back. No assumption on the readings, answers, crashes or the position sync is needed.

*Plans of positions.* `RowsAreBacked`: every plan a row names, in memory or in the database under the open transaction, is that of an entry that filled. Order sync books fills it has read (`FillsFit`, `ReadingsLag`), so only a match of the position sync can
break it, and that is `InferredEntriesAreFilled`; hence the theorem has it as a hypothesis on the behaviour, without any on the constants. `SightInv` proves the hypothesis where every order stays in sight. `OrdersInSight`: the
table and the broker know the same orders, and of one symbol at most one entry is unfinished, because the gate lets no second one leave before the first is resolved. `FreshSymbols`: a symbol that has had no row
has had no sale and no booked fill, so what is held of it was bought by the one unfinished entry, and that is the one the position sync takes. `FreshFillsPend` is what keeps it so: when the reconciliation calls the ledgers clean, shares in a symbol without a row
can only come from an entry that is still unfinished. `ReadingsComplete` says that a sync skips none.

*Lock.* `LockInv` adds to the types that a working job owns the flock of the file it has open, and an owner works. `OneFile` adds, where
nothing removes a file, that every open file is the one its path names. The refinement needs both: a job that gets the `flock` of its file has
the only file there is, so nobody else holds, and one that finds it busy is refused by a job that works. `FlockTakes` and `FlockBusyRefuses` say this of the two
outcomes of `flock`, `OthersEnd` that every other action is an `End` or a stutter.

*Scans.* `Life` and `Priorities` are recursive functions, so first they have to be unfolded. A function that is unfolded at a number refers to the one before it only; the value it has there exists because the set of numbers where it does not has no least element
(`SmallestSet`, `LeastNatural`, from the theorem that the strict subset order of a finite set is well-founded). `LifeRemembers` is then the invariant of the loop over the bars: what is alive at a bar was found
at an earlier one. So detections come with their parents (`ScansAreCoherent`), and `persist_structure_detections` keeps `Lineage` of any table (`PersistedLineage`), which gives `LineageInv` over scans of any windows. `PlansFollowPool` needs
`MarksAreLater` besides: a marked structure is not the latest event of its symbol, so no ranking picks it; `PlanInv` follows the pool from the ranking to the plans. For `StructuresRepeatOnlyPastWindow`, `OneLife` says that a table
of bars that are all in the window holds what one scan of them finds, `LivesAgree` that a longer history has the same life, and `EndsAreMarked` that what an ending names is marked; between two structures of one life there is an ending (`LifeEndsBetween`).

*Ranking.* Items are placed in the order of their scores. `PrioritiesUnfold` gives the place of an item from those before it; `CountsGrow` and `CountsAreBounded` that a class is never fuller than its capacity, and an item is lowered only when it is full.

*Prices.* `SoundLevels` is the arithmetic: with the entry a tenth of an ATR above the structure's level and the stop half an ATR below its pivot, the risk is at least 0.6 ATR, so the no-chase line (half an ATR above the entry)
is below target 1 (1.5 risks above it) and less than a risk above the entry. The first gives `EntriesAreHeld`, the second that a share bought there loses less than two risks, and `Shares` is the integer quotient of the budget by one.

*Signal book.* `TypeInv` adds to the types that the bars, turns and trades fit each other. `BookInv` has what makes the state tell the position: an entry that waits has its cooldown behind it *or a failed structure*, in which case the next decision
is a correction and no approval (`BottomsHaveEnded`, `RowFits`); what is held does not cool and nothing else waits for it. `PositionMoves` lists all that a step may do to a Position row: approve an entry that waits, close it, or raise its stop; the action properties
follow from it, `HardStopIsNeverMasked` from `BookInv`, since each of the early returns needs a state that a held symbol cannot be in. `ReplayInv` is about replays: `EntriesWaitOneStep`, an entry
waits only from its creation to the next step, so what was asked when it was made (room for a position, a stop below the close) still holds when it is approved; `TradesAreAboveStops`, a trade not yet looked at is above its stop,
so that the first bar to touch it is the one that ends it.

*Statistics.* The loop over the trades is unfolded like `Life`: `StatsFollow` is its invariant, proved at the first trade where it would fail. `Falls`: the peak is the highest total so far and the drawdown the deepest
fall from a total to a later one; `Loses`: the count of losses reaches back to the last gain, and the longest run so far is kept. The sort is understood by the rank of each value, the number of those that go before it and itself. A greater value has a
greater rank (`RanksGrow`, by strict inclusion), so ranks differ, so every place is taken (an injection of a finite set into itself is a surjection), and the sorted values rise. The values above the median have ranks above the middle, and are no more than the places there.

*Sizes.* The size is the smaller of two integer quotients; `FitsQuotient` says that a quotient is the largest number of shares within its bound.

*Model-checked only.* The liveness properties `HoldingsAreAdopted`, `GateReopens`, `TasksEnd` and
`FailedStructuresEndTheirPlans`: the prover has no rule for `ENABLED` and so none for fairness. Every other property of a passing run is a theorem. The library's induction theorems cannot be used, as they take an operator; where a recursive function had to be understood
(`Life`, `Priorities`, `Stats`, `Total`), the first place where the claim fails takes their place (`FirstPlaces`). No module declares a recursive operator.

## 5. Plan

1. Done: the loop and the account it implements, the lock and its refinement, the scan pipeline, the signal book and the replay, the price rules, and their runs; all their safety properties proved.
2. Composition of the desk with the loop, which share the `Position` table; the trailing stop of a holding over a path of quotes.
3. Left of the daily pipeline: stale data (`freshness.py`, `daily_state.py`), a generation split into its queries and its commit, and the request quota of the screener's provider (`futu_provider.py:280-314`).

Not modelled: views, templates, frontends, routes and sessions of the web application (they read and format), providers and OpenD tools
(I/O; what they return is an input), migrations, price alerts (reminders at the broker nothing reads back), SHORT plans (nothing validates them), and the numerical content of indicators.
