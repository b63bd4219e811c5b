# HedgeLock in TLA+

A verification development for the HedgeLock services: TLA+ modules translated
from `src/hedgelock`, TLC configurations that check them on small instances,
and theorems that the TLA+ proof system proves for every value of the
constants. Paths below are relative to the repository root.

Run a configuration with `tlc -config MCReserveManager.cfg MCReserveManager`,
check the proofs of a module with `tlapm ReserveManagerProofs.tla`.

## 1. The system

HedgeLock manages a Bitcoin-collateralised loan with a delta-neutral hedge. It
is a set of single-process asyncio services joined by Kafka topics; most of them
also serve an HTTP API from the same event loop. Nothing but the position state
(Redis or PostgreSQL) and the funding rates (Redis) survives a restart.

Within a service the tasks share plain Python objects without locks. A task runs
from one `await` to the next without interruption, so the races of this system
are of one shape: *a value is read, a send is awaited, the value is used*. Each
loop catches every exception at its outermost level, so a failing send abandons
whatever the loop was in the middle of. Consumers commit automatically (except
the trade executor, the hedger and the risk engine), most producers wait for the
broker (those of the funding engine, the hedger and the risk engine only put a
message into a buffer), and a send that raises may nevertheless have been delivered.

| Component | State it keeps | Operations | Talks to | What is hard | What makes it correct |
|---|---|---|---|---|---|
| **reserve_manager** | `ReserveState` (total, available, deployed, of it to collateral and to trading), deployment queue, alert history | messages `reserve_deployments`, `profit_taking`, `ltv_updates`; deployment, rebalancing and alert loops; API: manual deployment and withdrawal | publishes `treasury_updates`, `reserve_deployment_results`, `profit_distribution`, `trading_withdrawals`, `risk_alerts` | requests are sized when queued and processed later; a failed send in the loop skips the collateral update; API and loops interleave | balances describe the same money; what is taken leaves the minimum reserve (in an emergency, $100); collateral that moved is announced; reserves come from profit and top-ups; queued requests are processed |
| **loan_manager** | `LoanState` (balance, accrued, paid amounts), repayment queue, collateral value, its own copy of the available reserves | messages `profit_taking`, `position_states`, `treasury_updates`; LTV, repayment and interest loops; API: manual repayment, and every read accrues interest | publishes `ltv_updates`, `reserve_deployments`, `position_scaling`, `loan_repayments`, `loan_events`, `risk_alerts` | repayments capped when queued, not when paid; the copy of the reserves written after an await; four sends in one LTV check | borrowed = owed + repaid; paid off stays paid off; queued repayments are processed; requests reach the reserve manager; high LTV leads to scaling |
| **position_manager** | books (long and short perpetual), funding regime, volatility, P&L totals, last rehedge, saved states | messages `funding_context`, `market_data`; rehedge loop, hourly volatility update, periodic save; API: rehedge | publishes `hedge_trades`, `position_states`, `pnl_updates`, `profit_taking`, `emergency_actions` | five tasks read and write the books around awaits; orders before books, books before saves; exceptions in the middle; recovery | a rehedge reaches the target delta; orders and books agree; an emergency exit closes and stays closed; what is saved is what was last |
| **trade_executor** | pending executions, daily volume, statistics, offset | message `hedge_trades`; health loop; API | places and polls orders at Bybit; publishes `trade_confirmations` | a poll returns a batch and the first message is used; an order that times out may fill; redelivery would use a new link id; the volume is checked before an order and counted after it | no trade ordered twice; the daily limit; counters that describe real fills |
| **hedger** | position, statistics; the offset of its group | message `risk_state` | places orders at Bybit *and* publishes them to `hedge_trades` | the same decision has two executors; the order comes before the commit, so a restart may repeat it; the size comes from a snapshot two queues old; the headers of a message end the consumer | messages are consumed; orders approach the target and do not pass it; the account ends up hedged |
| **risk_engine** | latest account data and funding contexts | messages `account_raw`, `funding_context` | publishes `risk_state` | account data and context of different age; contexts are only in memory, and their group never commits; the headers of a message end the consumer | messages are consumed; the state steers to the target of the newest inputs |
| **funding_engine** | rates and their history (Redis), previous regimes, current contexts | message `funding_rates`; periodic updates; API | publishes `funding_context` | two tasks send contexts; the regime is recorded before the send and the context after it; the stored rate expires after an hour; no key, and no wait for the broker | the context sent last comes to be that of the stored rate; higher funding means smaller positions |
| **safety_manager** | circuit breakers, risk limits, dead man's switch, queue of emergency actions | messages `position_states`, `pnl_updates`, `ltv_updates`, `service_health`, `trade_executions`; five loops; API | publishes `emergency_actions`, `safety_alerts` | the queue is cleared before its actions are executed; two loops reset the breakers; alerts that raise cut rounds short; a breaker is silent while it is active | a breaker that triggers halts the trading; whatever is queued is taken up; silence and breached limits are acted on |
| **collector** | balances, positions, two sockets and one reconnect delay | position, wallet, order and market messages of the sockets; account poll and funding poll; start and stop | reads the exchange by websocket and REST; publishes `account_raw`, `market_data`, `order_updates`, `funding_rates` | two tasks each wait for the exchange before they publish what is current; both sockets double and reset one delay; a stop comes while tasks wait anywhere | positions are published in order and in the end; sockets come back; a stop reaches every task |
| **market_data** | the last price | polling loop | publishes `market_data` | nothing | - |
| **treasury, alert, dummy** | none | log random figures | - | placeholders | - |
| **shared infrastructure** | none | configuration, health, logging, metrics, start-up | all | reports about state, no state | - |

## 2. What is modelled

| Module | Models | State and actions |
|---|---|---|
| `Money` | rounding and comparison of amounts | operators only |
| `ReserveManager` | `reserve_manager/` | `reserves`, `queue` and `task` are `ReserveState`, `deployment_queue` and the point where the deployment loop is suspended. Each message handler and API call is an action; the deployment loop is `ProcessDeployment`, `ResultPublished`, `ResultFailed`, `UpdateReturned`; `RebalanceCheck`, `AlertCheck`, `Restart`. `unannounced` is what a send that raised kept from the treasury, `topUps` what the minimum addition puts on top of small profits. |
| `LoanManager` | `loan_manager/` | `loan`, `repayQueue`, `collateral`, `tracked` are `LoanState`, `repayment_queue`, `current_collateral_value`, `available_reserves`. `ltvTask` carries the locals of `ltv_monitoring_loop` across its awaits. Interest accrues in `AccrueInterest`, which any metrics read performs. |
| `LoanReserve` | both, joined by their topics | only ties the message sent to the message handled; every other step is an action of the two modules. `asked` and `processed` count the requests put on `reserve_deployments` and those of them taken off the deployment queue. |
| `PositionManager` | `position_manager/` | `books` is the position state the decisions depend on, `at[t]` the await in which task `t` is suspended, `decision[t]` the decision it holds there, `saved` what Redis holds and `archive` the rows of PostgreSQL, `missed` whether a save that was due did not take place, `ordered` what the orders on `hedge_trades` add up to |
| `TradeExecutor` | `trade_executor/` | `pc` is the await in which the consumer loop is suspended, `position` the consumer's place on the topic, `execution` and `pending` the `TradeExecution` in work, `volume`, `resetDay` and `stats` the counters. `Consume` is everything from `getmany` to the order; `Accepted`, `Refused`, `AnswerLost` the ways an order request ends; `PollAnswered`, `PollAgain`, `TrackTimeout` the tracking; `trades`, `orders` and `day` the topic, the exchange and the date, which move by themselves (`Publish`, `Exchange`, `Midnight`). An order carries the date of its last fill (`day`) and the day of the counter its fill was added to (`counted`), which need not agree. |
| `OrderOnce` | what the trade executor promises | the trades of the topic in their order, one at a time, each ordered once or not at all; `TradeExecutor` implements it (`OrderOnceImplemented`) |
| `Hedging` | `risk_engine/`, `hedger/`, and the trade executor as `OrderOnce` describes it | `risk` and `hedger` say in which await a consumer is suspended and with what; `accountRaw` and `riskState` are topics with what a group was given and what it committed; `funding` is `funding_contexts`, `keys` the services with API credentials, `readers` those that can read the headers of a message (in the code, none). A consumer that cannot dies of its first message (`RiskDies`, `HedgerDies`), and a snapshot in the collector's form is rejected (`RiskRejects`). `RiskTakes`, `RiskSends`, `RiskCommits`, `HedgerTakes`, `HedgerOrders`, `HedgerSends`, `HedgerCommits` are the consumers between two awaits, `...Starts` and `...Stops` their processes; `Snapshot`, `Move` and `ExecutorTakes` the world around them. |
| `SafetyManager` | `safety_manager/` | `metrics`, `pnl` and `safety` are `current_metrics` and `SafetyState`; `active` and `cooled` the breakers with `is_active` and those whose cooldown is over; `silent` and `window` what the clock makes of `last_activity` and of the recent executions; `queue` and `batch` the actions queued and those the emergency loop is publishing. `handler`, `monitor`, `resets` and `switch` say in which send a task is suspended. |
| `FundingEngine` | `funding_engine/`, `shared/funding_*` | `current` and `history` are what Redis holds, `previous` and `contexts` are `previous_regimes` and `current_contexts` of the one symbol the collector polls. `handler` and `updater` hold the context each of the two tasks is sending, `sent` the one the producer accepted last. `HandleRate`, `StoreFailed`, `HandlerSent`, `HandlerFailed` are the message task, `PeriodicUpdate`, `UpdateSent`, `UpdateFailed` the minutely update, `NextPeriod`, `Expire` and `Restart` what happens around them; `Adjustment` is the decision as a function of the rate and its average. |
| `Collector` | `collector/` | `at[t]` is where a socket's task, or the account poll, waits: connecting, authenticating, reading, backing off, in a request or in a send. `open` are the sockets as the exchange sees them, `delay` is `reconnect_delay`, `running`, `streaming` and `connected` the three flags of service, websocket client and producer, `stopping` what `stop()` is at. `positions` is a version of the account; `sending` is the buffer of the producer, `account_raw` the last version on the topic. |
| `MC...` | - | values of the constants for TLC |
| `...Proofs` | - | theorems |

Conventions shared by all modules:

- **An action is the code between two awaits.** What runs after the await is
  another action, of the same task. Loops that sleep are enabled all the time.
- **Failing sends.** `send_and_wait` may raise, and the message may have reached
  the topic nevertheless. In `ReserveManager` this is `ResultFailed` and the
  parameter `delivered`; in `LoanManager` `Delivery`; in `PositionManager` a
  message is counted when its send begins (`sent` says whether it will be on the
  topic) and `SendFailed` is the exception.
- **Amounts are integers**, in a unit named by the MC module. Percentages are
  rounded by `Money!Percent`. LTV ratios are whole percents, rounded down, and
  every threshold of the code is a whole percent.
- **History variables** (`announced`, `topUps`, `asked`, `missed`, ...) and bounds
  (`requests`, `inputs`, ...) exist only for properties and for finiteness; no
  guard that models code reads them. The bounds are the `Max...` constants.
- **Mutants.** A definition marked `Mutant` is a plausible bug in the definition
  after it, used to see that the property can fail.

Left out of the modelled components: health scores, histories, trend and payoff
estimates, wording of alerts and reasons, the decomposition of the P&L, and
`loan_manager`'s SQL schema, which no code uses. In `PositionManager` the profit
target is a Boolean that any update of the P&L may change, because it depends on
prices and volatility that come from outside. In `SafetyManager` the breakers for
funding costs and for consecutive losses and the limit on the leverage are left
out: no message of the system carries what they compare, so they always compare
zero. `health_check_loop`, which only sends alerts, is left out too. In
`FundingEngine` rates are whole annualized percents and multipliers are exact
(the code uses floating point); the average of the last day is any rate, because
it depends on prices and periods that come from outside. Left out are what a
consumer of `funding_context` hears and when, alerts, risk scores and projected
costs, invalid rates, which are only logged, the stored regime, which nothing reads,
the age limit of the history, and the task that connects to Kafka. In `Collector`
market data, order updates and funding rates are left out: they are passed on to the
producer and change nothing in the service. So are pings, subscriptions, statistics,
what is in the balances beyond whether there are any, and messages that are still
buffered when a socket closes. In `Hedging` quantities are whole numbers of a unit far
below the least order, since the code orders what the multiplier leaves without
rounding it.

## 3. What is checked

### Runs that pass

| Run | What it asks | Bounds and why they suffice |
|---|---|---|
| `MCReserveManager` | `RequestsKeepFloor`: requests are sized when they are queued, several from the same balance; the one that is processed still leaves the minimum reserve or, in an emergency, $100. `LedgerBalanced`, `CollateralAnnounced`: the ledger describes one sum of money and collateral is told once, unless a send raised. `ReservesBacked`: all reserves are profits, or what the minimum addition puts on top of small ones. `DeploymentsDrain`: whatever raises, the queue is worked off. | $50 units and the code's defaults. Three requests of 40 or 120 out of 200, of any urgency and action that moves money, overrun every limit when queued together, as do the tiers at 70%, 80% and 90%; one profit, below or above the minimum addition of 2; one restart |
| `MCLoanRepay` | `LoanBalanced`, `LoneRepaymentUsedUp`, `RepaymentsDrain`, `PaidOffAnnounced`: the ledger and the repayment loop under automatic and manual repayments, interest and failing sends. `ScalingKeepsUp`: while the LTV stays high, scalings keep being published, although each is the third send of a check, behind a report and a request that may raise, and reports of the reserves come in between. | $5 units, a loan of 7; half of a profit of 8 is less than the loan, and twice as much is more; one hour, two profits, one repayment of any priority through the API; a loan at 87% with its one unit of reserves and at 100% without; any number of checks and reports, one unread message on a topic |
| `MCLoanReserve` | `LoanManagerImplemented`, `ReserveManagerImplemented`: joined by their topics, each service still does only what it was checked to do alone, with arbitrary messages. What is shown of a service alone therefore holds in the system. `RequestsProcessed`: every request of the loan manager is taken off its topic, queued and processed, behind the automatic deployments of the same check and whatever raises. | two checks at 84%, at which both services ask for the tier; four requests, two unread messages on a topic, sends that raise with their message on the topic or not; the input sets of the two specifications contain every message the other service can send |
| `MCPositionManager` | `SavedWhenQuiet`: when all tasks have come to rest the storage holds the books, unless a save was missed and not made up for. `RehedgeReachesNeutral`: a rehedge is neutral if no other task moved the net position during its await. `EmergencyCloses`, `HedgeRefreshed`: an exit that raised nowhere closes the books, and a due rehedge takes place, also after sends that raised. The loop, the hourly update and the API all rehedge. | spot position of 10 units, so that a hedge ratio of 20% is a whole number; any three messages, requests or hours, one profit taking, one restart, one send that raises, any number of saves that fail: enough for any two tasks to overlap, with an exception in either |
| `MCTradeExecutor` | `OrderOnceImplemented`, `VolumeWithinLimit`, `CountersMatchOrders`, `HeadTradeTaken`: batches, lost answers, orders that settle during or after their tracking, a restart and midnight. | three trades of 2 or 3 with an order limit of 2 and a daily limit of 3, so that every limit is met exactly and exceeded; batches of one or two; two runs of the service, two days, two polls of an order |
| `MCSafetyManager` | `BreakerHalts`: whichever loop queues, resets or sends, and whichever send raises, the halt of a breaker is in the queue or in the batch until it is published or its batch is lost. `SilenceAnswered`, `LimitEnforced`: silence closes all positions and a position at its limit is told to reduce, although alerts and batches raise. | limits of 1 and 2, which an input meets exactly; one input, whose breaker triggers and resets while other tasks are in a send, and two failures, one in the loop that asks and one in the loop that publishes. For any number of inputs `BreakerHalts` is proved |
| `MCHedging` | `OrdersApproachTarget`: when a snapshot is taken with nothing on its way, every order that follows moves the delta towards the target and not beyond, whatever fails or is lost meanwhile and whichever funding context comes in between. It is a safety property: with the headers as they are no order follows at all, and the run looks at services that can read them as well, both, one or neither. | a delta of 4 least orders with targets 0, 1, 0 and -2, the hedger ordering at most 3 and the executor at most 2, so that every cap is met and exceeded; an LTV of 50% and one at the critical threshold; a multiplier of 30% and an exit; the hedger or the executor with credentials; both forms of a snapshot. Two disturbances are any pair of a move, a lost message, a failed commit, a refused order and a stop. `MaxBehind` is 1: with two snapshots on their way the delta oscillates without bound (see the list below) |
| `MCFundingEngine` | `RegimeSettles`: while a rate is stored, the context the engine sent last comes to state its regime, although sends raise and both tasks overwrite each other's state. It ends at the producer: what consumers hear is another matter (see the list below). `HigherFundingSmaller`: at every stored rate, a rate of greater magnitude gets no larger a position, and the adjustment keeps to its band and limit. `TypeOK`: every context states the regime of its own rate. | rates of 9 and 10 on both sides of a boundary, -60, 300 and one beyond all limits; compared with nine levels in and at the edges of all bands; three rates, so that one can be handled while the update of an older one is being sent; one change of the funding period, one restart, two failures |
| `MCCollector` | `PositionsNeverGoBack`: the positions on `account_raw` keep their order, although two tasks send them and updates are refused. `PositionsReported`: what the socket delivered is published in the end, also when the update it triggered fails. `SocketsReconnect`: each socket comes back, however often it fails and whatever the other does to the delay. `StopEndsTasks`: a stop reaches every task. | one life of the service from `start()` to the end of `stop()`, with any number of failures, drops and updates; two versions of the account, so that one can overtake the other; delays of 1 and 2 seconds, the second the limit |

Deadlock is not checked where inputs are bounded: once they are used up the
services have nothing left to do. Every passing property has a mutant in
`PROJECT.json` that breaks it.

### Runs that show a disagreement

Each of these checks one property that a comment or document of the repository
states, and TLC finds the code violating it.

| Run | Property | What happens |
|---|---|---|
| `MCPositionManagerRace` | `HedgeReachesTarget` | two rehedges in flight apply adjustments to each other's books |
| `MCTradeExecutorSkipped` | `NoTradeSkipped` | a batch of two trades: the first is processed, the second is dropped |
| `MCHedgingHeaders` | `AccountsConsumed` | the risk engine reads the headers of its first message as a mapping, outside the `try`, and its consumer is gone (`README.md:148`: "Consumes `account_raw` messages"); started again, it is given the next message and dies again |

### Disagreements without a run

The modules have these behaviours too, translated from the code like the rest,
but no run is spent on them. For the first eleven a module states the property,
and TLC refutes it when it is added to a configuration:

- `EmergencyReachesReserves` (`ReserveManager`; `manager.py:36`: "Emergency deployment
  can use more reserves", `docs/EMERGENCY_PROCEDURES.md:131`: "Deploy All Reserves"): the
  relaxed limit needs an action, `emergency_deploy`, that moves nothing, so an emergency
  deployment to collateral is held to the ordinary limits;
- `NeverOverpaid` (`LoanManager`): two profits are capped by the same debt when
  they are queued (`loan_manager/manager.py:201`: "Don't pay more than we owe"), and
  both are paid;
- `TrackedWithinAvailable` (`LoanReserve`): a treasury update handled while a
  request is being sent is overwritten by an older figure, and the loan manager's
  copy of the reserves stays too high at rest;
- `TierRespected` (`LoanReserve`): one LTV check is acted on by both services, so
  more than the tier is deployed;
- `OrdersMatchBooks` (`PositionManager`): the order is the sum of the two
  adjustments, the position changes by their difference;
- `ExtremeStaysFlat` (`PositionManager`): the hourly rehedge reopens what the
  emergency exit closed;
- `DailyLimitKept` (`TradeExecutor`): the daily volume counts neither partial
  fills nor orders that time out or whose answer is lost, a restart forgets it, and a
  fill after midnight of an order placed before is added to the counter of the old
  day, which the next check resets (nothing else breaks it: `DailyLimitWhenCounted`
  in section 4);
- `LatestRateRead` (`FundingEngine`; `storage.py:92`: "Get the most recent funding
  rate"): the stored rate lives for 3600 seconds, as long as the collector waits
  between two polls, and what replaces it is the greatest JSON text of the newest
  funding period, which eight polls share;
- `StoppedIsClosed` (`Collector`; `websocket_client.py:408`: "Stop WebSocket
  connections."): `stop()` closes the sockets it finds, and one that is being opened
  at that moment, or that a `start()` still waiting for the producer opens
  afterwards, stays open and is read (otherwise not: `StopClosesSockets`);
- `HedgeConverges` (`Hedging`; `README.md:155`: "Generates hedge orders based on risk
  level"): once the market is at rest and nothing fails the account should end up
  hedged, but consumers that die of a message place no order. With services that read
  the headers, and snapshots in the form that is parsed, TLC finds no violation, as
  long as `MaxBehind` is 1;
- `ExitCloses` (`Hedging`; `hedger/main.py:212`: "Override to close entire
  position"): an exit is not capped, so the executor refuses one above its limit of
  1 BTC each time; and at the critical target itself nothing is recommended, so
  there is no exit;

and of the rest:

- no trade is ever confirmed: the confirmation holds datetimes, which the
  producer cannot encode, and the one for a failure lacks a required field. So
  nothing is committed either, and a restart begins at the end of the topic
  (`Fail`, `ResetPosition`);
- a profit below `min_reserve_addition` adds the minimum to the reserves all the
  same (`ReserveShare`); `ReservesBacked` counts the difference as `topUps`, money that
  no profit stands for;
- a withdrawal that comes through the deployment queue is not compared with what
  is in trading (`AmountToDeploy`), so `toTrading` may become negative; nothing else
  makes a balance negative (`BalancesNonNegative` in section 4);
- the actions `rebalance` and `emergency_deploy` succeed and move nothing
  (`UpdateDeployment`);
- the high-deployment alert reads a configuration field that does not exist, and
  raises every minute (`AlertCheck`);
- a withdrawal from trading is clamped by what may still be *deployed*, so a fully
  deployed reserve gets nothing back (`Withdraw`);
- a debt below the minimum payment is never repaid from profit
  (`HandleProfitEvent`);
- reserves moved to collateral no longer count as collateral
  (`HandlePositionUpdate`);
- the multiplier table spells regimes in upper case, the funding engine in lower
  case, and an unknown regime counts as 1 (`HedgeRatio`);
- every profit-taking event carries the cumulative profit, and profit is taken again
  every minute while the target is hit (`ProfitEventReturned`, `LoopTakeProfit`);
- profit taking and the emergency exit may order the same closing twice
  (`HandleFundingUpdate` while the loop is in `profit_order`);
- PostgreSQL orders the saved states by a timestamp that never changes
  (`Recoverable` with `Durable` false);
- an emergency exit whose send raises, or during which the service restarts, is not
  tried again (`SendFailed`, `Restart`; hence the other disjuncts of
  `EmergencyCloses`);
- `hedge_trades` has three partitions (`docker-compose.yml:356`): the executor reads
  trades of different partitions in any order. `TradeExecutor` models one partition.

And of the safety manager:

- a halt that is in a batch that raises is gone, and since the breaker stays active
  it is not asked for again (`ActionFailed`), although
  `docs/EMERGENCY_PROCEDURES.md:65` says "Trading is automatically halted";
- the loss breaker compares the magnitude of the day's P&L, so it triggers on a
  gain, and the day never starts anew (`Triggers`, `HandlePnlUpdate`);
- a peak P&L of zero divides by zero before panic is checked, and below a negative
  peak no drop is ever seen (`HandlePnlUpdate`, `Dropped`);
- no position update states a leverage, so every open perpetual counts as 25 times
  leveraged, 3.5% from its liquidation: every update asks for a panic close
  (`Distance`);
- no service publishes `service_health` or `trade_executions`, so an hour after the
  start the dead man's switch triggers every 30 seconds (`CheckSwitch`);
- the order rate is computed only when there is an execution, and stays as it was
  in a quiet time (`HandleTradeExecution`), so the limit asks for a halt in every
  round;
- a breaker reset by either loop stays listed until the next round of the other
  (`ResetsFrom`).

And of the risk engine and the hedger:

- both call `message.headers.get` on what aiokafka hands out as a tuple
  (`risk_engine/main.py:136`, `hedger/main.py:126`) and so stop at their first
  message (`RiskDies`, `HedgerDies`; the run `MCHedgingHeaders`). The collector's
  updates do not have the fields `AccountData` requires either (`RiskRejects`), as
  `docs/DEPLOYMENT_GUIDE_v1.2.0.md:144` notes;
- a decision is ordered twice if both services have credentials
  (`HedgerOrders`, `ExecutorTakes`): nothing in the message tells the executor that
  the hedger has ordered it. The hedger reads `BYBIT__API_KEY` (`README.md:126`), the
  executor `BYBIT_API_KEY` (`docs/CONFIGURATION_REFERENCE.md:49`); the shipped
  `docker-compose.yml` sets only the second, also for the hedger, which therefore
  simulates. `OneOrders` is this assumption;
- a snapshot that is taken while an order is on its way is acted on like any other:
  the order is repeated, and with two such snapshots the delta swings around the
  target (`Snapshot` with a larger `MaxBehind`);
- an exit with a delta of zero is an order of size zero (`OrderSize`);
- without collateral the LTV is zero and the state NORMAL
  (`LtvAtLeast`, `risk_engine/models.py:47`);
- `max_position_size_btc` caps an order and not the position
  (`Capped`, `config.py:154`);
- after a restart the risk engine sizes as in a calm market until the next context
  comes, since the group that reads them never commits (`RiskStops`);
- `hedger/main.py:242` reports a target delta that is the current one plus the
  *size* of the hedge, which is wrong when it sells; nobody reads it.

And of the funding engine:

- a rate beyond 1000% is neither stored nor recorded (`HandleRate`): the contexts
  the API serves, which `docs/EMERGENCY_PROCEDURES.md:78` tells operators to look
  at, do not show the emergency, a periodic update in flight overwrites it on the
  topic, and an emergency context whose send raises is lost;
- `regime_change` says what changed since the regime was recorded, not since a
  context was published: after a send that raised the repeated context denies the
  change (`HandlerFailed`), and the update may record an older regime than the one
  of the newest rate (`UpdateSent`);
- `send()` only waits until the message is in the producer's buffer
  (`kafka_config.py:45`), messages have no key and `funding_context` has three
  partitions (`docker-compose.yml:359`): consumers may hear two contexts in the other
  order, or never hear the last, and nothing repairs it, since the engine compares
  with what it sent;
- `funding_time` is the *next* funding time, so the rates of the current period lie
  in the future and are not part of the average of the last 24 hours;
- the thresholds of `funding_engine/config.py` are not those the calculator uses;
- the task that connects to Kafka gives up after ten attempts, and nobody notices.

And of the collector:

- `collector/README.md:23` says "automatic reconnection with exponential backoff":
  a connection of one socket resets the delay of the other (`Connected`), and a
  refused authentication is tried again every five seconds, however often it is
  refused (`RetryRefused`);
- `collector/README.md:28` says that balances are fetched "when WebSocket data is
  unavailable": the answer replaces a wallet message that came while it was awaited
  (`WalletRead`), and an update that a position triggers never fetches them
  (`LoanRead`);
- `collector/README.md:14` says that "all data" is published to `account_raw`: market
  data and order updates go to topics of their own.

### Fairness

Liveness is checked under weak fairness of the loops of a service: each is a
`while self.running` whose body either returns to its sleep or raises into its
own `except`, and a send that neither returns nor raises does not exist
(aiokafka times out). Messages, API calls, failures, prices and restarts are
never assumed to happen. In `LoanReserve` the consumers are fair too, because a
topic keeps its messages until they are read. In `LoanManager` the topics are read
too, and each of the sends of a check that lead to a scaling is strongly fair:
a send may raise at any time, but one that is tried again and again succeeds now and
then. In `SafetyManager` each of the four
loops is weakly fair, its exceptions included; the messages, the clock and the API
are not. In `FundingEngine` both tasks are weakly fair: a send returns or raises, and
the update comes round every minute. In `TradeExecutor` the timeout is
strongly fair: the loop leaves its sleep for another poll and comes back to it,
and a clock that goes on ends the tracking at one of those returns. The exchange
promises nothing. In `Hedging` the account poll, the two consumers with their restarts
and the executor are weakly fair; the world, the funding contexts, failures and stops
are not.

In `Collector` every wait ends (`Waits`): requests and connection attempts have
timeouts, a send is delivered or given up, and the loops go on. That a socket is
ever connected, or an update ever published, is up to the exchange and the broker:
`Answers` assumes that what is tried again and again succeeds now and then
(strong fairness), and nothing about which attempt. `StopEndsTasks` needs only
`Waits`.

## 4. What is proved

TLAPS checks every obligation of these theorems, for every value of the
constants that satisfies the named assumptions of the module.

Liveness is not among them, but for some of the checked liveness properties the
safety they rest on is: that a step which makes progress is always found, or that
what must be finished is not dropped.

`ReserveManagerProofs`, from `LimitsAssumption` and `InputsAssumption`:

- `Invariance`: `IInv`, the conjunction of `TypeOK`, `LedgerBalanced`,
  `ReserveFloor`, `DeploymentCap` and `CollateralAnnounced`, is inductive. The
  floor alone is not: that a withdrawal raises the available amount needs the
  clamp of `AmountToDeploy`, the cap needs that profits only raise the total, and
  `CollateralAnnounced` ties the record the loop holds across its await to the
  ledger.
- `LedgerAlwaysBalanced`, `CapAlwaysKept` and `CollateralAlwaysAnnounced` follow.
- `FloorAlwaysKept` is `RequestsKeepFloor`: it uses the invariant before and after the
  step, to tell the request that was taken from a withdrawal, which only adds.
- `ReservesStayBacked`: for all profits, those below the minimum addition included.
- `BalancesNonNegative`: if no withdrawal is posted to `/deployment/manual`
  (`NoWithdrawalPosted`), no balance is ever below zero. The assumption is needed, and
  it is all that is needed: the other withdrawal is clamped by what is in trading.

and of `LoanReserve`, the two services joined by their topics, with the loan
manager's assumptions as well:

- `LoanImplemented` and `ReserveImplemented`: the two refinements that
  `MCLoanReserve` checks. Each service alone is specified with arbitrary messages
  (`EveryMessage`: any figure, any positive amount, any LTV). That a message of the
  other service is one of these is itself an invariant of the other service: a figure
  is never negative because the reserve manager's floor holds, a request is positive
  because of the loan manager's guards. So neither side can be proved first; the
  joint invariant `SystemInv` holds both invariants together with the range of what
  is on the topics (`MessagesInRange`).
- `TogetherSafe`: therefore what was proved of each service alone (both ledgers, the
  floor, the cap and the announcements) holds of the two together.

`LoanManagerProofs`, from `LoanAssumption` and `LoanInputsAssumption`:

- `TypeCorrect`, with all amounts natural numbers: no repayment, of any size or
  priority, drives one below zero. It rests on `PortionsCovered`.
- `LoanAlwaysBalanced` and `PaidOffStays`, for any interest rate.
- `LoneRepaymentExact`: `LoneRepaymentUsedUp` for any interest rate and priority. A
  repayment is capped by the debt when it is queued and credited by the debt when it
  is processed; `LoneCovered` says that the first never exceeds the second while the
  repayment is alone in the queue, since interest only adds (`AccruedGrows`) and a
  manual repayment queues behind it. Two in the queue do exceed it (`NeverOverpaid`).

`PositionManagerProofs`, from `PositionAssumption`:

- `TypeCorrect`, and `DecisionsSound` in `IInv`: while an order is on its way the
  decision still adds up to the delta it was computed for (`DecisionSound`).
- `RehedgesReachNeutral`: for every hedge ratio and regime, a rehedge during whose
  await no other task changed the net position leaves the books neutral. That the
  premise cannot be dropped is `MCPositionManagerRace`.
- `QuietBooksSaved`: `SavedWhenQuiet` for storage that finds the last save (Redis,
  the assumption `Durable`), with sends that raise, saves that fail and restarts. Its
  invariant `SavedOrPending` says that what is not saved is either missed or belongs
  to a task that is still before its save.
- `ExitCarriedOut`, for `EmergencyCloses`: while `exits` holds the message task is in
  an await of the close and takes up nothing else, unless a send raised; and the step
  that ends it leaves the books flat, whatever the rehedge loop had under way, unless
  it is a restart.

`TradeExecutorProofs`, from `ExecutorAssumption`:

- `TypeCorrect` and `VolumeAlwaysWithinLimit`. The limit is checked before an order
  and its fill counted after other steps, so the invariant holds the order in
  flight (`VolumeWithinLimit`) together with what the exchange may make of it: the
  last order is the one in flight and fills no more than its quantity.
- `TradesOrderedOnce`: every order is for a trade below the consumer's position,
  and a request in flight is for one that has no order yet.
- `CountersAlwaysMatch`: `CountersMatchOrders`, its counts and its sum. The invariant
  `CountInv` says that the order being followed is not counted and is one more than
  were submitted; `VolumeInv`, that the volume is the sum of the fills counted since
  the last reset and that none was counted to a later day than the counter's. The sum
  `Total` is a recursive function; induction over its length is done for a set of
  lengths (`Induction`, from the well-foundedness of the naturals), which gives the
  running sums (`TotalIs`), what a longer sequence adds (`TotalAppended`) and what a
  changed last element changes (`TotalSplit`).
- `DailyLimitWhenCounted`: `DailyLimitKept` holds in every state in which each fill of
  the day was counted *to that day*, or is of the order being followed
  (`EveryFillCounted`). It follows from the sum, from `VolumeWithinLimit`, which leaves
  room for the order in flight, from the counter never being ahead of the date, and
  from `TotalOfLess`. The condition fails in just the ways listed in section 3:
  partial fills, timeouts, lost answers, restarts and fills after midnight.
- `OneByOneSkipsNone`: with `max_poll_records` of 1, `NoTradeSkipped` holds; the run
  `MCTradeExecutorSkipped` refutes it with 2.
- `OrderOnceHolds`: the executor implements `OrderOnce`. The abstract state is read
  off the topic, the consumer's position, the request in flight and the orders; each
  step is a step of `OrderOnce` or leaves it alone. It is what `Hedging` assumes of
  the executor.

`HedgingProofs`, from `HedgingAssumption`:

- `TypeCorrect`: a service holds a message or an order exactly while it sends it.
- `OrdersHitTarget`: `OrdersApproachTarget` for all targets, limits, multipliers and
  disturbances, if one service only has credentials (`OneOrders`). `OrdersApproachTarget`
  compares an order with the delta at the moment it arrives, two queues after the
  snapshot; the invariant `Current` says why this is the delta the order was computed
  from: while `clean`, at most one thing is on its way (`OneOnItsWay`), and it is a
  snapshot, a risk state, an order or a trade that is right for the delta as it is
  (`SnapshotsGood`, `SendingGood`, `MessagesGood`, `OrderGood`, `TradesGood`). A lost
  message only removes it. Without `OneOrders` the trade would still be there after the
  hedger's order has changed the delta.
- `HedgedIsRest` and `OrderGetsNearer`: `Hedged` is exactly the condition under which
  nobody would place an order for a snapshot taken now, and while it does not hold the
  order decided on such a snapshot strictly lessens the distance to the target.

`SafetyManagerProofs`, from `SafetyAssumption`:

- `TypeCorrect`: in particular every loop is in one of its awaits after whatever
  exception (none is dead), and `cooled` stays within `active` although two loops
  reset breakers.
- `TriggeredBreakersHalt`: `BreakerHalts` for all limits, inputs and failures. It is
  inductive with the types alone, because a breaker triggers and its halt is queued
  in one step without an await between them; the proof shows that this order is all
  it needs, and the mutant `HaltsUnlisted` that a condition on the stale list would
  break it.

`FundingEngineProofs`, from `FundingAssumption`:

- `TypeCorrect`, with the regime of every context fixed by its rate.
- `ServedIsSent`: the context the service serves is the one it sent last, unless that
  was an emergency (`TrackedIsSent`). It is what the periodic update relies on when it
  compares with the context served in order to repair a send that failed, and holds
  because both tasks set the context only together with the send.
- `MismatchNoticed`, for `RegimeSettles`: while the engine has sent another regime last
  than that of the stored rate, the periodic update finds a difference and would send
  the regime that is missing.
- `HigherFundingNeverLarger`: for all rates and averages. Within a band the
  interpolation falls and the trend can only turn down as the rate grows
  (`AdjustmentFalls`); across bands it suffices that the least of each band is the
  most of the next (`AdjustmentWithin`).

`CollectorProofs`, from `CollectorAssumption`:

- `TypeCorrect` and `PositionsKeepTheirOrder`. That the topic does not go back does
  not follow from the topic alone: `IInv` says that the buffer of the producer holds
  at most one update of each task (`OnePerTask`), in the order of their positions,
  none older than the topic and none newer than what was received (`InOrder`). It
  holds because an update is made of what is current in the step that puts it into
  the buffer, after all requests.
- `StopClosesSockets`: once `stop()` begins while no connection is being opened and no
  `start()` is under way, `StoppedIsClosed` holds ever after. The invariant `Ending`
  says that no task can connect any more and which sockets are closed already.

Only model-checked: all liveness, since the prover has neither fairness nor
`ENABLED`. Every other property of the passing runs is stated by a theorem. Proved
without a run of their own: `DeploymentCap`, `PaidOffForGood`, `OneOrderPerTrade`,
`NonNegative`, `ReserveFloor` and the theorems that name a disagreement's condition. The
disagreements themselves are runs, not theorems.

## 5. Not modelled, and the plan

What remains:

1. `ProfitFlow` - `PositionManager`'s profit events into `LoanManager` and
   `ReserveManager`: what cumulative profits do to both ledgers.
2. Proofs: the safety that `RepaymentsDrain`, `LimitEnforced`,
   `StopEndsTasks` and `RequestsProcessed` rest on, as was done for `EmergencyCloses` and
   `RegimeSettles`.

Left out for good: `market_data` (a price poll without state), `treasury`,
`alert` and `dummy` (placeholders), and the shared infrastructure.
