--------------------------- MODULE TradeExecutor ---------------------------
(***************************************************************************)
(* The trade executor service (src/hedgelock/trade_executor): a consumer   *)
(* that turns the trades on hedge_trades into orders on the exchange, one  *)
(* at a time, and follows each order until it is settled or times out.     *)
(*                                                                         *)
(*   _consume_loop, consume_message       Consume, WakeUp                  *)
(*   _process_hedge_trade, place_order    Consume, Accepted, Refused,      *)
(*                                        AnswerLost                       *)
(*   _track_order_status                  PollAnswered, PollAgain,         *)
(*                                        TrackTimeout                     *)
(*   start, stop                          Start, Stop                      *)
(*                                                                         *)
(* An action is the code between two awaits, `pc` the await in which the   *)
(* consumer is suspended.  The exchange and the topic are external.        *)
(*                                                                         *)
(* A trade is never confirmed.  The confirmation holds datetimes, which    *)
(* the producer's json.dumps does not encode, and the one for a failure    *)
(* lacks fill_latency_ms, which pydantic 2 requires.  So each processing   *)
(* ends in an exception that leaves _process_hedge_trade: commit_offset is *)
(* never reached, the topic has no committed offset, and a consumer that   *)
(* starts begins at the end of the topic (auto_offset_reset="latest").     *)
(***************************************************************************)
EXTENDS Integers, Sequences, FiniteSets

CONSTANTS
  Quantities,             \* quantities of the trades on the topic
  MaxOrderSize,           \* max_order_size_btc
  MaxDailyVolume,         \* max_daily_volume_btc
  MaxPollRecords,         \* max_poll_records
  MaxTrades, MaxStarts, MaxDays, MaxPolls     \* bounds

ASSUME ExecutorAssumption ==
  /\ Quantities \subseteq Nat \ {0}
  /\ MaxOrderSize \in Nat /\ MaxDailyVolume \in Nat
  /\ MaxPollRecords \in Nat \ {0}
  /\ {MaxTrades, MaxStarts, MaxDays, MaxPolls} \subseteq Nat

VARIABLES
  trades,        \* external: the quantities on hedge_trades, in topic order
  orders,        \* external: the orders the exchange has taken
  day,           \* external: the date
  pc,            \* where the consumer loop is suspended
  position,      \* how many trades of the topic the consumer has been given
  execution,     \* the TradeExecution being processed
  pending,       \* trades that are keys of pending_executions
  volume,        \* daily_volume
  resetDay,      \* daily_volume_reset
  stats,         \* counters of ExecutorState
  startedAt,     \* history: position at the last start
  firstOrder,    \* history: how many orders there were at the last start
  attempted,     \* history: trades whose processing has begun
  starts, polls  \* history: bounds

history == <<startedAt, firstOrder, attempted, starts>>
external == <<trades, day>>
counters == <<volume, resetDay, stats>>
vars == <<trades, orders, day, pc, position, execution, pending, volume, resetDay,
          stats, startedAt, firstOrder, attempted, starts, polls>>

InFlight == {"placing", "polling", "waiting"}

Statuses == {"pending", "submitted", "filled", "partially_filled", "cancelled",
             "rejected", "failed"}

\* order_status as the exchange reports it.
OrderStates == {"New", "PartiallyFilled", "Filled", "Cancelled", "Rejected"}

Executions == [trade : Nat, qty : Nat, status : Statuses, filled : Nat]

NoExecution == [trade |-> 0, qty |-> 0, status |-> "pending", filled |-> 0]

Uncounted == -1

\* `day` is the date of the last fill, or else that of the placement; `counted` the
\* day of the counter to which the fill was added.
Orders == [trade : Nat, qty : Nat, state : OrderStates, filled : Nat,
           day : Nat, counted : Nat \cup {Uncounted}]

NoStats == [submitted |-> 0, filled |-> 0, rejected |-> 0, failed |-> 0]

Init ==
  /\ trades = <<>> /\ orders = <<>> /\ day = 0
  /\ pc = "down" /\ position = 0
  /\ execution = NoExecution /\ pending = {}
  /\ volume = 0 /\ resetDay = 0 /\ stats = NoStats
  /\ startedAt = 0 /\ firstOrder = 0 /\ attempted = {}
  /\ starts = 0 /\ polls = 0

-----------------------------------------------------------------------------
(* The world around the service.                                           *)

\* A trade is published by the position manager or the hedger.
Publish(q) ==
  /\ Len(trades) < MaxTrades
  /\ trades' = Append(trades, q)
  /\ UNCHANGED <<orders, day, pc, position, execution, pending, counters, history, polls>>

Midnight ==
  /\ day < MaxDays
  /\ day' = day + 1
  /\ UNCHANGED <<trades, orders, pc, position, execution, pending, counters, history, polls>>

Open(o) == o.state \in {"New", "PartiallyFilled"}

\* What the exchange makes of an order that is open: it fills it, fills a part,
\* cancels what is left (orders default to IOC) or rejects it.
Exchanged(o) ==
  {[o EXCEPT !.state = "Filled", !.filled = o.qty, !.day = day],
   [o EXCEPT !.state = "Cancelled"]}
  \cup {[o EXCEPT !.state = "PartiallyFilled", !.filled = f, !.day = day] :
          f \in (o.filled + 1)..(o.qty - 1)}
  \cup (IF o.state = "New" THEN {[o EXCEPT !.state = "Rejected"]} ELSE {})

Exchange ==
  /\ \E i \in DOMAIN orders :
       /\ Open(orders[i])
       /\ \E o \in Exchanged(orders[i]) : orders' = [orders EXCEPT ![i] = o]
  /\ UNCHANGED <<external, pc, position, execution, pending, counters, history, polls>>

-----------------------------------------------------------------------------
(* Starting and stopping.                                                  *)

\* Mutant: auto_offset_reset="earliest".
ResetToEarliest == 0

\* Nothing was ever committed: the group starts at the end of the topic.
ResetPosition == Len(trades)

\* start(): a new process.  One whose Kafka or exchange connection fails is
\* down as before.
Start ==
  /\ pc = "down" /\ starts < MaxStarts
  /\ pc' = "idle" /\ position' = ResetPosition
  /\ volume' = 0 /\ resetDay' = day /\ stats' = NoStats
  /\ startedAt' = ResetPosition /\ firstOrder' = Len(orders) /\ starts' = starts + 1
  /\ UNCHANGED <<external, orders, execution, pending, attempted, polls>>

Placed(e) ==
  [trade |-> e.trade, qty |-> e.qty, state |-> "New", filled |-> 0,
   day |-> day, counted |-> Uncounted]

\* stop(), or a crash: the loop is cancelled in its await, where the request it
\* is sending may have arrived.  The finally clause empties pending_executions.
Stop ==
  /\ pc # "down"
  /\ \/ UNCHANGED orders
     \/ pc = "placing" /\ orders' = Append(orders, Placed(execution))
  /\ pc' = "down" /\ execution' = NoExecution /\ pending' = {} /\ polls' = 0
  /\ UNCHANGED <<external, position, counters, history>>

-----------------------------------------------------------------------------
(* Taking a trade from the topic.                                          *)

\* Mutant: the last record of the batch is the one that is returned.
TakenLast(batch) == batch[Len(batch)]

\* getmany returns a batch, and the first record of it is processed.
Taken(batch) == batch[1]

\* _reset_daily_volume_if_needed
ResetVolume(v) == IF day > resetDay THEN 0 ELSE v

\* Mutant: the order itself is not added to the volume.
WithinLimitsSoFar(q) == q <= MaxOrderSize /\ ResetVolume(volume) <= MaxDailyVolume

\* _check_safety_limits
WithinLimits(q) ==
  /\ q <= MaxOrderSize
  /\ ResetVolume(volume) + q <= MaxDailyVolume

\* Mutant: daily_volume_reset is not moved.
CheckedDayKept(q) == resetDay

\* The reset is reached only by an order whose size is allowed.
CheckedDay(q) == IF q <= MaxOrderSize /\ day > resetDay THEN day ELSE resetDay

\* consume_message and _process_hedge_trade up to the order: the position moves
\* behind the whole batch.  A trade over a limit ends in the except clause.
Consume ==
  /\ pc = "idle"
  /\ \E n \in 1..MaxPollRecords :
       /\ position + n <= Len(trades)
       /\ position' = position + n
       /\ LET t == Taken([i \in 1..n |-> position + i])
              e == [trade |-> t, qty |-> trades[t], status |-> "submitted", filled |-> 0]
          IN /\ attempted' = attempted \cup {t}
             /\ volume' = IF e.qty <= MaxOrderSize THEN ResetVolume(volume) ELSE volume
             /\ resetDay' = CheckedDay(e.qty)
             /\ IF WithinLimits(e.qty)
                THEN pc' = "placing" /\ execution' = e /\ pending' = pending \cup {t}
                ELSE pc' = "backoff" /\ UNCHANGED <<execution, pending>>
  /\ UNCHANGED <<external, orders, stats, startedAt, firstOrder, starts, polls>>

\* Mutant: without the finally clause.
FailLeaky ==
  /\ execution' = NoExecution /\ polls' = 0
  /\ UNCHANGED pending
  /\ pc' = "backoff"

\* The except clause of _process_hedge_trade: the execution becomes FAILED
\* whatever it was (also where recent_executions keeps it) and is let go.  The
\* clause's own confirmation raises, so that trades_failed is not counted; then
\* the finally clause.
Fail ==
  /\ execution' = NoExecution
  /\ pending' = pending \ {execution.trade}
  /\ polls' = 0
  /\ pc' = "backoff"

\* The loop logs the exception and sleeps a second.
WakeUp ==
  /\ pc = "backoff" /\ pc' = "idle"
  /\ UNCHANGED <<external, orders, position, execution, pending, counters, history, polls>>

-----------------------------------------------------------------------------
(* Placing the order and following it.                                     *)

\* place_order returns.
Accepted ==
  /\ pc = "placing" /\ pc' = "polling"
  /\ orders' = Append(orders, Placed(execution))
  /\ UNCHANGED <<external, position, execution, pending, counters, history, polls>>

\* place_order raises: the order was refused or never arrived.
Refused ==
  /\ pc = "placing" /\ Fail
  /\ UNCHANGED <<external, orders, position, counters, history>>

\* place_order raises although the exchange has taken the order.
AnswerLost ==
  /\ pc = "placing" /\ Fail
  /\ orders' = Append(orders, Placed(execution))
  /\ UNCHANGED <<external, position, counters, history>>

Current == Len(orders)

Seen(e, status, filled) ==
  [trade |-> e.trade, qty |-> e.qty, status |-> status, filled |-> filled]

\* What a status read makes of the execution; "New" is none of the branches.
Updated(e, o) ==
  CASE o.state = "Filled" -> Seen(e, "filled", o.filled)
    [] o.state = "PartiallyFilled" -> Seen(e, "partially_filled", o.filled)
    [] o.state = "Cancelled" -> Seen(e, "cancelled", e.filled)
    [] o.state = "Rejected" -> Seen(e, "rejected", e.filled)
    [] o.state = "New" -> e

Final(status) == status \in {"filled", "cancelled", "rejected"}

\* _update_statistics: only a full fill counts against the daily volume.
Counted(e) ==
  /\ volume' = IF e.status = "filled" THEN volume + e.filled ELSE volume
  /\ stats' = [stats EXCEPT
       !.submitted = @ + 1,
       !.filled = IF e.status = "filled" THEN @ + 1 ELSE @,
       !.rejected = IF e.status = "rejected" THEN @ + 1 ELSE @,
       !.failed = IF e.status = "failed" THEN @ + 1 ELSE @]
  /\ orders' = IF e.status = "filled"
               THEN [orders EXCEPT ![Current].counted = resetDay] ELSE orders
  /\ UNCHANGED resetDay

\* The rest of the try block once tracking has ended with e: a timeout of an
\* order never seen to fill is a failure, the statistics are kept, and the
\* publication raises.
Settle(e) ==
  /\ Counted(IF e.status = "submitted" THEN [e EXCEPT !.status = "failed"] ELSE e)
  /\ Fail

\* get_order_status returns what the exchange says, or None for any error.
PollAnswered ==
  /\ pc = "polling"
  /\ \E answered \in BOOLEAN :
       LET e == IF answered THEN Updated(execution, orders[Current]) ELSE execution
       IN IF answered /\ Final(e.status)
          THEN Settle(e)
          ELSE /\ pc' = "waiting" /\ execution' = e
               /\ UNCHANGED <<orders, pending, counters, polls>>
  /\ UNCHANGED <<external, position, history>>

\* The sleep between two polls ends before the timeout ...
PollAgain ==
  /\ pc = "waiting" /\ polls < MaxPolls
  /\ pc' = "polling" /\ polls' = polls + 1
  /\ UNCHANGED <<external, orders, position, execution, pending, counters, history>>

\* ... or after it.  The order is not cancelled.
TrackTimeout ==
  /\ pc = "waiting"
  /\ Settle(execution)
  /\ UNCHANGED <<external, position, history>>

-----------------------------------------------------------------------------
Loop == Consume \/ WakeUp \/ Accepted \/ Refused \/ AnswerLost
        \/ PollAnswered \/ PollAgain \/ TrackTimeout

Next ==
  \/ \E q \in Quantities : Publish(q)
  \/ Midnight
  \/ Exchange
  \/ Start
  \/ Stop
  \/ Loop

Spec == Init /\ [][Next]_vars

\* The loop takes what is on the topic, its sleeps end, and its requests return
\* or raise (the HTTP client times out after 10 seconds).  A clock that goes on
\* ends the tracking.  The exchange promises nothing.
Fairness ==
  /\ WF_vars(Consume) /\ WF_vars(WakeUp)
  /\ WF_vars(Accepted \/ Refused \/ AnswerLost)
  /\ WF_vars(PollAnswered) /\ SF_vars(TrackTimeout)

FairSpec == Spec /\ Fairness

-----------------------------------------------------------------------------
(* Properties.                                                             *)

\* Types; pending_executions holds what is in flight and nothing else.
TypeOK ==
  /\ trades \in Seq(Quantities) /\ orders \in Seq(Orders) /\ day \in Nat
  /\ pc \in {"down", "idle", "backoff"} \cup InFlight
  /\ position \in 0..Len(trades)
  /\ execution \in Executions
  /\ pending = IF pc \in InFlight THEN {execution.trade} ELSE {}
  /\ volume \in Nat /\ resetDay \in Nat
  /\ stats \in [submitted : Nat, filled : Nat, rejected : Nat, failed : Nat]
  /\ startedAt \in Nat /\ firstOrder \in 0..Len(orders)
  /\ attempted \in SUBSET (1..Len(trades))
  /\ starts \in Nat /\ polls \in Nat

\* No trade is ordered twice, across requests whose answer is lost, orders that
\* time out and restarts.  Each processing makes a new order_link_id, so the
\* exchange would take a second order: all rests on the consumer never being
\* given a trade again.
OneOrderPerTrade ==
  \A i, j \in DOMAIN orders : orders[i].trade = orders[j].trade => i = j

\* The trade whose order is being sent, and the trades that were ordered.
TradePlaced == IF pc = "placing" THEN execution.trade ELSE 0
TradesOrdered == [i \in DOMAIN orders |-> orders[i].trade]

Promise == INSTANCE OrderOnce WITH
  published <- Len(trades), given <- position,
  inflight <- TradePlaced, ordered <- TradesOrdered

\* The service is an implementation of OrderOnce, whatever it does around an order:
\* batches, limits, lost answers, timeouts, midnight and restarts never make it
\* take up a trade that was given before, or order one outside its turn.
OrderOnceImplemented == Promise!Spec

\* The volume counted for the day, with the order in flight, is within the limit
\* at every moment: _check_safety_limits is made before an order whose fill is
\* counted seconds later, and the counter may be reset in between.
VolumeWithinLimit ==
  /\ volume <= MaxDailyVolume
  /\ pc \in InFlight => volume + execution.qty <= MaxDailyVolume

\* The sum of a sequence of quantities.
Total(w) ==
  LET total[n \in 0..Len(w)] == IF n = 0 THEN 0 ELSE total[n - 1] + w[n]
  IN  total[Len(w)]

OfThisRun == {i \in DOMAIN orders : i > firstOrder}

CountedOrders == {i \in OfThisRun : orders[i].counted # Uncounted}

\* The fills counted are orders that the exchange filled, one each, and no order
\* is counted twice over, as filled and as failed.
FillsMatchOrders ==
  pc # "down" =>
    /\ \A i \in CountedOrders : orders[i].state = "Filled"
    /\ stats.filled = Cardinality(CountedOrders)
    /\ stats.submitted <= Cardinality(OfThisRun)
    /\ stats.filled + stats.rejected + stats.failed <= stats.submitted

\* What the exchange filled of the orders counted to the counter's day, and else 0.
CountedFills ==
  [i \in DOMAIN orders |->
     IF i \in CountedOrders /\ orders[i].counted = resetDay THEN orders[i].filled ELSE 0]

\* The counters agree with the exchange: the fills as above, and the daily volume
\* is what was filled of the orders counted since the counter was reset last.  The
\* counter's day need not be the date of the fill: see DailyLimitKept.
CountersMatchOrders ==
  /\ FillsMatchOrders
  /\ pc # "down" => volume = Total(CountedFills)

\* While the service stays up, the trade that is next on the topic is processed:
\* no order, however it ends on the exchange, keeps the loop from it.
HeadTradeTaken ==
  \A t \in 1..MaxTrades :
    (pc # "down" /\ position = t - 1 /\ Len(trades) >= t)
      ~> (t \in attempted \/ pc = "down")

\* What the exchange filled of the orders that were filled last on a day.
DayVolume(d) ==
  Total([i \in DOMAIN orders |-> IF orders[i].day = d THEN orders[i].filled ELSE 0])

\* What max_daily_volume_btc promises: no more is traded in a day.  The code
\* counts neither partial fills, nor orders that time out or whose answer is
\* lost, and forgets the volume when it restarts.  A fill after midnight of an order
\* placed before is added to the old day, and wiped by the next reset.
DailyLimitKept == DayVolume(day) <= MaxDailyVolume

\* consume_message: "Consume a single message from Kafka."  The records of a
\* batch after the first are dropped, and never given again.
NoTradeSkipped == pc # "down" => (startedAt + 1)..position \subseteq attempted
=============================================================================
