------------------------------ MODULE Hedging ------------------------------
(***************************************************************************)
(* From an account snapshot to an order: the risk engine                   *)
(* (src/hedgelock/risk_engine), the hedger (src/hedgelock/hedger) and the  *)
(* trade executor, joined by account_raw, risk_state and hedge_trades.     *)
(*                                                                         *)
(*   risk engine: consume_messages   RiskDies, RiskRejects, RiskTakes,     *)
(*                                   RiskSends, RiskCommits                *)
(*                consume_funding_context               FundingReceived    *)
(*   hedger:      consume_messages   HedgerDies, HedgerTakes,              *)
(*                                   HedgerOrders, HedgerSends,            *)
(*                                   HedgerCommits                         *)
(*   both:        start, stop        RiskStarts, RiskStops, HedgerStarts,  *)
(*                                   HedgerStops                           *)
(*                                                                         *)
(* An action is the code between two awaits.  The trade executor appears   *)
(* as what TradeExecutor promises of it: it orders a trade of hedge_trades *)
(* once or not at all.  The exchange, the account and the funding engine   *)
(* are external.                                                           *)
(*                                                                         *)
(* Both consumers read message.headers as a mapping.  aiokafka gives them  *)
(* a tuple, so each dies of its first message; `readers` are the services  *)
(* that are given a mapping after all (none, in the program as it is).     *)
(* Quantities are whole numbers of a unit far below the least order, so    *)
(* that what a multiplier leaves of an order is a whole number of them.    *)
(* Left out is what nobody decides by: statistics, scores, costs,          *)
(* state_changed, and the current_position of the hedger.                  *)
(***************************************************************************)
EXTENDS Integers, Sequences

CONSTANTS
  Deltas,               \* net deltas that the outside world brings about
  Balances,             \* and what it makes of collateral and debt
  FundingContexts,      \* what the funding engine publishes
  CautionPercent, DangerPercent, CriticalPercent,        \* LTV thresholds
  NormalTarget, CautionTarget, DangerTarget, CriticalTarget,    \* net_delta_...
  MinDifference,        \* least difference that is recommended, 0.001
  MinOrder, MaxOrder,   \* min_order_size_btc, max_position_size_btc
  ExecutorLimit,        \* max_order_size_btc of the trade executor
  Deployments,          \* possible sets of services with API credentials
  Readers,              \* possible sets of services that can read the headers
  Forms,                \* what the publishers of account_raw write
  MaxBehind,            \* bound: what is on its way when a snapshot is taken
  MaxUncommitted,       \* bound: the same, of snapshots that are not committed
  MaxDisturbances       \* bound: moves, failures and stops together

\* The collector writes an AccountUpdate; the risk engine parses an AccountData, as
\* the integration tests write it.
MessageForms == {"AccountUpdate", "AccountData"}

Contexts == [mania : BOOLEAN, exit : BOOLEAN, multiplier : 0..100]

ASSUME HedgingAssumption ==
  /\ Deltas \subseteq Int
  /\ Balances \subseteq [collateral : Nat, debt : Nat]
  /\ FundingContexts \subseteq Contexts
  /\ {CautionPercent, DangerPercent, CriticalPercent} \subseteq Nat
  /\ {NormalTarget, CautionTarget, DangerTarget, CriticalTarget} \subseteq Int
  /\ {MinDifference, MinOrder, MaxOrder} \subseteq Nat \ {0}
  /\ Deployments \subseteq SUBSET {"hedger", "executor"}
  /\ Readers \subseteq SUBSET {"risk", "hedger"} /\ Forms \subseteq MessageForms
  /\ {ExecutorLimit, MaxBehind, MaxUncommitted, MaxDisturbances} \subseteq Nat

VARIABLES
  keys,          \* the services with API credentials
  readers,       \* the services that can read the headers
  delta,         \* external: the net delta at the exchange
  balance,       \* external: collateral and debt
  accountRaw,    \* the topic account_raw as the risk engine's group sees it
  funding,       \* funding_contexts["BTCUSDT"]
  risk,          \* the risk engine's consumer: where it waits and with what
  riskState,     \* the topic risk_state as the hedger's group sees it
  hedger,        \* the hedger's consumer
  hedgeTrades,   \* the trades the executor has not been given yet
  clean,         \* history: nothing but the last snapshot can move the delta
  aim,           \* history: the delta the last risk state steers to
  disturbances   \* history: bound

world == <<keys, readers, delta, balance>>
topics == <<accountRaw, riskState, hedgeTrades>>
vars == <<world, topics, funding, risk, hedger, clean, aim, disturbances>>

NoContext == [mania |-> FALSE, exit |-> FALSE, multiplier |-> 100]

NoMessage == [delta |-> 0, hedge |-> 0, funding |-> NoContext]

EmptyTopic == [todo |-> <<>>, done |-> <<>>, committed |-> FALSE]

Init ==
  /\ keys \in Deployments /\ readers \in Readers
  /\ delta \in Deltas /\ balance \in Balances
  /\ accountRaw = EmptyTopic /\ riskState = EmptyTopic /\ hedgeTrades = <<>>
  /\ funding = NoContext
  /\ risk = [pc |-> "waiting", message |-> NoMessage]
  /\ hedger = [pc |-> "waiting", size |-> 0]
  /\ clean = TRUE /\ aim = delta
  /\ disturbances = 0

-----------------------------------------------------------------------------
(* A topic and the offset its consumer group has committed.  `done` was    *)
(* given to the consumer after the committed offset, `todo` was not yet.   *)

Written(topic, m) == [topic EXCEPT !.todo = Append(@, m)]

Given(topic) ==
  [todo |-> Tail(topic.todo), done |-> Append(topic.done, Head(topic.todo)),
   committed |-> topic.committed]

\* consumer.commit() commits the position, behind all that was given, also what
\* failed before and was not committed itself.
Committed(topic) == [todo |-> topic.todo, done |-> <<>>, committed |-> TRUE]

\* A consumer that starts goes back to the committed offset; a group without
\* one starts at the end (auto_offset_reset="latest").
Rejoined(topic) ==
  [todo |-> IF topic.committed THEN topic.done \o topic.todo ELSE <<>>,
   done |-> <<>>, committed |-> topic.committed]

-----------------------------------------------------------------------------
(* The risk calculator and the hedge decision.                             *)

Abs(n) == IF n < 0 THEN -n ELSE n

\* AccountData.ltv against a threshold; without collateral the LTV is zero.
LtvAtLeast(b, percent) == b.collateral # 0 /\ 100 * b.debt >= percent * b.collateral

\* _determine_risk_state
LtvState(b) ==
  IF LtvAtLeast(b, CriticalPercent) THEN "CRITICAL"
  ELSE IF LtvAtLeast(b, DangerPercent) THEN "DANGER"
  ELSE IF LtvAtLeast(b, CautionPercent) THEN "CAUTION"
  ELSE "NORMAL"

\* calculate_risk: funding can only raise the state.
RiskLevel(b, f) ==
  IF f.exit THEN "CRITICAL"
  ELSE IF f.mania /\ LtvState(b) = "NORMAL" THEN "CAUTION"
  ELSE LtvState(b)

\* _get_target_delta
Target(state) ==
  CASE state = "NORMAL" -> NormalTarget
    [] state = "CAUTION" -> CautionTarget
    [] state = "DANGER" -> DangerTarget
    [] OTHER -> CriticalTarget

\* _generate_hedge_recommendation: the difference to buy or (negative) to sell;
\* 0 stands for none.
Recommended(d, target) ==
  IF Abs(target - d) < MinDifference THEN 0 ELSE target - d

\* create_risk_state_message, as far as the hedger reads it.
RiskMessage(snapshot, f) ==
  [delta |-> snapshot.delta,
   hedge |-> Recommended(snapshot.delta, Target(RiskLevel(snapshot.balance, f))),
   funding |-> f]

\* `position_multiplier or 1.0`
Multiplier(f) == IF f.multiplier = 0 THEN 100 ELSE f.multiplier

\* Mutant: high funding enlarges the hedge.
Enlarged(m) == (Abs(m.hedge) * (200 - Multiplier(m.funding))) \div 100

\* adjusted_hedge_size
Adjusted(m) == (Abs(m.hedge) * Multiplier(m.funding)) \div 100

\* process_message, _create_hedge_decision: a recommendation becomes a decision
\* unless it is too small.  An exit is not compared with the least size, but needs
\* a recommendation like any other decision.
Decides(m) == m.hedge # 0 /\ (m.funding.exit \/ Adjusted(m) >= MinOrder)

Capped(n) == IF n > MaxOrder THEN MaxOrder ELSE n

\* hedge_size, with the sign of its side.  An exit closes the whole delta, neither
\* capped nor adjusted.
OrderSize(m) ==
  IF m.funding.exit THEN -m.delta
  ELSE IF m.hedge > 0 THEN Capped(Adjusted(m)) ELSE -Capped(Adjusted(m))

-----------------------------------------------------------------------------
(* The world around the services.                                          *)

\* Something goes wrong, or the world moves; or not.
Disturbs == disturbances < MaxDisturbances /\ disturbances' = disturbances + 1
Undisturbed == UNCHANGED disturbances

\* Somebody trades, prices move or the loan changes.
Move ==
  /\ Disturbs
  /\ delta' \in Deltas /\ balance' \in Balances
  /\ clean' = FALSE
  /\ UNCHANGED <<keys, readers, topics, funding, risk, hedger, aim>>

\* What is on its way to the exchange.
Behind ==
  Len(accountRaw.todo) + Len(riskState.todo) + Len(hedgeTrades)
    + (IF risk.pc = "sending" THEN 1 ELSE 0)
    + (IF hedger.pc \in {"placing", "sending"} THEN 1 ELSE 0)

Stopped == {"down", "dead"}

\* Nothing is, and no consumer has to start and go back.
Idle == Behind = 0 /\ risk.pc \notin Stopped /\ hedger.pc \notin Stopped

\* The account is polled and published.
Snapshot ==
  /\ Behind < MaxBehind /\ Len(accountRaw.done) < MaxUncommitted
  /\ \E form \in Forms :
       accountRaw' = Written(accountRaw, [delta |-> delta, balance |-> balance,
                                          form |-> form])
  /\ clean' = Idle
  /\ UNCHANGED <<world, riskState, hedgeTrades, funding, risk, hedger, aim,
                 disturbances>>

-----------------------------------------------------------------------------
(* The risk engine.                                                        *)

\* consume_funding_context
FundingReceived ==
  /\ risk.pc \notin Stopped
  /\ \E f \in FundingContexts : funding' = f
  /\ UNCHANGED <<world, topics, risk, hedger, clean, aim, disturbances>>

\* A message is given to consume_messages.
RiskGiven ==
  /\ risk.pc = "waiting" /\ accountRaw.todo # <<>>
  /\ accountRaw' = Given(accountRaw)

\* message.headers.get raises outside the try: the exception leaves consume_messages
\* and start(), which stops the service; nobody awaits the task this ran in.
RiskDies ==
  /\ "risk" \notin readers /\ RiskGiven
  /\ risk' = [risk EXCEPT !.pc = "dead"]
  /\ UNCHANGED <<world, riskState, hedgeTrades, funding, hedger, clean, aim,
                 disturbances>>

\* AccountData(**message) raises inside the try: nothing is sent or committed.
RiskRejects ==
  /\ "risk" \in readers /\ RiskGiven
  /\ Head(accountRaw.todo).form = "AccountUpdate"
  /\ UNCHANGED <<world, riskState, hedgeTrades, funding, risk, hedger, clean, aim,
                 disturbances>>

\* process_message up to the send.
RiskTakes ==
  /\ "risk" \in readers /\ RiskGiven
  /\ Head(accountRaw.todo).form = "AccountData"
  /\ LET snapshot == Head(accountRaw.todo)
     IN /\ risk' = [pc |-> "sending", message |-> RiskMessage(snapshot, funding)]
        /\ aim' = IF funding.exit THEN 0
                  ELSE Target(RiskLevel(snapshot.balance, funding))
  /\ UNCHANGED <<world, riskState, hedgeTrades, funding, hedger, clean,
                 disturbances>>

\* send() returns with the message in the producer's buffer, which may still lose
\* it; or it raises, and nothing is committed.
RiskSends ==
  /\ risk.pc = "sending"
  /\ \/ /\ Undisturbed /\ riskState' = Written(riskState, risk.message)
        /\ risk' = [pc |-> "committing", message |-> NoMessage]
     \/ /\ Disturbs /\ UNCHANGED riskState
        /\ \E pc \in {"committing", "waiting"} :
             risk' = [pc |-> pc, message |-> NoMessage]
  /\ UNCHANGED <<world, accountRaw, hedgeTrades, funding, hedger, clean, aim>>

\* commit() returns or raises.
RiskCommits ==
  /\ risk.pc = "committing" /\ risk' = [risk EXCEPT !.pc = "waiting"]
  /\ \/ Undisturbed /\ accountRaw' = Committed(accountRaw)
     \/ Disturbs /\ UNCHANGED accountRaw
  /\ UNCHANGED <<world, riskState, hedgeTrades, funding, hedger, clean, aim>>

\* stop(), or a crash.  The contexts are lost.
RiskStops ==
  /\ risk.pc # "down" /\ Disturbs
  /\ risk' = [pc |-> "down", message |-> NoMessage]
  /\ funding' = NoContext /\ clean' = FALSE
  /\ UNCHANGED <<world, topics, hedger, aim>>

\* start(): the group of funding_context has never committed, so it waits for the
\* next context.
RiskStarts ==
  /\ risk.pc = "down" /\ risk' = [risk EXCEPT !.pc = "waiting"]
  /\ accountRaw' = Rejoined(accountRaw)
  /\ UNCHANGED <<world, riskState, hedgeTrades, funding, hedger, clean, aim, disturbances>>

-----------------------------------------------------------------------------
(* The hedger.                                                             *)

\* Mutant: an order is sent whether or not there are credentials.
AlwaysPlacing == "placing"

\* execute_hedge: without credentials the execution is only simulated.
Execution == IF "hedger" \in keys THEN "placing" ELSE "sending"

HedgerGiven ==
  /\ hedger.pc = "waiting" /\ riskState.todo # <<>>
  /\ riskState' = Given(riskState)

\* As RiskDies.
HedgerDies ==
  /\ "hedger" \notin readers /\ HedgerGiven
  /\ hedger' = [hedger EXCEPT !.pc = "dead"]
  /\ UNCHANGED <<world, accountRaw, hedgeTrades, funding, risk, clean, aim, disturbances>>

\* process_message up to the order or, in a simulation, up to the publication.
HedgerTakes ==
  /\ "hedger" \in readers /\ HedgerGiven
  /\ LET m == Head(riskState.todo)
     IN hedger' = IF Decides(m)
                  THEN [pc |-> Execution, size |-> OrderSize(m)]
                  ELSE [pc |-> "committing", size |-> 0]
  /\ UNCHANGED <<world, accountRaw, hedgeTrades, funding, risk, clean, aim, disturbances>>

\* place_order returns, or raises: the order was refused, or it was taken and the
\* answer is lost.  The decision is published in any case.
HedgerOrders ==
  /\ hedger.pc = "placing" /\ hedger' = [hedger EXCEPT !.pc = "sending"]
  /\ \/ Undisturbed /\ delta' = delta + hedger.size
     \/ Disturbs /\ delta' \in {delta, delta + hedger.size}
  /\ UNCHANGED <<keys, readers, balance, topics, funding, risk, clean, aim>>

\* send(), as in RiskSends.
HedgerSends ==
  /\ hedger.pc = "sending"
  /\ \/ /\ Undisturbed /\ hedgeTrades' = Append(hedgeTrades, hedger.size)
        /\ hedger' = [pc |-> "committing", size |-> 0]
     \/ /\ Disturbs /\ UNCHANGED hedgeTrades
        /\ \E pc \in {"committing", "waiting"} : hedger' = [pc |-> pc, size |-> 0]
  /\ UNCHANGED <<world, accountRaw, riskState, funding, risk, clean, aim>>

\* commit() returns or raises.
HedgerCommits ==
  /\ hedger.pc = "committing" /\ hedger' = [hedger EXCEPT !.pc = "waiting"]
  /\ \/ Undisturbed /\ riskState' = Committed(riskState)
     \/ Disturbs /\ UNCHANGED riskState
  /\ UNCHANGED <<world, accountRaw, hedgeTrades, funding, risk, clean, aim>>

\* stop(), or a crash: an order that is being sent may have arrived.
HedgerStops ==
  /\ hedger.pc # "down" /\ Disturbs
  /\ hedger' = [pc |-> "down", size |-> 0]
  /\ delta' \in {delta} \cup IF hedger.pc = "placing" THEN {delta + hedger.size} ELSE {}
  /\ clean' = FALSE
  /\ UNCHANGED <<keys, readers, balance, topics, funding, risk, aim>>

HedgerStarts ==
  /\ hedger.pc = "down" /\ hedger' = [hedger EXCEPT !.pc = "waiting"]
  /\ riskState' = Rejoined(riskState)
  /\ UNCHANGED <<world, accountRaw, hedgeTrades, funding, risk, clean, aim, disturbances>>

-----------------------------------------------------------------------------
(* The trade executor.                                                     *)

Allowed(size) == Abs(size) <= ExecutorLimit

\* A trade is ordered once, whether or not its message says that it was executed
\* already; or it is over the limit, refused, or dropped from its batch.
ExecutorTakes ==
  /\ hedgeTrades # <<>> /\ hedgeTrades' = Tail(hedgeTrades)
  /\ LET size == Head(hedgeTrades) IN
       IF "executor" \in keys /\ Allowed(size)
       THEN \/ Undisturbed /\ delta' = delta + size
            \/ Disturbs /\ UNCHANGED delta
       ELSE Undisturbed /\ UNCHANGED delta
  /\ UNCHANGED <<keys, readers, balance, accountRaw, riskState, funding, risk, hedger,
                 clean, aim>>

-----------------------------------------------------------------------------
RiskStep == RiskDies \/ RiskRejects \/ RiskTakes \/ RiskSends \/ RiskCommits \/ RiskStarts

HedgerStep ==
  HedgerDies \/ HedgerTakes \/ HedgerOrders \/ HedgerSends \/ HedgerCommits \/ HedgerStarts

Next ==
  \/ Move \/ Snapshot \/ FundingReceived
  \/ RiskStep \/ RiskStops
  \/ HedgerStep \/ HedgerStops
  \/ ExecutorTakes

Spec == Init /\ [][Next]_vars

\* The account is polled, each consumer takes what is on its topic, its requests
\* and sends return or raise, and a service that stopped is started again.
Fairness == WF_vars(Snapshot) /\ WF_vars(RiskStep) /\ WF_vars(HedgerStep)
            /\ WF_vars(ExecutorTakes)

FairSpec == Spec /\ Fairness

-----------------------------------------------------------------------------
(* Properties.                                                             *)

Snapshots == [delta : Int, balance : [collateral : Nat, debt : Nat], form : MessageForms]
Messages == [delta : Int, hedge : Int, funding : Contexts]
Topics(S) == [todo : Seq(S), done : Seq(S), committed : BOOLEAN]

\* Types; a service holds a message or an order exactly while it sends it.
TypeOK ==
  /\ keys \in Deployments /\ readers \in Readers /\ delta \in Int
  /\ balance \in [collateral : Nat, debt : Nat]
  /\ accountRaw \in Topics(Snapshots) /\ riskState \in Topics(Messages)
  /\ hedgeTrades \in Seq(Int) /\ funding \in Contexts
  /\ risk \in [pc : {"down", "dead", "waiting", "sending", "committing"},
              message : Messages]
  /\ hedger \in [pc : {"down", "dead", "waiting", "placing", "sending", "committing"},
                size : Int]
  /\ risk.pc # "sending" => risk.message = NoMessage
  /\ hedger.pc \notin {"placing", "sending"} => hedger.size = 0
  /\ hedger.pc = "placing" => "hedger" \in keys
  /\ clean \in BOOLEAN /\ aim \in Int
  /\ disturbances \in Nat

\* From d to e is towards a, and not beyond.
Towards(d, e, a) == (d <= e /\ e <= a) \/ (a <= e /\ e <= d)

\* When a snapshot is taken with nothing on its way, whatever fails or is lost
\* afterwards, every order that follows moves the delta towards the target of the
\* risk state, or in an emergency towards zero, and never beyond: the delta that
\* the order was computed from is still the delta at the exchange, although a
\* queue, an await and perhaps a newer funding context lie between the two.
OrdersApproachTarget ==
  [][clean /\ clean' => Towards(delta, delta', aim)]_vars

\* What is left to do at the exchange as it is: the difference is too small to be
\* recommended or, cut by the multiplier, to be ordered; or the executor, which
\* alone places orders, would refuse it for its size.
Hedged ==
  LET target == Target(RiskLevel(balance, funding))
      left == Abs(target - delta)
      cut == (left * Multiplier(funding)) \div 100
  IN \/ left < MinDifference
     \/ funding.exit /\ delta = 0
     \/ ~funding.exit /\ cut < MinOrder
     \/ keys = {"executor"}
          /\ ~Allowed(IF funding.exit THEN delta ELSE Capped(cut))

-----------------------------------------------------------------------------
(* What the code does not keep (see the README).                           *)

\* What is published on account_raw is taken by the risk engine in the end, whatever
\* raises or is stopped before ("Consumes `account_raw` messages").
AccountsConsumed == accountRaw.todo # <<>> ~> accountRaw.todo = <<>>

\* Once the market moves no more and nothing fails (the disturbances are bounded), and
\* the funding context stays, the account ends up hedged and stays so ("Generates hedge
\* orders based on risk level").
HedgeConverges ==
  \A f \in FundingContexts \cup {NoContext} :
    <>[](funding = f) => <>[]Hedged

\* _create_hedge_decision: "Override to close entire position".
ExitCloses == <>[](funding.exit) => <>[](delta = 0)
=============================================================================
