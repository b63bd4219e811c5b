-------------------------- MODULE PositionManager --------------------------
(***************************************************************************)
(* The position manager service (src/hedgelock/position_manager): the      *)
(* books of the perpetual positions and the asyncio tasks that share them  *)
(* without a lock.                                                         *)
(*                                                                         *)
(*   process_messages          HandleFundingUpdate, HandlePriceUpdate and  *)
(*                             the steps of emergency_close_positions      *)
(*   periodic_rehedge          LoopRehedge, LoopTakeProfit                 *)
(*   hourly_volatility_update  HourlyUpdate                                *)
(*   POST /rehedge             ApiRehedge                                  *)
(*   periodic_state_save       SaveState                                   *)
(*                                                                         *)
(* An action is the code between two awaits; `at[t]` is the await in which *)
(* task t is suspended.  The storage client is synchronous, so saving ends *)
(* the step it belongs to.  A message is on its topic when its send begins *)
(* (`ordered` counts it then); a send that raises may or    *)
(* may not have put it there.                                              *)
(*                                                                         *)
(* Of the P&L only what decides the control is kept: whether the profit    *)
(* target is hit, and what closing the positions realizes.                 *)
(***************************************************************************)
EXTENDS Money, FiniteSets

CONSTANTS
  SpotBtc,               \* spot_btc, in units of the model
  InitialPerp,           \* long_perp and short_perp at start
  MinOrder,              \* adjustments up to this size are not ordered
  HedgeRatios,           \* calculate_hedge_ratio: 20, 40, 60 percent
  FundingRegimes,        \* values of current_regime that funding_context carries
  Gains,                 \* what closing a position may realize
  Rehedgers,             \* tasks that rehedge: "loop", "hourly", "api"
  Durable,               \* whether get_latest_state finds the last save (Redis)
  StorageMayFail,        \* whether a save may fail (it is logged and forgotten)
  MaxInputs,             \* bound: messages, requests and hours that pass
  MaxTakes, MaxRestarts, \* bounds
  MaxFailures            \* bound: how often send_and_wait raises

\* The spellings of the multiplier table, and those of the funding engine's enum.
Regimes == {"NEUTRAL", "NORMAL", "HEATED", "MANIA", "EXTREME",
            "neutral", "normal", "heated", "mania", "extreme"}

ExtremeRegimes == {"EXTREME", "extreme"}

ASSUME PositionAssumption ==
  /\ SpotBtc \in Nat /\ InitialPerp \in Nat /\ MinOrder \in Nat
  /\ HedgeRatios \subseteq 0..100 /\ HedgeRatios # {}
  /\ FundingRegimes \subseteq Regimes
  /\ Gains \subseteq Int
  /\ Rehedgers \subseteq {"loop", "hourly", "api"}
  /\ {Durable, StorageMayFail} \subseteq BOOLEAN
  /\ {MaxInputs, MaxTakes, MaxRestarts, MaxFailures} \subseteq Nat

Tasks == Rehedgers \cup {"loop", "messages"}

VARIABLES
  books,          \* current_position: long_perp and short_perp
  regime,         \* current_position.funding_regime
  volatility,     \* calculate_hedge_ratio(volatility_24h)
  hedgeDue,       \* an hour has passed since last_hedge_update
  targetHit,      \* check_profit_targets would say yes
  realized,       \* cumulative_realized_pnl
  at,             \* where each task is suspended
  decision,       \* the HedgeDecision each task holds, with current_delta
  reached,        \* whether the message each task is sending gets to the broker
  saved,          \* the books that were saved last
  archive,        \* all books that were ever saved in the database
  missed,         \* history: a save that was due failed, or a raising send
                  \* kept the task from it, since the last one that worked
  ordered,        \* external: net quantity of the orders on hedge_trades
  exits,          \* history: should_exit was read and the books not yet closed
  inputs, takes, restarts, failures    \* history: bounds

bounds == <<inputs, takes, restarts, failures>>
storage == <<saved, archive, missed>>
tasks == <<at, decision, reached>>
vars == <<books, regime, volatility, hedgeDue, targetHit, realized, at, decision,
          reached, saved, archive, missed, ordered, exits, inputs, takes, restarts,
          failures>>

Books == [long : Int, short : Int]

Awaits ==
  {"idle", "price_pnl",
   "rehedge_order", "rehedge_pnl", "rehedge_state",
   "profit_order", "profit_pnl", "profit_event",
   "close_order", "close_event"}

Decisions == [long : Int, short : Int, delta : Int]

NoDecision == [long |-> 0, short |-> 0, delta |-> 0]

InitialBooks == [long |-> InitialPerp, short |-> InitialPerp]

Init ==
  /\ books = InitialBooks
  /\ regime = "NORMAL" /\ volatility \in HedgeRatios
  /\ hedgeDue = FALSE /\ targetHit = FALSE
  /\ realized = 0
  /\ at = [t \in Tasks |-> "idle"]
  /\ decision = [t \in Tasks |-> NoDecision]
  /\ reached = [t \in Tasks |-> TRUE]
  /\ saved = InitialBooks /\ archive = {} /\ missed = FALSE
  /\ ordered = 0 /\ exits = FALSE
  /\ inputs = 0 /\ takes = 0 /\ restarts = 0 /\ failures = 0

-----------------------------------------------------------------------------
(* The decision (position_manager/manager.py).                             *)

\* calculate_delta
Delta(b) == SpotBtc + b.long - b.short

Multipliers ==
  [r \in {"NEUTRAL", "NORMAL", "HEATED", "MANIA", "EXTREME"} |->
     IF r = "HEATED" THEN 50 ELSE IF r = "MANIA" THEN 20
     ELSE IF r = "EXTREME" THEN 0 ELSE 100]

\* apply_funding_multiplier: a regime that is not in the table counts as 1.
HedgeRatio(base, r) ==
  IF r \in DOMAIN Multipliers THEN Percent(base, Multipliers[r]) ELSE base

\* Mutant: the long side is not reduced when the short side grows.
DecisionShortOnly(b, ratio) ==
  LET d == -Delta(b)
  IN  IF d < 0
        THEN [long |-> 0, short |-> Percent(-d, ratio), delta |-> Delta(b)]
        ELSE [long |-> d, short |-> 0, delta |-> Delta(b)]

\* generate_hedge_decision for a target delta of zero.
Decision(b, ratio) ==
  LET d == -Delta(b)
  IN  IF d < 0
        THEN [long  |-> -(-d - Percent(-d, ratio)),
              short |-> Percent(-d, ratio), delta |-> Delta(b)]
        ELSE [long  |-> d - Percent(d, ratio),
              short |-> -Percent(d, ratio), delta |-> Delta(b)]

Magnitude(x) == IF x < 0 THEN -x ELSE x

Flat(b) == b.long = 0 /\ b.short = 0

FlatBooks == [long |-> 0, short |-> 0]

\* The quantity rehedge_positions orders.
NetAdjustment(d) == d.long + d.short

OrderNeeded(d) ==
  /\ Magnitude(d.long) > MinOrder \/ Magnitude(d.short) > MinOrder
  /\ Magnitude(NetAdjustment(d)) > MinOrder

\* total_position, what closing orders the opposite of.
TotalPosition == books.long - books.short

-----------------------------------------------------------------------------
(* Steps shared by the tasks.                                              *)

Lost == Cardinality({t \in Tasks : ~reached[t]})

\* A message that does not reach its topic is one more send that raises.
Delivery(sent) == sent \/ failures + Lost < MaxFailures

\* Mutant: a task that already has a decision keeps it.
HoldsFirst(t, d) ==
  decision' = [decision EXCEPT ![t] = IF @ = NoDecision THEN d ELSE @]

Holds(t, d) == decision' = [decision EXCEPT ![t] = d]

\* Task t suspends in the await `where`, its message on the way (`sent`).
Suspend(t, where, sent) ==
  /\ at' = [at EXCEPT ![t] = where]
  /\ reached' = [reached EXCEPT ![t] = sent]

Resumes(t, where) == at[t] = where /\ reached[t]

\* The database is read only where there is no Redis: its rows are kept only then.
Archived(b) == IF Durable THEN archive ELSE archive \cup {b}

SaveFails == StorageMayFail /\ missed' = TRUE /\ UNCHANGED <<saved, archive>>

\* Mutant: the state is saved before it is updated.
SaveNowStale ==
  \/ saved' = books /\ archive' = Archived(books) /\ missed' = FALSE
  \/ SaveFails

\* save_state_after_update, with the books as they are after this step.
SaveNow ==
  \/ saved' = books' /\ archive' = Archived(books') /\ missed' = FALSE
  \/ SaveFails

\* update_pnl_and_publish: the P&L is computed anew, so the profit target may be
\* hit or missed; it swallows every exception.
PnlUpdated == targetHit' \in BOOLEAN

\* Mutant: last_hedge_update is not set.
HedgeDueKept == hedgeDue

\* A rehedge sets last_hedge_update.
HedgeDueAfterRehedge == FALSE

\* rehedge_positions up to its first await.
BeginRehedge(t, ratio, sent) ==
  LET d == Decision(books, ratio)
  IN  IF OrderNeeded(d)
        THEN /\ Delivery(sent) /\ Suspend(t, "rehedge_order", sent) /\ Holds(t, d)
             /\ ordered' = IF sent THEN ordered + NetAdjustment(d) ELSE ordered
             /\ UNCHANGED hedgeDue
        ELSE /\ sent /\ Suspend(t, "rehedge_pnl", TRUE)
             /\ hedgeDue' = HedgeDueAfterRehedge
             /\ UNCHANGED <<ordered, decision>>

\* The P&L is updated in the same step only when there is nothing to order.
PnlAfterDecision(ratio) ==
  /\ PnlUpdated
  /\ OrderNeeded(Decision(books, ratio)) => UNCHANGED targetHit

\* take_profit up to its first await.
BeginTakeProfit(sent) ==
  /\ takes < MaxTakes /\ takes' = takes + 1
  /\ IF Magnitude(TotalPosition) > MinOrder
       THEN /\ Delivery(sent) /\ Suspend("loop", "profit_order", sent)
            /\ ordered' = IF sent THEN ordered - TotalPosition ELSE ordered
            /\ UNCHANGED targetHit
       ELSE /\ sent /\ Suspend("loop", "profit_pnl", TRUE)
            /\ PnlUpdated /\ UNCHANGED ordered

Input == inputs < MaxInputs /\ inputs' = inputs + 1

-----------------------------------------------------------------------------
(* rehedge_positions.                                                      *)

HourPasses ==
  /\ Input
  /\ hedgeDue' = TRUE
  /\ UNCHANGED <<books, regime, volatility, targetHit, realized, tasks, storage,
                 ordered, exits, takes, restarts, failures>>

\* periodic_rehedge finds should_rehedge.
LoopRehedge(sent) ==
  /\ at["loop"] = "idle" /\ hedgeDue
  /\ BeginRehedge("loop", HedgeRatio(volatility, regime), sent)
  /\ PnlAfterDecision(HedgeRatio(volatility, regime))
  /\ UNCHANGED <<books, regime, volatility, realized, storage, exits, bounds>>

\* periodic_rehedge, not due to rehedge, finds check_profit_targets.
LoopTakeProfit(sent) ==
  /\ at["loop"] = "idle" /\ ~hedgeDue /\ targetHit
  /\ BeginTakeProfit(sent)
  /\ UNCHANGED <<books, regime, volatility, hedgeDue, realized, decision, storage,
                 exits, inputs, restarts, failures>>

\* POST /rehedge
ApiRehedge(sent) ==
  /\ "api" \in Rehedgers /\ at["api"] = "idle"
  /\ Input
  /\ BeginRehedge("api", HedgeRatio(volatility, regime), sent)
  /\ PnlAfterDecision(HedgeRatio(volatility, regime))
  /\ UNCHANGED <<books, regime, volatility, realized, storage, exits, takes, restarts,
                 failures>>

\* hourly_volatility_update: a change of more than 20% rehedges at once.  The
\* profit target depends on the volatility.
HourlyUpdate(base, large, sent) ==
  /\ "hourly" \in Rehedgers /\ at["hourly"] = "idle"
  /\ Input
  /\ volatility' = base /\ targetHit' \in BOOLEAN
  /\ IF large
       THEN /\ BeginRehedge("hourly", HedgeRatio(base, regime), sent)
            /\ UNCHANGED <<books, storage>>
       ELSE /\ sent /\ UNCHANGED <<books, tasks, hedgeDue, ordered>>
            /\ SaveNow
  /\ UNCHANGED <<regime, realized, exits, takes, restarts, failures>>

\* The order is sent: the adjustments are added to the books as they are now.
RehedgeOrderReturned(t) ==
  /\ Resumes(t, "rehedge_order")
  /\ books' = [long  |-> books.long + decision[t].long,
               short |-> books.short + decision[t].short]
  /\ hedgeDue' = HedgeDueAfterRehedge /\ PnlUpdated
  /\ Suspend(t, "rehedge_pnl", TRUE) /\ Holds(t, NoDecision)
  /\ UNCHANGED <<regime, volatility, realized, storage, ordered, exits, bounds>>

\* pnl_updates is sent (or was not): position_states follows.
RehedgePnlReturned(t, sent) ==
  /\ at[t] = "rehedge_pnl" /\ Delivery(sent)
  /\ Suspend(t, "rehedge_state", sent)
  /\ UNCHANGED <<books, regime, volatility, hedgeDue, targetHit, realized, decision,
                 storage, ordered, exits, bounds>>

\* The books are saved; the loop goes on to the profit targets at once.
RehedgeStateReturned(t, sent) ==
  /\ Resumes(t, "rehedge_state")
  /\ UNCHANGED books /\ SaveNow
  /\ IF t = "loop" /\ targetHit /\ takes < MaxTakes
       THEN BeginTakeProfit(sent)
       ELSE /\ sent /\ Suspend(t, "idle", TRUE)
            /\ UNCHANGED <<targetHit, ordered, takes>>
  /\ UNCHANGED <<regime, volatility, hedgeDue, realized, decision, exits, inputs,
                 restarts, failures>>

-----------------------------------------------------------------------------
(* take_profit.                                                            *)

\* realize_pnl: only positions held above zero are realized.
ProfitOrderReturned ==
  /\ Resumes("loop", "profit_order")
  /\ \E g \in (IF books.long > 0 \/ books.short > 0 THEN Gains ELSE {0}) :
       realized' = realized + g
  /\ PnlUpdated /\ Suspend("loop", "profit_pnl", TRUE)
  /\ UNCHANGED <<books, regime, volatility, hedgeDue, decision, storage, ordered, exits,
                 bounds>>

\* The event on profit_taking carries `realized`, the sum of all that was ever
\* realized.
ProfitPnlReturned(sent) ==
  /\ at["loop"] = "profit_pnl" /\ Delivery(sent)
  /\ Suspend("loop", "profit_event", sent)
  /\ UNCHANGED <<books, regime, volatility, hedgeDue, targetHit, realized, decision,
                 storage, ordered, exits, bounds>>

\* Only now are the positions closed in the books.
ProfitEventReturned ==
  /\ Resumes("loop", "profit_event")
  /\ books' = FlatBooks /\ SaveNow
  /\ Suspend("loop", "idle", TRUE)
  /\ UNCHANGED <<regime, volatility, hedgeDue, targetHit, realized, decision, ordered,
                 exits, bounds>>

-----------------------------------------------------------------------------
(* process_messages.                                                       *)

\* handle_funding_update; an extreme regime carries should_exit and starts
\* emergency_close_positions.
HandleFundingUpdate(r, sent) ==
  /\ at["messages"] = "idle"
  /\ Input
  /\ regime' = r
  /\ IF r \notin ExtremeRegimes
       THEN sent /\ UNCHANGED <<at, reached, ordered, exits>>
       ELSE /\ exits' = TRUE /\ Delivery(sent)
            /\ IF Magnitude(TotalPosition) > MinOrder
                 THEN /\ Suspend("messages", "close_order", sent)
                      /\ ordered' = IF sent THEN ordered - TotalPosition ELSE ordered
                 ELSE Suspend("messages", "close_event", sent) /\ UNCHANGED ordered
  /\ UNCHANGED <<books, volatility, hedgeDue, targetHit, realized, decision, storage,
                 takes, restarts, failures>>

CloseOrderReturned(sent) ==
  /\ Resumes("messages", "close_order") /\ Delivery(sent)
  /\ Suspend("messages", "close_event", sent)
  /\ UNCHANGED <<books, regime, volatility, hedgeDue, targetHit, realized, decision,
                 storage, ordered, exits, bounds>>

\* Mutant: the emergency close sends its messages and keeps the books.
BooksAfterCloseKept == books

BooksAfterClose == FlatBooks

CloseEventReturned ==
  /\ Resumes("messages", "close_event")
  /\ books' = BooksAfterClose /\ SaveNow
  /\ exits' = FALSE
  /\ Suspend("messages", "idle", TRUE)
  /\ UNCHANGED <<regime, volatility, hedgeDue, targetHit, realized, decision, ordered,
                 bounds>>

\* handle_price_update recalculates volatility and P&L and publishes.
HandlePriceUpdate(base) ==
  /\ at["messages"] = "idle"
  /\ Input
  /\ volatility' = base /\ PnlUpdated
  /\ Suspend("messages", "price_pnl", TRUE)
  /\ UNCHANGED <<books, regime, hedgeDue, realized, decision, storage, ordered, exits,
                 takes, restarts, failures>>

PricePnlReturned ==
  /\ at["messages"] = "price_pnl"
  /\ Suspend("messages", "idle", TRUE)
  /\ UNCHANGED <<books, regime, volatility, hedgeDue, targetHit, realized, decision,
                 storage, ordered, exits, bounds>>

-----------------------------------------------------------------------------
(* Failures, the periodic save and restarts.                               *)

\* The task's loop catches the exception and goes on.
AfterFailure == "idle"

\* A send raises: the caller logs and abandons the rest of what it was doing.
SendFailed(t) ==
  /\ reached[t] => failures + Lost < MaxFailures
  /\ failures' = failures + 1
  /\ at[t] \in {"rehedge_order", "rehedge_state", "profit_order", "profit_event",
                "close_order", "close_event"}
  /\ Suspend(t, AfterFailure, TRUE) /\ Holds(t, NoDecision)
  /\ missed' = (missed \/ at[t] = "rehedge_state")
  /\ UNCHANGED <<books, regime, volatility, hedgeDue, targetHit, realized, saved,
                 archive, ordered, exits, inputs, takes, restarts>>

\* periodic_state_save, and stop.
SaveState ==
  /\ UNCHANGED books /\ SaveNow
  /\ UNCHANGED <<regime, volatility, hedgeDue, targetHit, realized, tasks, ordered,
                 exits, bounds>>

\* What get_latest_state may return.  Every state carries the timestamp of the
\* service's first start, so ordering the archive by it decides nothing.
Recoverable ==
  IF Durable THEN {saved} ELSE IF archive = {} THEN {InitialBooks} ELSE archive

\* recover_state: books that cannot be read start anew.
RecoverState ==
  \/ books' \in Recoverable /\ missed' = FALSE
  \/ StorageMayFail /\ books' = InitialBooks /\ missed' = TRUE

\* The service restarts: recover_state, and new P&L totals.  The regime and the
\* volatility are those of some earlier state.
Restart ==
  /\ restarts < MaxRestarts /\ restarts' = restarts + 1
  /\ RecoverState
  /\ regime' \in FundingRegimes \cup {"NORMAL"} /\ volatility' \in HedgeRatios
  /\ PnlUpdated /\ hedgeDue' = FALSE
  /\ realized' = 0 /\ exits' = FALSE
  /\ at' = [t \in Tasks |-> "idle"]
  /\ decision' = [t \in Tasks |-> NoDecision]
  /\ reached' = [t \in Tasks |-> TRUE]
  /\ UNCHANGED <<saved, archive, ordered, inputs, takes, failures>>

-----------------------------------------------------------------------------

\* The steps of a rehedge that task t has begun.
RehedgeStep(t) ==
  \/ RehedgeOrderReturned(t)
  \/ \E sent \in BOOLEAN : RehedgePnlReturned(t, sent) \/ RehedgeStateReturned(t, sent)

RehedgeLoop ==
  \/ \E sent \in BOOLEAN :
       LoopRehedge(sent) \/ LoopTakeProfit(sent) \/ ProfitPnlReturned(sent)
  \/ RehedgeStep("loop")
  \/ ProfitOrderReturned
  \/ ProfitEventReturned

MessageStep ==
  \/ \E sent \in BOOLEAN : CloseOrderReturned(sent)
  \/ CloseEventReturned
  \/ PricePnlReturned

Inputs ==
  \/ \E r \in FundingRegimes, sent \in BOOLEAN : HandleFundingUpdate(r, sent)
  \/ \E base \in HedgeRatios : HandlePriceUpdate(base)
  \/ \E sent \in BOOLEAN : ApiRehedge(sent)
  \/ \E base \in HedgeRatios, large, sent \in BOOLEAN : HourlyUpdate(base, large, sent)

Next ==
  \/ HourPasses
  \/ RehedgeLoop
  \/ MessageStep
  \/ \E t \in Rehedgers \ {"loop"} : RehedgeStep(t)
  \/ \E t \in Tasks : SendFailed(t)
  \/ Inputs
  \/ SaveState
  \/ Restart

Spec == Init /\ [][Next]_vars

\* A send returns or raises, and the loop runs every minute for as long as the
\* service does.
FairSpec ==
  /\ Spec
  /\ WF_vars(RehedgeLoop \/ SendFailed("loop"))
  /\ WF_vars(MessageStep \/ SendFailed("messages"))

-----------------------------------------------------------------------------
(* Properties.                                                             *)

\* Every variable keeps its type; a task holds a decision only while its order is
\* on the way.
TypeOK ==
  /\ books \in Books
  /\ regime \in Regimes /\ volatility \in HedgeRatios
  /\ hedgeDue \in BOOLEAN /\ targetHit \in BOOLEAN /\ exits \in BOOLEAN
  /\ realized \in Int /\ ordered \in Int
  /\ at \in [Tasks -> Awaits] /\ reached \in [Tasks -> BOOLEAN]
  /\ decision \in [Tasks -> Decisions]
  /\ \A t \in Tasks : at[t] # "rehedge_order" => decision[t] = NoDecision
  /\ saved \in Books /\ archive \subseteq Books /\ missed \in BOOLEAN
  /\ inputs \in Nat /\ takes \in Nat /\ restarts \in Nat /\ failures \in Nat

AllIdle == \A t \in Tasks : at[t] = "idle"

\* Task t adjusts the books by its decision.
Adjusts(t) == at[t] = "rehedge_order" /\ at'[t] = "rehedge_pnl"

NeutralWhenUndisturbed ==
  \A t \in Rehedgers :
    Adjusts(t) /\ Delta(books) = decision[t].delta => Delta(books') = 0

\* A rehedge whose order was sent while the net position stayed as it was leaves
\* the books delta-neutral, whatever its ratio.
RehedgeReachesNeutral == [][NeutralWhenUndisturbed]_vars

\* Whatever the tasks did to the books in between, the last save is of the books
\* once they have all come to rest: only a save that failed, or that a raising send
\* kept a task from, leaves the storage behind, and the next save makes up for it.
SavedWhenQuiet == AllIdle /\ ~missed => saved = books

\* An emergency exit closes the books in the end, whatever the rehedge loop has
\* under way, unless a send raised or the service was started anew.
EmergencyCloses == exits ~> Flat(books) \/ failures > 0 \/ restarts > 0

\* An hourly rehedge that is due takes place in the end: what a send that raises
\* leaves undone is due again the next time round.
HedgeRefreshed == hedgeDue ~> ~hedgeDue

\* Every rehedge leaves the books at the target delta ("Generate hedging decision
\* to achieve target delta").
HedgeReachesTarget ==
  [][\A t \in Rehedgers : Adjusts(t) => Delta(books') = 0]_vars

\* At rest the books are what the orders made of the positions ("Calculate net
\* adjustment (for perpetual futures)").
OrdersMatchBooks == AllIdle => ordered = TotalPosition

\* In an extreme regime closed positions stay closed ("0% (emergency exit)").
ExtremeStaysFlat ==
  [][Flat(books) /\ regime \in ExtremeRegimes => Flat(books')]_vars

=============================================================================
