-------------------------- MODULE ReserveManager ---------------------------
(***************************************************************************)
(* The reserve manager service (src/hedgelock/reserve_manager): the USDC   *)
(* reserve ledger, the deployment queue and the service's asyncio tasks.   *)
(*                                                                         *)
(*   process_messages           HandleDeploymentRequest, HandleLtvUpdate,  *)
(*                              HandleProfitEvent                          *)
(*   deployment_processing_loop ProcessDeployment, ResultPublished,        *)
(*                              ResultFailed, UpdateReturned               *)
(*   rebalance_check_loop       RebalanceCheck                             *)
(*   alert_monitoring_loop      AlertCheck                                 *)
(*   HTTP API                   ManualDeployment, ManualWithdrawal         *)
(*                                                                         *)
(* A task runs from one await to the next without interruption, so each    *)
(* action is the code between two awaits.  `task` is where the deployment  *)
(* loop is suspended and the record it holds.  A send_and_wait may raise,  *)
(* and when it raises the message may or may not have reached the broker.  *)
(***************************************************************************)
EXTENDS Money, Sequences

CONSTANTS
  InitialReserves,       \* config initial_reserves
  MinReserveBalance,     \* ReserveState.min_reserve_balance
  MaxDeploymentPercent,  \* ReserveState.max_deployment_percent
  EmergencyKeep,         \* the $100 an emergency deployment keeps back
  MinReserveAddition,    \* ReserveRebalanceRequest.min_reserve_addition
  TargetReservePercent,  \* config target_reserve_ratio
  LowReserveThreshold,   \* config low_reserve_alert_threshold
  EmergencyDeploymentEnabled,  \* config emergency_deployment_enabled
  TierOne, TierTwo,      \* deployments at 75% and 85% LTV ($3000, $8000)
  RequestAmounts,        \* amounts asked for by messages and the API
  LtvPercents,           \* LTV ratios carried by ltv_updates, in percent
  Profits,               \* realized_pnl carried by profit_taking
  ManualActions,         \* actions posted to /deployment/manual
  MaxRequests,           \* bound: requests, messages and API calls in a run
  MaxProfits,            \* bound: profit events in a run
  MaxRestarts            \* bound: restarts of the service

Requesters == {"loan_manager", "reserve_manager_auto", "reserve_manager", "manual_api"}

DeploymentActions ==
  {"deploy_to_collateral", "deploy_to_trading", "withdraw_from_trading",
   "rebalance", "emergency_deploy"}

ASSUME LimitsAssumption ==
  /\ InitialReserves \in Nat \ {0}
  /\ MinReserveBalance \in Nat
  /\ MinReserveBalance <= InitialReserves
  /\ MaxDeploymentPercent \in 0..100
  /\ EmergencyKeep \in 0..MinReserveBalance
  /\ EmergencyDeploymentEnabled \in BOOLEAN
  /\ MinReserveAddition \in Nat
  /\ TargetReservePercent \in 0..100
  /\ LowReserveThreshold \in Nat
  /\ TierOne \in Nat /\ TierTwo \in Nat /\ TierOne <= TierTwo

ASSUME InputsAssumption ==
  /\ RequestAmounts \subseteq Nat \ {0}
  /\ LtvPercents \subseteq Nat
  /\ Profits \subseteq Nat
  /\ ManualActions \subseteq DeploymentActions
  /\ MaxRequests \in Nat /\ MaxProfits \in Nat /\ MaxRestarts \in Nat

VARIABLES
  reserves,          \* ReserveState: total, available, deployed, to*
  queue,             \* deployment_queue
  task,              \* where the deployment loop is suspended
  treasury_updates,  \* the topic, as the messages not yet consumed
  alerts,            \* kinds of alert the alert loop has published
  announced,         \* history: collateral dollars in treasury_updates
  unannounced,       \* history: collateral dollars a failed send dropped
  profitIn,          \* history: realized profit handled
  topUps,            \* history: what the minimum addition puts on top of it
  requests, profits, restarts    \* history: bounds

income == <<profitIn, topUps>>
ledger == <<reserves, income>>
history == <<announced, unannounced>>
vars == <<reserves, queue, task, treasury_updates, alerts, announced,
          unannounced, profitIn, topUps, requests, profits, restarts>>

Request == [amount : Nat \ {0}, action : DeploymentActions, emergency : BOOLEAN,
            requester : Requesters]

Idle == [pc |-> "idle", amount |-> 0, success |-> FALSE, action |-> "rebalance"]

FreshReserves ==
  [total |-> InitialReserves, available |-> InitialReserves, deployed |-> 0,
   toCollateral |-> 0, toTrading |-> 0]

Init ==
  /\ reserves = FreshReserves
  /\ queue = <<>>
  /\ task = Idle
  /\ treasury_updates = <<>>
  /\ alerts = {}
  /\ announced = 0 /\ unannounced = 0 /\ profitIn = 0 /\ topUps = 0
  /\ requests = 0 /\ profits = 0 /\ restarts = 0

-----------------------------------------------------------------------------
(* The ledger (reserve_manager/models.py, manager.py).                     *)

MaxDeployable(total) == Percent(total, MaxDeploymentPercent)

\* calculate_deployable_amount
DeployableAmount ==
  Greater(0, Lesser(MaxDeployable(reserves.total) - reserves.deployed,
                    reserves.available - MinReserveBalance))

\* get_deployment_capacity
DeploymentCapacity(emergency) ==
  IF emergency THEN Greater(0, reserves.available - EmergencyKeep)
               ELSE DeployableAmount

\* Mutant: the amount is trusted because it was limited when it was queued.
AmountTrusted(r) == r.amount

\* The amount process_deployment_request settles on.
AmountToDeploy(r) ==
  IF r.emergency /\ r.action = "emergency_deploy"
    THEN Lesser(r.amount, reserves.available - EmergencyKeep)
    ELSE Lesser(r.amount, DeployableAmount)

\* Mutant: money coming back does not lower deployed_reserves.
MovedOneWay(rs, collateral, trading) ==
  [total        |-> rs.total,
   available    |-> rs.available - (collateral + trading),
   deployed     |-> rs.deployed + Greater(0, collateral + trading),
   toCollateral |-> rs.toCollateral + collateral,
   toTrading    |-> rs.toTrading + trading]

\* Money leaves the available reserves for collateral and for trading.
Moved(rs, collateral, trading) ==
  [total        |-> rs.total,
   available    |-> rs.available - (collateral + trading),
   deployed     |-> rs.deployed + (collateral + trading),
   toCollateral |-> rs.toCollateral + collateral,
   toTrading    |-> rs.toTrading + trading]

\* New money joins the available reserves.
Credited(rs, share) ==
  [total        |-> rs.total + share,
   available    |-> rs.available + share,
   deployed     |-> rs.deployed,
   toCollateral |-> rs.toCollateral,
   toTrading    |-> rs.toTrading]

\* update_deployment: there is no branch for rebalance or emergency_deploy.
UpdateDeployment(rs, amount, action) ==
  Moved(rs, IF action = "deploy_to_collateral" THEN amount ELSE 0,
            IF action = "deploy_to_trading" THEN amount
            ELSE IF action = "withdraw_from_trading" THEN -amount ELSE 0)

\* The ledger after process_deployment_request.
Processed(r) ==
  IF AmountToDeploy(r) > 0
    THEN UpdateDeployment(reserves, AmountToDeploy(r), r.action)
    ELSE reserves

\* calculate_deployment_for_ltv
DeploymentForLtv(ltv) ==
  LET wanted ==
        IF ltv < 65 THEN 0
        ELSE IF ltv < 75 THEN (TierOne * (ltv - 65)) \div 10
        ELSE IF ltv < 85
          THEN TierOne + ((TierTwo - TierOne) * (ltv - 75)) \div 10
        ELSE DeploymentCapacity(TRUE)
  IN  Lesser(wanted, DeploymentCapacity(ltv >= 85))

\* Mutant: the shares of reserves and loan are swapped.
ReserveShareSwapped(profit) == Greater(MinReserveAddition, Percent(profit, 120))

\* The to_reserves part of _calculate_profit_distribution.
ReserveShare(profit) ==
  LET capital == reserves.total + reserves.toTrading
      deficit == Percent(capital, TargetReservePercent) - reserves.total
  IN  IF reserves.total < Percent(capital, TargetReservePercent)
        THEN Lesser(Percent(profit, 50), deficit)
        ELSE Greater(MinReserveAddition, Percent(profit, 20))

-----------------------------------------------------------------------------
(* process_messages.  A handler appends to the queue or works on the       *)
(* ledger without an await in between; only publish_profit_distribution    *)
(* follows, and nothing depends on its outcome.                            *)

Enqueue(amount, action, emergency, requester) ==
  /\ amount > 0                                  \* DeploymentRequest: gt=0
  /\ queue' = Append(queue, [amount |-> amount, action |-> action,
                             emergency |-> emergency, requester |-> requester])
  /\ UNCHANGED <<ledger, task, treasury_updates, alerts, history, restarts>>

Counted == requests < MaxRequests /\ requests' = requests + 1

HandleDeploymentRequest(amount, emergency) ==
  /\ Counted /\ UNCHANGED profits
  /\ Enqueue(amount, "deploy_to_collateral", emergency, "loan_manager")

HandleLtvUpdate(ltv) ==
  /\ Counted /\ UNCHANGED profits
  /\ ltv >= 65 /\ EmergencyDeploymentEnabled
  /\ Enqueue(DeploymentForLtv(ltv), "deploy_to_collateral", ltv >= 85,
             "reserve_manager_auto")

HandleProfitEvent(profit) ==
  /\ profits < MaxProfits /\ profits' = profits + 1
  /\ profit > 0
  /\ reserves' = Credited(reserves, Greater(0, ReserveShare(profit)))
  /\ profitIn' = profitIn + profit
  /\ topUps' = topUps + Greater(0, MinReserveAddition - profit)
  /\ UNCHANGED <<queue, task, treasury_updates, alerts, history, requests,
                 restarts>>

-----------------------------------------------------------------------------
(* deployment_processing_loop.                                             *)

ProcessDeployment ==
  /\ task.pc = "idle" /\ queue # <<>>
  /\ LET r == Head(queue) IN
       /\ reserves' = Processed(r)
       /\ task' = [pc |-> "result", amount |-> AmountToDeploy(r),
                   success |-> AmountToDeploy(r) > 0, action |-> r.action]
  /\ queue' = Tail(queue)
  /\ UNCHANGED <<treasury_updates, alerts, history, income, requests,
                 profits, restarts>>

\* Mutant: any successful deployment notifies the treasury.
NotifiesAny(record) == record.success

\* Only collateral that really moved is notified to the treasury.
NotifiesTreasury(record) ==
  record.success /\ record.action = "deploy_to_collateral"

Suspended(pc) == task' = [task EXCEPT !.pc = pc]

\* Mutant: the loop's try does not cover the publication, the task ends.
AfterFailedResultDead == "dead"

\* After an exception the while loop goes round again.
AfterFailedResult == "idle"

\* publish_deployment_result returns and publish_collateral_update starts;
\* its available_reserves is read now.  `delivered`: the broker has it.
ResultPublished(delivered) ==
  /\ task.pc = "result"
  /\ IF NotifiesTreasury(task)
       THEN /\ Suspended("update")
            /\ IF delivered
                 THEN /\ treasury_updates' =
                           Append(treasury_updates, reserves.available)
                      /\ announced' = announced + task.amount
                      /\ UNCHANGED unannounced
                 ELSE /\ unannounced' = unannounced + task.amount
                      /\ UNCHANGED <<treasury_updates, announced>>
       ELSE /\ Suspended("idle")
            /\ UNCHANGED <<treasury_updates, history>>
  /\ UNCHANGED <<ledger, queue, alerts, requests, profits, restarts>>

\* publish_deployment_result raises: the collateral update is skipped.
ResultFailed ==
  /\ task.pc = "result"
  /\ Suspended(AfterFailedResult)
  /\ unannounced' =
       unannounced + IF NotifiesTreasury(task) THEN task.amount ELSE 0
  /\ UNCHANGED <<ledger, queue, treasury_updates, alerts, announced, requests,
                 profits, restarts>>

\* publish_collateral_update returns or raises: the loop goes on either way.
UpdateReturned ==
  /\ task.pc = "update"
  /\ Suspended("idle")
  /\ UNCHANGED <<ledger, queue, treasury_updates, alerts, history, requests,
                 profits, restarts>>

-----------------------------------------------------------------------------
(* The other loops and the API.                                            *)

\* withdraw_from_trading: checks what is deployed, then processes a request
\* at once, without the queue.  Its publication changes nothing here.
Withdraw(amount) ==
  LET r == [amount |-> amount, action |-> "withdraw_from_trading",
            emergency |-> FALSE, requester |-> "reserve_manager"]
  IN  /\ amount > 0 /\ amount <= reserves.toTrading
      /\ reserves' = Processed(r)
      /\ UNCHANGED <<queue, task, treasury_updates, alerts, history, income,
                     profits, restarts>>

RebalanceCheck ==
  /\ reserves.toTrading > Percent(reserves.total, 50)
  /\ Withdraw(Percent(reserves.toTrading, 20))
  /\ UNCHANGED requests

ManualWithdrawal(amount) == Counted /\ Withdraw(amount)

ManualDeployment(amount, action, emergency) ==
  /\ Counted /\ UNCHANGED profits
  /\ Enqueue(amount, action, emergency, "manual_api")

\* The high-deployment check reads config.high_deployment_alert_percent, which
\* ReserveManagerConfig does not define: it raises every time round.
AlertCheck ==
  /\ alerts' = alerts \cup
       (IF reserves.available < LowReserveThreshold THEN {"LOW_RESERVES"} ELSE {})
  /\ UNCHANGED <<ledger, queue, task, treasury_updates, history, requests,
                 profits, restarts>>

\* Nothing is persisted: a restarted service begins with fresh reserves.
Restart ==
  /\ restarts < MaxRestarts /\ restarts' = restarts + 1
  /\ reserves' = FreshReserves
  /\ queue' = <<>> /\ task' = Idle /\ alerts' = {}
  /\ announced' = 0 /\ unannounced' = 0 /\ profitIn' = 0 /\ topUps' = 0
  /\ UNCHANGED <<treasury_updates, requests, profits>>

-----------------------------------------------------------------------------

DeploymentLoop ==
  \/ ProcessDeployment
  \/ \E delivered \in BOOLEAN : ResultPublished(delivered)
  \/ ResultFailed
  \/ UpdateReturned

\* The consumer of treasury_updates takes messages when it likes.
TreasuryUpdateConsumed ==
  /\ treasury_updates # <<>>
  /\ treasury_updates' = Tail(treasury_updates)
  /\ UNCHANGED <<ledger, queue, task, alerts, history, requests, profits,
                 restarts>>

Inputs ==
  \/ \E a \in RequestAmounts, e \in BOOLEAN : HandleDeploymentRequest(a, e)
  \/ \E ltv \in LtvPercents : HandleLtvUpdate(ltv)
  \/ \E p \in Profits : HandleProfitEvent(p)
  \/ \E a \in RequestAmounts, m \in ManualActions, e \in BOOLEAN :
       ManualDeployment(a, m, e)
  \/ \E a \in RequestAmounts : ManualWithdrawal(a)

Next ==
  \/ DeploymentLoop
  \/ RebalanceCheck
  \/ AlertCheck
  \/ Inputs
  \/ TreasuryUpdateConsumed
  \/ Restart

Spec == Init /\ [][Next]_vars

\* The deployment loop runs on a timer for as long as the service does.
FairSpec == Spec /\ WF_vars(DeploymentLoop)

-----------------------------------------------------------------------------
(* Properties.                                                             *)

\* Every variable keeps its type, in particular the sums stay integers.
TypeOK ==
  /\ reserves \in [total : Nat, available : Int, deployed : Int,
                   toCollateral : Int, toTrading : Int]
  /\ queue \in Seq(Request)
  /\ task \in [pc : {"idle", "result", "update"}, amount : Int,
               success : BOOLEAN, action : DeploymentActions]
  /\ treasury_updates \in Seq(Int)
  /\ alerts \subseteq {"LOW_RESERVES", "HIGH_DEPLOYMENT"}
  /\ announced \in Int /\ unannounced \in Int
  /\ profitIn \in Nat /\ topUps \in Nat
  /\ requests \in Nat /\ profits \in Nat /\ restarts \in Nat

\* The five balances of ReserveState, each updated by hand in update_deployment
\* and process_profit_rebalance, always describe the same money.
LedgerBalanced ==
  /\ reserves.available + reserves.deployed = reserves.total
  /\ reserves.deployed = reserves.toCollateral + reserves.toTrading

\* Whatever is taken leaves the minimum reserve.
ReserveFloor == reserves.available >= MinReserveBalance

\* What a request must leave: the minimum reserve, or $100 in an emergency ("Emergency
\* deployment can use more reserves", "Keep at least $100").
FloorOf(r) == IF r.emergency THEN EmergencyKeep ELSE MinReserveBalance

\* Requests are sized when they are queued, several of them from the same balance.
\* However many wait together, the one that is processed leaves what it must.
RequestsKeepFloor ==
  [][reserves'.available < reserves.available /\ restarts' = restarts
       => reserves'.available >= FloorOf(Head(queue))]_vars

\* The requests together never deploy more than max_deployment_percent of the reserves.
DeploymentCap == reserves.deployed <= MaxDeployable(reserves.total)

\* Collateral that moved is told to the treasury once, unless a send failed.
CollateralAnnounced ==
  reserves.toCollateral =
    announced + unannounced +
      IF task.pc = "result" /\ task.success
                            /\ task.action = "deploy_to_collateral"
        THEN task.amount ELSE 0

\* The reserves never hold more than what they began with, the profit that came in
\* ("Added ... to reserves from profit") and, for profits below the minimum addition,
\* what the addition puts on top of them.
ReservesBacked == reserves.total <= InitialReserves + profitIn + topUps

\* Whatever raises between taking a request and the end of its publications, the
\* requests behind it are processed in the end.
DeploymentsDrain == queue # <<>> ~> queue = <<>>

-----------------------------------------------------------------------------
(* What the code does not keep (see the README).                           *)

\* An emergency deployment may use all but $100 ("Emergency deployment can use more
\* reserves"; "Deploy All Reserves").
EmergencyReachesReserves ==
  [][(task.pc = "idle" /\ task'.pc = "result" /\ Head(queue).emergency)
       => task'.amount >= Lesser(Head(queue).amount,
                                 reserves.available - EmergencyKeep)]_vars

=============================================================================
