---------------------------- MODULE LoanManager ----------------------------
(***************************************************************************)
(* The loan manager service (src/hedgelock/loan_manager): the loan ledger, *)
(* the repayment queue, and the LTV loop that asks for reserves.           *)
(*                                                                         *)
(*   process_messages           HandleProfitEvent, HandlePositionUpdate,   *)
(*                              HandleTreasuryUpdate                       *)
(*   repayment_processing_loop  ProcessRepayment ... PaidOffReturned       *)
(*   ltv_monitoring_loop        LtvCheck, LtvUpdateReturned,               *)
(*                              DeploymentReturned, ScalingReturned,       *)
(*                              AlertReturned, LtvLoopFailed               *)
(*   interest_update_loop and every API read of the metrics                *)
(*                              AccrueInterest                             *)
(*   POST /repayment/manual     ManualRepayment                            *)
(*                                                                         *)
(* An action is the code between two awaits.  The LTV ratio is kept in     *)
(* whole percent, rounded down, which decides every threshold (they are    *)
(* whole percents) as the float does.                                      *)
(***************************************************************************)
EXTENDS Money, Sequences

CONSTANTS
  Principal,             \* config initial_principal
  HourlyPercent,         \* interest of one hour, in percent of the balance
  MinPayment,            \* min_payment_amount
  AllocationPercent,     \* profit_allocation_percent
  ConfigPriority,        \* config repayment_priority
  AutoRepayEnabled, ReserveDeploymentEnabled, AlertOnHighLtv,
  AlertLtvPercent,       \* alert_ltv_threshold
  InitialTracked,        \* available_reserves at start ($10000)
  TierOne, TierTwo,      \* deployments at 75% and 85% LTV ($3000, $8000)
  AllReserves,           \* deployment from 85% on ($10000)
  MinDeployment,         \* smallest deployment
  Profits,               \* realized_pnl carried by profit_taking
  BtcValues,             \* spot_btc * btc_price carried by position_states
  TreasuryFigures,       \* available_reserves carried by treasury_updates
  ManualAmounts,         \* amounts posted to /repayment/manual
  SendsMayFail,          \* whether send_and_wait may raise
  MaxHours, MaxProfitEvents, MaxManual,    \* bounds
  MaxUnread              \* bound: messages that wait on a topic

Priorities == {"interest_first", "principal_first", "proportional"}

ASSUME LoanAssumption ==
  /\ Principal \in Nat \ {0}
  /\ HourlyPercent \in Nat
  /\ MinPayment \in Nat \ {0}
  /\ AllocationPercent \in 0..100
  /\ ConfigPriority \in Priorities
  /\ {AutoRepayEnabled, ReserveDeploymentEnabled, AlertOnHighLtv} \subseteq BOOLEAN
  /\ AlertLtvPercent \in Nat
  /\ InitialTracked \in Nat
  /\ TierOne \in Nat /\ TierTwo \in Nat /\ TierOne <= TierTwo
  /\ AllReserves \in Nat
  /\ MinDeployment \in Nat \ {0}

ASSUME LoanInputsAssumption ==
  /\ Profits \subseteq Nat /\ BtcValues \subseteq Nat
  /\ TreasuryFigures \subseteq Nat
  /\ ManualAmounts \subseteq Nat \ {0}
  /\ SendsMayFail \in BOOLEAN
  /\ MaxHours \in Nat /\ MaxProfitEvents \in Nat
  /\ MaxManual \in Nat /\ MaxUnread \in Nat \ {0}

VARIABLES
  loan,                 \* LoanState: the six amounts
  elapsed,              \* hours since last_interest_calc
  repayQueue,           \* repayment_queue
  repayTask,            \* where the repayment loop is suspended
  collateral,           \* current_collateral_value
  tracked,              \* available_reserves, the service's own copy
  ltvTask,              \* where the LTV loop is suspended, and its locals
  ltv_updates, reserve_deployments,    \* topics, messages not yet consumed
  paidOffEvents,        \* history: LOAN_PAID_OFF published, or lost with a send
  hours, profitEvents, manuals    \* history: bounds

ltvVars == <<collateral, tracked, ltvTask, ltv_updates, reserve_deployments>>
repayVars == <<repayQueue, repayTask, paidOffEvents, profitEvents, manuals>>
ledgerVars == <<loan, elapsed>>
vars == <<loan, elapsed, repayQueue, repayTask, paidOffEvents, profitEvents,
          manuals, collateral, tracked, ltvTask, ltv_updates,
          reserve_deployments, hours>>

Loans == [balance : Nat, accrued : Nat, principalPaid : Nat,
          interestPaid : Nat, totalAccrued : Nat, totalPaid : Nat]

\* `alone`, an observation: nothing was waiting when the request was queued.
Repayment == [amount : Nat \ {0}, priority : Priorities,
              source : {"trading_profit", "manual"}, alone : BOOLEAN]

LtvTasks == [pc : {"idle", "update", "deploy", "scaling", "alert"},
             ltv : Nat, amount : Nat, left : Nat, sent : BOOLEAN]

LtvIdle == [pc |-> "idle", ltv |-> 0, amount |-> 0, left |-> 0, sent |-> FALSE]

Init ==
  /\ loan = [balance |-> Principal, accrued |-> 0, principalPaid |-> 0,
             interestPaid |-> 0, totalAccrued |-> 0, totalPaid |-> 0]
  /\ elapsed = 0
  /\ repayQueue = <<>> /\ repayTask = "idle"
  /\ collateral = 0 /\ tracked = InitialTracked
  /\ ltvTask = LtvIdle
  /\ ltv_updates = <<>> /\ reserve_deployments = <<>>
  /\ paidOffEvents = "none"
  /\ hours = 0 /\ profitEvents = 0 /\ manuals = 0

-----------------------------------------------------------------------------
(* The ledger (loan_manager/manager.py).                                   *)

\* calculate_accrued_interest, rounded up: a positive debt always accrues.
Interest(l, h) == (l.balance * h * HourlyPercent + 99) \div 100

\* update_interest
Accrued(l, h) ==
  [balance       |-> l.balance,
   accrued       |-> l.accrued + Interest(l, h),
   principalPaid |-> l.principalPaid,
   interestPaid  |-> l.interestPaid,
   totalAccrued  |-> l.totalAccrued + Interest(l, h),
   totalPaid     |-> l.totalPaid]

TotalOwed(l) == l.balance + l.accrued

PaidOff(l) == l.balance <= 0 /\ l.accrued <= 0

\* Mutant: the remainder of a payment is not limited to the balance.
PrincipalPortionUnlimited(l, amount, priority) ==
  IF priority = "interest_first" THEN amount - Lesser(amount, l.accrued)
  ELSE amount

\* _calculate_payment_portions
PrincipalPortion(l, amount, priority) ==
  IF priority = "interest_first"
    THEN Lesser(amount - Lesser(amount, l.accrued), l.balance)
  ELSE IF priority = "principal_first" THEN Lesser(amount, l.balance)
  ELSE IF TotalOwed(l) > 0
    THEN Lesser((amount * l.balance) \div TotalOwed(l), l.balance)
  ELSE 0

\* Mutant: the interest is paid from the whole amount, not from what is left.
InterestPortionOfAll(l, amount, priority) == Lesser(amount, l.accrued)

InterestPortion(l, amount, priority) ==
  IF priority = "interest_first" THEN Lesser(amount, l.accrued)
  ELSE IF TotalOwed(l) > 0 \/ priority = "principal_first"
    THEN Lesser(amount - PrincipalPortion(l, amount, priority), l.accrued)
  ELSE 0

\* process_repayment, after its update_interest.  total_paid takes the whole
\* request, whatever part of it the portions could use.
Repaid(l, amount, priority) ==
  LET p == PrincipalPortion(l, amount, priority)
      i == InterestPortion(l, amount, priority)
  IN  [balance       |-> l.balance - p,
       accrued       |-> l.accrued - i,
       principalPaid |-> l.principalPaid + p,
       interestPaid  |-> l.interestPaid + i,
       totalAccrued  |-> l.totalAccrued,
       totalPaid     |-> l.totalPaid + amount]

\* Mutant: the repayment is not capped by the debt.
RepaymentUncapped(profit) == Greater(Percent(profit, AllocationPercent), MinPayment)

\* get_repayment_from_profit
RepaymentFromProfit(profit) ==
  Lesser(Greater(Percent(profit, AllocationPercent), MinPayment), TotalOwed(loan))

-----------------------------------------------------------------------------
(* LTV (loan_manager/models.py).                                           *)

LtvRatio(l, value) == (TotalOwed(l) * 100) \div value

\* LTVState.calculate_reserve_deployment
WantedDeployment(ltv) ==
  IF ltv < 65 THEN 0
  ELSE IF ltv < 75 THEN (TierOne * (ltv - 65)) \div 10
  ELSE IF ltv < 85 THEN TierOne + ((TierTwo - TierOne) * (ltv - 75)) \div 10
  ELSE AllReserves

\* LoanManager.calculate_reserve_deployment: limited to the reserves tracked.
DeploymentAmount(ltv) == Lesser(WantedDeployment(ltv), tracked)

DeploymentNeeded(ltv) ==
  /\ ReserveDeploymentEnabled
  /\ WantedDeployment(ltv) > 0
  /\ DeploymentAmount(ltv) >= MinDeployment

\* WARNING, CRITICAL and EMERGENCY publish a position scaling.
ScalingNeeded(ltv) == ltv >= 65

AlertNeeded(ltv) == AlertOnHighLtv /\ ltv >= AlertLtvPercent

-----------------------------------------------------------------------------
(* process_messages and the API.                                           *)

Tick ==
  /\ hours < MaxHours
  /\ hours' = hours + 1 /\ elapsed' = elapsed + 1
  /\ UNCHANGED <<loan, repayVars, ltvVars>>

Queue(amount, priority, source) ==
  repayQueue' = Append(repayQueue, [amount |-> amount, priority |-> priority,
                                    source |-> source,
                                    alone |-> repayQueue = <<>>])

HandleProfitEvent(profit) ==
  /\ profitEvents < MaxProfitEvents /\ profitEvents' = profitEvents + 1
  /\ IF AutoRepayEnabled /\ profit > 0 /\ RepaymentFromProfit(profit) >= MinPayment
       THEN Queue(RepaymentFromProfit(profit), ConfigPriority, "trading_profit")
       ELSE UNCHANGED repayQueue
  /\ UNCHANGED <<ledgerVars, ltvVars, repayTask, paidOffEvents, manuals, hours>>

ManualRepayment(amount, priority) ==
  /\ manuals < MaxManual /\ manuals' = manuals + 1
  /\ Queue(amount, priority, "manual")
  /\ UNCHANGED <<ledgerVars, ltvVars, repayTask, paidOffEvents, profitEvents, hours>>

HandlePositionUpdate(btcValue) ==
  /\ collateral' = btcValue + tracked
  /\ UNCHANGED <<ledgerVars, repayVars, tracked, ltvTask, ltv_updates,
                 reserve_deployments, hours>>

HandleTreasuryUpdate(available) ==
  /\ tracked' = available
  /\ UNCHANGED <<ledgerVars, repayVars, collateral, ltvTask, ltv_updates,
                 reserve_deployments, hours>>

\* update_interest, from the hourly loop or from get_loan_metrics.
AccrueInterest ==
  /\ elapsed > 0
  /\ loan' = Accrued(loan, elapsed) /\ elapsed' = 0
  /\ UNCHANGED <<repayVars, ltvVars, hours>>

-----------------------------------------------------------------------------
(* repayment_processing_loop.                                              *)

ProcessRepayment ==
  /\ repayTask = "idle" /\ repayQueue # <<>>
  /\ LET r == Head(repayQueue)
     IN  loan' = Repaid(Accrued(loan, elapsed), r.amount, r.priority)
  /\ elapsed' = 0
  /\ repayQueue' = Tail(repayQueue)
  /\ repayTask' = "repayment"
  /\ UNCHANGED <<ltvVars, paidOffEvents, profitEvents, manuals, hours>>

\* Mutant: the loan counts as repaid only when more than the balance was taken.
CelebratesBalance(l) == l.balance < 0

\* is_loan_paid_off, asked when the repayment has been published.
Celebrates(l) == PaidOff(l)

\* publish_repayment returns; publish_loan_paid_off reads the metrics, which
\* accrues interest, and starts its own send.
RepaymentReturned ==
  /\ repayTask = "repayment"
  /\ IF Celebrates(loan)
       THEN /\ repayTask' = "paid_off"
            /\ loan' = Accrued(loan, elapsed) /\ elapsed' = 0
       ELSE repayTask' = "idle" /\ UNCHANGED ledgerVars
  /\ UNCHANGED <<ltvVars, repayQueue, paidOffEvents, profitEvents, manuals, hours>>

PaidOffReturned ==
  /\ repayTask = "paid_off" /\ repayTask' = "idle"
  /\ paidOffEvents' = "published"
  /\ UNCHANGED <<ledgerVars, ltvVars, repayQueue, profitEvents, manuals, hours>>

\* Mutant: the loop ends with the exception instead of going round again.
AfterRepayFailureDead == "dead"

AfterRepayFailure == "idle"

\* Either send raises: the rest of this round is skipped.
RepayLoopFailed ==
  /\ SendsMayFail
  /\ repayTask \in {"repayment", "paid_off"}
  /\ repayTask' = AfterRepayFailure
  /\ paidOffEvents' = IF PaidOff(loan) /\ paidOffEvents = "none"
                        THEN "lost" ELSE paidOffEvents
  /\ UNCHANGED <<ledgerVars, ltvVars, repayQueue, profitEvents, manuals, hours>>

-----------------------------------------------------------------------------
(* ltv_monitoring_loop.  A send is recorded in the task as `sent` when the *)
(* message has reached the broker; only then may it return.                *)

Delivery(sent) == sent \/ SendsMayFail

\* calculate_ltv, with its update_interest, and the start of publish_ltv_update.
LtvCheck(sent) ==
  /\ ltvTask.pc = "idle" /\ collateral > 0
  /\ Delivery(sent) /\ Len(ltv_updates) < MaxUnread
  /\ loan' = Accrued(loan, elapsed) /\ elapsed' = 0
  /\ LET ltv == LtvRatio(Accrued(loan, elapsed), collateral)
     IN  /\ ltvTask' = [pc |-> "update", ltv |-> ltv, amount |-> 0, left |-> 0,
                        sent |-> sent]
         /\ ltv_updates' = IF sent THEN Append(ltv_updates, ltv) ELSE ltv_updates
  /\ UNCHANGED <<repayVars, collateral, tracked, reserve_deployments,
                 hours>>

LtvSends(pc, ltv) ==
  [pc |-> pc, ltv |-> ltv, amount |-> 0, left |-> 0, sent |-> FALSE]

\* What the loop sends when it does not wait for a deployment, if anything.
ContinueLtv(ltv) ==
  ltvTask' = IF ScalingNeeded(ltv) THEN LtvSends("scaling", ltv)
             ELSE IF AlertNeeded(ltv) THEN LtvSends("alert", ltv)
             ELSE LtvIdle

\* publish_ltv_update returns: check_reserve_deployment sizes the deployment from
\* the reserves tracked now and starts to send it.
LtvUpdateReturned(sent) ==
  /\ ltvTask.pc = "update" /\ ltvTask.sent
  /\ IF DeploymentNeeded(ltvTask.ltv)
       THEN LET amount == DeploymentAmount(ltvTask.ltv)
            IN  /\ Delivery(sent) /\ Len(reserve_deployments) < MaxUnread
                /\ ltvTask' = [pc |-> "deploy", ltv |-> ltvTask.ltv,
                               amount |-> amount, left |-> tracked - amount,
                               sent |-> sent]
                /\ reserve_deployments' =
                     IF sent
                       THEN Append(reserve_deployments,
                                   [amount |-> amount,
                                    emergency |-> ltvTask.ltv >= 75])
                       ELSE reserve_deployments
       ELSE /\ sent /\ ContinueLtv(ltvTask.ltv)
            /\ UNCHANGED reserve_deployments
  /\ UNCHANGED <<ledgerVars, repayVars, collateral, tracked, ltv_updates, hours>>

\* available_reserves = deployment.to_reserve, computed before the send.
TrackedAfter(deployment) == deployment.left

\* Mutant: a deployment ends the check, scaling and alert are for checks without one.
AfterDeploymentDone(ltv) == ltvTask' = LtvIdle

\* Scaling and alert follow a deployment as they follow a check that needs none.
AfterDeployment(ltv) == ContinueLtv(ltv)

DeploymentReturned ==
  /\ ltvTask.pc = "deploy" /\ ltvTask.sent
  /\ tracked' = TrackedAfter(ltvTask)
  /\ AfterDeployment(ltvTask.ltv)
  /\ UNCHANGED <<ledgerVars, repayVars, collateral, ltv_updates,
                 reserve_deployments, hours>>

\* publish_position_scaling returns, publish_ltv_alert may follow.
ScalingReturned ==
  /\ ltvTask.pc = "scaling"
  /\ ltvTask' = IF AlertNeeded(ltvTask.ltv)
                  THEN [ltvTask EXCEPT !.pc = "alert"] ELSE LtvIdle
  /\ UNCHANGED <<ledgerVars, repayVars, collateral, tracked, ltv_updates,
                 reserve_deployments, hours>>

AlertReturned ==
  /\ ltvTask.pc = "alert" /\ ltvTask' = LtvIdle
  /\ UNCHANGED <<ledgerVars, repayVars, collateral, tracked, ltv_updates,
                 reserve_deployments, hours>>

\* Any send of the loop raises: the rest of this check is skipped.
LtvLoopFailed ==
  /\ SendsMayFail
  /\ ltvTask.pc # "idle" /\ ltvTask' = LtvIdle
  /\ UNCHANGED <<ledgerVars, repayVars, collateral, tracked, ltv_updates,
                 reserve_deployments, hours>>

-----------------------------------------------------------------------------

RepaymentLoop ==
  \/ ProcessRepayment
  \/ RepaymentReturned
  \/ PaidOffReturned
  \/ RepayLoopFailed

LtvLoop ==
  \/ \E sent \in BOOLEAN : LtvCheck(sent) \/ LtvUpdateReturned(sent)
  \/ DeploymentReturned
  \/ ScalingReturned
  \/ AlertReturned
  \/ LtvLoopFailed

Inputs ==
  \/ \E p \in Profits : HandleProfitEvent(p)
  \/ \E a \in ManualAmounts, priority \in Priorities : ManualRepayment(a, priority)
  \/ \E v \in BtcValues : HandlePositionUpdate(v)
  \/ \E a \in TreasuryFigures : HandleTreasuryUpdate(a)

\* The consumers of the two topics take messages when they like.
LtvUpdateConsumed ==
  /\ ltv_updates # <<>> /\ ltv_updates' = Tail(ltv_updates)
  /\ UNCHANGED <<ledgerVars, repayVars, collateral, tracked, ltvTask,
                 reserve_deployments, hours>>

DeploymentConsumed ==
  /\ reserve_deployments # <<>>
  /\ reserve_deployments' = Tail(reserve_deployments)
  /\ UNCHANGED <<ledgerVars, repayVars, collateral, tracked, ltvTask,
                 ltv_updates, hours>>

OutputConsumed == LtvUpdateConsumed \/ DeploymentConsumed

Next ==
  \/ Tick
  \/ AccrueInterest
  \/ RepaymentLoop
  \/ LtvLoop
  \/ Inputs
  \/ OutputConsumed

Spec == Init /\ [][Next]_vars

\* The two loops run on timers for as long as the service does, and what they send is
\* read.  A send may raise at any time, but one that is tried again and again succeeds
\* now and then: each has a strong fairness of its own, since a failure before it
\* takes away what enables it.
FairSpec ==
  /\ Spec
  /\ WF_vars(RepaymentLoop) /\ WF_vars(LtvLoop)
  /\ WF_vars(LtvUpdateConsumed) /\ WF_vars(DeploymentConsumed)
  /\ SF_vars(LtvCheck(TRUE)) /\ SF_vars(LtvUpdateReturned(TRUE))
  /\ SF_vars(DeploymentReturned) /\ SF_vars(ScalingReturned)

-----------------------------------------------------------------------------
(* Properties.                                                             *)

\* Every variable keeps its type: no payment drives an amount below zero.
TypeOK ==
  /\ loan \in Loans
  /\ elapsed \in Nat
  /\ repayQueue \in Seq(Repayment)
  /\ repayTask \in {"idle", "repayment", "paid_off"}
  /\ collateral \in Nat /\ tracked \in Nat
  /\ ltvTask \in LtvTasks
  /\ ltv_updates \in Seq(Nat)
  /\ reserve_deployments \in Seq([amount : Nat, emergency : BOOLEAN])
  /\ paidOffEvents \in {"none", "published", "lost"}
  /\ hours \in Nat /\ profitEvents \in Nat /\ manuals \in Nat

\* What was borrowed is owed or repaid, the interest that accrued is owed or paid,
\* and no payment is credited with more than its amount.
LoanBalanced ==
  /\ loan.balance + loan.principalPaid = Principal
  /\ loan.accrued + loan.interestPaid = loan.totalAccrued
  /\ loan.principalPaid + loan.interestPaid <= loan.totalPaid

\* A loan that is paid off stays paid off: neither the interest of the hours
\* that pass nor the repayments still queued reopen it.
PaidOffForGood == [][PaidOff(loan) => PaidOff(loan)']_vars

\* An automatic repayment that was alone in the queue is used up entirely,
\* although interest accrues and manual repayments arrive before it is processed.
LoneRepaymentUsedUp ==
  [][(repayTask = "idle" /\ repayTask' = "repayment"
        /\ Head(repayQueue).alone /\ Head(repayQueue).source = "trading_profit")
       => loan'.totalPaid - loan.totalPaid =
            (loan'.principalPaid - loan.principalPaid)
              + (loan'.interestPaid - loan.interestPaid)]_vars

\* A repayment that is queued is processed in the end.
RepaymentsDrain == repayQueue # <<>> ~> repayQueue = <<>>

\* A repaid loan is announced in the end, unless the send of its announcement or
\* of the repayment before it raises.
PaidOffAnnounced == PaidOff(loan) ~> paidOffEvents # "none"

HighLtv ==
  /\ collateral > 0
  /\ ScalingNeeded(LtvRatio(Accrued(loan, elapsed), collateral))

\* While the LTV stays high, position scalings keep being published.  The scaling is
\* the third send of a check, after the report and the request for reserves, and is
\* skipped when either raises; reports of the reserves and repayments come in between.
ScalingKeepsUp == <>[]HighLtv => []<><<ScalingReturned>>_vars

-----------------------------------------------------------------------------
(* What the code does not keep (see the README).                           *)

\* No repayment takes more than is owed ("Don't pay more than we owe").
NeverOverpaid == loan.totalPaid = loan.principalPaid + loan.interestPaid

=============================================================================
