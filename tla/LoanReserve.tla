---------------------------- MODULE LoanReserve ----------------------------
(***************************************************************************)
(* The loan manager and the reserve manager together, joined by the Kafka  *)
(* topics ltv_updates and reserve_deployments (loan manager to reserve     *)
(* manager) and treasury_updates (back).  Each topic is a queue; the       *)
(* reserve manager reads its two topics in any order between them.         *)
(*                                                                         *)
(* Everything is an action of LoanManager or ReserveManager; this module   *)
(* only ties a message sent to the message handled.  RequestAmounts,       *)
(* LtvPercents and TreasuryFigures generate nothing here: they are the     *)
(* messages that the two modules, alone, were checked against.             *)
(***************************************************************************)
EXTENDS Sequences, Integers

CONSTANTS
  Principal, HourlyPercent, MinPayment, AllocationPercent, ConfigPriority,
  AutoRepayEnabled, ReserveDeploymentEnabled, AlertOnHighLtv, AlertLtvPercent,
  InitialTracked, AllReserves, MinDeployment, BtcValues, TreasuryFigures,
  ManualAmounts, SendsMayFail, MaxHours, MaxProfitEvents, MaxManual, MaxUnread,
  InitialReserves, MinReserveBalance, MaxDeploymentPercent, EmergencyKeep,
  MinReserveAddition, TargetReservePercent, LowReserveThreshold,
  EmergencyDeploymentEnabled, RequestAmounts, LtvPercents, ManualActions,
  MaxRequests, MaxProfits, MaxRestarts, TierOne, TierTwo, Profits,
  MaxChecks              \* bound: checks of the LTV in a run

ASSUME ChecksAssumption == MaxChecks \in Nat

VARIABLES
  loan, elapsed, repayQueue, repayTask, collateral, tracked, ltvTask,
  paidOffEvents, hours, profitEvents, manuals,
  reserves, queue, task, alerts, announced, unannounced, profitIn, topUps,
  requests, profits, restarts,
  ltv_updates, reserve_deployments, treasury_updates,
  checks,            \* history: checks of the LTV
  asked, processed   \* history: requests the loan manager has put on its topic, and
                     \* those of them that the reserve manager has processed

L == INSTANCE LoanManager
R == INSTANCE ReserveManager

loanOnly == <<loan, elapsed, repayQueue, repayTask, collateral, tracked, ltvTask,
              paidOffEvents, hours, profitEvents, manuals>>
reserveOnly == <<reserves, queue, task, alerts, announced, unannounced, profitIn,
                 topUps, requests, profits, restarts>>
counts == <<checks, asked, processed>>
vars == <<loanOnly, reserveOnly, ltv_updates, reserve_deployments, treasury_updates,
          counts>>

Init == L!Init /\ R!Init /\ checks = 0 /\ asked = 0 /\ processed = 0

\* Mutant: a poll returns a batch, the first message is handled, the rest are lost.
AfterReadBatch(topic) == <<>>

\* One message is read and handled at a time.
AfterRead(topic) == Tail(topic)

-----------------------------------------------------------------------------

LtvStep ==
  /\ L!LtvLoop
  /\ checks' = checks + IF ltvTask.pc = "idle" THEN 1 ELSE 0
  /\ checks' <= MaxChecks
  /\ asked' = asked + (Len(reserve_deployments') - Len(reserve_deployments))
  /\ UNCHANGED <<reserveOnly, treasury_updates, processed>>

LoanStep ==
  /\ \/ L!Tick
     \/ L!AccrueInterest
     \/ \E v \in BtcValues : L!HandlePositionUpdate(v)
  /\ UNCHANGED <<reserveOnly, treasury_updates, counts>>

\* Taking a request off the queue is processing it.
TakesRequestOfLoan ==
  /\ queue # <<>> /\ queue' = Tail(queue)
  /\ Head(queue).requester = "loan_manager"

ReserveStep ==
  /\ R!DeploymentLoop
  /\ processed' = processed + IF TakesRequestOfLoan THEN 1 ELSE 0
  /\ UNCHANGED <<loanOnly, ltv_updates, reserve_deployments, checks, asked>>

\* The reserve manager reads an LTV update, which may ask for nothing.
ReserveReadsLtv ==
  /\ ltv_updates # <<>> /\ ltv_updates' = AfterRead(ltv_updates)
  /\ \/ R!HandleLtvUpdate(Head(ltv_updates))
     \/ /\ \/ Head(ltv_updates) < 65 \/ ~EmergencyDeploymentEnabled
           \/ R!DeploymentForLtv(Head(ltv_updates)) <= 0
        /\ UNCHANGED <<reserveOnly, treasury_updates>>
  /\ UNCHANGED <<loanOnly, reserve_deployments, counts>>

\* The reserve manager reads a deployment request.
ReserveReadsDeployment ==
  /\ reserve_deployments # <<>>
  /\ reserve_deployments' = AfterRead(reserve_deployments)
  /\ R!HandleDeploymentRequest(Head(reserve_deployments).amount,
                               Head(reserve_deployments).emergency)
  /\ UNCHANGED <<loanOnly, ltv_updates, counts>>

\* The loan manager reads what is available after a deployment.
LoanReadsTreasury ==
  /\ treasury_updates # <<>>
  /\ treasury_updates' = AfterRead(treasury_updates)
  /\ L!HandleTreasuryUpdate(Head(treasury_updates))
  /\ UNCHANGED <<reserveOnly, counts>>

Next ==
  \/ LtvStep
  \/ LoanStep
  \/ ReserveStep
  \/ ReserveReadsLtv
  \/ ReserveReadsDeployment
  \/ LoanReadsTreasury

Spec == Init /\ [][Next]_vars

\* Both services poll their topics and run their loops for as long as they live.
FairSpec ==
  /\ Spec
  /\ WF_vars(LtvStep)
  /\ WF_vars(ReserveStep)
  /\ WF_vars(ReserveReadsLtv)
  /\ WF_vars(ReserveReadsDeployment)
  /\ WF_vars(LoanReadsTreasury)

-----------------------------------------------------------------------------
(* Properties.                                                             *)

\* The loan manager, fed by the reserve manager, does nothing that LoanManager,
\* fed by arbitrary treasury figures, does not: what is shown of it alone holds
\* in the system.
LoanManagerImplemented == L!Spec

\* The same of the reserve manager, fed by the loan manager's requests.
ReserveManagerImplemented == R!Spec

\* Every request of the loan manager is processed in the end, behind whatever else is
\* queued and whatever raises, also when the reserve manager has acted on the LTV
\* update of the same check already.
RequestsProcessed ==
  \A k \in 1..MaxChecks : asked >= k ~> processed >= k

Quiet ==
  /\ ltvTask.pc = "idle" /\ task.pc = "idle" /\ queue = <<>>
  /\ ltv_updates = <<>> /\ reserve_deployments = <<>> /\ treasury_updates = <<>>

\* When nothing is on its way and no report was lost, the copy of the loan manager
\* holds no more than the reserve manager has ("Update local reserve tracking").
TrackedWithinAvailable == Quiet /\ unannounced = 0 => tracked <= reserves.available

\* One check of the LTV below 85% deploys at most what its tier says ("Deploy
\* proportionally between 3000 and 8000").
TierRespected ==
  checks <= 1 /\ ltvTask.ltv < 85 => reserves.deployed <= TierTwo

=============================================================================
