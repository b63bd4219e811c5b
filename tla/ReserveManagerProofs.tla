----------------------- MODULE ReserveManagerProofs ------------------------
(***************************************************************************)
(* Theorems about ReserveManager, for every value of its constants; and,   *)
(* at the end, about LoanReserve: that the loan manager and the reserve    *)
(* manager, fed by each other's messages, are what each was shown to be    *)
(* alone.                                                                  *)
(***************************************************************************)
EXTENDS ReserveManager, SequenceTheorems, TLAPS

\* A percentage of a nonnegative amount is nonnegative.
LEMMA PercentNat ==
  ASSUME NEW a \in Nat, NEW p \in Nat
  PROVE  Percent(a, p) \in Nat
<1>1. a * p \in Nat
  OBVIOUS
<1>2. QED
  BY <1>1 DEF Percent

\* It grows with the amount.
LEMMA PercentMonotone ==
  ASSUME NEW a \in Nat, NEW b \in Nat, NEW p \in Nat, a <= b
  PROVE  Percent(a, p) <= Percent(b, p)
<1>1. a * p \in Nat /\ b * p \in Nat /\ a * p <= b * p
  OBVIOUS
<1>2. ASSUME NEW x \in Nat, NEW y \in Nat, x <= y
      PROVE  x \div 100 <= y \div 100
  BY <1>2
<1>3. QED
  BY <1>1, <1>2 DEF Percent

\* The deployment limit is an amount, and a larger total never lowers it.
LEMMA MaxDeployableNat ==
  ASSUME NEW total \in Nat
  PROVE  MaxDeployable(total) \in Nat
<1>1. MaxDeploymentPercent \in Nat
  BY LimitsAssumption
<1>2. QED
  BY <1>1, PercentNat DEF MaxDeployable

\* The cap on deployments grows with the reserves.
LEMMA MaxDeployableMonotone ==
  ASSUME NEW total \in Nat, NEW more \in Nat, total <= more
  PROVE  MaxDeployable(total) <= MaxDeployable(more)
<1>1. MaxDeploymentPercent \in Nat
  BY LimitsAssumption
<1>2. QED
  BY <1>1, PercentMonotone DEF MaxDeployable

-----------------------------------------------------------------------------

Balances == [total : Nat, available : Int, deployed : Int,
             toCollateral : Int, toTrading : Int]

\* The inductive invariant.  LedgerBalanced links the sums; the floor needs the
\* clamp of AmountToDeploy, the cap also that profits only raise the total.
IInv == TypeOK /\ LedgerBalanced /\ ReserveFloor /\ DeploymentCap
               /\ CollateralAnnounced

\* What a deployment may take is an integer, and unless the request is an
\* emergency_deploy (whose amount moves nothing) it respects both limits.
LEMMA AmountWithinLimits ==
  ASSUME TypeOK, NEW r \in Request
  PROVE  /\ AmountToDeploy(r) \in Int
         /\ AmountToDeploy(r) > 0 /\ r.action # "emergency_deploy" =>
              /\ AmountToDeploy(r) <= reserves.available - MinReserveBalance
              /\ AmountToDeploy(r) <= MaxDeployable(reserves.total) - reserves.deployed
<1>1. MaxDeployable(reserves.total) \in Nat
  BY MaxDeployableNat DEF TypeOK
<1>2. DeployableAmount \in Nat
  BY <1>1, LimitsAssumption DEF DeployableAmount, Greater, Lesser, TypeOK
<1>3. DeployableAmount > 0 =>
        /\ DeployableAmount <= reserves.available - MinReserveBalance
        /\ DeployableAmount <= MaxDeployable(reserves.total) - reserves.deployed
  BY <1>1, LimitsAssumption DEF DeployableAmount, Greater, Lesser, TypeOK
<1>4. QED
  BY <1>1, <1>2, <1>3, LimitsAssumption
     DEF AmountToDeploy, Lesser, Request, TypeOK

\* process_deployment_request keeps the ledger balanced and within its limits,
\* and moves to collateral exactly what the record of a success says.
LEMMA ProcessedSound ==
  ASSUME TypeOK, LedgerBalanced, ReserveFloor, DeploymentCap, NEW r \in Request
  PROVE  /\ Processed(r) \in Balances
         /\ Processed(r).total = reserves.total
         /\ Processed(r).available + Processed(r).deployed = Processed(r).total
         /\ Processed(r).deployed = Processed(r).toCollateral + Processed(r).toTrading
         /\ Processed(r).available >= MinReserveBalance
         /\ Processed(r).deployed <= MaxDeployable(Processed(r).total)
         /\ Processed(r).toCollateral =
              reserves.toCollateral +
                IF AmountToDeploy(r) > 0 /\ r.action = "deploy_to_collateral"
                  THEN AmountToDeploy(r) ELSE 0
<1> DEFINE amount == AmountToDeploy(r)
<1>1. reserves \in Balances /\ MaxDeployable(reserves.total) \in Nat
  BY MaxDeployableNat DEF TypeOK, Balances
<1>2. amount \in Int
  BY AmountWithinLimits
<1>3. CASE amount <= 0
  BY <1>1, <1>2, <1>3 DEF Processed, LedgerBalanced, ReserveFloor, DeploymentCap,
                          Balances
<1>4. CASE amount > 0
  <2> DEFINE collateral == IF r.action = "deploy_to_collateral" THEN amount ELSE 0
             trading == IF r.action = "deploy_to_trading" THEN amount
                        ELSE IF r.action = "withdraw_from_trading" THEN -amount ELSE 0
  <2>1. Processed(r) = Moved(reserves, collateral, trading)
    BY <1>4 DEF Processed, UpdateDeployment
  <2>2. collateral \in Int /\ trading \in Int
    BY <1>2
  <2>3. collateral + trading > 0 =>
          /\ collateral + trading <= reserves.available - MinReserveBalance
          /\ collateral + trading <= MaxDeployable(reserves.total) - reserves.deployed
    BY <1>2, <1>4, AmountWithinLimits
  <2> HIDE DEF collateral, trading
  <2>4. QED
    <3>1. Processed(r) \in Balances
      BY <2>1, <2>2, <1>1 DEF Moved, Balances
    <3>2. collateral = IF r.action = "deploy_to_collateral" THEN amount ELSE 0
      BY DEF collateral
    <3>3. QED
      BY <3>1, <3>2, <2>1, <2>2, <2>3, <1>1, <1>4, LimitsAssumption
         DEF Moved, LedgerBalanced, ReserveFloor, DeploymentCap, Balances
<1>8. QED
  BY <1>2, <1>3, <1>4

\* A profit adds an integer share, which only raises total and available.
LEMMA ReserveShareInt ==
  ASSUME TypeOK, NEW profit \in Nat
  PROVE  ReserveShare(profit) \in Int
<1>1. /\ Percent(profit, 20) \in Nat
      /\ Percent(profit, 50) \in Nat
  BY PercentNat
<1>2. Percent(reserves.total + reserves.toTrading, TargetReservePercent) \in Int
  BY LimitsAssumption DEF Percent, TypeOK
<1>3. QED
  BY <1>1, <1>2, LimitsAssumption DEF ReserveShare, Lesser, Greater, TypeOK

\* An LTV update asks for an integer amount.
LEMMA DeploymentForLtvInt ==
  ASSUME TypeOK, NEW ltv \in Nat
  PROVE  DeploymentForLtv(ltv) \in Int
<1>1. /\ DeployableAmount \in Int
      /\ Greater(0, reserves.available - EmergencyKeep) \in Int
  <2>1. MaxDeployable(reserves.total) \in Int /\ reserves.available \in Int
        /\ reserves.deployed \in Int /\ EmergencyKeep \in Int
        /\ MinReserveBalance \in Int
    BY MaxDeployableNat, LimitsAssumption DEF TypeOK
  <2>2. QED
    BY <2>1 DEF DeployableAmount, Greater, Lesser
<1>2. /\ (TierOne * (ltv - 65)) \div 10 \in Int
      /\ TierOne + ((TierTwo - TierOne) * (ltv - 75)) \div 10 \in Int
  BY LimitsAssumption
<1>3. CASE ltv >= 85
  BY <1>1, <1>3 DEF DeploymentForLtv, DeploymentCapacity, Lesser
<1>4. CASE ~(ltv >= 85)
  BY <1>1, <1>2, <1>4 DEF DeploymentForLtv, DeploymentCapacity, Lesser
<1>5. QED
  BY <1>3, <1>4

\* The invariant holds of fresh reserves.
THEOREM InitIInv == Init => IInv
<1>1. 0 <= MaxDeployable(InitialReserves) /\ InitialReserves \in Nat
  BY MaxDeployableNat, LimitsAssumption
<1>2. QED
  BY <1>1, LimitsAssumption
     DEF Init, IInv, TypeOK, LedgerBalanced, ReserveFloor, DeploymentCap,
         CollateralAnnounced, FreshReserves, Idle, DeploymentActions

\* A new request leaves the ledger alone.
LEMMA EnqueueStep ==
  ASSUME IInv, NEW amount \in Int, NEW action \in DeploymentActions,
         NEW emergency \in BOOLEAN, NEW requester \in Requesters,
         Enqueue(amount, action, emergency, requester), Counted, UNCHANGED profits
  PROVE  IInv'
<1>1. [amount |-> amount, action |-> action, emergency |-> emergency,
       requester |-> requester] \in Request
  BY DEF Enqueue, Request
<1>2. queue' \in Seq(Request)
  BY <1>1 DEF Enqueue, IInv, TypeOK
<1>3. QED
  BY <1>2 DEF Enqueue, Counted, IInv, TypeOK, LedgerBalanced, ReserveFloor,
              DeploymentCap, CollateralAnnounced, ledger, income, history

\* A profit event keeps the invariant: what it adds is added to both sides.
LEMMA ProfitStep ==
  ASSUME IInv, NEW profit \in Nat, HandleProfitEvent(profit)
  PROVE  IInv'
<1> DEFINE share == Greater(0, ReserveShare(profit))
<1>1. share \in Nat
  BY ReserveShareInt DEF Greater, IInv
<1>2. /\ reserves' = Credited(reserves, share)
      /\ profitIn' \in Nat /\ topUps' \in Nat /\ profits' \in Nat
      /\ UNCHANGED <<queue, task, treasury_updates, alerts, announced,
                     unannounced, requests, restarts>>
  BY LimitsAssumption DEF HandleProfitEvent, history, Greater, IInv, TypeOK
<1> HIDE DEF share
<1>3. reserves'.total = reserves.total + share /\ reserves.total \in Nat
  BY <1>1, <1>2 DEF Credited, IInv, TypeOK
<1>4. MaxDeployable(reserves.total) <= MaxDeployable(reserves'.total)
  BY <1>1, <1>3, MaxDeployableMonotone
<1>5. MaxDeployable(reserves.total) \in Nat /\ MaxDeployable(reserves'.total) \in Nat
  BY <1>1, <1>3, MaxDeployableNat
<1>6. TypeOK'
  <2>1. reserves' \in Balances
    BY <1>1, <1>2 DEF Credited, IInv, TypeOK, Balances
  <2>2. QED
    BY <2>1, <1>2 DEF IInv, TypeOK, Balances
<1>7. LedgerBalanced' /\ ReserveFloor' /\ DeploymentCap'
  <2>1. /\ reserves'.total = reserves.total + share
        /\ reserves'.available = reserves.available + share
        /\ reserves'.deployed = reserves.deployed
        /\ reserves'.toCollateral = reserves.toCollateral
        /\ reserves'.toTrading = reserves.toTrading
    BY <1>2 DEF Credited
  <2>2. reserves \in Balances /\ MinReserveBalance \in Nat
    BY LimitsAssumption DEF IInv, TypeOK, Balances
  <2>3. LedgerBalanced' /\ ReserveFloor'
    BY <1>1, <2>1, <2>2 DEF IInv, LedgerBalanced, ReserveFloor, Balances
  <2>4. DeploymentCap'
    BY <1>4, <1>5, <2>1, <2>2 DEF IInv, DeploymentCap, Balances
  <2>5. QED
    BY <2>3, <2>4
<1>8. CollateralAnnounced'
  BY <1>2 DEF Credited, IInv, CollateralAnnounced
<1>9. QED
  BY <1>6, <1>7, <1>8 DEF IInv

\* Processing the head of the queue keeps the invariant, whatever the action.
LEMMA ProcessStep ==
  ASSUME IInv, ProcessDeployment
  PROVE  IInv'
<1> DEFINE r == Head(queue)
<1>1. r \in Request /\ queue' \in Seq(Request)
  BY DEF ProcessDeployment, IInv, TypeOK
<1>2. /\ reserves' = Processed(r)
      /\ task' = [pc |-> "result", amount |-> AmountToDeploy(r),
                  success |-> AmountToDeploy(r) > 0, action |-> r.action]
      /\ task.pc = "idle"
      /\ UNCHANGED <<treasury_updates, alerts, announced, unannounced, profitIn,
                     topUps, requests, profits, restarts>>
  BY DEF ProcessDeployment, history, income
<1>3. AmountToDeploy(r) \in Int /\ r.action \in DeploymentActions
  BY <1>1, AmountWithinLimits DEF IInv, Request
<1> HIDE DEF r
<1>4. TypeOK'
  BY <1>1, <1>2, <1>3, ProcessedSound DEF IInv, TypeOK, Balances
<1>5. LedgerBalanced' /\ ReserveFloor' /\ DeploymentCap'
  BY <1>1, <1>2, ProcessedSound
     DEF IInv, LedgerBalanced, ReserveFloor, DeploymentCap
<1>6. CollateralAnnounced'
  <2>1. /\ task'.pc = "result" /\ task'.amount = AmountToDeploy(r)
        /\ task'.action = r.action
        /\ task'.success <=> AmountToDeploy(r) > 0
    BY <1>2
  <2>2. reserves'.toCollateral =
          reserves.toCollateral +
            IF AmountToDeploy(r) > 0 /\ r.action = "deploy_to_collateral"
              THEN AmountToDeploy(r) ELSE 0
    BY <1>1, <1>2, ProcessedSound DEF IInv
  <2>3. reserves.toCollateral = announced + unannounced
        /\ announced \in Int /\ unannounced \in Int
    BY <1>2 DEF IInv, CollateralAnnounced, TypeOK
  <2>4. QED
    BY <1>2, <1>3, <2>1, <2>2, <2>3 DEF CollateralAnnounced
<1>7. QED
  BY <1>4, <1>5, <1>6 DEF IInv

\* A withdrawal outside the queue: the deployment loop may be suspended on
\* another record meanwhile.
LEMMA WithdrawStep ==
  ASSUME IInv, NEW amount \in Int, Withdraw(amount), requests' \in Nat
  PROVE  IInv'
<1> DEFINE r == [amount |-> amount, action |-> "withdraw_from_trading",
                 emergency |-> FALSE, requester |-> "reserve_manager"]
<1>1. /\ r \in Request /\ r.action = "withdraw_from_trading"
      /\ reserves' = Processed(r)
      /\ UNCHANGED <<queue, task, treasury_updates, alerts, announced,
                     unannounced, profitIn, topUps, profits, restarts>>
  BY DEF Withdraw, Request, Requesters, DeploymentActions, history, income
<1> HIDE DEF r
<1>2. TypeOK'
  BY <1>1, ProcessedSound DEF IInv, TypeOK, Balances
<1>3. LedgerBalanced' /\ ReserveFloor' /\ DeploymentCap'
  BY <1>1, ProcessedSound DEF IInv, LedgerBalanced, ReserveFloor, DeploymentCap
<1>4. CollateralAnnounced'
  BY <1>1, ProcessedSound DEF IInv, CollateralAnnounced, TypeOK
<1>5. QED
  BY <1>2, <1>3, <1>4 DEF IInv

\* The rest of the deployment loop only moves the announcement along.
LEMMA PublishStep ==
  ASSUME IInv,
         \/ \E delivered \in BOOLEAN : ResultPublished(delivered)
         \/ ResultFailed
         \/ UpdateReturned
  PROVE  IInv'
<1>1. /\ UNCHANGED <<reserves, profitIn, topUps, queue, alerts, requests, profits, restarts>>
      /\ task' \in [pc : {"idle", "result", "update"}, amount : Int,
                    success : BOOLEAN, action : DeploymentActions]
      /\ task'.pc \in {"idle", "update"}
  BY DEF ResultPublished, ResultFailed, UpdateReturned, Suspended,
         AfterFailedResult, ledger, income, IInv, TypeOK
<1>2. treasury_updates' \in Seq(Int)
  <2>1. treasury_updates \in Seq(Int) /\ reserves.available \in Int
    BY DEF IInv, TypeOK
  <2>2. Append(treasury_updates, reserves.available) \in Seq(Int)
    BY <2>1
  <2>3. \/ treasury_updates' = treasury_updates
        \/ treasury_updates' = Append(treasury_updates, reserves.available)
    BY DEF ResultPublished, ResultFailed, UpdateReturned
  <2>4. QED
    BY <2>1, <2>2, <2>3
<1>3. announced' \in Int /\ unannounced' \in Int
  BY SMTT(30) DEF ResultPublished, ResultFailed, UpdateReturned, NotifiesTreasury,
         history, IInv, TypeOK
<1>4. announced' + unannounced' =
        announced + unannounced +
          IF task.pc = "result" /\ task.success
                                /\ task.action = "deploy_to_collateral"
            THEN task.amount ELSE 0
  BY SMTT(30) DEF ResultPublished, ResultFailed, UpdateReturned, NotifiesTreasury,
         history, IInv, TypeOK
<1>5. TypeOK'
  BY <1>1, <1>2, <1>3 DEF IInv, TypeOK
<1>6. CollateralAnnounced'
  BY <1>1, <1>3, <1>4 DEF IInv, TypeOK, CollateralAnnounced
<1>7. QED
  BY <1>1, <1>5, <1>6 DEF IInv, LedgerBalanced, ReserveFloor, DeploymentCap

\* Every step of the service keeps the invariant.
THEOREM StepIInv == IInv /\ [Next]_vars => IInv'
<1> SUFFICES ASSUME IInv, [Next]_vars
             PROVE  IInv'
  OBVIOUS
<1>1. CASE DeploymentLoop
  BY <1>1, ProcessStep, PublishStep DEF DeploymentLoop
<1>2. CASE RebalanceCheck
  <2>1. Percent(reserves.toTrading, 20) \in Int /\ requests' \in Nat
    BY <1>2 DEF RebalanceCheck, Percent, IInv, TypeOK
  <2>2. QED
    BY <1>2, <2>1, WithdrawStep DEF RebalanceCheck
<1>3. CASE AlertCheck
  BY <1>3 DEF AlertCheck, IInv, TypeOK, LedgerBalanced, ReserveFloor,
              DeploymentCap, CollateralAnnounced, ledger, income, history
<1>4. CASE Inputs
  <2>1. CASE \E a \in RequestAmounts, e \in BOOLEAN : HandleDeploymentRequest(a, e)
    BY <2>1, InputsAssumption, EnqueueStep
       DEF HandleDeploymentRequest, DeploymentActions, Requesters
  <2>2. CASE \E ltv \in LtvPercents : HandleLtvUpdate(ltv)
    <3>1. PICK ltv \in LtvPercents : HandleLtvUpdate(ltv)
      BY <2>2
    <3>2. DeploymentForLtv(ltv) \in Int /\ (ltv >= 85) \in BOOLEAN
      BY DeploymentForLtvInt, InputsAssumption DEF IInv
    <3>3. QED
      BY <3>1, <3>2, EnqueueStep DEF HandleLtvUpdate, DeploymentActions, Requesters
  <2>3. CASE \E p \in Profits : HandleProfitEvent(p)
    BY <2>3, InputsAssumption, ProfitStep
  <2>4. CASE \E a \in RequestAmounts, m \in ManualActions, e \in BOOLEAN :
               ManualDeployment(a, m, e)
    BY <2>4, InputsAssumption, EnqueueStep DEF ManualDeployment, Requesters
  <2>5. CASE \E a \in RequestAmounts : ManualWithdrawal(a)
    BY <2>5, InputsAssumption, WithdrawStep
       DEF ManualWithdrawal, Counted, IInv, TypeOK
  <2>6. QED
    BY <1>4, <2>1, <2>2, <2>3, <2>4, <2>5 DEF Inputs
<1>5. CASE TreasuryUpdateConsumed
  <2>1. treasury_updates' \in Seq(Int)
    BY <1>5 DEF TreasuryUpdateConsumed, IInv, TypeOK
  <2>2. QED
    BY <1>5, <2>1 DEF TreasuryUpdateConsumed, IInv, TypeOK, LedgerBalanced,
                      ReserveFloor, DeploymentCap, CollateralAnnounced,
                      ledger, income, history
<1>6. CASE Restart
  <2>1. 0 <= MaxDeployable(InitialReserves) /\ InitialReserves \in Nat
    BY MaxDeployableNat, LimitsAssumption
  <2>2. QED
    BY <1>6, <2>1, LimitsAssumption
       DEF Restart, IInv, TypeOK, LedgerBalanced, ReserveFloor, DeploymentCap,
           CollateralAnnounced, FreshReserves, Idle, DeploymentActions
<1>7. CASE UNCHANGED vars
  BY <1>7 DEF vars, IInv, TypeOK, LedgerBalanced, ReserveFloor, DeploymentCap,
              CollateralAnnounced
<1>8. QED
  BY <1>1, <1>2, <1>3, <1>4, <1>5, <1>6, <1>7 DEF Next

-----------------------------------------------------------------------------

\* The invariant always holds.
THEOREM Invariance == Spec => []IInv
BY InitIInv, StepIInv, PTL DEF Spec

\* Every variable keeps its type.
THEOREM TypeCorrect == Spec => []TypeOK
<1>1. IInv => TypeOK
  BY DEF IInv
<1>2. QED
  BY <1>1, Invariance, PTL

\* The five balances of the reserve ledger always describe the same money.
THEOREM LedgerAlwaysBalanced == Spec => []LedgerBalanced
<1>1. IInv => LedgerBalanced
  BY DEF IInv
<1>2. QED
  BY <1>1, Invariance, PTL

\* No sequence of queued requests, from messages, LTV updates and the API, takes more
\* than its last one may: an ordinary request leaves the minimum reserve, an emergency
\* at least $100.
THEOREM FloorAlwaysKept == Spec => RequestsKeepFloor
<1> DEFINE Kept == reserves'.available < reserves.available /\ restarts' = restarts
                     => reserves'.available >= FloorOf(Head(queue))
<1>1. IInv /\ IInv' /\ [Next]_vars => [Kept]_vars
  <2> SUFFICES ASSUME IInv, IInv' PROVE Kept
    OBVIOUS
  <2>1. reserves'.available \in Int /\ reserves'.available >= MinReserveBalance
    BY DEF IInv, TypeOK, ReserveFloor
  <2>2. FloorOf(Head(queue)) \in {EmergencyKeep, MinReserveBalance}
    BY DEF FloorOf
  <2>3. FloorOf(Head(queue)) \in Int /\ FloorOf(Head(queue)) <= MinReserveBalance
    BY <2>2, LimitsAssumption
  <2>4. MinReserveBalance \in Int
    BY LimitsAssumption
  <2>5. QED
    BY <2>1, <2>3, <2>4
<1>2. QED
  BY <1>1, Invariance, PTL DEF Spec, RequestsKeepFloor

\* No sequence of requests deploys more than max_deployment_percent.
THEOREM CapAlwaysKept == Spec => []DeploymentCap
<1>1. IInv => DeploymentCap
  BY DEF IInv
<1>2. QED
  BY <1>1, Invariance, PTL

\* Collateral that moved is announced once unless a publication failed.
THEOREM CollateralAlwaysAnnounced == Spec => []CollateralAnnounced
<1>1. IInv => CollateralAnnounced
  BY DEF IInv
<1>2. QED
  BY <1>1, Invariance, PTL

-----------------------------------------------------------------------------
(* ReservesBacked: a profit adds at most itself, or the minimum addition    *)
(* when that is more.                                                      *)

\* What the reserves take of a profit is no more than the profit and what the minimum
\* addition puts on top of it.
LEMMA ShareWithinProfit ==
  ASSUME TypeOK, NEW profit \in Nat
  PROVE  ReserveShare(profit) <= profit + Greater(0, MinReserveAddition - profit)
<1>1. ASSUME NEW x \in Nat, NEW y \in 0..100
      PROVE  Percent(x, y) \in Int /\ Percent(x, y) <= x
  <2>1. x * y \in Nat /\ x * y <= x * 100
    BY <1>1
  <2>2. QED
    BY <2>1 DEF Percent
<1>2. /\ Percent(profit, 20) \in Int /\ Percent(profit, 20) <= profit
      /\ Percent(profit, 50) \in Int /\ Percent(profit, 50) <= profit
  BY <1>1
<1>3. Percent(reserves.total + reserves.toTrading, TargetReservePercent)
        - reserves.total \in Int
  BY LimitsAssumption DEF Percent, TypeOK
<1>4. QED
  BY <1>2, <1>3, LimitsAssumption DEF ReserveShare, Lesser, Greater

\* Whatever profits come in, the reserves never hold more than the initial reserves, the
\* profit and the additions on top of small profits.
THEOREM ReservesStayBacked == Spec => []ReservesBacked
<1>1. Init => ReservesBacked
  BY LimitsAssumption DEF Init, ReservesBacked, FreshReserves
<1>2. IInv /\ ReservesBacked /\ [Next]_vars => ReservesBacked'
  <2> SUFFICES ASSUME IInv, ReservesBacked, [Next]_vars
               PROVE  ReservesBacked'
    OBVIOUS
  <2>1. CASE \E p \in Profits : HandleProfitEvent(p)
    <3>1. PICK p \in Profits : HandleProfitEvent(p)
      BY <2>1
    <3> DEFINE top == Greater(0, MinReserveAddition - p)
    <3>2. p \in Nat /\ top \in Nat
      BY InputsAssumption, LimitsAssumption DEF Greater
    <3>3. ReserveShare(p) \in Int /\ ReserveShare(p) <= p + top
      BY <3>2, ReserveShareInt, ShareWithinProfit DEF IInv
    <3>4. /\ reserves'.total = reserves.total + Greater(0, ReserveShare(p))
          /\ profitIn' = profitIn + p /\ topUps' = topUps + top
      BY <3>1 DEF HandleProfitEvent, Credited
    <3> HIDE DEF top
    <3>5. Greater(0, ReserveShare(p)) \in Int /\ Greater(0, ReserveShare(p)) <= p + top
      BY <3>2, <3>3 DEF Greater
    <3>6. reserves.total \in Nat /\ profitIn \in Nat /\ topUps \in Nat
          /\ InitialReserves \in Nat
      BY LimitsAssumption DEF IInv, TypeOK
    <3>7. QED
      BY <3>2, <3>4, <3>5, <3>6 DEF ReservesBacked
  <2>2. CASE Restart
    BY <2>2, LimitsAssumption DEF Restart, ReservesBacked, FreshReserves
  <2>3. CASE ~(\E p \in Profits : HandleProfitEvent(p)) /\ ~Restart
    <3>1. /\ reserves'.total = reserves.total
          /\ profitIn' = profitIn /\ topUps' = topUps
      <4>1. \A r \in Request : Processed(r).total = reserves.total
        BY ProcessedSound DEF IInv
      <4>2. CASE ProcessDeployment
        BY <4>1, <4>2 DEF ProcessDeployment, income, IInv, TypeOK
      <4>3. CASE RebalanceCheck \/ \E a \in RequestAmounts : ManualWithdrawal(a)
        <5>1. PICK amount \in Int : Withdraw(amount)
          BY <4>3, InputsAssumption
             DEF RebalanceCheck, ManualWithdrawal, Percent, IInv, TypeOK
        <5>2. [amount |-> amount, action |-> "withdraw_from_trading",
               emergency |-> FALSE, requester |-> "reserve_manager"] \in Request
          BY <5>1 DEF Withdraw, Request, Requesters, DeploymentActions
        <5>3. QED
          BY <5>1, <5>2, <4>1 DEF Withdraw, income
      <4>4. CASE ~ProcessDeployment /\ ~RebalanceCheck
                 /\ ~(\E a \in RequestAmounts : ManualWithdrawal(a))
        BY <4>4, <2>3 DEF Next, vars, DeploymentLoop, Inputs, ResultPublished,
             ResultFailed, UpdateReturned, AlertCheck, TreasuryUpdateConsumed,
             HandleDeploymentRequest, HandleLtvUpdate, ManualDeployment, Enqueue,
             ledger, income
      <4>5. QED
        BY <4>2, <4>3, <4>4
    <3>2. QED
      BY <3>1 DEF ReservesBacked
  <2>4. QED
    BY <2>1, <2>2, <2>3
<1>3. QED
  BY <1>1, <1>2, Invariance, PTL DEF Spec

-----------------------------------------------------------------------------
(* The balances stay nonnegative unless a withdrawal is posted as a        *)
(* deployment: update_deployment does not compare it with what is in       *)
(* trading, as withdraw_from_trading does.                                 *)

NoWithdrawalPosted == "withdraw_from_trading" \notin ManualActions

NonNegative ==
  reserves \in [total : Nat, available : Nat, deployed : Nat,
                toCollateral : Nat, toTrading : Nat]

\* The inductive form: every withdrawal is compared, so none waits in the queue.
PartsNonNegative ==
  /\ reserves.toCollateral >= 0 /\ reserves.toTrading >= 0
  /\ \A i \in 1..Len(queue) : queue[i].action # "withdraw_from_trading"

\* Processing takes no more out of a part than is in it, when a withdrawal does not
\* ask for more.
LEMMA ProcessedParts ==
  ASSUME IInv, NEW r \in Request,
         reserves.toCollateral >= 0, reserves.toTrading >= 0,
         r.action = "withdraw_from_trading" => r.amount <= reserves.toTrading
  PROVE  Processed(r).toCollateral >= 0 /\ Processed(r).toTrading >= 0
<1> DEFINE amount == AmountToDeploy(r)
<1>1. amount \in Int /\ reserves.toCollateral \in Int /\ reserves.toTrading \in Int
  BY AmountWithinLimits DEF IInv, TypeOK
<1>2. r.amount \in Nat
  BY DEF Request
<1>3. r.action = "withdraw_from_trading" => amount <= r.amount
  <2>1. DeployableAmount \in Int
    <3>1. MaxDeployable(reserves.total) \in Nat
      BY MaxDeployableNat DEF IInv, TypeOK
    <3>2. QED
      BY <3>1, LimitsAssumption DEF IInv, TypeOK, DeployableAmount, Greater, Lesser
  <2>2. QED
    BY <1>2, <2>1 DEF AmountToDeploy, Lesser
<1>4. Processed(r) = IF amount > 0 THEN UpdateDeployment(reserves, amount, r.action)
                                   ELSE reserves
  BY DEF Processed
<1> HIDE DEF amount
<1>5. QED
  BY <1>1, <1>2, <1>3, <1>4 DEF UpdateDeployment, Moved

\* No balance ever becomes negative, whatever is queued, deployed, withdrawn or lost:
\* a withdrawal posted to /deployment/manual is the only step that can do it.
THEOREM BalancesNonNegative ==
  ASSUME NoWithdrawalPosted
  PROVE  Spec => []NonNegative
<1>1. Init => PartsNonNegative
  BY DEF Init, PartsNonNegative, FreshReserves
<1>2. IInv /\ PartsNonNegative /\ [Next]_vars => PartsNonNegative'
  <2> SUFFICES ASSUME IInv, PartsNonNegative, [Next]_vars
               PROVE  PartsNonNegative'
    OBVIOUS
  <2>0. /\ reserves.toCollateral \in Int /\ reserves.toTrading \in Int
        /\ queue \in Seq(Request) /\ Len(queue) \in Nat
    BY DEF IInv, TypeOK
  <2>1. CASE UNCHANGED <<reserves, queue>>
    BY <2>1 DEF PartsNonNegative
  <2>2. ASSUME NEW amount, NEW action \in DeploymentActions \ {"withdraw_from_trading"},
               NEW emergency, NEW requester,
               Enqueue(amount, action, emergency, requester)
        PROVE  PartsNonNegative'
    <3> DEFINE r == [amount |-> amount, action |-> action, emergency |-> emergency,
                     requester |-> requester]
    <3>1. UNCHANGED reserves /\ queue' = Append(queue, r)
      BY <2>2 DEF Enqueue, ledger
    <3>2. r.action # "withdraw_from_trading"
      OBVIOUS
    <3> HIDE DEF r
    <3>3. /\ Len(queue') = Len(queue) + 1 /\ queue'[Len(queue) + 1] = r
          /\ \A i \in 1..Len(queue) : queue'[i] = queue[i]
      BY <2>0, <3>1
    <3>4. ASSUME NEW i \in 1..Len(queue')
          PROVE  queue'[i].action # "withdraw_from_trading"
      <4>1. CASE i = Len(queue) + 1
        BY <3>2, <3>3, <4>1
      <4>2. CASE i \in 1..Len(queue)
        BY <3>3, <4>2 DEF PartsNonNegative
      <4>3. QED
        BY <2>0, <3>3, <4>1, <4>2
    <3>5. QED
      BY <3>1, <3>4 DEF PartsNonNegative
  <2>3. ASSUME NEW a \in Int, NEW e \in BOOLEAN, HandleDeploymentRequest(a, e)
        PROVE  PartsNonNegative'
    BY <2>2, <2>3 DEF HandleDeploymentRequest, DeploymentActions
  <2>4. ASSUME NEW ltv \in Int, HandleLtvUpdate(ltv)
        PROVE  PartsNonNegative'
    BY <2>2, <2>4 DEF HandleLtvUpdate, DeploymentActions
  <2>5. ASSUME NEW a \in Int, NEW m \in ManualActions, NEW e \in BOOLEAN,
               ManualDeployment(a, m, e)
        PROVE  PartsNonNegative'
    BY <2>2, <2>5, InputsAssumption DEF ManualDeployment, NoWithdrawalPosted
  <2>6. CASE ProcessDeployment
    <3> DEFINE r == Head(queue)
    <3>1. queue # <<>> /\ reserves' = Processed(r) /\ queue' = Tail(queue)
      BY <2>6 DEF ProcessDeployment
    <3>2. /\ r \in Request /\ r = queue[1] /\ 1 \in 1..Len(queue)
          /\ Len(queue') = Len(queue) - 1
          /\ \A i \in 1..Len(queue') : queue'[i] = queue[i + 1]
      BY <2>0, <3>1
    <3> HIDE DEF r
    <3>3. r.action # "withdraw_from_trading"
      BY <3>2 DEF PartsNonNegative
    <3>4. reserves'.toCollateral >= 0 /\ reserves'.toTrading >= 0
      BY <3>1, <3>2, <3>3, ProcessedParts DEF PartsNonNegative
    <3>5. ASSUME NEW i \in 1..Len(queue')
          PROVE  queue'[i].action # "withdraw_from_trading"
      <4>1. i + 1 \in 1..Len(queue) /\ queue'[i] = queue[i + 1]
        BY <2>0, <3>2
      <4>2. QED
        BY <4>1 DEF PartsNonNegative
    <3>6. QED
      BY <3>4, <3>5 DEF PartsNonNegative
  <2>7. ASSUME NEW amount \in Int, Withdraw(amount)
        PROVE  PartsNonNegative'
    <3> DEFINE r == [amount |-> amount, action |-> "withdraw_from_trading",
                     emergency |-> FALSE, requester |-> "reserve_manager"]
    <3>1. /\ r \in Request /\ r.amount <= reserves.toTrading
          /\ reserves' = Processed(r) /\ UNCHANGED queue
      BY <2>7 DEF Withdraw, Request, Requesters, DeploymentActions
    <3> HIDE DEF r
    <3>2. reserves'.toCollateral >= 0 /\ reserves'.toTrading >= 0
      BY <3>1, ProcessedParts DEF PartsNonNegative
    <3>3. QED
      BY <3>1, <3>2 DEF PartsNonNegative
  <2>8. CASE RebalanceCheck
    <3>1. Percent(reserves.toTrading, 20) \in Int
      BY <2>0 DEF Percent
    <3>2. QED
      BY <2>7, <2>8, <3>1 DEF RebalanceCheck
  <2>9. ASSUME NEW a \in RequestAmounts, ManualWithdrawal(a)
        PROVE  PartsNonNegative'
    BY <2>7, <2>9, InputsAssumption DEF ManualWithdrawal
  <2>10. ASSUME NEW p \in Profits, HandleProfitEvent(p)
         PROVE  PartsNonNegative'
    BY <2>10 DEF HandleProfitEvent, Credited, PartsNonNegative
  <2>11. CASE Restart
    <3>1. reserves' = FreshReserves /\ Len(queue') = 0
      BY <2>11 DEF Restart
    <3>2. QED
      BY <3>1 DEF FreshReserves, PartsNonNegative
  <2>12. (\E d \in BOOLEAN : ResultPublished(d)) \/ ResultFailed \/ UpdateReturned
           \/ AlertCheck \/ TreasuryUpdateConsumed \/ UNCHANGED vars
           => UNCHANGED <<reserves, queue>>
    BY DEF ResultPublished, ResultFailed, UpdateReturned, AlertCheck,
           TreasuryUpdateConsumed, ledger, vars
  <2>13. RequestAmounts \subseteq Int /\ LtvPercents \subseteq Int
    BY InputsAssumption
  <2>14. CASE DeploymentLoop \/ AlertCheck \/ TreasuryUpdateConsumed \/ UNCHANGED vars
    BY <2>1, <2>6, <2>12, <2>14 DEF DeploymentLoop
  <2>15. CASE Inputs
    BY <2>3, <2>4, <2>5, <2>9, <2>10, <2>13, <2>15 DEF Inputs
  <2>16. QED
    BY <2>8, <2>11, <2>14, <2>15 DEF Next
<1>3. IInv /\ PartsNonNegative => NonNegative
  BY LimitsAssumption DEF IInv, TypeOK, LedgerBalanced, ReserveFloor, PartsNonNegative,
                          NonNegative
<1>4. QED
  BY <1>1, <1>2, <1>3, Invariance, PTL DEF Spec

-----------------------------------------------------------------------------
(* The loan manager and the reserve manager together (LoanReserve).  Each  *)
(* of them, fed by the other, keeps the messages of the other in range, so *)
(* the invariants of both are needed to show that either is implemented.   *)

CONSTANTS
  Principal, HourlyPercent, MinPayment, AllocationPercent, ConfigPriority,
  AutoRepayEnabled, ReserveDeploymentEnabled, AlertOnHighLtv, AlertLtvPercent,
  InitialTracked, AllReserves, MinDeployment, BtcValues, TreasuryFigures,
  ManualAmounts, SendsMayFail, MaxHours, MaxProfitEvents, MaxManual, MaxUnread,
  MaxChecks

VARIABLES
  loan, elapsed, repayQueue, repayTask, collateral, tracked, ltvTask,
  paidOffEvents, hours, profitEvents, manuals, ltv_updates, reserve_deployments,
  checks, asked, processed

System == INSTANCE LoanReserve
Loan == INSTANCE LoanManagerProofs

\* Alone, either service is given every message there could be.
EveryMessage ==
  TreasuryFigures = Nat /\ RequestAmounts = Nat \ {0} /\ LtvPercents = Nat

\* LoanReserve's instances of the two specifications are the specifications that
\* the theorems are about.
LEMMA SameLoan ==
  /\ System!L!Init <=> Loan!Init
  /\ System!L!Next <=> Loan!Next
  /\ System!L!LtvLoop <=> Loan!LtvLoop
  /\ UNCHANGED System!L!vars <=> UNCHANGED Loan!vars
  BY DEF System!L!Init, Loan!Init, System!L!LtvIdle, Loan!LtvIdle, System!L!vars,
         Loan!vars, System!L!ltvVars,
         Loan!ltvVars, System!L!repayVars, Loan!repayVars, System!L!ledgerVars,
         Loan!ledgerVars, System!L!Interest, Loan!Interest, System!L!Accrued,
         Loan!Accrued, System!L!TotalOwed, Loan!TotalOwed, System!L!PaidOff,
         Loan!PaidOff, System!L!PrincipalPortion, Loan!PrincipalPortion,
         System!L!InterestPortion, Loan!InterestPortion, System!L!Repaid,
         Loan!Repaid, System!L!RepaymentFromProfit, Loan!RepaymentFromProfit,
         System!L!LtvRatio, Loan!LtvRatio, System!L!WantedDeployment,
         Loan!WantedDeployment, System!L!DeploymentAmount, Loan!DeploymentAmount,
         System!L!DeploymentNeeded, Loan!DeploymentNeeded, System!L!ScalingNeeded,
         Loan!ScalingNeeded, System!L!AlertNeeded, Loan!AlertNeeded, System!L!Tick,
         Loan!Tick, System!L!Queue, Loan!Queue, System!L!HandleProfitEvent,
         Loan!HandleProfitEvent, System!L!ManualRepayment, Loan!ManualRepayment,
         System!L!HandlePositionUpdate, Loan!HandlePositionUpdate,
         System!L!HandleTreasuryUpdate, Loan!HandleTreasuryUpdate,
         System!L!AccrueInterest, Loan!AccrueInterest, System!L!ProcessRepayment,
         Loan!ProcessRepayment, System!L!Celebrates, Loan!Celebrates,
         System!L!RepaymentReturned, Loan!RepaymentReturned,
         System!L!PaidOffReturned, Loan!PaidOffReturned, System!L!AfterRepayFailure,
         Loan!AfterRepayFailure, System!L!RepayLoopFailed, Loan!RepayLoopFailed,
         System!L!Delivery, Loan!Delivery, System!L!LtvCheck, Loan!LtvCheck,
         System!L!LtvSends, Loan!LtvSends, System!L!ContinueLtv, Loan!ContinueLtv,
         System!L!LtvUpdateReturned, Loan!LtvUpdateReturned, System!L!TrackedAfter,
         Loan!TrackedAfter, System!L!AfterDeployment, Loan!AfterDeployment,
         System!L!DeploymentReturned, Loan!DeploymentReturned,
         System!L!ScalingReturned, Loan!ScalingReturned, System!L!AlertReturned,
         Loan!AlertReturned, System!L!LtvLoopFailed, Loan!LtvLoopFailed,
         System!L!RepaymentLoop, Loan!RepaymentLoop, System!L!LtvLoop, Loan!LtvLoop,
         System!L!Inputs, Loan!Inputs, System!L!OutputConsumed, Loan!OutputConsumed,
         System!L!LtvUpdateConsumed, Loan!LtvUpdateConsumed,
         System!L!DeploymentConsumed, Loan!DeploymentConsumed,
         System!L!Next, Loan!Next, System!L!Priorities, Loan!Priorities,
         System!L!Lesser, Loan!Lesser, System!L!Greater, Loan!Greater,
         System!L!Percent, Loan!Percent

LEMMA SameReserve ==
  /\ System!R!Init <=> Init
  /\ System!R!Next <=> Next
  /\ System!R!DeploymentLoop <=> DeploymentLoop
  /\ UNCHANGED System!R!vars <=> UNCHANGED vars
  BY DEF System!R!Init, Init, System!R!FreshReserves, FreshReserves, System!R!Idle,
         Idle, System!R!ledger, ledger, System!R!income, income, System!R!history, history, System!R!vars,
         vars, System!R!MaxDeployable, MaxDeployable, System!R!DeployableAmount,
         DeployableAmount, System!R!DeploymentCapacity, DeploymentCapacity,
         System!R!AmountToDeploy, AmountToDeploy, System!R!Moved, Moved,
         System!R!Credited, Credited, System!R!UpdateDeployment, UpdateDeployment,
         System!R!Processed, Processed, System!R!DeploymentForLtv, DeploymentForLtv,
         System!R!ReserveShare, ReserveShare, System!R!Enqueue, Enqueue,
         System!R!Counted, Counted, System!R!HandleDeploymentRequest,
         HandleDeploymentRequest, System!R!HandleLtvUpdate, HandleLtvUpdate,
         System!R!HandleProfitEvent, HandleProfitEvent, System!R!ProcessDeployment,
         ProcessDeployment, System!R!NotifiesTreasury, NotifiesTreasury,
         System!R!Suspended, Suspended, System!R!AfterFailedResult,
         AfterFailedResult, System!R!ResultPublished, ResultPublished,
         System!R!ResultFailed, ResultFailed, System!R!UpdateReturned,
         UpdateReturned, System!R!Withdraw, Withdraw, System!R!RebalanceCheck,
         RebalanceCheck, System!R!ManualWithdrawal, ManualWithdrawal,
         System!R!ManualDeployment, ManualDeployment, System!R!AlertCheck,
         AlertCheck, System!R!Restart, Restart, System!R!DeploymentLoop,
         DeploymentLoop, System!R!TreasuryUpdateConsumed, TreasuryUpdateConsumed,
         System!R!Inputs, Inputs, System!R!Next, Next, System!R!Lesser, Lesser,
         System!R!Greater, Greater, System!R!Percent, Percent

\* The messages on the way to each service are such as the other may send.
MessagesInRange ==
  /\ treasury_updates \in Seq(Nat)
  /\ reserve_deployments \in Seq([amount : Nat \ {0}, emergency : BOOLEAN])

\* The joint invariant.
SystemInv == Loan!IInv /\ IInv /\ MessagesInRange

\* A step of the two services is a step of the loan manager, or none.
LEMMA LoanStepMapped ==
  ASSUME EveryMessage, SystemInv, [System!Next]_(System!vars)
  PROVE  [Loan!Next]_(Loan!vars)
<1>1. CASE System!LoanStep \/ System!LtvStep
  <2>1. System!L!Next
    BY <1>1 DEF System!LoanStep, System!LtvStep, System!L!Next, System!L!Inputs
  <2>2. QED
    BY <2>1, SameLoan
<1>2. CASE System!ReserveStep \/ UNCHANGED System!vars
  <2>1. UNCHANGED System!L!vars
    BY <1>2 DEF System!ReserveStep, System!vars, System!loanOnly, System!L!vars
  <2>2. QED
    BY <2>1, SameLoan
<1>3. CASE System!ReserveReadsLtv \/ System!ReserveReadsDeployment
  <2>1. System!L!OutputConsumed
    BY <1>3 DEF System!ReserveReadsLtv, System!ReserveReadsDeployment,
                System!AfterRead, System!loanOnly, System!L!OutputConsumed,
                System!L!LtvUpdateConsumed, System!L!DeploymentConsumed,
                System!L!ledgerVars, System!L!repayVars
  <2>2. QED
    BY <2>1, SameLoan DEF System!L!Next
<1>4. CASE System!LoanReadsTreasury
  <2>1. treasury_updates # <<>> /\ System!L!HandleTreasuryUpdate(Head(treasury_updates))
    BY <1>4 DEF System!LoanReadsTreasury
  <2>2. Head(treasury_updates) \in TreasuryFigures
    <3>1. treasury_updates \in Seq(Nat)
      BY DEF SystemInv, MessagesInRange
    <3>2. QED
      BY <2>1, <3>1 DEF EveryMessage
  <2>3. System!L!Next
    BY <2>1, <2>2 DEF System!L!Next, System!L!Inputs
  <2>4. QED
    BY <2>3, SameLoan
<1>5. QED
  BY <1>1, <1>2, <1>3, <1>4 DEF System!Next

\* It is a step of the reserve manager, or none.
LEMMA ReserveStepMapped ==
  ASSUME EveryMessage, SystemInv, [System!Next]_(System!vars)
  PROVE  [Next]_vars
<1>1. CASE System!LoanStep \/ System!LtvStep \/ UNCHANGED System!vars
  <2>1. UNCHANGED System!R!vars
    BY <1>1 DEF System!LoanStep, System!LtvStep, System!vars, System!reserveOnly, System!R!vars
  <2>2. QED
    BY <2>1, SameReserve
<1>2. CASE System!ReserveStep
  <2>1. System!R!Next
    BY <1>2 DEF System!ReserveStep, System!R!Next
  <2>2. QED
    BY <2>1, SameReserve
<1>3. CASE System!ReserveReadsLtv
  <2>1. ltv_updates # <<>> /\ ltv_updates \in Seq(Nat)
    BY <1>3 DEF System!ReserveReadsLtv, SystemInv, Loan!IInv, Loan!TypeOK
  <2>2. Head(ltv_updates) \in LtvPercents
    BY <2>1 DEF EveryMessage
  <2>3. CASE System!R!HandleLtvUpdate(Head(ltv_updates))
    <3>1. System!R!Next
      BY <2>2, <2>3 DEF System!R!Next, System!R!Inputs
    <3>2. QED
      BY <3>1, SameReserve
  <2>4. CASE UNCHANGED <<System!reserveOnly, treasury_updates>>
    <3>1. UNCHANGED System!R!vars
      BY <2>4 DEF System!reserveOnly, System!R!vars
    <3>2. QED
      BY <3>1, SameReserve
  <2>5. QED
    BY <1>3, <2>3, <2>4 DEF System!ReserveReadsLtv
<1>4. CASE System!ReserveReadsDeployment
  <2> DEFINE d == Head(reserve_deployments)
             Deployment == [amount : Nat \ {0}, emergency : BOOLEAN]
  <2>1. reserve_deployments # <<>> /\ System!R!HandleDeploymentRequest(d.amount, d.emergency)
    BY <1>4 DEF System!ReserveReadsDeployment
  <2>2. d \in Deployment
    <3>1. reserve_deployments \in Seq(Deployment)
      BY DEF SystemInv, MessagesInRange
    <3> HIDE DEF Deployment
    <3>2. QED
      BY <2>1, <3>1
  <2> HIDE DEF d
  <2>3. d.amount \in RequestAmounts /\ d.emergency \in BOOLEAN
    BY <2>2 DEF EveryMessage
  <2>4. System!R!Next
    BY <2>1, <2>3 DEF System!R!Next, System!R!Inputs
  <2>5. QED
    BY <2>4, SameReserve
<1>5. CASE System!LoanReadsTreasury
  <2>1. System!R!TreasuryUpdateConsumed
    BY <1>5 DEF System!LoanReadsTreasury, System!AfterRead, System!reserveOnly,
                System!R!TreasuryUpdateConsumed, System!R!ledger, System!R!income,
                System!R!history
  <2>2. QED
    BY <2>1, SameReserve DEF System!R!Next
<1>6. QED
  BY <1>1, <1>2, <1>3, <1>4, <1>5 DEF System!Next

\* What a service sends is in range: the amount of a deployment is at least
\* min_deployment_amount, the balance reported at least the minimum reserve.
LEMMA MessagesStep ==
  ASSUME Loan!LoanAssumption, Loan!LoanInputsAssumption,
         SystemInv, [System!Next]_(System!vars)
  PROVE  MessagesInRange'
<1> DEFINE Deployment == [amount : Nat \ {0}, emergency : BOOLEAN]
<1>0. treasury_updates \in Seq(Nat) /\ reserve_deployments \in Seq(Deployment)
  BY DEF SystemInv, MessagesInRange
<1>1. reserve_deployments' \in Seq(Deployment)
  <2>1. CASE UNCHANGED reserve_deployments
    BY <1>0, <2>1
  <2>2. ASSUME NEW sent \in BOOLEAN, Loan!LtvUpdateReturned(sent),
               Loan!DeploymentNeeded(ltvTask.ltv)
        PROVE  reserve_deployments' \in Seq(Deployment)
    <3> DEFINE d == [amount |-> Loan!DeploymentAmount(ltvTask.ltv),
                     emergency |-> ltvTask.ltv >= 75]
    <3>1. reserve_deployments' = IF sent THEN Append(reserve_deployments, d)
                                         ELSE reserve_deployments
      BY <2>2 DEF Loan!LtvUpdateReturned
    <3>2. d \in Deployment
      <4>1. Loan!TypeOK /\ ltvTask.ltv \in Nat
        BY DEF SystemInv, Loan!IInv, Loan!TypeOK, Loan!LtvTasks
      <4>2. Loan!DeploymentAmount(ltvTask.ltv) \in Nat
        BY <4>1, Loan!AmountsNat
      <4>3. Loan!DeploymentAmount(ltvTask.ltv) >= MinDeployment
            /\ MinDeployment \in Nat \ {0}
        BY <2>2 DEF Loan!DeploymentNeeded, Loan!LoanAssumption
      <4>4. (ltvTask.ltv >= 75) \in BOOLEAN
        BY <4>1
      <4>5. Loan!DeploymentAmount(ltvTask.ltv) \in Nat \ {0}
        BY <4>2, <4>3
      <4>6. QED
        BY <4>4, <4>5
    <3> HIDE DEF d, Deployment
    <3>3. Append(reserve_deployments, d) \in Seq(Deployment)
      BY <1>0, <3>2
    <3>4. QED
      BY <1>0, <3>1, <3>3
  <2>3. Loan!LtvLoop =>
          \/ UNCHANGED reserve_deployments
          \/ \E sent \in BOOLEAN : /\ Loan!LtvUpdateReturned(sent)
                                   /\ Loan!DeploymentNeeded(ltvTask.ltv)
    BY DEF Loan!LtvLoop, Loan!LtvCheck, Loan!LtvUpdateReturned,
           Loan!DeploymentReturned, Loan!ScalingReturned, Loan!AlertReturned,
           Loan!LtvLoopFailed
  <2>4. CASE System!LtvStep \/ System!LoanStep
    <3>1. System!L!LtvLoop \/ UNCHANGED reserve_deployments
      BY <2>4 DEF System!LtvStep, System!LoanStep, System!L!Tick,
                  System!L!AccrueInterest, System!L!HandlePositionUpdate,
                  System!L!ltvVars
    <3>2. QED
      BY <2>1, <2>2, <2>3, <3>1, SameLoan
  <2>5. CASE System!ReserveReadsDeployment
    <3>1. reserve_deployments # <<>> /\ reserve_deployments' = Tail(reserve_deployments)
      BY <2>5 DEF System!ReserveReadsDeployment, System!AfterRead
    <3> HIDE DEF Deployment
    <3>2. QED
      BY <1>0, <3>1
  <2>6. System!ReserveStep \/ System!ReserveReadsLtv \/ System!LoanReadsTreasury
          \/ UNCHANGED System!vars => UNCHANGED reserve_deployments
    BY DEF System!ReserveStep, System!ReserveReadsLtv, System!LoanReadsTreasury,
           System!vars, System!L!HandleTreasuryUpdate
  <2>7. QED
    BY <2>1, <2>4, <2>5, <2>6 DEF System!Next
<1>2. treasury_updates' \in Seq(Nat)
  <2>1. CASE UNCHANGED treasury_updates
    BY <1>0, <2>1
  <2>2. ASSUME NEW delivered \in BOOLEAN, ResultPublished(delivered)
        PROVE  treasury_updates' \in Seq(Nat)
    <3>1. reserves.available \in Nat
      BY LimitsAssumption DEF SystemInv, IInv, TypeOK, ReserveFloor
    <3>2. Append(treasury_updates, reserves.available) \in Seq(Nat)
      BY <1>0, <3>1
    <3>3. treasury_updates' \in {treasury_updates,
                                 Append(treasury_updates, reserves.available)}
      BY <2>2 DEF ResultPublished
    <3>4. QED
      BY <1>0, <3>2, <3>3
  <2>3. CASE System!ReserveStep
    <3>1. DeploymentLoop
      BY <2>3, SameReserve DEF System!ReserveStep
    <3>2. QED
      BY <2>1, <2>2, <3>1
         DEF DeploymentLoop, ProcessDeployment, ResultFailed, UpdateReturned
  <2>4. CASE System!LoanReadsTreasury
    <3>1. treasury_updates # <<>> /\ treasury_updates' = Tail(treasury_updates)
      BY <2>4 DEF System!LoanReadsTreasury, System!AfterRead
    <3>2. QED
      BY <1>0, <3>1
  <2>5. System!LoanStep \/ System!LtvStep \/ System!ReserveReadsLtv
          \/ System!ReserveReadsDeployment \/ UNCHANGED System!vars
          => UNCHANGED treasury_updates
    BY DEF System!LoanStep, System!LtvStep, System!ReserveReadsLtv, System!ReserveReadsDeployment,
           System!vars, System!R!HandleLtvUpdate, System!R!HandleDeploymentRequest,
           System!R!Enqueue
  <2>6. QED
    BY <2>1, <2>3, <2>4, <2>5 DEF System!Next
<1>3. QED
  BY <1>1, <1>2 DEF MessagesInRange

\* The joint invariant holds at the start and is kept: each service's own theorem
\* does the work, for its part of the step.
LEMMA SystemInit ==
  ASSUME Loan!LoanAssumption, Loan!LoanInputsAssumption
  PROVE  System!Init => Loan!Init /\ Init /\ SystemInv
<1> SUFFICES ASSUME System!Init PROVE Loan!Init /\ Init /\ SystemInv
  OBVIOUS
<1>1. Loan!Init /\ Init
  BY SameLoan, SameReserve DEF System!Init
<1>2. Loan!IInv
  BY <1>1, Loan!InitIInv
<1>3. IInv
  BY <1>1, InitIInv
<1>4. treasury_updates = <<>> /\ reserve_deployments = <<>>
  BY <1>1 DEF Init, Loan!Init
<1>5. MessagesInRange
  BY <1>4 DEF MessagesInRange
<1>6. QED
  BY <1>1, <1>2, <1>3, <1>5 DEF SystemInv

LEMMA SystemStep ==
  ASSUME Loan!LoanAssumption, Loan!LoanInputsAssumption, EveryMessage
  PROVE  SystemInv /\ [System!Next]_(System!vars) => SystemInv'
<1> SUFFICES ASSUME SystemInv, [System!Next]_(System!vars) PROVE SystemInv'
  OBVIOUS
<1>1. Loan!IInv'
  BY LoanStepMapped, Loan!StepIInv DEF SystemInv
<1>2. IInv'
  BY ReserveStepMapped, StepIInv DEF SystemInv
<1>3. QED
  BY <1>1, <1>2, MessagesStep DEF SystemInv

\* Together, the services keep every invariant that each was shown to keep alone.
THEOREM TogetherSafe ==
  ASSUME Loan!LoanAssumption, Loan!LoanInputsAssumption, EveryMessage
  PROVE  System!Spec => [](/\ Loan!LoanBalanced
                           /\ LedgerBalanced /\ ReserveFloor /\ DeploymentCap
                           /\ CollateralAnnounced)
<1>1. SystemInv => /\ Loan!LoanBalanced
                   /\ LedgerBalanced /\ ReserveFloor /\ DeploymentCap
                   /\ CollateralAnnounced
  BY DEF SystemInv, Loan!IInv, IInv
<1>2. QED
  BY <1>1, SystemInit, SystemStep, PTL DEF System!Spec

\* The loan manager, fed by the reserve manager, is a loan manager.
THEOREM LoanImplemented ==
  ASSUME Loan!LoanAssumption, Loan!LoanInputsAssumption, EveryMessage
  PROVE  System!Spec => System!LoanManagerImplemented
<1>1. SystemInv /\ [System!Next]_(System!vars) => [System!L!Next]_(System!L!vars)
  BY LoanStepMapped, SameLoan
<1>2. System!Init => System!L!Init
  BY DEF System!Init
<1>3. QED
  BY <1>1, <1>2, SystemInit, SystemStep, PTL
     DEF System!Spec, System!LoanManagerImplemented, System!L!Spec

\* The reserve manager, fed by the loan manager, is a reserve manager.
THEOREM ReserveImplemented ==
  ASSUME Loan!LoanAssumption, Loan!LoanInputsAssumption, EveryMessage
  PROVE  System!Spec => System!ReserveManagerImplemented
<1>1. SystemInv /\ [System!Next]_(System!vars) => [System!R!Next]_(System!R!vars)
  BY ReserveStepMapped, SameReserve
<1>2. System!Init => System!R!Init
  BY DEF System!Init
<1>3. QED
  BY <1>1, <1>2, SystemInit, SystemStep, PTL
     DEF System!Spec, System!ReserveManagerImplemented, System!R!Spec

=============================================================================
