------------------------- MODULE LoanManagerProofs -------------------------
(***************************************************************************)
(* Theorems about LoanManager, for every value of its constants.           *)
(***************************************************************************)
EXTENDS LoanManager, SequenceTheorems, TLAPS

-----------------------------------------------------------------------------
(* Lemmas about the ledger operators.                                      *)

\* Interest is an amount, and nothing accrues on a balance of zero.
LEMMA InterestNat ==
  ASSUME NEW l \in Loans, NEW h \in Nat
  PROVE  /\ Interest(l, h) \in Nat
         /\ l.balance = 0 => Interest(l, h) = 0
<1>1. l.balance \in Nat /\ HourlyPercent \in Nat
  BY LoanAssumption DEF Loans
<1>2. ASSUME NEW x \in Nat
      PROVE  (x + 99) \div 100 \in Nat
  OBVIOUS
<1>3. l.balance * h \in Nat
  BY <1>1
<1>4. l.balance * h * HourlyPercent \in Nat
  BY <1>1, <1>3
<1>5. l.balance = 0 => l.balance * h * HourlyPercent = 0
  BY <1>1
<1>6. (0 + 99) \div 100 = 0
  OBVIOUS
<1>7. QED
  BY <1>2, <1>4, <1>5, <1>6 DEF Interest

\* A part of an amount, in the ratio of a smaller to a larger number, is an
\* amount no larger than the whole.
LEMMA PartOfAmount ==
  ASSUME NEW a \in Nat, NEW b \in Nat, NEW c \in Nat \ {0}, b <= c
  PROVE  (a * b) \div c \in 0..a
<1> DEFINE q == (a * b) \div c
<1>1. a * b \in Nat /\ a * c \in Nat /\ a * b <= a * c
  OBVIOUS
<1>2. q \in Nat /\ c * q <= a * b
  BY <1>1
<1> HIDE DEF q
<1>3. q <= a
  <2>1. SUFFICES ASSUME q >= a + 1 PROVE FALSE
    BY <1>2
  <2>2. c * q >= c * (a + 1)
    BY <2>1, <1>2
  <2>3. c * (a + 1) = a * c + c
    OBVIOUS
  <2>4. QED
    BY <2>2, <2>3, <1>1, <1>2
<1>4. QED
  BY <1>2, <1>3 DEF q

\* The portions of a repayment are covered by the debt they reduce, and together
\* by the amount.
LEMMA PortionsCovered ==
  ASSUME NEW l \in Loans, NEW amount \in Nat, NEW priority \in Priorities
  PROVE  /\ PrincipalPortion(l, amount, priority) \in 0..l.balance
         /\ InterestPortion(l, amount, priority) \in 0..l.accrued
         /\ PrincipalPortion(l, amount, priority)
              + InterestPortion(l, amount, priority) <= amount
<1>1. l.balance \in Nat /\ l.accrued \in Nat /\ TotalOwed(l) \in Nat
      /\ TotalOwed(l) >= l.balance
  BY DEF Loans, TotalOwed
<1>2. CASE priority = "interest_first"
  BY <1>1, <1>2 DEF PrincipalPortion, InterestPortion, Lesser
<1>3. CASE priority = "principal_first"
  BY <1>1, <1>3 DEF PrincipalPortion, InterestPortion, Lesser
<1>4. CASE priority = "proportional" /\ TotalOwed(l) > 0
  <2>1. (amount * l.balance) \div TotalOwed(l) \in 0..amount
    BY <1>1, <1>4, PartOfAmount
  <2>2. PrincipalPortion(l, amount, priority) =
          Lesser((amount * l.balance) \div TotalOwed(l), l.balance)
    BY <1>4 DEF PrincipalPortion
  <2>3. PrincipalPortion(l, amount, priority) \in 0..l.balance
        /\ PrincipalPortion(l, amount, priority) <= amount
    BY <2>1, <2>2, <1>1 DEF Lesser
  <2>4. InterestPortion(l, amount, priority) =
          Lesser(amount - PrincipalPortion(l, amount, priority), l.accrued)
    BY <1>4 DEF InterestPortion
  <2>5. QED
    BY <2>3, <2>4, <1>1 DEF Lesser
<1>5. CASE priority = "proportional" /\ ~(TotalOwed(l) > 0)
  BY <1>1, <1>5 DEF PrincipalPortion, InterestPortion
<1>6. QED
  BY <1>2, <1>3, <1>4, <1>5 DEF Priorities

\* What LoanBalanced says, of a ledger that is not the current one.
Balanced(l) ==
  /\ l.balance + l.principalPaid = Principal
  /\ l.accrued + l.interestPaid = l.totalAccrued
  /\ l.principalPaid + l.interestPaid <= l.totalPaid

\* update_interest keeps a ledger a ledger, balanced, and paid off if it was.
LEMMA AccruedSound ==
  ASSUME NEW l \in Loans, Balanced(l), NEW h \in Nat
  PROVE  /\ Accrued(l, h) \in Loans
         /\ Balanced(Accrued(l, h))
         /\ PaidOff(l) => PaidOff(Accrued(l, h))
<1>1. Interest(l, h) \in Nat /\ (l.balance = 0 => Interest(l, h) = 0)
  BY InterestNat
<1>2. Principal \in Nat
  BY LoanAssumption
<1>3. QED
  BY <1>1, <1>2 DEF Accrued, Loans, Balanced, PaidOff

\* So does process_repayment.
LEMMA RepaidSound ==
  ASSUME NEW l \in Loans, Balanced(l), NEW amount \in Nat, NEW priority \in Priorities
  PROVE  /\ Repaid(l, amount, priority) \in Loans
         /\ Balanced(Repaid(l, amount, priority))
         /\ PaidOff(l) => PaidOff(Repaid(l, amount, priority))
<1> DEFINE p == PrincipalPortion(l, amount, priority)
           i == InterestPortion(l, amount, priority)
<1>1. p \in 0..l.balance /\ i \in 0..l.accrued /\ p + i <= amount
  BY PortionsCovered
<1>2. Principal \in Nat
  BY LoanAssumption
<1>3. Repaid(l, amount, priority) =
        [balance       |-> l.balance - p,
         accrued       |-> l.accrued - i,
         principalPaid |-> l.principalPaid + p,
         interestPaid  |-> l.interestPaid + i,
         totalAccrued  |-> l.totalAccrued,
         totalPaid     |-> l.totalPaid + amount]
  BY DEF Repaid
<1> HIDE DEF p, i
<1>4. QED
  BY <1>1, <1>2, <1>3 DEF Loans, Balanced, PaidOff

\* The amounts of the LTV loop are amounts.
LEMMA AmountsNat ==
  ASSUME TypeOK, NEW ltv \in Nat
  PROVE  /\ WantedDeployment(ltv) \in Nat
         /\ DeploymentAmount(ltv) \in Nat /\ DeploymentAmount(ltv) <= tracked
<1>1. TierOne \in Nat /\ TierTwo \in Nat /\ TierTwo - TierOne \in Nat
      /\ AllReserves \in Nat /\ tracked \in Nat
  BY LoanAssumption DEF TypeOK
<1>2. ASSUME NEW x \in Nat PROVE x \div 10 \in Nat
  OBVIOUS
<1>3. ltv >= 65 => (TierOne * (ltv - 65)) \div 10 \in Nat
  <2>1. ltv >= 65 => TierOne * (ltv - 65) \in Nat
    BY <1>1
  <2>2. QED
    BY <2>1, <1>2
<1>4. ltv >= 75 => ((TierTwo - TierOne) * (ltv - 75)) \div 10 \in Nat
  <2>1. ltv >= 75 => (TierTwo - TierOne) * (ltv - 75) \in Nat
    BY <1>1
  <2>2. QED
    BY <2>1, <1>2
<1>5. WantedDeployment(ltv) \in Nat
  BY <1>1, <1>3, <1>4 DEF WantedDeployment
<1>6. QED
  BY <1>1, <1>5 DEF DeploymentAmount, Lesser

\* The ratio of the debt to a positive collateral is a number of percent.
LEMMA LtvRatioNat ==
  ASSUME NEW l \in Loans, NEW value \in Nat \ {0}
  PROVE  LtvRatio(l, value) \in Nat
<1>1. TotalOwed(l) * 100 \in Nat
  BY DEF Loans, TotalOwed
<1>2. ASSUME NEW x \in Nat PROVE x \div value \in Nat
  OBVIOUS
<1>3. QED
  BY <1>1, <1>2 DEF LtvRatio

\* What a profit repays is an amount of at least one.
LEMMA RepaymentFromProfitNat ==
  ASSUME TypeOK, NEW profit \in Nat
  PROVE  RepaymentFromProfit(profit) \in Nat
<1>1. profit * AllocationPercent \in Nat
  BY LoanAssumption
<1>2. Percent(profit, AllocationPercent) \in Nat
  BY <1>1 DEF Percent
<1>3. QED
  BY <1>2, LoanAssumption
     DEF RepaymentFromProfit, Greater, Lesser, TotalOwed, TypeOK, Loans

-----------------------------------------------------------------------------

\* The inductive invariant: types and the balance of the ledger support each other
\* (a payment is limited by amounts that are amounts).
IInv == TypeOK /\ LoanBalanced

\* Every step leaves a balanced ledger, and a repaid loan repaid.
LEMMA LedgerStep ==
  ASSUME IInv, [Next]_vars
  PROVE  /\ loan' \in Loans /\ Balanced(loan') /\ elapsed' \in Nat
         /\ PaidOff(loan) => PaidOff(loan')
<1>1. loan \in Loans /\ Balanced(loan) /\ elapsed \in Nat
  BY DEF IInv, TypeOK, LoanBalanced, Balanced
<1>2. /\ Accrued(loan, elapsed) \in Loans /\ Balanced(Accrued(loan, elapsed))
      /\ PaidOff(loan) => PaidOff(Accrued(loan, elapsed))
  BY <1>1, AccruedSound
<1>3. CASE loan' = Accrued(loan, elapsed) /\ elapsed' = 0
  BY <1>2, <1>3
<1>4. CASE ProcessRepayment
  <2>1. PICK r \in Repayment : loan' = Repaid(Accrued(loan, elapsed), r.amount, r.priority)
    <3>1. repayQueue \in Seq(Repayment) /\ repayQueue # <<>>
      BY <1>4 DEF ProcessRepayment, IInv, TypeOK
    <3>2. Head(repayQueue) \in Repayment
      BY <3>1
    <3>3. QED
      BY <3>2, <1>4 DEF ProcessRepayment
  <2>2. r.amount \in Nat /\ r.priority \in Priorities
    BY DEF Repayment
  <2>3. elapsed' = 0
    BY <1>4 DEF ProcessRepayment
  <2>4. QED
    BY <2>1, <2>2, <2>3, <1>2, RepaidSound
<1>5. CASE UNCHANGED loan /\ elapsed' \in {elapsed, elapsed + 1}
  BY <1>1, <1>5
<1>6. AccrueInterest => loan' = Accrued(loan, elapsed) /\ elapsed' = 0
  BY DEF AccrueInterest
<1>7. Tick => UNCHANGED loan /\ elapsed' = elapsed + 1
  BY DEF Tick
<1>8. RepaymentReturned => \/ loan' = Accrued(loan, elapsed) /\ elapsed' = 0
                           \/ UNCHANGED <<loan, elapsed>>
  BY DEF RepaymentReturned, ledgerVars
<1>9. (PaidOffReturned \/ RepayLoopFailed) => UNCHANGED <<loan, elapsed>>
  BY DEF PaidOffReturned, RepayLoopFailed, ledgerVars
<1>10. ASSUME NEW sent \in BOOLEAN
       PROVE  /\ LtvCheck(sent) => loan' = Accrued(loan, elapsed) /\ elapsed' = 0
              /\ LtvUpdateReturned(sent) => UNCHANGED <<loan, elapsed>>
  BY DEF LtvCheck, LtvUpdateReturned, ledgerVars
<1>11. (DeploymentReturned \/ ScalingReturned \/ AlertReturned \/ LtvLoopFailed)
         => UNCHANGED <<loan, elapsed>>
  BY DEF DeploymentReturned, ScalingReturned, AlertReturned, LtvLoopFailed, ledgerVars
<1>12. Inputs \/ OutputConsumed => UNCHANGED <<loan, elapsed>>
  BY DEF Inputs, OutputConsumed, LtvUpdateConsumed, DeploymentConsumed,
         HandleProfitEvent, ManualRepayment,
         HandlePositionUpdate, HandleTreasuryUpdate, ledgerVars
<1>13. UNCHANGED vars => UNCHANGED <<loan, elapsed>>
  BY DEF vars
<1>14. QED
  BY <1>3, <1>4, <1>5, <1>6, <1>7, <1>8, <1>9, <1>10, <1>11, <1>12, <1>13
     DEF Next, RepaymentLoop, LtvLoop

\* The types of the variables other than the ledger, by the task they belong to.
RepayTypeOK ==
  /\ repayQueue \in Seq(Repayment)
  /\ repayTask \in {"idle", "repayment", "paid_off"}
  /\ paidOffEvents \in {"none", "published", "lost"}
  /\ profitEvents \in Nat /\ manuals \in Nat

LtvTypeOK ==
  /\ collateral \in Nat /\ tracked \in Nat
  /\ ltvTask \in LtvTasks
  /\ ltv_updates \in Seq(Nat)
  /\ reserve_deployments \in Seq([amount : Nat, emergency : BOOLEAN])

\* A step of the repayment loop or of its inputs.
LEMMA RepayTypeStep ==
  ASSUME IInv, [Next]_vars
  PROVE  RepayTypeOK'
<1> USE DEF RepayTypeOK, IInv, TypeOK
<1>1. CASE UNCHANGED <<repayQueue, repayTask, paidOffEvents, profitEvents, manuals>>
  BY <1>1
<1>2. ASSUME NEW amount \in Nat \ {0}, NEW priority \in Priorities,
             NEW source \in {"trading_profit", "manual"},
             Queue(amount, priority, source)
      PROVE  repayQueue' \in Seq(Repayment)
  <2>1. [amount |-> amount, priority |-> priority, source |-> source,
         alone |-> repayQueue = <<>>] \in Repayment
    BY DEF Repayment
  <2>2. QED
    BY <2>1, <1>2 DEF Queue
<1>3. ASSUME NEW p \in Profits, HandleProfitEvent(p)
      PROVE  RepayTypeOK'
  <2>1. repayQueue' \in Seq(Repayment)
    <3>1. CASE RepaymentFromProfit(p) >= MinPayment
      <4>1. RepaymentFromProfit(p) \in Nat \ {0} /\ ConfigPriority \in Priorities
        BY <3>1, RepaymentFromProfitNat, LoanAssumption, LoanInputsAssumption
      <4>2. CASE UNCHANGED repayQueue
        BY <4>2
      <4>3. CASE Queue(RepaymentFromProfit(p), ConfigPriority, "trading_profit")
        BY <4>1, <4>3, <1>2
      <4>4. QED
        BY <4>2, <4>3, <1>3 DEF HandleProfitEvent
    <3>2. CASE ~(RepaymentFromProfit(p) >= MinPayment)
      BY <3>2, <1>3 DEF HandleProfitEvent
    <3>3. QED
      BY <3>1, <3>2
  <2>2. QED
    BY <2>1, <1>3 DEF HandleProfitEvent
<1>4. ASSUME NEW a \in ManualAmounts, NEW priority \in Priorities,
             ManualRepayment(a, priority)
      PROVE  RepayTypeOK'
  <2>1. a \in Nat \ {0} /\ Queue(a, priority, "manual")
    BY <1>4, LoanInputsAssumption DEF ManualRepayment
  <2>2. repayQueue' \in Seq(Repayment)
    BY <2>1, <1>2
  <2>3. QED
    BY <2>2, <1>4 DEF ManualRepayment
<1>5. CASE ProcessRepayment
  BY <1>5 DEF ProcessRepayment
<1>6. CASE RepaymentReturned
  BY <1>6 DEF RepaymentReturned
<1>7. CASE PaidOffReturned \/ RepayLoopFailed
  BY <1>7 DEF PaidOffReturned, RepayLoopFailed, AfterRepayFailure
<1>8. Tick \/ AccrueInterest
        => UNCHANGED <<repayQueue, repayTask, paidOffEvents, profitEvents, manuals>>
  BY DEF Tick, AccrueInterest, repayVars
<1>9. LtvLoop \/ OutputConsumed
        => UNCHANGED <<repayQueue, repayTask, paidOffEvents, profitEvents, manuals>>
  BY DEF LtvLoop, LtvCheck, LtvUpdateReturned, DeploymentReturned, ScalingReturned,
         AlertReturned, LtvLoopFailed, OutputConsumed, LtvUpdateConsumed, DeploymentConsumed,
         repayVars
<1>10. ASSUME NEW v, HandlePositionUpdate(v) \/ HandleTreasuryUpdate(v)
       PROVE  UNCHANGED <<repayQueue, repayTask, paidOffEvents, profitEvents, manuals>>
  BY <1>10 DEF HandlePositionUpdate, HandleTreasuryUpdate, repayVars
<1>11. UNCHANGED vars
         => UNCHANGED <<repayQueue, repayTask, paidOffEvents, profitEvents, manuals>>
  BY DEF vars
<1>12. QED
  BY <1>1, <1>3, <1>4, <1>5, <1>6, <1>7, <1>8, <1>9, <1>10, <1>11
     DEF Next, RepaymentLoop, Inputs

\* The values the LTV loop leaves in its task are tasks.
LEMMA LtvTaskValues ==
  ASSUME NEW ltv \in Nat, NEW amount \in Nat, NEW left \in Nat, NEW sent \in BOOLEAN,
         NEW pc \in {"idle", "update", "deploy", "scaling", "alert"}
  PROVE  /\ [pc |-> pc, ltv |-> ltv, amount |-> amount, left |-> left, sent |-> sent]
              \in LtvTasks
         /\ LtvIdle \in LtvTasks
  BY DEF LtvTasks, LtvIdle

\* A step of the LTV loop or of its inputs.
LEMMA LtvTypeStep ==
  ASSUME IInv, [Next]_vars
  PROVE  LtvTypeOK'
<1> DEFINE ltvState == <<collateral, tracked, ltvTask, ltv_updates,
                         reserve_deployments>>
<1>0. LtvTypeOK /\ loan \in Loans /\ elapsed \in Nat
  BY DEF IInv, TypeOK, LtvTypeOK
<1>1. CASE UNCHANGED ltvState
  BY <1>0, <1>1 DEF LtvTypeOK
<1>2. ASSUME NEW sent \in BOOLEAN, LtvCheck(sent)
      PROVE  LtvTypeOK'
  <2>1. Accrued(loan, elapsed) \in Loans
    BY <1>0, AccruedSound DEF IInv, LoanBalanced, Balanced
  <2>2. LtvRatio(Accrued(loan, elapsed), collateral) \in Nat
    BY <1>0, <1>2, <2>1, LtvRatioNat DEF LtvCheck, LtvTypeOK
  <2>3. ltvTask' \in LtvTasks
    BY <1>2, <2>2, LtvTaskValues DEF LtvCheck
  <2>4. ltv_updates' \in Seq(Nat)
    BY <1>0, <1>2, <2>2 DEF LtvCheck, LtvTypeOK
  <2>5. QED
    BY <1>0, <1>2, <2>3, <2>4 DEF LtvCheck, LtvTypeOK
<1>3. ASSUME NEW sent \in BOOLEAN, LtvUpdateReturned(sent)
      PROVE  LtvTypeOK'
  <2> DEFINE amount == DeploymentAmount(ltvTask.ltv)
  <2>1. amount \in Nat /\ tracked - amount \in Nat /\ ltvTask.ltv \in Nat
    <3>1. ltvTask.ltv \in Nat /\ tracked \in Nat
      BY <1>0 DEF LtvTypeOK, LtvTasks
    <3>2. amount \in Nat /\ amount <= tracked
      BY <3>1, AmountsNat DEF IInv
    <3> HIDE DEF amount
    <3>3. QED
      BY <3>1, <3>2
  <2>2. UNCHANGED <<collateral, tracked, ltv_updates>>
    BY <1>3 DEF LtvUpdateReturned
  <2>3. CASE DeploymentNeeded(ltvTask.ltv)
    <3>1. ltvTask' = [pc |-> "deploy", ltv |-> ltvTask.ltv, amount |-> amount,
                      left |-> tracked - amount, sent |-> sent]
      BY <1>3, <2>3 DEF LtvUpdateReturned
    <3>2. reserve_deployments' =
            IF sent THEN Append(reserve_deployments,
                                [amount |-> amount, emergency |-> ltvTask.ltv >= 75])
                    ELSE reserve_deployments
      BY <1>3, <2>3 DEF LtvUpdateReturned
    <3>3. [amount |-> amount, emergency |-> ltvTask.ltv >= 75]
            \in [amount : Nat, emergency : BOOLEAN]
      <4>1. (ltvTask.ltv >= 75) \in BOOLEAN
        BY <2>1
      <4> HIDE DEF amount
      <4>2. QED
        BY <2>1, <4>1
    <3> HIDE DEF amount
    <3>4. ltvTask' \in LtvTasks
      BY <2>1, <3>1, LtvTaskValues
    <3>5. reserve_deployments' \in Seq([amount : Nat, emergency : BOOLEAN])
      <4>1. reserve_deployments \in Seq([amount : Nat, emergency : BOOLEAN])
        BY <1>0 DEF LtvTypeOK
      <4>2. \A d \in [amount : Nat, emergency : BOOLEAN] :
              Append(reserve_deployments, d) \in Seq([amount : Nat, emergency : BOOLEAN])
        BY <4>1
      <4>3. QED
        BY <4>1, <4>2, <3>2, <3>3
    <3>6. QED
      BY <1>0, <2>2, <3>4, <3>5 DEF LtvTypeOK
  <2>4. CASE ~DeploymentNeeded(ltvTask.ltv)
    <3>1. ContinueLtv(ltvTask.ltv) /\ UNCHANGED reserve_deployments
      BY <1>3, <2>4 DEF LtvUpdateReturned
    <3>2. ltvTask' \in LtvTasks
      BY <2>1, <3>1, LtvTaskValues DEF ContinueLtv, LtvSends
    <3>3. QED
      BY <1>0, <2>2, <3>1, <3>2 DEF LtvTypeOK
  <2>5. QED
    BY <2>3, <2>4
<1>4. CASE DeploymentReturned
  <2>1. ltvTask.ltv \in Nat /\ ltvTask.left \in Nat /\ ltvTask.amount \in Nat
    BY <1>0 DEF LtvTypeOK, LtvTasks
  <2>2. ltvTask' \in LtvTasks
    BY <1>4, <2>1, LtvTaskValues DEF DeploymentReturned, AfterDeployment, ContinueLtv, LtvSends
  <2>3. QED
    BY <1>0, <1>4, <2>1, <2>2 DEF DeploymentReturned, TrackedAfter, LtvTypeOK
<1>5. CASE ScalingReturned
  <2>1. ltvTask' \in LtvTasks
    BY <1>0, <1>5 DEF ScalingReturned, LtvIdle, LtvTypeOK, LtvTasks
  <2>2. QED
    BY <1>0, <1>5, <2>1 DEF ScalingReturned, LtvTypeOK
<1>6. CASE AlertReturned \/ LtvLoopFailed
  <2>1. ltvTask' \in LtvTasks
    BY <1>6, LtvTaskValues DEF AlertReturned, LtvLoopFailed
  <2>2. QED
    BY <1>0, <1>6, <2>1 DEF AlertReturned, LtvLoopFailed, LtvTypeOK
<1>7. ASSUME NEW v \in BtcValues, HandlePositionUpdate(v)
      PROVE  LtvTypeOK'
  BY <1>0, <1>7, LoanInputsAssumption DEF HandlePositionUpdate, LtvTypeOK
<1>8. ASSUME NEW a \in TreasuryFigures, HandleTreasuryUpdate(a)
      PROVE  LtvTypeOK'
  BY <1>0, <1>8, LoanInputsAssumption DEF HandleTreasuryUpdate, LtvTypeOK
<1>9. CASE OutputConsumed
  <2>1. /\ ltv_updates' \in Seq(Nat)
        /\ reserve_deployments' \in Seq([amount : Nat, emergency : BOOLEAN])
    <3>1. CASE ltv_updates # <<>> /\ ltv_updates' = Tail(ltv_updates)
               /\ UNCHANGED reserve_deployments
      BY <1>0, <3>1 DEF LtvTypeOK
    <3>2. CASE reserve_deployments # <<>> /\ UNCHANGED ltv_updates
               /\ reserve_deployments' = Tail(reserve_deployments)
      BY <1>0, <3>2 DEF LtvTypeOK
    <3>3. QED
      BY <1>9, <3>1, <3>2 DEF OutputConsumed, LtvUpdateConsumed, DeploymentConsumed
  <2>2. UNCHANGED <<collateral, tracked, ltvTask>>
    BY <1>9 DEF OutputConsumed, LtvUpdateConsumed, DeploymentConsumed
  <2>3. QED
    BY <1>0, <2>1, <2>2 DEF LtvTypeOK
<1>10. Tick \/ AccrueInterest \/ RepaymentLoop => UNCHANGED ltvState
  BY DEF Tick, AccrueInterest, RepaymentLoop, ProcessRepayment, RepaymentReturned,
         PaidOffReturned, RepayLoopFailed, ltvVars
<1>11. ASSUME NEW p \in Profits, HandleProfitEvent(p)
       PROVE  UNCHANGED ltvState
  BY <1>11 DEF HandleProfitEvent, ltvVars
<1>12. ASSUME NEW a \in ManualAmounts, NEW priority \in Priorities,
              ManualRepayment(a, priority)
       PROVE  UNCHANGED ltvState
  BY <1>12 DEF ManualRepayment, ltvVars
<1>13. UNCHANGED vars => UNCHANGED ltvState
  BY DEF vars
<1> HIDE DEF ltvState
<1>14. QED
  BY <1>1, <1>2, <1>3, <1>4, <1>5, <1>6, <1>7, <1>8, <1>9, <1>10, <1>11, <1>12, <1>13
     DEF Next, LtvLoop, Inputs

\* The invariant holds at the start.
THEOREM InitIInv == Init => IInv
  BY LoanAssumption
     DEF Init, IInv, TypeOK, LoanBalanced, Loans, LtvIdle, LtvTasks

\* Every step preserves it.
THEOREM StepIInv == IInv /\ [Next]_vars => IInv'
<1> SUFFICES ASSUME IInv, [Next]_vars
             PROVE  IInv'
  OBVIOUS
<1>1. loan' \in Loans /\ Balanced(loan') /\ elapsed' \in Nat
  BY LedgerStep
<1>2. RepayTypeOK' /\ LtvTypeOK'
  BY RepayTypeStep, LtvTypeStep
<1>3. hours' \in Nat
  <2>1. hours \in Nat
    BY DEF IInv, TypeOK
  <2>2. Tick => hours' = hours + 1
    BY DEF Tick
  <2>3. ~Tick => hours' = hours
    BY DEF Next, vars, AccrueInterest, RepaymentLoop, ProcessRepayment,
           RepaymentReturned, PaidOffReturned, RepayLoopFailed, LtvLoop, LtvCheck,
           LtvUpdateReturned, DeploymentReturned, ScalingReturned, AlertReturned,
           LtvLoopFailed, Inputs, HandleProfitEvent, ManualRepayment,
           HandlePositionUpdate, HandleTreasuryUpdate, OutputConsumed,
           LtvUpdateConsumed, DeploymentConsumed
  <2>4. QED
    BY <2>1, <2>2, <2>3
<1>4. TypeOK'
  BY <1>1, <1>2, <1>3 DEF TypeOK, RepayTypeOK, LtvTypeOK
<1>5. LoanBalanced'
  BY <1>1 DEF LoanBalanced, Balanced
<1>6. QED
  BY <1>4, <1>5 DEF IInv

\* So it always holds.
THEOREM Invariance == Spec => []IInv
  BY InitIInv, StepIInv, PTL DEF Spec

\* No payment, however large and in whatever order, drives an amount below zero.
THEOREM TypeCorrect == Spec => []TypeOK
<1>1. IInv => TypeOK
  BY DEF IInv
<1>2. QED
  BY <1>1, Invariance, PTL

\* What was borrowed is owed or repaid and payments are never over-credited.
THEOREM LoanAlwaysBalanced == Spec => []LoanBalanced
<1>1. IInv => LoanBalanced
  BY DEF IInv
<1>2. QED
  BY <1>1, Invariance, PTL

\* A loan that is paid off stays paid off, whatever is still queued.
THEOREM PaidOffStays == Spec => PaidOffForGood
<1>1. IInv /\ [Next]_vars => [PaidOff(loan) => PaidOff(loan)']_vars
  BY LedgerStep
<1>2. QED
  BY <1>1, Invariance, PTL DEF Spec, PaidOffForGood

-----------------------------------------------------------------------------
(* An automatic repayment that was alone in the queue is used up.          *)

\* A part of an amount leaves out no more than the rest of the debt can take:
\* rounding down is covered by the interest.
LEMMA RestOfAmount ==
  ASSUME NEW a \in Nat, NEW b \in Nat, NEW i \in Nat, b + i > 0, a <= b + i
  PROVE  /\ (a * b) \div (b + i) \in Nat
         /\ (a * b) \div (b + i) <= b
         /\ a - ((a * b) \div (b + i)) <= i
<1> DEFINE c == b + i
           q == (a * b) \div c
<1>1. c \in Nat \ {0} /\ a * b \in Nat
  OBVIOUS
<1>2. q \in Nat /\ c * q <= a * b /\ a * b < c * (q + 1)
  <2> HIDE DEF c
  <2>1. q \in Nat /\ c * q <= a * b /\ a * b < c * q + c
    BY <1>1
  <2> HIDE DEF q
  <2>2. c * (q + 1) = c * q + c
    BY <1>1, <2>1
  <2>3. QED
    BY <2>1, <2>2
<1> HIDE DEF q
<1>3. q <= b
  <2>1. SUFFICES ASSUME q >= b + 1 PROVE FALSE
    BY <1>2
  <2>2. c * q >= c * (b + 1)
    BY <2>1, <1>1, <1>2
  <2>3. a * b <= c * b
    OBVIOUS
  <2>4. c * (b + 1) = c * b + c
    BY <1>1
  <2>5. c * b \in Nat
    BY <1>1
  <2>6. QED
    BY <2>2, <2>3, <2>4, <2>5, <1>1, <1>2
<1>4. a - q <= i
  <2>1. SUFFICES ASSUME a - i >= q + 1 PROVE FALSE
    BY <1>2
  <2>2. (a - i) * c >= c * (q + 1)
    BY <2>1, <1>1, <1>2
  <2>3. (a - i) * c = a * b + i * (a - c)
    OBVIOUS
  <2>4. i * (a - c) <= 0
    OBVIOUS
  <2>5. i * (a - c) \in Int /\ c * (q + 1) \in Int
    BY <1>1, <1>2
  <2> HIDE DEF c
  <2>6. QED
    BY <2>2, <2>3, <2>4, <2>5, <1>1, <1>2
<1>5. QED
  BY <1>2, <1>3, <1>4 DEF q, c

\* A repayment that is owed in full is used up by its two portions, whatever its
\* priority: what one portion cannot take, the other can.
LEMMA OwedPortionsExact ==
  ASSUME NEW l \in Loans, NEW amount \in Nat, NEW priority \in Priorities,
         amount <= TotalOwed(l)
  PROVE  PrincipalPortion(l, amount, priority)
           + InterestPortion(l, amount, priority) = amount
<1>1. l.balance \in Nat /\ l.accrued \in Nat /\ TotalOwed(l) = l.balance + l.accrued
  BY DEF Loans, TotalOwed
<1>2. CASE priority = "interest_first"
  BY <1>1, <1>2 DEF PrincipalPortion, InterestPortion, Lesser
<1>3. CASE priority = "principal_first"
  BY <1>1, <1>3 DEF PrincipalPortion, InterestPortion, Lesser
<1>4. CASE priority = "proportional" /\ TotalOwed(l) > 0
  <2> DEFINE q == (amount * l.balance) \div TotalOwed(l)
  <2>1. q \in Nat /\ q <= l.balance /\ amount - q <= l.accrued
    BY <1>1, <1>4, RestOfAmount
  <2>2. /\ PrincipalPortion(l, amount, priority) = Lesser(q, l.balance)
        /\ InterestPortion(l, amount, priority) =
             Lesser(amount - PrincipalPortion(l, amount, priority), l.accrued)
    BY <1>4 DEF PrincipalPortion, InterestPortion
  <2> HIDE DEF q
  <2>3. QED
    BY <2>1, <2>2, <1>1 DEF Lesser
<1>5. CASE priority = "proportional" /\ ~(TotalOwed(l) > 0)
  BY <1>1, <1>5 DEF PrincipalPortion, InterestPortion
<1>6. QED
  BY <1>2, <1>3, <1>4, <1>5 DEF Priorities

\* Interest only adds to a debt, and books no payment.
LEMMA AccruedGrows ==
  ASSUME NEW l \in Loans, NEW h \in Nat
  PROVE  /\ TotalOwed(l) \in Nat /\ TotalOwed(Accrued(l, h)) \in Nat
         /\ TotalOwed(l) <= TotalOwed(Accrued(l, h))
         /\ Accrued(l, h).totalPaid = l.totalPaid
         /\ Accrued(l, h).principalPaid = l.principalPaid
         /\ Accrued(l, h).interestPaid = l.interestPaid
<1>1. Interest(l, h) \in Nat
  BY InterestNat
<1>2. QED
  BY <1>1 DEF Accrued, TotalOwed, Loans

\* Only the head of the queue can have been alone, for whatever is behind it came
\* later; and until it is taken the debt that capped it is not reduced.
LoneCovered ==
  \A i \in 1..Len(repayQueue) : repayQueue[i].alone =>
    /\ i = 1
    /\ repayQueue[i].source = "trading_profit" => repayQueue[i].amount <= TotalOwed(loan)

\* A request that joins the queue.
LEMMA QueueLone ==
  ASSUME IInv, LoneCovered, UNCHANGED loan,
         NEW amount \in Nat, NEW priority, NEW source,
         source = "trading_profit" => amount <= TotalOwed(loan),
         Queue(amount, priority, source)
  PROVE  LoneCovered'
<1> DEFINE r == [amount |-> amount, priority |-> priority, source |-> source,
                 alone |-> repayQueue = <<>>]
<1>1. repayQueue \in Seq(Repayment) /\ repayQueue' = Append(repayQueue, r)
  BY DEF IInv, TypeOK, Queue
<1>2. r.alone = (repayQueue = <<>>) /\ r.source = source /\ r.amount = amount
  OBVIOUS
<1> HIDE DEF r
<1>3. /\ Len(repayQueue) \in Nat /\ Len(repayQueue') = Len(repayQueue) + 1
      /\ \A i \in 1..Len(repayQueue) : repayQueue'[i] = repayQueue[i]
      /\ repayQueue'[Len(repayQueue) + 1] = r
  BY <1>1
<1>4. repayQueue = <<>> => Len(repayQueue) = 0
  OBVIOUS
<1>5. TotalOwed(loan)' = TotalOwed(loan)
  BY DEF TotalOwed
<1>6. SUFFICES ASSUME NEW i \in 1..Len(repayQueue)', repayQueue'[i].alone
               PROVE  /\ i = 1
                      /\ repayQueue'[i].source = "trading_profit"
                           => repayQueue'[i].amount <= TotalOwed(loan)'
  BY DEF LoneCovered
<1>7. CASE i \in 1..Len(repayQueue)
  <2>1. repayQueue'[i] = repayQueue[i]
    BY <1>3, <1>7
  <2>2. repayQueue[i].alone
    BY <1>6, <2>1
  <2>3. /\ i = 1
        /\ repayQueue[i].source = "trading_profit"
             => repayQueue[i].amount <= TotalOwed(loan)
    BY <1>7, <2>2 DEF LoneCovered
  <2>4. QED
    BY <1>5, <2>1, <2>3
<1>8. CASE i = Len(repayQueue) + 1
  <2>1. repayQueue'[i] = r
    BY <1>3, <1>8
  <2>2. r.alone
    BY <1>6, <2>1
  <2>3. repayQueue = <<>>
    BY <1>2, <2>2, Zenon
  <2>4. i = 1
    BY <1>4, <1>8, <2>3
  <2>5. QED
    BY <1>2, <1>5, <2>1, <2>4
<1>9. QED
  BY <1>3, <1>7, <1>8

\* Every step keeps it.
LEMMA LoneStep ==
  ASSUME IInv, LoneCovered, [Next]_vars
  PROVE  LoneCovered'
<1>0. loan \in Loans /\ elapsed \in Nat /\ repayQueue \in Seq(Repayment)
  BY DEF IInv, TypeOK
<1>1. ASSUME UNCHANGED repayQueue, UNCHANGED loan \/ loan' = Accrued(loan, elapsed)
      PROVE  LoneCovered'
  <2>1. TotalOwed(loan) \in Nat /\ TotalOwed(loan)' \in Nat
        /\ TotalOwed(loan) <= TotalOwed(loan)'
    <3>1. CASE UNCHANGED loan
      BY <1>0, <3>1, AccruedGrows DEF TotalOwed
    <3>2. CASE loan' = Accrued(loan, elapsed)
      <4>1. TotalOwed(loan)' = TotalOwed(Accrued(loan, elapsed))
        BY <3>2 DEF TotalOwed
      <4>2. QED
        BY <1>0, <4>1, AccruedGrows
    <3>3. QED
      BY <1>1, <3>1, <3>2
  <2>2. \A i \in 1..Len(repayQueue) : repayQueue[i].amount \in Nat
    <3>1. \A i \in 1..Len(repayQueue) : repayQueue[i] \in Repayment
      BY <1>0
    <3>2. QED
      BY <3>1 DEF Repayment
  <2>3. QED
    BY <1>1, <2>1, <2>2 DEF LoneCovered
<1>2. CASE ProcessRepayment
  <2>1. repayQueue # <<>> /\ repayQueue' = Tail(repayQueue)
    BY <1>2 DEF ProcessRepayment
  <2>2. /\ Len(repayQueue) \in Nat /\ Len(repayQueue') = Len(repayQueue) - 1
        /\ \A i \in 1..Len(repayQueue') : repayQueue'[i] = repayQueue[i + 1]
    BY <1>0, <2>1
  <2>3. \A i \in 1..Len(repayQueue') : ~repayQueue'[i].alone
    BY <2>2 DEF LoneCovered
  <2>4. QED
    BY <2>3 DEF LoneCovered
<1>3. ASSUME NEW p \in Profits, HandleProfitEvent(p)
      PROVE  LoneCovered'
  <2>1. UNCHANGED loan
    BY <1>3 DEF HandleProfitEvent, ledgerVars
  <2>2. CASE UNCHANGED repayQueue
    BY <1>1, <2>1, <2>2
  <2>3. CASE Queue(RepaymentFromProfit(p), ConfigPriority, "trading_profit")
    <3>1. TotalOwed(loan) \in Nat
      BY <1>0, AccruedGrows
    <3>2. RepaymentFromProfit(p) \in Nat
      BY LoanInputsAssumption, RepaymentFromProfitNat DEF IInv
    <3>3. Greater(Percent(p, AllocationPercent), MinPayment) \in Int
      BY LoanInputsAssumption, LoanAssumption DEF Greater, Percent
    <3>4. RepaymentFromProfit(p) <= TotalOwed(loan)
      BY <3>1, <3>3 DEF RepaymentFromProfit, Lesser
    <3>5. QED
      BY <2>1, <2>3, <3>2, <3>4, QueueLone
  <2>4. QED
    BY <2>2, <2>3, <1>3 DEF HandleProfitEvent
<1>4. ASSUME NEW a \in ManualAmounts, NEW priority \in Priorities,
             ManualRepayment(a, priority)
      PROVE  LoneCovered'
  <2>1. a \in Nat /\ UNCHANGED loan /\ Queue(a, priority, "manual")
    BY <1>4, LoanInputsAssumption DEF ManualRepayment, ledgerVars
  <2>2. QED
    BY <2>1, QueueLone
<1>5. RepaymentReturned => /\ UNCHANGED repayQueue
                           /\ UNCHANGED loan \/ loan' = Accrued(loan, elapsed)
  BY DEF RepaymentReturned, ledgerVars
<1>6. PaidOffReturned \/ RepayLoopFailed => UNCHANGED <<repayQueue, loan>>
  BY DEF PaidOffReturned, RepayLoopFailed, ledgerVars
<1>7. Tick \/ OutputConsumed => UNCHANGED <<repayQueue, loan>>
  BY DEF Tick, OutputConsumed, LtvUpdateConsumed, DeploymentConsumed,
         repayVars, ledgerVars
<1>8. AccrueInterest => UNCHANGED repayQueue /\ loan' = Accrued(loan, elapsed)
  BY DEF AccrueInterest, repayVars
<1>9. LtvLoop => /\ UNCHANGED repayQueue
                 /\ UNCHANGED loan \/ loan' = Accrued(loan, elapsed)
  BY DEF LtvLoop, LtvCheck, LtvUpdateReturned, DeploymentReturned, ScalingReturned,
         AlertReturned, LtvLoopFailed, repayVars, ledgerVars
<1>10. ASSUME NEW v, HandlePositionUpdate(v) \/ HandleTreasuryUpdate(v)
       PROVE  UNCHANGED <<repayQueue, loan>>
  BY <1>10 DEF HandlePositionUpdate, HandleTreasuryUpdate, repayVars, ledgerVars
<1>11. UNCHANGED vars => UNCHANGED <<repayQueue, loan>>
  BY DEF vars
<1>12. QED
  BY <1>1, <1>2, <1>3, <1>4, <1>5, <1>6, <1>7, <1>8, <1>9, <1>10, <1>11
     DEF Next, RepaymentLoop, Inputs

\* An automatic repayment that was alone in the queue is used up entirely when it
\* is processed: the debt that capped it at queueing time can only have grown.
THEOREM LoneRepaymentExact == Spec => LoneRepaymentUsedUp
<1>1. Init => LoneCovered
  BY DEF Init, LoneCovered
<1>2. IInv /\ LoneCovered /\ [Next]_vars
        => [(repayTask = "idle" /\ repayTask' = "repayment"
               /\ Head(repayQueue).alone /\ Head(repayQueue).source = "trading_profit")
              => loan'.totalPaid - loan.totalPaid =
                   (loan'.principalPaid - loan.principalPaid)
                     + (loan'.interestPaid - loan.interestPaid)]_vars
  <2> SUFFICES ASSUME IInv, LoneCovered, [Next]_vars,
                      repayTask = "idle", repayTask' = "repayment",
                      Head(repayQueue).alone, Head(repayQueue).source = "trading_profit"
               PROVE  loan'.totalPaid - loan.totalPaid =
                        (loan'.principalPaid - loan.principalPaid)
                          + (loan'.interestPaid - loan.interestPaid)
    OBVIOUS
  <2> DEFINE r == Head(repayQueue)
             l == Accrued(loan, elapsed)
  <2>0. loan \in Loans /\ elapsed \in Nat /\ repayQueue \in Seq(Repayment)
    BY DEF IInv, TypeOK
  <2>1. ProcessRepayment
    <3>1. UNCHANGED repayTask => repayTask' # "repayment"
      OBVIOUS
    <3>2. RepaymentReturned \/ PaidOffReturned \/ RepayLoopFailed
            => repayTask' # "repayment"
      BY DEF RepaymentReturned, PaidOffReturned, RepayLoopFailed, AfterRepayFailure
    <3>3. Tick \/ AccrueInterest \/ OutputConsumed \/ UNCHANGED vars
            => UNCHANGED repayTask
      BY DEF Tick, AccrueInterest, OutputConsumed, LtvUpdateConsumed, DeploymentConsumed,
         repayVars, vars
    <3>4. LtvLoop \/ Inputs => UNCHANGED repayTask
      BY DEF LtvLoop, LtvCheck, LtvUpdateReturned, DeploymentReturned,
             ScalingReturned, AlertReturned, LtvLoopFailed, Inputs, HandleProfitEvent,
             ManualRepayment, HandlePositionUpdate, HandleTreasuryUpdate, repayVars
    <3>5. QED
      BY <3>1, <3>2, <3>3, <3>4 DEF Next, RepaymentLoop
  <2>2. repayQueue # <<>> /\ loan' = Repaid(l, r.amount, r.priority)
    BY <2>1 DEF ProcessRepayment
  <2>3. Len(repayQueue) \in Nat \ {0} /\ r = repayQueue[1] /\ r \in Repayment
    BY <2>0, <2>2
  <2>4. r.amount \in Nat /\ r.priority \in Priorities
    BY <2>3 DEF Repayment
  <2>5. r.amount <= TotalOwed(loan)
    <3>1. 1 \in 1..Len(repayQueue)
      BY <2>3
    <3>2. QED
      BY <2>3, <3>1 DEF LoneCovered
  <2>6. l \in Loans
    BY <2>0, AccruedSound DEF IInv, LoanBalanced, Balanced
  <2>7. r.amount <= TotalOwed(l)
    BY <2>0, <2>4, <2>5, AccruedGrows
  <2> DEFINE p == PrincipalPortion(l, r.amount, r.priority)
             i == InterestPortion(l, r.amount, r.priority)
  <2>8. p + i = r.amount
    BY <2>4, <2>6, <2>7, OwedPortionsExact
  <2>9. p \in Nat /\ i \in Nat
    <3>1. p \in 0..l.balance /\ i \in 0..l.accrued
      BY <2>4, <2>6, PortionsCovered
    <3>2. l.balance \in Nat /\ l.accrued \in Nat
      BY <2>6 DEF Loans
    <3> HIDE DEF p, i, l
    <3>3. QED
      BY <3>1, <3>2
  <2>10. /\ loan'.totalPaid = loan.totalPaid + r.amount
         /\ loan'.principalPaid = loan.principalPaid + p
         /\ loan'.interestPaid = loan.interestPaid + i
    <3>1. /\ l.totalPaid = loan.totalPaid /\ l.principalPaid = loan.principalPaid
          /\ l.interestPaid = loan.interestPaid
      BY <2>0, AccruedGrows
    <3>2. /\ loan'.totalPaid = l.totalPaid + r.amount
          /\ loan'.principalPaid = l.principalPaid + p
          /\ loan'.interestPaid = l.interestPaid + i
      BY <2>2 DEF Repaid
    <3>3. QED
      BY <3>1, <3>2
  <2>11. loan.totalPaid \in Nat /\ loan.principalPaid \in Nat /\ loan.interestPaid \in Nat
    BY <2>0 DEF Loans
  <2> HIDE DEF p, i, r, l
  <2>12. QED
    BY <2>8, <2>9, <2>10, <2>11
<1>3. IInv /\ LoneCovered /\ [Next]_vars => LoneCovered'
  BY LoneStep
<1>4. QED
  BY <1>1, <1>2, <1>3, Invariance, PTL DEF Spec, LoneRepaymentUsedUp

=============================================================================
