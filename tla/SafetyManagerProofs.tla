------------------------ MODULE SafetyManagerProofs ------------------------
(***************************************************************************)
(* What TLAPS proves of SafetyManager, for all limits, inputs and sets of  *)
(* manual actions: its types, and that a breaker that triggers halts the   *)
(* trading unless a batch fails.                                           *)
(***************************************************************************)
EXTENDS SafetyManager, TLAPS

IInv == TypeOK /\ BreakerHalts

LEMMA Initially == SafetyAssumption /\ Init => IInv
PROOF
<1> SUFFICES ASSUME Init, SafetyAssumption PROVE IInv
  OBVIOUS
<1>1. TypeOK
  <2>1. /\ metrics \in [value : Nat, volatility : Nat, loss : Int, rate : Nat]
        /\ window \in Nat /\ inputs \in Nat /\ failures \in Nat
    BY DEF Init
  <2>2. 0 \in Int /\ 1000 \in Int
    OBVIOUS
  <2>3. /\ pnl \in [seen : BOOLEAN, start : Int, peak : Int]
        /\ safety \in [risk : RiskLevels, distance : Int, dropped : BOOLEAN,
                       listed : SUBSET Breakers]
        /\ silent \in BOOLEAN /\ override \in BOOLEAN
    BY <2>2, Zenon DEF Init, RiskLevels
  <2>4. /\ active \in SUBSET Breakers /\ cooled \in SUBSET active
        /\ queue \in SUBSET Actions /\ batch \in SUBSET Actions
        /\ awaiting \in SUBSET Breakers /\ answered \in SUBSET {"silence", "limit"}
    BY DEF Init
  <2>5. /\ handler \in {"free", "alert"} /\ switch \in {"sleep", "alert"}
        /\ monitor.at \in {"sleep", "breaker", "limit", "metrics"}
        /\ resets.at \in {"sleep", "notice"}
    BY DEF Init, Asleep
  <2> QED BY <2>1, <2>3, <2>4, <2>5 DEF TypeOK
<1>2. BreakerHalts
  BY DEF Init, BreakerHalts
<1> QED BY <1>1, <1>2 DEF IInv

\* The distance of a position to its liquidation is a number, and every ratio
\* has a risk level.
LEMMA InputsTyped ==
  ASSUME SafetyAssumption
  PROVE  /\ \A open \in BOOLEAN : Distance(open) \in Int
         /\ \A l \in LtvPercents : LtvRisk(l) \in RiskLevels
PROOF
<1>1. \A open \in BOOLEAN : Distance(open) \in Int
  BY DEF SafetyAssumption, Distance
<1>2. \A l \in LtvPercents : LtvRisk(l) \in RiskLevels
  BY DEF SafetyAssumption, LtvRisk, RiskLevels
<1> QED BY <1>1, <1>2

\* What the limits ask for are actions, and the check leaves the queue at least
\* as full as it finds it.
LEMMA LimitsAsk ==
  ASSUME NEW q \in SUBSET Actions, NEW limits, ReportLimits(limits, q)
  PROVE  /\ queue' \in SUBSET Actions
         /\ q \subseteq queue'
         /\ monitor'.at \in {"limit", "metrics"}
PROOF
<1>1. CASE limits = <<>>
  BY <1>1 DEF ReportLimits
<1>2. CASE limits # <<>>
  <2>1. OnBreach(Head(limits)) \in Actions
    BY DEF OnBreach, Actions
  <2>2. /\ queue' = q \cup {OnBreach(Head(limits))}
        /\ monitor'.at = "limit"
    BY <1>2 DEF ReportLimits
  <2> QED BY <2>1, <2>2
<1> QED BY <1>1, <1>2

\* A pass over the breakers resets some of them and wakes the loop or sends it
\* to its notice.
LEMMA ResetsReset ==
  ASSUME TypeOK, NEW names, ResetsFrom(names)
  PROVE  /\ active' \in SUBSET Breakers
         /\ cooled' \in SUBSET active'
         /\ resets'.at \in {"sleep", "notice"}
PROOF
<1>1. CASE Due(names) = <<>>
  BY <1>1 DEF ResetsFrom, Asleep, breakers, TypeOK
<1>2. CASE Due(names) # <<>>
  <2> DEFINE b == Head(Due(names))
  <2>1. /\ active' = active \ {b} /\ cooled' = cooled \ {b}
        /\ resets'.at = "notice"
    BY <1>2 DEF ResetsFrom
  <2> QED BY <2>1 DEF TypeOK
<1> QED BY <1>1, <1>2

-----------------------------------------------------------------------------
LEMMA MessagesKeep ==
  ASSUME IInv, SafetyAssumption, Messages
  PROVE  IInv'
PROOF
<1> USE DEF IInv
<1>1. ASSUME NEW p \in Positions, HandlePositionUpdate(p)
      PROVE  IInv'
  <2>1. /\ p \in PositionUpdates /\ Distance(p.open) \in Int
    BY InputsTyped DEF SafetyAssumption, PositionUpdates
  <2>2. /\ metrics' \in [value : Nat, volatility : Nat, loss : Int, rate : Nat]
        /\ safety' \in [risk : RiskLevels, distance : Int, dropped : BOOLEAN,
                        listed : SUBSET Breakers]
    BY <1>1, <2>1 DEF HandlePositionUpdate, TypeOK, PositionUpdates
  <2>3. /\ queue' \in SUBSET Actions /\ queue \subseteq queue'
        /\ handler' \in {"free", "alert"}
    BY <1>1 DEF HandlePositionUpdate, TypeOK, Recommended, Actions
  <2>4. TypeOK'
    BY <1>1, <2>2, <2>3 DEF HandlePositionUpdate, TypeOK, Message, Input, breakers, clock
  <2>5. BreakerHalts'
    BY <1>1, <2>3 DEF HandlePositionUpdate, BreakerHalts
  <2> QED BY <2>4, <2>5
<1>2. ASSUME LiquidationAlert
      PROVE  IInv'
  BY <1>2 DEF LiquidationAlert, TypeOK, BreakerHalts, state, breakers, clock, history, bounds
<1>3. ASSUME NEW n \in Pnls, HandlePnlUpdate(n)
      PROVE  IInv'
  <2> DEFINE start == IF pnl.seen THEN pnl.start ELSE n
             peak == IF pnl.seen /\ n <= pnl.peak THEN pnl.peak ELSE n
  <2>1. n \in Int /\ start \in Int /\ peak \in Int
    BY DEF SafetyAssumption, TypeOK
  <2>2. /\ pnl' = [seen |-> TRUE, start |-> start, peak |-> peak]
        /\ metrics' = [metrics EXCEPT !.loss = n - start]
    BY <1>3 DEF HandlePnlUpdate
  <2>3. /\ pnl' \in [seen : BOOLEAN, start : Int, peak : Int]
        /\ metrics' \in [value : Nat, volatility : Nat, loss : Int, rate : Nat]
    BY <2>1, <2>2 DEF TypeOK
  <2>4. Dropped(peak, n) \in BOOLEAN
    BY DEF Dropped
  <2>5. /\ safety' \in [risk : RiskLevels, distance : Int, dropped : BOOLEAN,
                        listed : SUBSET Breakers]
        /\ queue' \in SUBSET Actions /\ queue \subseteq queue'
    <3>1. CASE peak = 0
      BY <1>3, <3>1 DEF HandlePnlUpdate, TypeOK
    <3>2. CASE peak # 0
      <4>1. /\ safety' = [safety EXCEPT !.dropped = Dropped(peak, n)]
            /\ queue' = queue \/ queue' = queue \cup {"panic_close"}
        BY <1>3, <3>2 DEF HandlePnlUpdate
      <4> HIDE DEF peak
      <4> QED BY <2>4, <4>1 DEF TypeOK, Actions
    <3> QED BY <3>1, <3>2
  <2>6. TypeOK'
    BY <1>3, <2>3, <2>5 DEF HandlePnlUpdate, TypeOK, Message, Input, breakers, clock, tasks, history
  <2>7. BreakerHalts'
    BY <1>3, <2>5 DEF HandlePnlUpdate, BreakerHalts, history
  <2> QED BY <2>6, <2>7
<1>4. ASSUME NEW l \in LtvPercents, HandleLtvUpdate(l)
      PROVE  IInv'
  <2>1. safety' \in [risk : RiskLevels, distance : Int, dropped : BOOLEAN,
                     listed : SUBSET Breakers]
    BY <1>4, InputsTyped DEF HandleLtvUpdate, TypeOK
  <2>2. TypeOK'
    BY <1>4, <2>1 DEF HandleLtvUpdate, TypeOK, Message, Input, breakers, clock, tasks, history
  <2>3. BreakerHalts'
    BY <1>4 DEF HandleLtvUpdate, BreakerHalts, history
  <2> QED BY <2>2, <2>3
<1>5. ASSUME HandleServiceHealth
      PROVE  IInv'
  <2>1. silent' \in BOOLEAN
    BY <1>5 DEF HandleServiceHealth
  <2>2. TypeOK'
    BY <1>5, <2>1 DEF HandleServiceHealth, TypeOK, Message, Input, state, breakers, tasks, history
  <2>3. BreakerHalts'
    BY <1>5 DEF HandleServiceHealth, BreakerHalts, history
  <2> QED BY <2>2, <2>3
<1>6. ASSUME HandleTradeExecution
      PROVE  IInv'
  <2>1. window' \in Nat /\ metrics' \in [value : Nat, volatility : Nat, loss : Int, rate : Nat]
    BY <1>6 DEF HandleTradeExecution, TypeOK
  <2>2. TypeOK'
    BY <1>6, <2>1 DEF HandleTradeExecution, TypeOK, Message, Input, breakers, tasks, history
  <2>3. BreakerHalts'
    BY <1>6 DEF HandleTradeExecution, BreakerHalts, history
  <2> QED BY <2>2, <2>3
<1> QED BY <1>1, <1>2, <1>3, <1>4, <1>5, <1>6 DEF Messages

LEMMA ClockKeeps ==
  ASSUME IInv, Clock
  PROVE  IInv'
PROOF
<1> USE DEF IInv
<1>1. ASSUME MinutePasses PROVE IInv'
  BY <1>1 DEF MinutePasses, TypeOK, BreakerHalts, state, breakers, tasks, history, bounds
<1>2. ASSUME FallSilent PROVE IInv'
  BY <1>2 DEF FallSilent, TypeOK, BreakerHalts, state, breakers, tasks, bounds
<1>3. ASSUME NEW b \in Breakers, CoolDown(b) PROVE IInv'
  BY <1>3 DEF CoolDown, TypeOK, BreakerHalts, state, clock, tasks, history, bounds
<1> QED BY <1>1, <1>2, <1>3 DEF Clock

LEMMA ApiKeeps ==
  ASSUME IInv, SafetyAssumption, Api
  PROVE  IInv'
PROOF
<1> USE DEF IInv
<1>1. ASSUME NEW a \in ManualActions, ManualAction(a) PROVE IInv'
  BY <1>1 DEF ManualAction, SafetyAssumption, TypeOK, BreakerHalts, Input, state, breakers,
              clock, tasks, history
<1>2. ASSUME ResetSwitch PROVE IInv'
  <2>1. silent' \in BOOLEAN
    BY <1>2 DEF ResetSwitch
  <2>2. TypeOK'
    BY <1>2, <2>1 DEF ResetSwitch, TypeOK, Input, state, breakers, tasks, history
  <2>3. BreakerHalts'
    BY <1>2 DEF ResetSwitch, BreakerHalts, history
  <2> QED BY <2>2, <2>3
<1>3. ASSUME NEW enable \in BOOLEAN, Override(enable) PROVE IInv'
  BY <1>3 DEF Override, TypeOK, BreakerHalts, Input, state, breakers, tasks, history
<1> QED BY <1>1, <1>2, <1>3 DEF Api

-----------------------------------------------------------------------------
LEMMA MonitoringKeeps ==
  ASSUME IInv, SafetyAssumption, MonitoringLoop
  PROVE  IInv'
PROOF
<1> USE DEF IInv
<1>1. ASSUME CheckBreakers PROVE IInv'
  <2> DEFINE triggered == {b \in Breakers \ active : Triggers(b)}
  <2>1. triggered \in SUBSET Breakers
    OBVIOUS
  <2>2. /\ safety' = [safety EXCEPT !.listed = active \cup triggered]
        /\ active' = (active \cup triggered) \ cooled
        /\ cooled' = {}
        /\ awaiting' = awaiting \cup triggered
    BY <1>1 DEF CheckBreakers
  <2>3. /\ queue' \in SUBSET Actions /\ queue \subseteq queue'
        /\ monitor'.at \in {"breaker", "limit", "metrics"}
        /\ HaltOnBreaker /\ triggered # {} => "halt_trading" \in queue'
    <3>1. CASE Halts(triggered)
      BY <1>1, <3>1 DEF CheckBreakers, TypeOK, Actions
    <3>2. CASE ~Halts(triggered)
      <4>1. CheckLimits(queue)
        BY <1>1, <3>2 DEF CheckBreakers
      <4> QED BY <3>2, <4>1, LimitsAsk DEF CheckLimits, TypeOK, Halts
    <3> QED BY <3>1, <3>2
  <2> HIDE DEF triggered
  <2>4. /\ safety' \in [risk : RiskLevels, distance : Int, dropped : BOOLEAN,
                        listed : SUBSET Breakers]
        /\ active' \in SUBSET Breakers /\ cooled' \in SUBSET active'
        /\ awaiting' \in SUBSET Breakers
    BY <2>1, <2>2 DEF TypeOK
  <2>5. TypeOK'
    BY <1>1, <2>3, <2>4 DEF CheckBreakers, TypeOK, clock, bounds
  <2>6. BreakerHalts'
    BY <1>1, <2>2, <2>3 DEF CheckBreakers, BreakerHalts
  <2> QED BY <2>5, <2>6
<1>2. ASSUME BreakerAlertSent PROVE IInv'
  <2>1. /\ queue' \in SUBSET Actions /\ queue \subseteq queue'
        /\ monitor'.at \in {"breaker", "limit", "metrics"}
    <3>1. CASE Len(monitor.left) > 1
      BY <1>2, <3>1 DEF BreakerAlertSent, TypeOK
    <3>2. CASE ~(Len(monitor.left) > 1)
      <4>1. CheckLimits(queue)
        BY <1>2, <3>2 DEF BreakerAlertSent
      <4> QED BY <4>1, LimitsAsk DEF CheckLimits, TypeOK
    <3> QED BY <3>1, <3>2
  <2> QED BY <1>2, <2>1 DEF BreakerAlertSent, TypeOK, BreakerHalts, state, breakers, clock,
                            history, bounds
<1>3. ASSUME LimitAlertSent PROVE IInv'
  <2>1. /\ queue' \in SUBSET Actions /\ queue \subseteq queue'
        /\ monitor'.at \in {"limit", "metrics"}
    BY <1>3, LimitsAsk DEF LimitAlertSent, TypeOK
  <2> QED BY <1>3, <2>1 DEF LimitAlertSent, TypeOK, BreakerHalts, state, breakers, clock,
                            history, bounds
<1>4. ASSUME MetricsSent PROVE IInv'
  BY <1>4 DEF MetricsSent, Asleep, TypeOK, BreakerHalts, state, breakers, clock, history, bounds
<1>5. ASSUME MonitorFailed PROVE IInv'
  BY <1>5 DEF MonitorFailed, Failure, Asleep, TypeOK, BreakerHalts, state, breakers, clock,
              history
<1> QED BY <1>1, <1>2, <1>3, <1>4, <1>5 DEF MonitoringLoop

LEMMA LoopsKeep ==
  ASSUME IInv, ResetLoop \/ SwitchLoop
  PROVE  IInv'
PROOF
<1> USE DEF IInv
<1>1. ASSUME CheckResets PROVE IInv'
  BY <1>1, ResetsReset DEF CheckResets, TypeOK, BreakerHalts, state, clock, history, bounds
<1>2. ASSUME ResetNoticeSent PROVE IInv'
  BY <1>2, ResetsReset DEF ResetNoticeSent, TypeOK, BreakerHalts, state, clock, history, bounds
<1>3. ASSUME ResetNoticeFailed PROVE IInv'
  BY <1>3 DEF ResetNoticeFailed, AfterNoticeFailure, Asleep, Failure, TypeOK, BreakerHalts,
              state, breakers, clock, history
<1>4. ASSUME CheckSwitch PROVE IInv'
  BY <1>4 DEF CheckSwitch, TypeOK, Actions, BreakerHalts, state, breakers, clock, history, bounds
<1>5. ASSUME SwitchAlertSent PROVE IInv'
  BY <1>5 DEF SwitchAlertSent, TypeOK, BreakerHalts, state, breakers, clock, history, bounds
<1>6. ASSUME SwitchAlertFailed PROVE IInv'
  BY <1>6 DEF SwitchAlertFailed, AfterSwitchFailure, Failure, TypeOK, BreakerHalts, state,
              breakers, clock, history
<1> QED BY <1>1, <1>2, <1>3, <1>4, <1>5, <1>6 DEF ResetLoop, SwitchLoop

LEMMA EmergencyKeeps ==
  ASSUME IInv, EmergencyLoop
  PROVE  IInv'
PROOF
<1> USE DEF IInv
<1>1. ASSUME TakeActions PROVE IInv'
  BY <1>1 DEF TakeActions, TypeOK, BreakerHalts, state, breakers, clock, tasks, history, bounds
<1>2. ASSUME NEW a \in Actions, ActionSent(a) PROVE IInv'
  <2>1. queue' = queue /\ batch' = batch \ {a}
    BY <1>2 DEF ActionSent
  <2>2. answered' \in SUBSET {"silence", "limit"} /\ awaiting' \in SUBSET Breakers
    BY <1>2 DEF ActionSent, TypeOK
  <2>3. TypeOK'
    BY <1>2, <2>1, <2>2 DEF ActionSent, TypeOK, state, breakers, clock, tasks, bounds
  <2>4. BreakerHalts'
    BY <1>2, <2>1 DEF ActionSent, BreakerHalts
  <2> QED BY <2>3, <2>4
<1>3. ASSUME ActionFailed PROVE IInv'
  BY <1>3 DEF ActionFailed, Failure, TypeOK, BreakerHalts, state, breakers, clock, tasks
<1> QED BY <1>1, <1>2, <1>3 DEF EmergencyLoop

LEMMA Stutter ==
  ASSUME IInv, UNCHANGED vars
  PROVE  IInv'
  BY DEF IInv, TypeOK, BreakerHalts, vars

-----------------------------------------------------------------------------
\* The invariant is inductive.
THEOREM Invariance == ASSUME SafetyAssumption PROVE Spec => []IInv
PROOF
<1>1. Init => IInv
  BY Initially
<1>2. IInv /\ [Next]_vars => IInv'
  BY MessagesKeep, ClockKeeps, ApiKeeps, MonitoringKeeps, LoopsKeep, EmergencyKeeps, Stutter
  DEF Next
<1> QED BY <1>1, <1>2, PTL DEF Spec

\* Types: no loop of the safety manager ends, and only active breakers cool down.
THEOREM TypeCorrect == ASSUME SafetyAssumption PROVE Spec => []TypeOK
PROOF
<1>1. IInv => TypeOK
  BY DEF IInv
<1> QED BY <1>1, Invariance, PTL

\* A breaker that triggers halts the trading: the halt is queued, or in the batch
\* that is being published, until it is published or lost in a batch that fails.
THEOREM TriggeredBreakersHalt == ASSUME SafetyAssumption PROVE Spec => []BreakerHalts
PROOF
<1>1. IInv => BreakerHalts
  BY DEF IInv
<1> QED BY <1>1, Invariance, PTL
=============================================================================
