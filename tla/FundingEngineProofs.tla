------------------------ MODULE FundingEngineProofs ------------------------
(***************************************************************************)
(* What TLAPS proves of FundingEngine, for all rates, averages and bounds: *)
(* its types, that the context it serves is the one it sent last, that a   *)
(* regime it failed to send is noticed, and that higher funding never      *)
(* means a larger position.                                                *)
(***************************************************************************)
EXTENDS FundingEngine, TLAPS

-----------------------------------------------------------------------------
(* The adjustment as a function of the magnitude of the rate.              *)

LEMMA AbsNat == \A n \in Int : Abs(n) \in Nat
PROOF BY DEF Abs

LEMMA RegimeOfRate == \A rate \in Int : DetectRegime(rate) \in Regimes
PROOF BY DEF DetectRegime, Regimes

\* What the trend makes of a multiplier within its band.
Held(t, base, least, most) == Clamp(t * base, 10 * least, 10 * most)

\* The adjustment in each band, up to the trend.
LEMMA AdjustmentByBand ==
  ASSUME NEW rate \in Int, NEW average \in Int, NEW before,
         NEW m \in Nat, m = Abs(rate), NEW t \in {9, 11}, t = Trend(rate, average),
         NEW adjustment, adjustment = Adjustment(rate, average, before)
  PROVE  /\ m < 10 => adjustment = 1000000
         /\ m \in 10..49 => adjustment = Held(t, 90000 - 750 * (m - 10), 60000, 90000)
         /\ m \in 50..99 => adjustment = Held(t, 60000 - 600 * (m - 50), 30000, 60000)
         /\ m \in 100..299 => adjustment = Held(t, 30000 - 100 * (m - 100), 10000, 30000)
         /\ m >= 300 => adjustment = 0
PROOF
<1>1. ASSUME m < 10 PROVE adjustment = 1000000
  <2>1. DetectRegime(rate) = "neutral"
    BY <1>1 DEF DetectRegime
  <2>2. Multiplier(rate, average) = 1000000
    BY <2>1 DEF Multiplier, Most
  <2>3. (3 * 1000000) \div 2 = 1500000
    OBVIOUS
  <2> QED BY <2>1, <2>2, <2>3 DEF Adjustment, Clamp
<1>2. ASSUME m \in 10..49
      PROVE adjustment = Held(t, 90000 - 750 * (m - 10), 60000, 90000)
  <2>1. DetectRegime(rate) = "normal"
    BY <1>2 DEF DetectRegime
  <2> QED BY <2>1 DEF Adjustment, Multiplier, Held, Most, Least, Slope, Lower
<1>3. ASSUME m \in 50..99
      PROVE adjustment = Held(t, 60000 - 600 * (m - 50), 30000, 60000)
  <2>1. DetectRegime(rate) = "heated"
    BY <1>3 DEF DetectRegime
  <2> QED BY <2>1 DEF Adjustment, Multiplier, Held, Most, Least, Slope, Lower
<1>4. ASSUME m \in 100..299
      PROVE adjustment = Held(t, 30000 - 100 * (m - 100), 10000, 30000)
  <2>1. DetectRegime(rate) = "mania"
    BY <1>4 DEF DetectRegime
  <2> QED BY <2>1 DEF Adjustment, Multiplier, Held, Most, Least, Slope, Lower
<1>5. ASSUME m >= 300 PROVE adjustment = 0
  <2>1. DetectRegime(rate) = "extreme"
    BY <1>5 DEF DetectRegime
  <2> QED BY <2>1 DEF Adjustment
<1> QED BY <1>1, <1>2, <1>3, <1>4, <1>5

\* The bounds of the adjustment in each band.
LEMMA AdjustmentWithin ==
  ASSUME NEW rate \in Int, NEW average \in Int, NEW before,
         NEW m \in Nat, m = Abs(rate),
         NEW adjustment, adjustment = Adjustment(rate, average, before)
  PROVE  /\ adjustment \in Int
         /\ m < 10 => adjustment = 1000000
         /\ m \in 10..49 => 600000 <= adjustment /\ adjustment <= 900000
         /\ m \in 50..99 => 300000 <= adjustment /\ adjustment <= 600000
         /\ m \in 100..299 => 100000 <= adjustment /\ adjustment <= 300000
         /\ m >= 300 => adjustment = 0
PROOF
<1>1. PICK t \in {9, 11} : t = Trend(rate, average)
  BY DEF Trend
<1>2. CASE m \in 10..49
  <2>1. PICK base \in Int : base = 90000 - 750 * (m - 10)
    OBVIOUS
  <2>2. adjustment = Held(t, base, 60000, 90000)
    BY <1>1, <1>2, <2>1, AdjustmentByBand
  <2>3. /\ adjustment \in Int /\ 10 * 60000 <= adjustment /\ adjustment <= 10 * 90000
    BY <2>2, SMT DEF Held, Clamp
  <2> QED BY <1>2, <2>3, SMT
<1>3. CASE m \in 50..99
  <2>1. PICK base \in Int : base = 60000 - 600 * (m - 50)
    OBVIOUS
  <2>2. adjustment = Held(t, base, 30000, 60000)
    BY <1>1, <1>3, <2>1, AdjustmentByBand
  <2>3. /\ adjustment \in Int /\ 10 * 30000 <= adjustment /\ adjustment <= 10 * 60000
    BY <2>2, SMT DEF Held, Clamp
  <2> QED BY <1>3, <2>3, SMT
<1>4. CASE m \in 100..299
  <2>1. PICK base \in Int : base = 30000 - 100 * (m - 100)
    OBVIOUS
  <2>2. adjustment = Held(t, base, 10000, 30000)
    BY <1>1, <1>4, <2>1, AdjustmentByBand
  <2>3. /\ adjustment \in Int /\ 10 * 10000 <= adjustment /\ adjustment <= 10 * 30000
    BY <2>2, SMT DEF Held, Clamp
  <2> QED BY <1>4, <2>3, SMT
<1>5. CASE m < 10 \/ m >= 300
  BY <1>1, <1>5, AdjustmentByBand, SMT
<1> QED BY <1>2, <1>3, <1>4, <1>5, SMT

\* The adjustment keeps to the band and to the limit of its regime.
LEMMA BandKept ==
  ASSUME NEW rate \in Int, NEW average \in Int, NEW before,
         NEW adjustment, adjustment = Adjustment(rate, average, before),
         NEW regime, regime = DetectRegime(rate)
  PROVE  /\ adjustment \in 10 * Least[regime]..10 * Most[regime]
         /\ adjustment <= MaxPosition[regime]
PROOF
<1>1. PICK m \in Nat : m = Abs(rate)
  BY AbsNat
<1>2. /\ adjustment \in Int
      /\ m < 10 => adjustment = 1000000
      /\ m \in 10..49 => 600000 <= adjustment /\ adjustment <= 900000
      /\ m \in 50..99 => 300000 <= adjustment /\ adjustment <= 600000
      /\ m \in 100..299 => 100000 <= adjustment /\ adjustment <= 300000
      /\ m >= 300 => adjustment = 0
  BY <1>1, AdjustmentWithin, SMT
<1>3. /\ m < 10 => regime = "neutral"
      /\ m \in 10..49 => regime = "normal"
      /\ m \in 50..99 => regime = "heated"
      /\ m \in 100..299 => regime = "mania"
      /\ m >= 300 => regime = "extreme"
  BY <1>1, SMT DEF DetectRegime
<1>4. ASSUME NEW least \in Int, NEW most \in Int, least <= adjustment, adjustment <= most
      PROVE  adjustment \in least..most
  BY <1>2, <1>4
<1>5. /\ 10 * Least[regime] \in Int /\ 10 * Most[regime] \in Int
      /\ 10 * Least[regime] <= adjustment /\ adjustment <= 10 * Most[regime]
      /\ adjustment <= MaxPosition[regime]
  <2>1. CASE m < 10
    BY <1>2, <1>3, <2>1, SMT DEF Least, Most, MaxPosition
  <2>2. CASE m \in 10..49
    BY <1>2, <1>3, <2>2, SMT DEF Least, Most, MaxPosition
  <2>3. CASE m \in 50..99
    BY <1>2, <1>3, <2>3, SMT DEF Least, Most, MaxPosition
  <2>4. CASE m \in 100..299
    BY <1>2, <1>3, <2>4, SMT DEF Least, Most, MaxPosition
  <2>5. CASE m >= 300
    BY <1>2, <1>3, <2>5, SMT DEF Least, Most, MaxPosition
  <2> QED BY <2>1, <2>2, <2>3, <2>4, <2>5, SMT
<1> QED BY <1>4, <1>5

\* The least of every band is the most of the next, so that only rates of the same
\* band have to be compared.
LEMMA AdjustmentFalls ==
  ASSUME NEW r \in Int, NEW s \in Int, NEW average \in Int, NEW before, Abs(r) <= Abs(s)
  PROVE  Adjustment(s, average, before) <= Adjustment(r, average, before)
PROOF
<1>1. PICK m \in Nat, n \in Nat : m = Abs(r) /\ n = Abs(s)
  BY AbsNat
<1>2. PICK t \in {9, 11}, u \in {9, 11} : t = Trend(r, average) /\ u = Trend(s, average)
  BY DEF Trend
<1>3. m <= n /\ u <= t
  <2>1. Abs(average) \in Nat
    BY AbsNat
  <2> QED BY <1>1, <1>2, <2>1 DEF Trend
<1>4. PICK ofr, ofs : /\ ofr = Adjustment(r, average, before)
                      /\ ofs = Adjustment(s, average, before)
  OBVIOUS
<1>5. /\ ofr \in Int
      /\ m < 10 => ofr = 1000000
      /\ m \in 10..49 => 600000 <= ofr /\ ofr <= 900000
      /\ m \in 50..99 => 300000 <= ofr /\ ofr <= 600000
      /\ m \in 100..299 => 100000 <= ofr /\ ofr <= 300000
      /\ m >= 300 => ofr = 0
  BY <1>1, <1>4, AdjustmentWithin, SMT
<1>6. /\ ofs \in Int
      /\ n < 10 => ofs = 1000000
      /\ n \in 10..49 => 600000 <= ofs /\ ofs <= 900000
      /\ n \in 50..99 => 300000 <= ofs /\ ofs <= 600000
      /\ n \in 100..299 => 100000 <= ofs /\ ofs <= 300000
      /\ n >= 300 => ofs = 0
  BY <1>1, <1>4, AdjustmentWithin, SMT
<1>7. CASE m \in 10..49 /\ n \in 10..49
  <2>1. Held(u, 90000 - 750 * (n - 10), 60000, 90000)
          <= Held(t, 90000 - 750 * (m - 10), 60000, 90000)
    BY <1>3, <1>7, SMT DEF Held, Clamp
  <2>2. /\ ofr = Held(t, 90000 - 750 * (m - 10), 60000, 90000)
        /\ ofs = Held(u, 90000 - 750 * (n - 10), 60000, 90000)
    BY <1>1, <1>2, <1>4, <1>7, AdjustmentByBand, SMT
  <2> QED BY <1>4, <2>1, <2>2
<1>8. CASE m \in 50..99 /\ n \in 50..99
  <2>1. Held(u, 60000 - 600 * (n - 50), 30000, 60000)
          <= Held(t, 60000 - 600 * (m - 50), 30000, 60000)
    BY <1>3, <1>8, SMT DEF Held, Clamp
  <2>2. /\ ofr = Held(t, 60000 - 600 * (m - 50), 30000, 60000)
        /\ ofs = Held(u, 60000 - 600 * (n - 50), 30000, 60000)
    BY <1>1, <1>2, <1>4, <1>8, AdjustmentByBand, SMT
  <2> QED BY <1>4, <2>1, <2>2
<1>9. CASE m \in 100..299 /\ n \in 100..299
  <2>1. Held(u, 30000 - 100 * (n - 100), 10000, 30000)
          <= Held(t, 30000 - 100 * (m - 100), 10000, 30000)
    BY <1>3, <1>9, SMT DEF Held, Clamp
  <2>2. /\ ofr = Held(t, 30000 - 100 * (m - 100), 10000, 30000)
        /\ ofs = Held(u, 30000 - 100 * (n - 100), 10000, 30000)
    BY <1>1, <1>2, <1>4, <1>9, AdjustmentByBand, SMT
  <2> QED BY <1>4, <2>1, <2>2
<1>10. CASE /\ ~(m \in 10..49 /\ n \in 10..49)
            /\ ~(m \in 50..99 /\ n \in 50..99)
            /\ ~(m \in 100..299 /\ n \in 100..299)
  <2>1. ofs <= ofr
    BY <1>3, <1>5, <1>6, <1>10, SMT
  <2> QED BY <1>4, <2>1
<1> QED BY <1>7, <1>8, <1>9, <1>10

-----------------------------------------------------------------------------
(* The state.                                                              *)

IInv == TypeOK /\ TrackedIsSent

Tasks == [at : {"free", "send", "emergency"}, context : Contexts \cup {NoContext}]

\* What is computed is a context, and so is what it is compared with.
LEMMA ContextsTyped ==
  /\ NoContext.regime = "none" /\ Idle \in Tasks
  /\ \A rate \in Int, before \in Regimes \cup {"none"} :
       /\ ContextOf(rate, before) \in Contexts
       /\ Sending(ContextOf(rate, before)) \in Tasks
PROOF
<1>1. NoContext.regime = "none" /\ Idle \in Tasks
  BY DEF NoContext, Idle, Tasks
<1>2. ASSUME NEW rate \in Int, NEW before \in Regimes \cup {"none"}
      PROVE  /\ ContextOf(rate, before) \in Contexts
             /\ Sending(ContextOf(rate, before)) \in Tasks
  <2>1. ContextOf(rate, before) \in Contexts
    BY RegimeOfRate DEF ContextOf, Contexts
  <2> QED BY <2>1 DEF Sending, Tasks
<1> QED BY <1>1, <1>2

LEMMA EmergencyTyped ==
  ASSUME NEW rate \in Int, ExceedsLimit(rate)
  PROVE  EmergencyContext(rate) \in Contexts
PROOF
<1>1. DetectRegime(rate) = "extreme"
  BY DEF ExceedsLimit, DetectRegime, Abs
<1> QED BY <1>1 DEF EmergencyContext, Contexts, Regimes

\* Whatever Redis returns is a rate.
LEMMA StoredTyped == TypeOK => StoredRates \subseteq Int
PROOF BY DEF TypeOK, StoredRates, Newest

LEMMA Initially == Init => IInv
PROOF
<1> SUFFICES ASSUME Init PROVE IInv
  OBVIOUS
<1>1. TypeOK
  BY ContextsTyped DEF Init, TypeOK, Tasks, Regimes
<1>2. TrackedIsSent
  BY ContextsTyped DEF Init, TrackedIsSent, Tracked
<1> QED BY <1>1, <1>2 DEF IInv

LEMMA HandleRateKeeps ==
  ASSUME IInv, NEW rate \in Int, HandleRate(rate)
  PROVE  IInv'
PROOF
<1> USE DEF IInv
<1>1. TypeOK'
  <2>1. CASE ExceedsLimit(rate)
    <3>1. handler' \in Tasks
      BY <2>1, EmergencyTyped DEF HandleRate, Tasks
    <3> QED BY <2>1, <3>1 DEF HandleRate, TypeOK, Tasks, storage
  <2>2. CASE ~ExceedsLimit(rate)
    <3>1. handler' \in Tasks
      BY <2>2, ContextsTyped DEF HandleRate, TypeOK
    <3>2. current' \in [live : BOOLEAN, rate : Int]
      <4>1. [live |-> TRUE, rate |-> rate] \in [live : BOOLEAN, rate : Int]
        BY Zenon
      <4>2. current' = [live |-> TRUE, rate |-> rate]
        BY <2>2 DEF HandleRate
      <4> QED BY <4>1, <4>2, Zenon
    <3>3. history' \in SUBSET [rate : Int, period : Nat]
      BY <2>2 DEF HandleRate, TypeOK
    <3>4. previous' \in Regimes \cup {"none"}
      BY <2>2, RegimeOfRate DEF HandleRate
    <3>5. rates' \in Nat
      BY DEF HandleRate, TypeOK
    <3> QED BY <3>1, <3>2, <3>3, <3>4, <3>5 DEF HandleRate, TypeOK, Tasks
  <2> QED BY <2>1, <2>2
<1>2. TrackedIsSent'
  BY DEF HandleRate, TrackedIsSent, Tracked
<1> QED BY <1>1, <1>2

LEMMA StoreFailedKeeps ==
  ASSUME IInv, NEW rate \in Int, StoreFailed(rate)
  PROVE  IInv'
PROOF
<1> USE DEF IInv
<1>1. history' \in SUBSET [rate : Int, period : Nat]
  BY DEF StoreFailed, TypeOK
<1>2. current' \in [live : BOOLEAN, rate : Int]
  <2>1. [live |-> TRUE, rate |-> rate] \in [live : BOOLEAN, rate : Int]
    BY Zenon
  <2> QED BY <2>1, Zenon DEF StoreFailed, TypeOK
<1>3. rates' \in Nat /\ failures' \in Nat
  BY DEF StoreFailed, TypeOK
<1>4. TypeOK'
  BY <1>1, <1>2, <1>3 DEF StoreFailed, TypeOK, regimes
<1>5. TrackedIsSent'
  BY DEF StoreFailed, TrackedIsSent, Tracked, regimes
<1> QED BY <1>4, <1>5

\* What is sent is a context.
LEMMA SendsTyped ==
  ASSUME NEW emergency \in BOOLEAN, NEW context \in Contexts \cup {NoContext},
         Sends(emergency, context)
  PROVE  /\ sent' \in [emergency : BOOLEAN, context : Contexts \cup {NoContext}]
         /\ sent'.emergency = emergency /\ sent'.context = context
PROOF
<1>1. [emergency |-> emergency, context |-> context]
        \in [emergency : BOOLEAN, context : Contexts \cup {NoContext}]
  BY Zenon
<1>2. sent' = [emergency |-> emergency, context |-> context]
  BY DEF Sends
<1>3. [emergency |-> emergency, context |-> context].emergency = emergency
  OBVIOUS
<1>4. [emergency |-> emergency, context |-> context].context = context
  OBVIOUS
<1> QED BY <1>1, <1>2, <1>3, <1>4, Zenon

LEMMA HandlerKeeps ==
  ASSUME IInv, HandlerStep
  PROVE  IInv'
PROOF
<1> USE DEF IInv
<1>1. CASE HandlerSent
  <2>1. handler' \in Tasks /\ handler.context \in Contexts \cup {NoContext}
    BY <1>1, ContextsTyped DEF HandlerSent, TypeOK
  <2>2. (handler.at = "emergency") \in BOOLEAN
    OBVIOUS
  <2>3. /\ sent' \in [emergency : BOOLEAN, context : Contexts \cup {NoContext}]
        /\ sent'.emergency = (handler.at = "emergency")
        /\ sent'.context = handler.context
    BY <1>1, <2>1, <2>2, SendsTyped, Zenon DEF HandlerSent
  <2>4. contexts' \in Contexts \cup {NoContext}
    BY <1>1, <2>1 DEF HandlerSent, TypeOK
  <2>5. TypeOK'
    BY <1>1, <2>1, <2>3, <2>4 DEF HandlerSent, TypeOK, Tasks, storage, bounds
  <2>6. TrackedIsSent'
    <3>1. CASE handler.at = "emergency"
      BY <2>3, <3>1, Zenon DEF TrackedIsSent
    <3>2. CASE handler.at = "send"
      <4>1. contexts' = handler.context
        BY <1>1, <3>2 DEF HandlerSent
      <4> QED BY <2>3, <4>1, Zenon DEF TrackedIsSent
    <3> QED BY <1>1, <3>1, <3>2 DEF HandlerSent, TypeOK
  <2> QED BY <2>5, <2>6
<1>2. CASE HandlerFailed
  <2>1. handler' \in Tasks
    BY <1>2, ContextsTyped DEF HandlerFailed
  <2>2. failures' \in Nat
    BY <1>2 DEF HandlerFailed, Failure, TypeOK
  <2>3. TypeOK'
    BY <1>2, <2>1, <2>2 DEF HandlerFailed, Failure, TypeOK, Tasks, storage, regimes
  <2>4. TrackedIsSent'
    BY <1>2 DEF HandlerFailed, TrackedIsSent, Tracked, regimes
  <2> QED BY <2>3, <2>4
<1> QED BY <1>1, <1>2 DEF HandlerStep

LEMMA UpdaterKeeps ==
  ASSUME IInv, UpdateLoop
  PROVE  IInv'
PROOF
<1> USE DEF IInv
<1>1. CASE PeriodicUpdate
  <2>1. updater' \in Tasks
    BY <1>1, StoredTyped, ContextsTyped DEF PeriodicUpdate, TypeOK
  <2>2. TypeOK'
    BY <1>1, <2>1 DEF PeriodicUpdate, TypeOK, Tasks, storage, regimes, bounds
  <2>3. TrackedIsSent'
    BY <1>1 DEF PeriodicUpdate, TrackedIsSent, Tracked, regimes
  <2> QED BY <2>2, <2>3
<1>2. CASE UpdateSent
  <2>1. updater' \in Tasks /\ updater.context \in Contexts \cup {NoContext}
    BY <1>2, ContextsTyped DEF UpdateSent, TypeOK
  <2>2. updater.context.regime \in Regimes \cup {"none"}
    BY <2>1 DEF Contexts, NoContext
  <2>3. /\ sent' \in [emergency : BOOLEAN, context : Contexts \cup {NoContext}]
        /\ sent'.context = updater.context
    <3>1. FALSE \in BOOLEAN
      OBVIOUS
    <3> QED BY <1>2, <2>1, <3>1, SendsTyped, Zenon DEF UpdateSent
  <2>4. TypeOK'
    BY <1>2, <2>1, <2>2, <2>3 DEF UpdateSent, TypeOK, Tasks, storage, bounds
  <2>5. TrackedIsSent'
    BY <1>2, <2>3 DEF UpdateSent, TrackedIsSent
  <2> QED BY <2>4, <2>5
<1>3. CASE UpdateFailed
  <2>1. updater' \in Tasks
    BY <1>3, ContextsTyped DEF UpdateFailed
  <2>2. failures' \in Nat
    BY <1>3 DEF UpdateFailed, Failure, TypeOK
  <2>3. TypeOK'
    BY <1>3, <2>1, <2>2 DEF UpdateFailed, Failure, TypeOK, Tasks, storage, regimes
  <2>4. TrackedIsSent'
    BY <1>3 DEF UpdateFailed, TrackedIsSent, Tracked, regimes
  <2> QED BY <2>3, <2>4
<1> QED BY <1>1, <1>2, <1>3 DEF UpdateLoop

LEMMA SurroundingsKeep ==
  ASSUME IInv, NextPeriod \/ Expire \/ Restart
  PROVE  IInv'
PROOF
<1> USE DEF IInv
<1>1. CASE NextPeriod
  <2>1. TypeOK'
    BY <1>1 DEF NextPeriod, TypeOK, storage, regimes, bounds
  <2>2. TrackedIsSent'
    BY <1>1 DEF NextPeriod, TrackedIsSent, Tracked, regimes
  <2> QED BY <2>1, <2>2
<1>2. CASE Expire
  <2>1. TypeOK'
    BY <1>2 DEF Expire, TypeOK, regimes, bounds
  <2>2. TrackedIsSent'
    BY <1>2 DEF Expire, TrackedIsSent, Tracked, regimes
  <2> QED BY <2>1, <2>2
<1>3. CASE Restart
  <2>1. TypeOK'
    BY <1>3, ContextsTyped DEF Restart, TypeOK, Tasks, storage
  <2>2. TrackedIsSent'
    BY <1>3, ContextsTyped DEF Restart, TrackedIsSent, Tracked
  <2> QED BY <2>1, <2>2
<1> QED BY <1>1, <1>2, <1>3

\* The types and the agreement of what is served with what was sent are
\* inductive together.
THEOREM Invariance == Spec => []IInv
PROOF
<1>1. Init => IInv
  BY Initially
<1>2. IInv /\ [Next]_vars => IInv'
  <2> SUFFICES ASSUME IInv, [Next]_vars PROVE IInv'
    OBVIOUS
  <2>1. ASSUME NEW rate \in Rates, HandleRate(rate) \/ StoreFailed(rate) PROVE IInv'
    BY <2>1, FundingAssumption, HandleRateKeeps, StoreFailedKeeps DEF FundingAssumption
  <2>2. CASE HandlerStep
    BY <2>2, HandlerKeeps
  <2>3. CASE UpdateLoop
    BY <2>3, UpdaterKeeps
  <2>4. CASE NextPeriod \/ Expire \/ Restart
    BY <2>4, SurroundingsKeep
  <2>5. CASE UNCHANGED vars
    BY <2>5 DEF IInv, TypeOK, TrackedIsSent, Tracked, vars
  <2> QED BY <2>1, <2>2, <2>3, <2>4, <2>5 DEF Next
<1> QED BY <1>1, <1>2, PTL DEF Spec

\* Every context that is computed, sent or served states the regime of its rate.
THEOREM TypeCorrect == Spec => []TypeOK
PROOF
<1>1. IInv => TypeOK
  BY DEF IInv
<1> QED BY <1>1, Invariance, PTL

\* Whichever of the two tasks overtakes the other and whichever send raises, the
\* context served is the one sent last, unless that was an emergency.
THEOREM ServedIsSent == Spec => []TrackedIsSent
PROOF
<1>1. IInv => TrackedIsSent
  BY DEF IInv
<1> QED BY <1>1, Invariance, PTL

\* Higher funding never means a larger position, for all rates and averages.
THEOREM HigherFundingNeverLarger == Spec => []HigherFundingSmaller
PROOF
<1>1. TypeOK => HigherFundingSmaller
  <2> SUFFICES ASSUME TypeOK, NEW rate \in Levels, NEW average \in Levels
               PROVE  LET other == Adjustment(rate, average, previous)
                          own == Adjustment(current.rate, average, previous)
                          regime == DetectRegime(current.rate)
                      IN /\ Abs(rate) <= Abs(current.rate) => own <= other
                         /\ Abs(current.rate) <= Abs(rate) => other <= own
                         /\ own \in 10 * Least[regime]..10 * Most[regime]
                         /\ own <= MaxPosition[regime]
    BY DEF HigherFundingSmaller
  <2>1. current.rate \in Int /\ rate \in Int /\ average \in Int
    BY FundingAssumption DEF FundingAssumption, TypeOK
  <2> QED BY <2>1, AdjustmentFalls, BandKept
<1> QED BY <1>1, TypeCorrect, PTL

\* What was sent last states another regime than that of the stored rate.
RegimeMissed ==
  /\ Tracked /\ current.live /\ ~sent.emergency
  /\ sent.context.regime # DetectRegime(current.rate)

\* periodic_context_update finds that a stored rate differs from the context it
\* compares with, and what it would send states the regime of the current rate.
RepairFound ==
  \E rate \in StoredRates :
    /\ Differs(ContextOf(rate, previous))
    /\ ContextOf(rate, previous).regime = DetectRegime(current.rate)

\* The repair that RegimeSettles rests on is always found, whichever task overtook
\* the other and whichever sends raised before.
THEOREM MismatchNoticed == Spec => [](RegimeMissed => RepairFound)
PROOF
<1>1. TrackedIsSent => (RegimeMissed => RepairFound)
  <2> SUFFICES ASSUME TrackedIsSent, RegimeMissed
               PROVE  RepairFound
    OBVIOUS
  <2>1. current.rate \in StoredRates
    BY DEF StoredRates, RegimeMissed
  <2>2. sent.context = contexts
    BY DEF TrackedIsSent, RegimeMissed
  <2>3. ContextOf(current.rate, previous).regime = DetectRegime(current.rate)
    BY DEF ContextOf
  <2>4. Differs(ContextOf(current.rate, previous))
    BY <2>2, <2>3 DEF Differs, RegimeMissed
  <2> QED BY <2>1, <2>3, <2>4 DEF RepairFound
<1> QED BY <1>1, ServedIsSent, PTL
=============================================================================
