---------------------------- MODULE FundingEngine ----------------------------
(***************************************************************************)
(* The funding engine (src/hedgelock/funding_engine with the calculator of *)
(* src/hedgelock/shared), for the one symbol that the collector polls.     *)
(*                                                                         *)
(* Two tasks compute contexts from the stored rate and send them on        *)
(* funding_context: process_funding_rates for every rate that comes in,    *)
(* and periodic_context_update every minute when the stored rate says      *)
(* something else than the context sent last.                              *)
(*                                                                         *)
(*   process_funding_rates     HandleRate, StoreFailed, HandlerSent,       *)
(*                             HandlerFailed                               *)
(*   periodic_context_update   PeriodicUpdate, UpdateSent, UpdateFailed    *)
(*   Redis and the clock       NextPeriod, Expire                          *)
(*   the process               Restart                                     *)
(*                                                                         *)
(* Rates are whole annualized percents.  The module is about what the      *)
(* engine sends, in the order in which it sends it.  What of it a consumer *)
(* hears, and when, is not: funding_context has three partitions, messages *)
(* carry no key, and nobody waits for the broker's acknowledgement.        *)
(* Invalid rates, which are only logged, alerts, risk scores and the       *)
(* connection to Kafka are left out.                                       *)
(***************************************************************************)
EXTENDS Integers

CONSTANTS
  Rates,            \* annualized rates of the messages
  Levels,           \* rates and averages for which the adjustment is compared
  MaxRates, MaxPeriods, MaxRestarts, MaxFailures   \* bounds

ASSUME FundingAssumption ==
  /\ Rates \subseteq Int /\ Levels \subseteq Int
  /\ {MaxRates, MaxPeriods, MaxRestarts, MaxFailures} \subseteq Nat

VARIABLES
  current,    \* Redis, funding:current: the rate stored last, live for an hour
  history,    \* Redis, funding:history: rates, sorted by their funding period
  period,     \* clock: the funding period that comes next
  previous,   \* previous_regimes
  contexts,   \* current_contexts
  sent,       \* the context the producer accepted last
  handler,    \* process_funding_rates, and the context it is sending
  updater,    \* periodic_context_update, and the context it is sending
  rates, restarts, failures   \* history: bounds

storage == <<current, history>>
regimes == <<previous, contexts>>
bounds == <<rates, restarts, failures>>
vars == <<current, history, period, previous, contexts, sent, handler, updater,
          rates, restarts, failures>>

-----------------------------------------------------------------------------
(* FundingCalculator.                                                      *)

Abs(n) == IF n < 0 THEN -n ELSE n

Regimes == {"neutral", "normal", "heated", "mania", "extreme"}

\* detect_regime
DetectRegime(rate) ==
  IF Abs(rate) < 10 THEN "neutral"
  ELSE IF Abs(rate) < 50 THEN "normal"
  ELSE IF Abs(rate) < 100 THEN "heated"
  ELSE IF Abs(rate) < 300 THEN "mania"
  ELSE "extreme"

\* Where the band of a regime begins.
Lower == [neutral |-> 0, normal |-> 10, heated |-> 50, mania |-> 100, extreme |-> 300]

\* POSITION_MULTIPLIERS in thousandths of a percent, and how fast they fall with
\* the rate within the band.
Least == [neutral |-> 90000, normal |-> 60000, heated |-> 30000, mania |-> 10000,
          extreme |-> 0]
Most == [neutral |-> 100000, normal |-> 90000, heated |-> 60000, mania |-> 30000,
         extreme |-> 0]
Slope == [neutral |-> 0, normal |-> 750, heated |-> 600, mania |-> 100, extreme |-> 0]

\* Mutant: the other way round.
TrendSwapped(rate, average) == IF Abs(average) > Abs(rate) THEN 9 ELSE 11

\* A tenth more when the average of the last day is above the rate, else less.
Trend(rate, average) == IF Abs(average) > Abs(rate) THEN 11 ELSE 9

Clamp(n, least, most) == IF n < least THEN least ELSE IF n > most THEN most ELSE n

\* calculate_position_multiplier, in millionths
Multiplier(rate, average) ==
  LET regime == DetectRegime(rate) IN
    IF regime = "neutral" THEN 10 * Most[regime]
    ELSE Clamp(Trend(rate, average)
                 * (Most[regime] - Slope[regime] * (Abs(rate) - Lower[regime])),
               10 * Least[regime], 10 * Most[regime])

\* The position_adjustment of the decision that goes with a context: nothing when
\* recommend_action says exit_all, up to the whole when funding is neutral again.
Adjustment(rate, average, before) ==
  LET regime == DetectRegime(rate) IN
    IF regime = "extreme" THEN 0
    ELSE IF regime = "neutral" /\ before \notin {"none", "neutral"}
    THEN Clamp((3 * Multiplier(rate, average)) \div 2, 0, 1000000)
    ELSE Multiplier(rate, average)

\* max_position_size of the decision
MaxPosition == [neutral |-> 2000000, normal |-> 1500000, heated |-> 1000000,
                mania |-> 500000, extreme |-> 0]

\* Mutant: the regime is the one recorded before.
ContextOfRecorded(rate, before) ==
  [rate |-> rate, regime |-> IF before = "none" THEN DetectRegime(rate) ELSE before,
   change |-> before # "none" /\ before # DetectRegime(rate)]

\* calculate_funding_context.  should_exit is regime = "extreme".
ContextOf(rate, before) ==
  [rate |-> rate, regime |-> DetectRegime(rate),
   change |-> before # "none" /\ before # DetectRegime(rate)]

EmergencyContext(rate) == [rate |-> rate, regime |-> "extreme", change |-> TRUE]

NoContext == [rate |-> 0, regime |-> "none", change |-> FALSE]

-----------------------------------------------------------------------------
Idle == [at |-> "free", context |-> NoContext]
Sending(context) == [at |-> "send", context |-> context]

Init ==
  /\ current = [live |-> FALSE, rate |-> 0]
  /\ history = {}
  /\ period = 0
  /\ previous = "none" /\ contexts = NoContext
  /\ sent = [emergency |-> FALSE, context |-> NoContext]
  /\ handler = Idle /\ updater = Idle
  /\ rates = 0 /\ restarts = 0 /\ failures = 0

Tracked == contexts.regime # "none"

Failure == failures < MaxFailures /\ failures' = failures + 1 /\ UNCHANGED <<rates, restarts>>

\* send() has put the message into the producer's buffer, and returns.
Sends(emergency, context) == sent' = [emergency |-> emergency, context |-> context]

-----------------------------------------------------------------------------
(* process_funding_rates.                                                  *)

\* validate_funding_rate
ExceedsLimit(rate) == Abs(rate) > 1000

\* _handle_funding_rate up to its send.  The rate is stored and the regime
\* recorded before the context is sent.  A rate beyond all limits leaves no trace.
HandleRate(rate) ==
  /\ handler.at = "free" /\ rates < MaxRates
  /\ rates' = rates + 1
  /\ IF ExceedsLimit(rate)
     THEN /\ handler' = [at |-> "emergency", context |-> EmergencyContext(rate)]
          /\ UNCHANGED <<storage, previous>>
     ELSE /\ current' = [live |-> TRUE, rate |-> rate]
          /\ history' = history \cup {[rate |-> rate, period |-> period]}
          /\ previous' = DetectRegime(rate)
          /\ handler' = Sending(ContextOf(rate, previous))
  /\ UNCHANGED <<period, contexts, sent, updater, restarts, failures>>

\* Redis fails between the calls: the rate is in the history, but maybe not the
\* current one, and nothing more happens for it.
StoreFailed(rate) ==
  /\ handler.at = "free" /\ rates < MaxRates /\ failures < MaxFailures
  /\ ~ExceedsLimit(rate)
  /\ rates' = rates + 1 /\ failures' = failures + 1
  /\ history' = history \cup {[rate |-> rate, period |-> period]}
  /\ current' \in {current, [live |-> TRUE, rate |-> rate]}
  /\ UNCHANGED <<period, regimes, sent, handler, updater, restarts>>

HandlerSent ==
  /\ handler.at # "free" /\ handler' = Idle
  /\ Sends(handler.at = "emergency", handler.context)
  /\ contexts' = IF handler.at = "send" THEN handler.context ELSE contexts
  /\ UNCHANGED <<storage, period, previous, updater, bounds>>

\* send() raises, and nothing more happens for this rate.
HandlerFailed ==
  /\ handler.at # "free" /\ Failure
  /\ handler' = Idle
  /\ UNCHANGED <<storage, period, regimes, sent, updater>>

HandlerStep == HandlerSent \/ HandlerFailed

-----------------------------------------------------------------------------
(* periodic_context_update.                                                *)

\* The rates of the newest period.  Redis returns the one whose JSON text is the
\* greatest, whichever came last.
Newest == {h.rate : h \in {x \in history : \A y \in history : y.period <= x.period}}

\* get_current_funding_rate
StoredRates == IF current.live THEN {current.rate} ELSE Newest

\* Mutant: the context is compared with the regime recorded before the send.
DiffersFromRecorded(context) == context.regime # previous

\* Another regime, or more than five points away.
Differs(context) ==
  \/ context.regime # contexts.regime
  \/ Abs(context.rate - contexts.rate) > 5

PeriodicUpdate ==
  /\ updater.at = "free" /\ Tracked
  /\ \E rate \in StoredRates :
       /\ Differs(ContextOf(rate, previous))
       /\ updater' = Sending(ContextOf(rate, previous))
  /\ UNCHANGED <<storage, period, regimes, sent, handler, bounds>>

\* What happened meanwhile is overwritten.
UpdateSent ==
  /\ updater.at = "send" /\ updater' = Idle
  /\ Sends(FALSE, updater.context)
  /\ contexts' = updater.context /\ previous' = updater.context.regime
  /\ UNCHANGED <<storage, period, handler, bounds>>

UpdateFailed ==
  /\ updater.at = "send" /\ Failure
  /\ updater' = Idle
  /\ UNCHANGED <<storage, period, regimes, sent, handler>>

UpdateLoop == PeriodicUpdate \/ UpdateSent \/ UpdateFailed

-----------------------------------------------------------------------------
(* Redis, the clock and the process.                                       *)

NextPeriod ==
  /\ period < MaxPeriods /\ period' = period + 1
  /\ UNCHANGED <<storage, regimes, sent, handler, updater, bounds>>

\* An hour without a rate; the collector polls once an hour.
Expire ==
  /\ current.live /\ current' = [current EXCEPT !.live = FALSE]
  /\ UNCHANGED <<history, period, regimes, sent, handler, updater, bounds>>

\* Redis stays, and what was sent.
Restart ==
  /\ restarts < MaxRestarts /\ restarts' = restarts + 1
  /\ previous' = "none" /\ contexts' = NoContext
  /\ handler' = Idle /\ updater' = Idle
  /\ UNCHANGED <<storage, period, sent, rates, failures>>

Next ==
  \/ \E rate \in Rates : HandleRate(rate) \/ StoreFailed(rate)
  \/ HandlerStep
  \/ UpdateLoop
  \/ NextPeriod
  \/ Expire
  \/ Restart

Spec == Init /\ [][Next]_vars

\* A send returns or raises, and the update comes round every minute.
FairSpec == Spec /\ WF_vars(HandlerStep) /\ WF_vars(UpdateLoop)

-----------------------------------------------------------------------------
(* Properties.                                                             *)

Contexts ==
  {c \in [rate : Int, regime : Regimes, change : BOOLEAN] : c.regime = DetectRegime(c.rate)}

\* Types, and every context anywhere states the regime of its rate.
TypeOK ==
  /\ current \in [live : BOOLEAN, rate : Int]
  /\ history \in SUBSET [rate : Int, period : Nat]
  /\ period \in Nat
  /\ previous \in Regimes \cup {"none"}
  /\ contexts \in Contexts \cup {NoContext}
  /\ sent \in [emergency : BOOLEAN, context : Contexts \cup {NoContext}]
  /\ \A task \in {handler, updater} :
       task \in [at : {"free", "send", "emergency"}, context : Contexts \cup {NoContext}]
  /\ rates \in Nat /\ restarts \in Nat /\ failures \in Nat

\* The context the service serves and compares with is the one it sent last,
\* whichever of the two tasks overtook the other, unless that was an emergency.  The
\* repair of a failed send rests on it.
TrackedIsSent ==
  Tracked /\ ~sent.emergency => sent.context = contexts

\* While a rate is stored, the engine comes to have sent the context of its regime
\* last, although sends raise and the two tasks overwrite each other's state, unless
\* the last it sent is an emergency or the service starts anew.
RegimeSettles ==
  (Tracked /\ current.live /\ sent.context.regime # DetectRegime(current.rate))
    ~> \/ sent.context.regime = DetectRegime(current.rate)
       \/ sent.emergency \/ ~Tracked \/ ~current.live

\* Higher funding never means a larger position: compared with the rate stored last,
\* and with the same average of the last day, a rate of greater magnitude gets no
\* larger an adjustment and a smaller one no smaller, across all regimes; and the
\* adjustment keeps to the band and the limit of its regime.
HigherFundingSmaller ==
  \A rate, average \in Levels :
    LET other == Adjustment(rate, average, previous)
        own == Adjustment(current.rate, average, previous)
        regime == DetectRegime(current.rate)
    IN /\ Abs(rate) <= Abs(current.rate) => own <= other
       /\ Abs(current.rate) <= Abs(rate) => other <= own
       /\ own \in 10 * Least[regime]..10 * Most[regime]
       /\ own <= MaxPosition[regime]

-----------------------------------------------------------------------------
(* What the code does not keep (see the README).                           *)

\* "Get the most recent funding rate."
LatestRateRead == history # {} => StoredRates = {current.rate}
=============================================================================
