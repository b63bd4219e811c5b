--------------------------- MODULE SafetyManager ---------------------------
(***************************************************************************)
(* The safety manager service (src/hedgelock/safety_manager): it watches   *)
(* positions, P&L, LTV, heartbeats and the order rate, and asks for        *)
(* emergency actions through a queue that a task of its own publishes.     *)
(*                                                                         *)
(*   process_messages             HandlePositionUpdate, LiquidationAlert,  *)
(*                                HandlePnlUpdate, HandleLtvUpdate,        *)
(*                                HandleServiceHealth,                     *)
(*                                HandleTradeExecution                     *)
(*   safety_monitoring_loop       CheckBreakers, BreakerAlertSent,         *)
(*                                LimitAlertSent, MetricsSent,             *)
(*                                MonitorFailed                            *)
(*   circuit_breaker_check_loop   CheckResets, ResetNoticeSent,            *)
(*                                ResetNoticeFailed                        *)
(*   dead_mans_switch_loop        CheckSwitch, SwitchAlertSent,            *)
(*                                SwitchAlertFailed                        *)
(*   emergency_action_loop        TakeActions, ActionSent, ActionFailed    *)
(*   the API                      ManualAction, ResetSwitch, Override      *)
(*                                                                         *)
(* An action is the code between two awaits.  health_check_loop, which     *)
(* only sends alerts, the histories and the figures that are only reported *)
(* are left out.  So are two of the four breakers and the limit on the     *)
(* leverage: no message carries what they compare.                         *)
(***************************************************************************)
EXTENDS Integers, Sequences, FiniteSets

CONSTANTS
  Leverage,               \* the leverage assumed of a position that states none
  LossLimit, VolatilityLimit, ValueLimit, RateLimit,
  HaltOnBreaker,          \* halt_on_circuit_breaker
  Positions,              \* position updates: is a perpetual held, value, volatility
  Pnls,                   \* values of net_pnl
  LtvPercents,            \* values of ltv_ratio
  ManualActions,          \* actions asked for through the API
  MaxInputs, MaxFailures  \* bounds

Actions == {"reduce_positions", "close_losing_positions", "close_all_positions",
            "halt_trading", "deploy_reserves", "panic_close"}

RiskLevels == {"LOW", "MEDIUM", "HIGH", "CRITICAL", "EMERGENCY"}

PositionUpdates == [open : BOOLEAN, value : Nat, volatility : Nat]

ASSUME SafetyAssumption ==
  /\ Leverage \in 1..200
  /\ {LossLimit, VolatilityLimit, ValueLimit, RateLimit} \subseteq Nat \ {0}
  /\ HaltOnBreaker \in BOOLEAN
  /\ Positions \subseteq PositionUpdates
  /\ Pnls \subseteq Int /\ LtvPercents \subseteq Nat /\ ManualActions \subseteq Actions
  /\ MaxInputs \in Nat /\ MaxFailures \in Nat

VARIABLES
  metrics,       \* current_metrics, 0 for what is not there yet
  pnl,           \* daily_pnl_start and peak_equity, once there is one
  safety,        \* SafetyState: risk level, distance, equity drop, listed breakers
  active,        \* the breakers with is_active
  cooled,        \* clock: those of them whose cooldown is over
  silent,        \* clock: last_activity is longer ago than the timeout
  override,      \* manual_override_active
  window,        \* clock: the executions of the last minute
  queue,         \* emergency_actions_queue: only which actions are in it matters
  batch,         \* the actions the emergency loop has yet to publish
  handler,       \* where process_messages is suspended
  monitor,       \* where safety_monitoring_loop is, and what it has yet to report
  resets,        \* the same for circuit_breaker_check_loop
  switch,        \* where dead_mans_switch_loop is suspended
  awaiting,      \* history: breakers triggered since a halt was last published
  answered,      \* history: of a silence and of a limit, what was published since it began
  inputs, failures   \* history: bounds

state == <<metrics, pnl, safety>>
breakers == <<active, cooled>>
clock == <<silent, override, window>>
tasks == <<handler, monitor, resets, switch>>
history == <<awaiting, answered>>
bounds == <<inputs, failures>>
vars == <<metrics, pnl, safety, active, cooled, silent, override, window, queue, batch,
          handler, monitor, resets, switch, awaiting, answered, inputs, failures>>

BreakerOrder == <<"daily_loss", "volatility">>
Breakers == {"daily_loss", "volatility"}
LimitOrder == <<"position_value", "order_rate">>

Asleep == [at |-> "sleep", left |-> <<>>]

Init ==
  /\ metrics = [value |-> 0, volatility |-> 0, loss |-> 0, rate |-> 0]
  /\ pnl = [seen |-> FALSE, start |-> 0, peak |-> 0]
  /\ safety = [risk |-> "LOW", distance |-> 1000, dropped |-> FALSE, listed |-> {}]
  /\ active = {} /\ cooled = {}
  /\ silent = FALSE /\ override = FALSE /\ window = 0
  /\ queue = {} /\ batch = {}
  /\ handler = "free" /\ monitor = Asleep /\ resets = Asleep /\ switch = "sleep"
  /\ awaiting = {} /\ answered = {"silence", "limit"}
  /\ inputs = 0 /\ failures = 0

Input == inputs < MaxInputs /\ inputs' = inputs + 1 /\ UNCHANGED failures
Failure == failures < MaxFailures /\ failures' = failures + 1 /\ UNCHANGED inputs
Message == handler = "free" /\ Input

-----------------------------------------------------------------------------
(* Messages.                                                               *)

\* calculate_liquidation_risk, in thousandths of the price: a position is
\* 1/leverage minus the maintenance margin away from its liquidation.
Distance(open) == IF open THEN 1000 \div Leverage - 5 ELSE 1000

RiskAt(distance) ==
  CASE distance < 50 -> "EMERGENCY"
    [] distance \in 50..99 -> "CRITICAL"
    [] distance \in 100..149 -> "HIGH"
    [] distance \in 150..249 -> "MEDIUM"
    [] OTHER -> "LOW"

\* What is recommended at the two levels for which it is asked.
Recommended(level) ==
  IF level = "EMERGENCY" THEN "panic_close" ELSE "close_all_positions"

HandlePositionUpdate(p) ==
  /\ Message
  /\ metrics' = [metrics EXCEPT !.value = p.value, !.volatility = p.volatility]
  /\ safety' = [safety EXCEPT !.distance = Distance(p.open)]
  /\ LET level == RiskAt(Distance(p.open)) IN
       IF level \in {"CRITICAL", "EMERGENCY"}
       THEN queue' = queue \cup {Recommended(level)} /\ handler' = "alert"
       ELSE UNCHANGED <<queue, handler>>
  /\ answered' = IF metrics.value < ValueLimit THEN answered \ {"limit"} ELSE answered
  /\ UNCHANGED <<pnl, breakers, clock, batch, monitor, resets, switch, awaiting>>

\* The alert is sent, or raises into process_messages.
LiquidationAlert ==
  /\ handler = "alert" /\ handler' = "free"
  /\ UNCHANGED <<state, breakers, clock, queue, batch, monitor, resets, switch, history,
                 bounds>>

\* More than 10% below the peak.  A negative peak makes every drop negative.
Dropped(peak, n) == peak > 0 /\ 10 * (peak - n) > peak

\* is_panic_condition
Panic(dropped) ==
  (safety.distance < 50 /\ dropped) \/ safety.risk = "EMERGENCY"

\* daily_pnl_start is the first value ever seen.  A peak of zero divides by zero:
\* the handler raises before the equity drop is stored and the panic is checked.
HandlePnlUpdate(n) ==
  /\ Message
  /\ LET start == IF pnl.seen THEN pnl.start ELSE n
         peak == IF pnl.seen /\ n <= pnl.peak THEN pnl.peak ELSE n
     IN /\ pnl' = [seen |-> TRUE, start |-> start, peak |-> peak]
        /\ metrics' = [metrics EXCEPT !.loss = n - start]
        /\ IF peak = 0
           THEN UNCHANGED <<safety, queue>>
           ELSE /\ safety' = [safety EXCEPT !.dropped = Dropped(peak, n)]
                /\ queue' = IF Panic(Dropped(peak, n)) THEN queue \cup {"panic_close"}
                            ELSE queue
  /\ UNCHANGED <<breakers, clock, batch, tasks, history>>

\* _ltv_to_risk_level
LtvRisk(l) ==
  CASE l >= 85 -> "EMERGENCY"
    [] l \in 75..84 -> "CRITICAL"
    [] l \in 65..74 -> "HIGH"
    [] l \in 50..64 -> "MEDIUM"
    [] OTHER -> "LOW"

HandleLtvUpdate(l) ==
  /\ Message
  /\ safety' = [safety EXCEPT !.risk = LtvRisk(l)]
  /\ UNCHANGED <<metrics, pnl, breakers, clock, queue, batch, tasks, history>>

\* Any heartbeat, of an unhealthy service too, is activity.
HandleServiceHealth ==
  /\ Message
  /\ silent' = FALSE
  /\ UNCHANGED <<state, breakers, override, window, queue, batch, tasks, history>>

\* The rate is only computed when there is an execution.
HandleTradeExecution ==
  /\ Message
  /\ window' = window + 1
  /\ metrics' = [metrics EXCEPT !.rate = window + 1]
  /\ UNCHANGED <<pnl, safety, breakers, silent, override, queue, batch, tasks, history>>

-----------------------------------------------------------------------------
(* The clock.                                                              *)

MinutePasses ==
  /\ window > 0 /\ window' = 0
  /\ UNCHANGED <<state, breakers, silent, override, queue, batch, tasks, history, bounds>>

FallSilent ==
  /\ ~silent /\ silent' = TRUE
  /\ answered' = answered \ {"silence"}
  /\ UNCHANGED <<state, breakers, override, window, queue, batch, tasks, awaiting, bounds>>

CoolDown(b) ==
  /\ b \in active \ cooled /\ cooled' = cooled \cup {b}
  /\ UNCHANGED <<state, active, clock, queue, batch, tasks, history, bounds>>

-----------------------------------------------------------------------------
(* safety_monitoring_loop.                                                 *)

\* Mutant: a value at the limit is no breach.
BreachedStrictly(limit) ==
  CASE limit = "position_value" -> metrics.value > ValueLimit
    [] limit = "order_rate" -> metrics.rate > RateLimit

\* is_breached
Breached(limit) ==
  CASE limit = "position_value" -> metrics.value >= ValueLimit
    [] limit = "order_rate" -> metrics.rate >= RateLimit

OnBreach(limit) ==
  IF limit = "position_value" THEN "reduce_positions" ELSE "halt_trading"

Magnitude(n) == IF n < 0 THEN -n ELSE n

\* What check_trigger compares: the loss counts whatever its sign.
Triggers(b) ==
  CASE b = "daily_loss" -> Magnitude(metrics.loss) >= LossLimit
    [] b = "volatility" -> metrics.volatility >= VolatilityLimit

\* Each breached limit left is asked for and reported in turn, then the metrics.
ReportLimits(limits, q) ==
  IF limits = <<>>
  THEN monitor' = [at |-> "metrics", left |-> <<>>] /\ queue' = q
  ELSE /\ monitor' = [at |-> "limit", left |-> Tail(limits)]
       /\ queue' = q \cup {OnBreach(Head(limits))}

CheckLimits(q) == ReportLimits(SelectSeq(LimitOrder, Breached), q)

\* Mutant: a breaker that is still listed as active halts nothing.
HaltsUnlisted(triggered) == HaltOnBreaker /\ triggered \ safety.listed # {}

Halts(triggered) == HaltOnBreaker /\ triggered # {}

\* check_circuit_breakers: triggers, then the list, then resets that nobody is
\* told of.  The halt is queued before its alerts are sent.
CheckBreakers ==
  /\ monitor.at = "sleep"
  /\ LET triggered == {b \in Breakers \ active : Triggers(b)} IN
       /\ safety' = [safety EXCEPT !.listed = active \cup triggered]
       /\ active' = (active \cup triggered) \ cooled
       /\ cooled' = {}
       /\ awaiting' = awaiting \cup triggered
       /\ IF Halts(triggered)
          THEN /\ queue' = queue \cup {"halt_trading"}
               /\ monitor' = [at |-> "breaker",
                              left |-> SelectSeq(BreakerOrder, LAMBDA b : b \in triggered)]
          ELSE CheckLimits(queue)
  /\ UNCHANGED <<metrics, pnl, clock, batch, handler, resets, switch, answered, bounds>>

BreakerAlertSent ==
  /\ monitor.at = "breaker"
  /\ IF Len(monitor.left) > 1
     THEN monitor' = [at |-> "breaker", left |-> Tail(monitor.left)] /\ UNCHANGED queue
     ELSE CheckLimits(queue)
  /\ UNCHANGED <<state, breakers, clock, batch, handler, resets, switch, history, bounds>>

LimitAlertSent ==
  /\ monitor.at = "limit"
  /\ ReportLimits(monitor.left, queue)
  /\ UNCHANGED <<state, breakers, clock, batch, handler, resets, switch, history, bounds>>

MetricsSent ==
  /\ monitor.at = "metrics" /\ monitor' = Asleep
  /\ UNCHANGED <<state, breakers, clock, queue, batch, handler, resets, switch, history,
                 bounds>>

\* A send raises: the rest of the round is skipped.
MonitorFailed ==
  /\ monitor.at # "sleep" /\ Failure
  /\ monitor' = Asleep
  /\ UNCHANGED <<state, breakers, clock, queue, batch, handler, resets, switch, history>>

MonitoringLoop ==
  CheckBreakers \/ BreakerAlertSent \/ LimitAlertSent \/ MetricsSent \/ MonitorFailed

-----------------------------------------------------------------------------
(* circuit_breaker_check_loop.                                             *)

\* Mutant: an exception ends the loop.
AfterNoticeFailureDead == [at |-> "dead", left |-> <<>>]

AfterNoticeFailure == Asleep

Due(names) == SelectSeq(names, LAMBDA b : b \in cooled)

\* The breakers named are looked at in order up to the first that resets.
ResetsFrom(names) ==
  IF Due(names) = <<>>
  THEN resets' = Asleep /\ UNCHANGED breakers
  ELSE LET b == Head(Due(names)) IN
       /\ active' = active \ {b} /\ cooled' = cooled \ {b}
       /\ resets' = [at |-> "notice",
                     left |-> IF b = Head(names) THEN Tail(names) ELSE <<>>]

CheckResets ==
  /\ resets.at = "sleep" /\ cooled # {}
  /\ ResetsFrom(BreakerOrder)
  /\ UNCHANGED <<state, clock, queue, batch, handler, monitor, switch, history, bounds>>

ResetNoticeSent ==
  /\ resets.at = "notice"
  /\ ResetsFrom(resets.left)
  /\ UNCHANGED <<state, clock, queue, batch, handler, monitor, switch, history, bounds>>

ResetNoticeFailed ==
  /\ resets.at = "notice" /\ Failure
  /\ resets' = AfterNoticeFailure
  /\ UNCHANGED <<state, breakers, clock, queue, batch, handler, monitor, switch, history>>

ResetLoop == CheckResets \/ ResetNoticeSent \/ ResetNoticeFailed

-----------------------------------------------------------------------------
(* dead_mans_switch_loop.                                                  *)

\* Mutant: an exception ends the loop.
AfterSwitchFailureDead == "dead"

AfterSwitchFailure == "sleep"

CheckSwitch ==
  /\ switch = "sleep" /\ silent /\ ~override
  /\ queue' = queue \cup {"close_all_positions", "halt_trading"}
  /\ switch' = "alert"
  /\ UNCHANGED <<state, breakers, clock, batch, handler, monitor, resets, history, bounds>>

SwitchAlertSent ==
  /\ switch = "alert" /\ switch' = "sleep"
  /\ UNCHANGED <<state, breakers, clock, queue, batch, handler, monitor, resets, history,
                 bounds>>

SwitchAlertFailed ==
  /\ switch = "alert" /\ Failure
  /\ switch' = AfterSwitchFailure
  /\ UNCHANGED <<state, breakers, clock, queue, batch, handler, monitor, resets, history>>

SwitchLoop == CheckSwitch \/ SwitchAlertSent \/ SwitchAlertFailed

-----------------------------------------------------------------------------
(* emergency_action_loop.                                                  *)

\* list(set(queue)): each action once, in no particular order.
TakeActions ==
  /\ batch = {} /\ queue # {}
  /\ batch' = queue /\ queue' = {}
  /\ UNCHANGED <<state, breakers, clock, tasks, history, bounds>>

\* execute_emergency_action
ActionSent(a) ==
  /\ a \in batch /\ batch' = batch \ {a}
  /\ awaiting' = IF a = "halt_trading" THEN {} ELSE awaiting
  /\ answered' = CASE a = "close_all_positions" -> answered \cup {"silence"}
                   [] a = "reduce_positions" -> answered \cup {"limit"}
                   [] OTHER -> answered
  /\ UNCHANGED <<state, queue, breakers, clock, tasks, bounds>>

\* The send raises, and with it what is left of the batch is gone.
ActionFailed ==
  /\ batch # {} /\ Failure
  /\ batch' = {}
  /\ awaiting' = IF "halt_trading" \in batch THEN {} ELSE awaiting
  /\ UNCHANGED <<state, breakers, clock, queue, tasks, answered>>

EmergencyLoop == TakeActions \/ (\E a \in Actions : ActionSent(a)) \/ ActionFailed

-----------------------------------------------------------------------------
(* The API.                                                                *)

ManualAction(a) ==
  /\ Input
  /\ queue' = queue \cup {a}
  /\ UNCHANGED <<state, breakers, clock, batch, tasks, history>>

ResetSwitch ==
  /\ Input /\ silent' = FALSE
  /\ UNCHANGED <<state, breakers, override, window, queue, batch, tasks, history>>

Override(enable) ==
  /\ Input /\ override' = enable
  /\ UNCHANGED <<state, breakers, silent, window, queue, batch, tasks, history>>

-----------------------------------------------------------------------------
Messages ==
  \/ \E p \in Positions : HandlePositionUpdate(p)
  \/ LiquidationAlert
  \/ \E n \in Pnls : HandlePnlUpdate(n)
  \/ \E l \in LtvPercents : HandleLtvUpdate(l)
  \/ HandleServiceHealth
  \/ HandleTradeExecution

Clock == MinutePasses \/ FallSilent \/ \E b \in Breakers : CoolDown(b)

Api ==
  \/ \E a \in ManualActions : ManualAction(a)
  \/ ResetSwitch
  \/ \E enable \in BOOLEAN : Override(enable)

Next ==
  \/ Messages
  \/ Clock
  \/ Api
  \/ MonitoringLoop
  \/ ResetLoop
  \/ SwitchLoop
  \/ EmergencyLoop

Spec == Init /\ [][Next]_vars

\* Every loop comes round, because its sends return or raise.
Fairness ==
  /\ WF_vars(MonitoringLoop) /\ WF_vars(ResetLoop)
  /\ WF_vars(SwitchLoop) /\ WF_vars(EmergencyLoop)

FairSpec == Spec /\ Fairness

-----------------------------------------------------------------------------
(* Properties.                                                             *)

\* Types; no loop has died, and only what is active cools down.
TypeOK ==
  /\ metrics \in [value : Nat, volatility : Nat, loss : Int, rate : Nat]
  /\ pnl \in [seen : BOOLEAN, start : Int, peak : Int]
  /\ safety \in [risk : RiskLevels, distance : Int, dropped : BOOLEAN,
                 listed : SUBSET Breakers]
  /\ active \in SUBSET Breakers /\ cooled \in SUBSET active
  /\ silent \in BOOLEAN /\ override \in BOOLEAN /\ window \in Nat
  /\ queue \in SUBSET Actions /\ batch \in SUBSET Actions
  /\ handler \in {"free", "alert"} /\ switch \in {"sleep", "alert"}
  /\ monitor.at \in {"sleep", "breaker", "limit", "metrics"}
  /\ resets.at \in {"sleep", "notice"}
  /\ awaiting \in SUBSET Breakers
  /\ answered \in SUBSET {"silence", "limit"}
  /\ inputs \in Nat /\ failures \in Nat

\* A breaker that triggers halts the trading: until the halt is published, or is
\* lost in a batch that failed, it is queued or in the batch.  check_trigger is
\* silent while the breaker is active, so a halt that is not queued at once is
\* not queued at all.
BreakerHalts ==
  HaltOnBreaker /\ awaiting # {} => "halt_trading" \in queue \cup batch

\* Silence is answered, although alerts and batches may fail: closing all
\* positions is published, unless there is activity or an override.
SilenceAnswered ==
  (silent /\ ~override) ~> (~silent \/ override \/ "silence" \in answered)

\* A position that reaches its limit is told to reduce or gets below it, although
\* rounds of the loop and batches may fail.
LimitEnforced ==
  (metrics.value >= ValueLimit) ~> (metrics.value < ValueLimit \/ "limit" \in answered)
=============================================================================
