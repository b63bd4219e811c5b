----------------------- MODULE PositionManagerProofs -----------------------
(***************************************************************************)
(* Theorems about PositionManager, for every value of its constants: its   *)
(* types, the books that a rehedge and an emergency exit leave, and what   *)
(* is saved when the tasks have come to rest.                              *)
(***************************************************************************)
EXTENDS PositionManager, FiniteSetTheorems, TLAPS

\* While a rehedge order is on the way, the decision it came from adds up to the
\* delta it was made for.
DecisionsSound ==
  \A t \in Tasks :
    at[t] = "rehedge_order" =>
      decision[t].long - decision[t].short = -decision[t].delta

IInv == TypeOK /\ DecisionsSound

-----------------------------------------------------------------------------
(* Lemmas about the decision.                                              *)

\* A percentage of an integer is an integer.
LEMMA PercentInt ==
  ASSUME NEW x \in Int, NEW p \in Int
  PROVE  Percent(x, p) \in Int
<1>1. x * p \in Int
  OBVIOUS
<1>2. ASSUME NEW y \in Int PROVE y \div 100 \in Int
  OBVIOUS
<1>3. QED
  BY <1>1, <1>2 DEF Percent

\* Whatever the regime, the hedge ratio is an integer.
LEMMA HedgeRatioInt ==
  ASSUME NEW base \in HedgeRatios, NEW r
  PROVE  HedgeRatio(base, r) \in Int
<1>1. base \in Int
  BY PositionAssumption
<1>2. ASSUME r \in DOMAIN Multipliers PROVE Multipliers[r] \in Int
  BY <1>2 DEF Multipliers
<1>3. CASE r \in DOMAIN Multipliers
  BY <1>1, <1>2, <1>3, PercentInt DEF HedgeRatio
<1>4. CASE r \notin DOMAIN Multipliers
  BY <1>1, <1>4 DEF HedgeRatio
<1>5. QED
  BY <1>3, <1>4

\* The adjustments of a decision add up to the delta it was made for, whatever the
\* ratio: what the short side does not take, the long side does.
LEMMA DecisionSound ==
  ASSUME NEW b \in Books, NEW ratio \in Int
  PROVE  /\ Decision(b, ratio) \in Decisions
         /\ Decision(b, ratio).long - Decision(b, ratio).short
              = -Decision(b, ratio).delta
         /\ Decision(b, ratio).delta = Delta(b)
<1> DEFINE d == -Delta(b)
<1>1. d \in Int /\ -d \in Int /\ Delta(b) \in Int /\ Delta(b) = -d
  BY PositionAssumption DEF Delta, Books
<1>2. Percent(d, ratio) \in Int /\ Percent(-d, ratio) \in Int
  BY <1>1, PercentInt
<1>3. Decision(b, ratio) =
        IF d < 0
          THEN [long  |-> -(-d - Percent(-d, ratio)),
                short |-> Percent(-d, ratio), delta |-> Delta(b)]
          ELSE [long  |-> d - Percent(d, ratio),
                short |-> -Percent(d, ratio), delta |-> Delta(b)]
  BY DEF Decision
<1> HIDE DEF d
<1>4. CASE d < 0
  BY <1>1, <1>2, <1>3, <1>4 DEF Decisions
<1>5. CASE ~(d < 0)
  BY <1>1, <1>2, <1>3, <1>5 DEF Decisions
<1>6. QED
  BY <1>4, <1>5

\* Adjusting the books by a decision that was made for their delta leaves none.
LEMMA AdjustedNeutral ==
  ASSUME NEW b \in Books, NEW d \in Decisions,
         d.long - d.short = -d.delta, Delta(b) = d.delta
  PROVE  Delta([long |-> b.long + d.long, short |-> b.short + d.short]) = 0
  BY PositionAssumption DEF Books, Decisions, Delta

-----------------------------------------------------------------------------
(* Lemmas about the steps the tasks share.                                 *)

\* Suspending a task keeps the types of where the tasks are.
LEMMA SuspendTyped ==
  ASSUME TypeOK, NEW t \in Tasks, NEW where \in Awaits, NEW sent \in BOOLEAN,
         Suspend(t, where, sent)
  PROVE  /\ at' \in [Tasks -> Awaits]
         /\ reached' \in [Tasks -> BOOLEAN]
         /\ at'[t] = where
         /\ \A u \in Tasks \ {t} : at'[u] = at[u]
  BY DEF TypeOK, Suspend

\* A save is of books.
LEMMA SaveTyped ==
  ASSUME TypeOK, books' \in Books, SaveNow
  PROVE  saved' \in Books /\ archive' \subseteq Books /\ missed' \in BOOLEAN
  BY DEF TypeOK, SaveNow, SaveFails, Archived

\* The decision a task holds is one that it was given.
LEMMA HoldsTyped ==
  ASSUME TypeOK, NEW t \in Tasks, NEW d \in Decisions, Holds(t, d)
  PROVE  /\ decision' \in [Tasks -> Decisions]
         /\ decision'[t] = d
         /\ \A u \in Tasks \ {t} : decision'[u] = decision[u]
  BY DEF TypeOK, Holds

\* What decides where the tasks are and what they hold.
TasksTyped ==
  /\ at \in [Tasks -> Awaits] /\ reached \in [Tasks -> BOOLEAN]
  /\ decision \in [Tasks -> Decisions]
  /\ \A t \in Tasks : at[t] # "rehedge_order" => decision[t] = NoDecision

\* A task that suspends elsewhere than in a rehedge order, and held no decision,
\* leaves the tasks typed and their decisions sound.
LEMMA SuspendSound ==
  ASSUME IInv, NEW t \in Tasks, NEW where \in Awaits \ {"rehedge_order"},
         NEW sent \in BOOLEAN, Suspend(t, where, sent),
         at[t] # "rehedge_order", decision' = decision
  PROVE  TasksTyped' /\ DecisionsSound'
<1>1. TypeOK
  BY DEF IInv
<1>2. /\ at' \in [Tasks -> Awaits]
      /\ reached' \in [Tasks -> BOOLEAN]
      /\ at'[t] = where
      /\ \A u \in Tasks \ {t} : at'[u] = at[u]
  BY <1>1, SuspendTyped
<1>3. QED
  BY <1>1, <1>2 DEF IInv, TypeOK, TasksTyped, DecisionsSound

\* So does one that drops the decision it held.
LEMMA DropSound ==
  ASSUME IInv, NEW t \in Tasks, NEW where \in Awaits \ {"rehedge_order"},
         Suspend(t, where, TRUE), Holds(t, NoDecision)
  PROVE  TasksTyped' /\ DecisionsSound'
<1>1. TypeOK /\ NoDecision \in Decisions
  BY DEF IInv, NoDecision, Decisions
<1>2. /\ at' \in [Tasks -> Awaits]
      /\ reached' \in [Tasks -> BOOLEAN]
      /\ at'[t] = where
      /\ \A u \in Tasks \ {t} : at'[u] = at[u]
  BY <1>1, SuspendTyped
<1>3. /\ decision' \in [Tasks -> Decisions]
      /\ decision'[t] = NoDecision
      /\ \A u \in Tasks \ {t} : decision'[u] = decision[u]
  BY <1>1, HoldsTyped
<1>4. QED
  BY <1>1, <1>2, <1>3 DEF IInv, TypeOK, TasksTyped, DecisionsSound

\* Beginning a rehedge leaves them so: the decision is made for the books.
LEMMA BeginRehedgeSound ==
  ASSUME IInv, NEW t \in Tasks, at[t] = "idle", NEW ratio \in Int,
         NEW sent \in BOOLEAN, BeginRehedge(t, ratio, sent)
  PROVE  /\ TasksTyped' /\ DecisionsSound'
         /\ ordered' \in Int /\ hedgeDue' \in BOOLEAN
<1> DEFINE d == Decision(books, ratio)
<1>1. TypeOK /\ books \in Books /\ ordered \in Int /\ hedgeDue \in BOOLEAN
  BY DEF IInv, TypeOK
<1>2. d \in Decisions /\ d.long - d.short = -d.delta
  BY <1>1, DecisionSound
<1>3. IF OrderNeeded(d)
        THEN /\ Suspend(t, "rehedge_order", sent) /\ Holds(t, d)
             /\ ordered' = IF sent THEN ordered + NetAdjustment(d) ELSE ordered
             /\ UNCHANGED hedgeDue
        ELSE /\ sent /\ Suspend(t, "rehedge_pnl", TRUE)
             /\ hedgeDue' = FALSE
             /\ UNCHANGED <<ordered, decision>>
  BY DEF BeginRehedge, HedgeDueAfterRehedge
<1> HIDE DEF d
<1>4. CASE OrderNeeded(d)
  <2>1. NetAdjustment(d) \in Int
    BY <1>2 DEF NetAdjustment, Decisions
  <2>2. "rehedge_order" \in Awaits
    BY DEF Awaits
  <2>3. Suspend(t, "rehedge_order", sent) /\ Holds(t, d)
    BY <1>3, <1>4
  <2>4. /\ at' \in [Tasks -> Awaits]
        /\ reached' \in [Tasks -> BOOLEAN]
        /\ at'[t] = "rehedge_order"
        /\ \A u \in Tasks \ {t} : at'[u] = at[u]
    BY <1>1, <2>2, <2>3, SuspendTyped
  <2>5. /\ decision' \in [Tasks -> Decisions]
        /\ decision'[t] = d
        /\ \A u \in Tasks \ {t} : decision'[u] = decision[u]
    BY <1>1, <1>2, <2>3, HoldsTyped
  <2>6. TasksTyped' /\ DecisionsSound'
    BY <1>1, <1>2, <2>4, <2>5 DEF IInv, TypeOK, TasksTyped, DecisionsSound
  <2>7. ordered' \in Int /\ hedgeDue' = hedgeDue
    BY <1>1, <1>3, <1>4, <2>1
  <2>8. QED
    BY <1>1, <2>6, <2>7
<1>5. CASE ~OrderNeeded(d)
  <2>1. /\ Suspend(t, "rehedge_pnl", TRUE) /\ decision' = decision
        /\ ordered' = ordered /\ hedgeDue' = FALSE
    BY <1>3, <1>5
  <2>2. "rehedge_pnl" \in Awaits \ {"rehedge_order"}
    BY DEF Awaits
  <2>3. TasksTyped' /\ DecisionsSound'
    BY <2>1, <2>2, SuspendSound
  <2>4. QED
    BY <1>1, <2>1, <2>3
<1>6. QED
  BY <1>4, <1>5

\* Beginning to take profit leaves them so too.
LEMMA BeginTakeProfitSound ==
  ASSUME IInv, at["loop"] # "rehedge_order", decision' = decision,
         NEW sent \in BOOLEAN, BeginTakeProfit(sent)
  PROVE  /\ TasksTyped' /\ DecisionsSound'
         /\ ordered' \in Int /\ targetHit' \in BOOLEAN /\ takes' \in Nat
<1>1. books \in Books /\ ordered \in Int /\ targetHit \in BOOLEAN /\ takes \in Nat
  BY DEF IInv, TypeOK
<1>2. TotalPosition \in Int
  BY <1>1 DEF TotalPosition, Books
<1>3. "loop" \in Tasks /\ {"profit_order", "profit_pnl"} \subseteq Awaits \ {"rehedge_order"}
  BY DEF Tasks, Awaits
<1>4. CASE Magnitude(TotalPosition) > MinOrder
  <2>1. /\ Suspend("loop", "profit_order", sent)
        /\ ordered' = IF sent THEN ordered - TotalPosition ELSE ordered
        /\ targetHit' = targetHit /\ takes' = takes + 1
    BY <1>4 DEF BeginTakeProfit
  <2>2. TasksTyped' /\ DecisionsSound'
    BY <1>3, <2>1, SuspendSound
  <2>3. QED
    BY <1>1, <1>2, <2>1, <2>2
<1>5. CASE ~(Magnitude(TotalPosition) > MinOrder)
  <2>1. /\ Suspend("loop", "profit_pnl", TRUE)
        /\ ordered' = ordered /\ targetHit' \in BOOLEAN /\ takes' = takes + 1
    BY <1>5 DEF BeginTakeProfit, PnlUpdated
  <2>2. TasksTyped' /\ DecisionsSound'
    BY <1>3, <2>1, SuspendSound
  <2>3. QED
    BY <1>1, <2>1, <2>2
<1>6. QED
  BY <1>4, <1>5

-----------------------------------------------------------------------------
(* The invariant.                                                          *)

\* The part of TypeOK that is not about the tasks.
RestTyped ==
  /\ books \in Books
  /\ regime \in Regimes /\ volatility \in HedgeRatios
  /\ hedgeDue \in BOOLEAN /\ targetHit \in BOOLEAN /\ exits \in BOOLEAN
  /\ realized \in Int /\ ordered \in Int
  /\ saved \in Books /\ archive \subseteq Books /\ missed \in BOOLEAN
  /\ inputs \in Nat /\ takes \in Nat /\ restarts \in Nat /\ failures \in Nat

\* The invariant in its three parts.
LEMMA IInvParts == IInv <=> RestTyped /\ TasksTyped /\ DecisionsSound
  BY DEF IInv, TypeOK, RestTyped, TasksTyped

\* The same of the next state.
LEMMA IInvPartsNext == IInv' <=> RestTyped' /\ TasksTyped' /\ DecisionsSound'
  BY DEF IInv, TypeOK, RestTyped, TasksTyped

\* The invariant holds when the service starts for the first time.
THEOREM InitIInv == Init => IInv
<1>1. SUFFICES ASSUME Init PROVE RestTyped /\ TasksTyped /\ DecisionsSound
  BY IInvParts
<1>2. InitialBooks \in Books /\ NoDecision \in Decisions
  BY PositionAssumption DEF InitialBooks, Books, NoDecision, Decisions
<1>3. RestTyped
  <2>1. "NORMAL" \in Regimes
    BY DEF Regimes
  <2>2. /\ books \in Books /\ regime \in Regimes /\ volatility \in HedgeRatios
        /\ saved \in Books /\ archive \subseteq Books /\ missed \in BOOLEAN
    BY <1>1, <1>2, <2>1 DEF Init
  <2>3. hedgeDue \in BOOLEAN /\ targetHit \in BOOLEAN /\ exits \in BOOLEAN
    BY <1>1 DEF Init
  <2>4. /\ realized \in Int /\ ordered \in Int
        /\ inputs \in Nat /\ takes \in Nat /\ restarts \in Nat /\ failures \in Nat
    BY <1>1 DEF Init
  <2>5. QED
    BY <2>2, <2>3, <2>4 DEF RestTyped
<1>4. TasksTyped /\ DecisionsSound
  BY <1>1, <1>2 DEF Init, TasksTyped, DecisionsSound, Awaits
<1>5. QED
  BY <1>3, <1>4

\* Passing time and the periodic save leave the tasks where they are.
LEMMA QuietStep ==
  ASSUME IInv, HourPasses \/ SaveState
  PROVE  IInv'
<1>1. RestTyped /\ TasksTyped /\ DecisionsSound /\ TypeOK
  BY IInvParts DEF IInv
<1>2. at' = at /\ reached' = reached /\ decision' = decision
  BY DEF HourPasses, SaveState, tasks
<1>3. TasksTyped' /\ DecisionsSound'
  BY <1>1, <1>2 DEF TasksTyped, DecisionsSound
<1>4. CASE HourPasses
  <2>1. RestTyped'
    BY <1>1, <1>4 DEF HourPasses, Input, RestTyped, storage
  <2>2. QED
    BY <1>3, <2>1, IInvPartsNext
<1>5. CASE SaveState
  <2>1. books' \in Books /\ SaveNow
    BY <1>1, <1>5 DEF SaveState, RestTyped
  <2>2. saved' \in Books /\ archive' \subseteq Books /\ missed' \in BOOLEAN
    BY <1>1, <2>1, SaveTyped
  <2>3. RestTyped'
    BY <1>1, <1>5, <2>1, <2>2 DEF SaveState, RestTyped, bounds
  <2>4. QED
    BY <1>3, <2>3, IInvPartsNext
<1>6. QED
  BY <1>4, <1>5

\* The three tasks that begin a rehedge.
LEMMA RehedgeBegins ==
  ASSUME IInv, NEW sent \in BOOLEAN,
         \/ LoopRehedge(sent) \/ ApiRehedge(sent)
         \/ \E base \in HedgeRatios, large \in BOOLEAN : HourlyUpdate(base, large, sent)
  PROVE  IInv'
<1>1. RestTyped /\ TasksTyped /\ DecisionsSound /\ TypeOK
  BY IInvParts DEF IInv
<1>2. HedgeRatio(volatility, regime) \in Int
  BY <1>1, HedgeRatioInt DEF RestTyped
<1>3. CASE LoopRehedge(sent)
  <2>1. /\ "loop" \in Tasks /\ at["loop"] = "idle"
        /\ BeginRehedge("loop", HedgeRatio(volatility, regime), sent)
    BY <1>3 DEF LoopRehedge, Tasks
  <2>2. /\ TasksTyped' /\ DecisionsSound'
        /\ ordered' \in Int /\ hedgeDue' \in BOOLEAN
    BY <1>2, <2>1, BeginRehedgeSound
  <2>3. RestTyped'
    BY <1>1, <1>3, <2>2
       DEF LoopRehedge, RestTyped, PnlAfterDecision, PnlUpdated, storage, bounds
  <2>4. QED
    BY <2>2, <2>3, IInvPartsNext
<1>4. CASE ApiRehedge(sent)
  <2>1. /\ "api" \in Tasks /\ at["api"] = "idle"
        /\ BeginRehedge("api", HedgeRatio(volatility, regime), sent)
    BY <1>4 DEF ApiRehedge, Tasks
  <2>2. /\ TasksTyped' /\ DecisionsSound'
        /\ ordered' \in Int /\ hedgeDue' \in BOOLEAN
    BY <1>2, <2>1, BeginRehedgeSound
  <2>3. RestTyped'
    BY <1>1, <1>4, <2>2
       DEF ApiRehedge, Input, RestTyped, PnlAfterDecision, PnlUpdated, storage
  <2>4. QED
    BY <2>2, <2>3, IInvPartsNext
<1>5. ASSUME NEW base \in HedgeRatios, NEW large \in BOOLEAN,
             HourlyUpdate(base, large, sent)
      PROVE  IInv'
  <2>1. "hourly" \in Tasks /\ at["hourly"] = "idle" /\ HedgeRatio(base, regime) \in Int
    BY <1>5, HedgeRatioInt DEF HourlyUpdate, Tasks
  <2>2. CASE large
    <3>1. BeginRehedge("hourly", HedgeRatio(base, regime), sent)
      BY <1>5, <2>2 DEF HourlyUpdate
    <3>2. /\ TasksTyped' /\ DecisionsSound'
          /\ ordered' \in Int /\ hedgeDue' \in BOOLEAN
      BY <2>1, <3>1, BeginRehedgeSound
    <3>3. RestTyped'
      BY <1>1, <1>5, <2>2, <3>2 DEF HourlyUpdate, Input, RestTyped, storage
    <3>4. QED
      BY <3>2, <3>3, IInvPartsNext
  <2>3. CASE ~large
    <3>1. UNCHANGED <<books, tasks, hedgeDue, ordered>> /\ SaveNow
      BY <1>5, <2>3 DEF HourlyUpdate
    <3>2. saved' \in Books /\ archive' \subseteq Books /\ missed' \in BOOLEAN
      BY <1>1, <3>1, SaveTyped DEF RestTyped
    <3>3. TasksTyped' /\ DecisionsSound'
      BY <1>1, <3>1 DEF TasksTyped, DecisionsSound, tasks
    <3>4. RestTyped'
      BY <1>1, <1>5, <3>1, <3>2 DEF HourlyUpdate, Input, RestTyped, storage
    <3>5. QED
      BY <3>3, <3>4, IInvPartsNext
  <2>4. QED
    BY <2>2, <2>3
<1>6. QED
  BY <1>3, <1>4, <1>5

\* The steps of a rehedge that has begun.
LEMMA RehedgeGoesOn ==
  ASSUME IInv, NEW t \in Tasks, NEW sent \in BOOLEAN,
         \/ RehedgeOrderReturned(t)
         \/ RehedgePnlReturned(t, sent)
         \/ RehedgeStateReturned(t, sent)
  PROVE  IInv'
<1>1. RestTyped /\ TasksTyped /\ DecisionsSound /\ TypeOK
  BY IInvParts DEF IInv
<1>2. {"rehedge_pnl", "rehedge_state", "idle"} \subseteq Awaits \ {"rehedge_order"}
  BY DEF Awaits
<1>3. CASE RehedgeOrderReturned(t)
  <2>1. Suspend(t, "rehedge_pnl", TRUE) /\ Holds(t, NoDecision)
    BY <1>3 DEF RehedgeOrderReturned
  <2>2. TasksTyped' /\ DecisionsSound'
    BY <1>2, <2>1, DropSound
  <2>3. decision[t].long \in Int /\ decision[t].short \in Int
    BY <1>1 DEF TasksTyped, Decisions
  <2>4. books' \in Books
    BY <1>1, <1>3, <2>3 DEF RehedgeOrderReturned, RestTyped, Books
  <2>5. RestTyped'
    BY <1>1, <1>3, <2>4
       DEF RehedgeOrderReturned, RestTyped, HedgeDueAfterRehedge, PnlUpdated, storage,
           bounds
  <2>6. QED
    BY <2>2, <2>5, IInvPartsNext
<1>4. CASE RehedgePnlReturned(t, sent)
  <2>1. /\ Suspend(t, "rehedge_state", sent) /\ decision' = decision
        /\ at[t] # "rehedge_order"
    BY <1>4 DEF RehedgePnlReturned
  <2>2. TasksTyped' /\ DecisionsSound'
    BY <1>2, <2>1, SuspendSound
  <2>3. RestTyped'
    BY <1>1, <1>4 DEF RehedgePnlReturned, RestTyped, storage, bounds
  <2>4. QED
    BY <2>2, <2>3, IInvPartsNext
<1>5. CASE RehedgeStateReturned(t, sent)
  <2>1. at[t] # "rehedge_order" /\ decision' = decision
    BY <1>5 DEF RehedgeStateReturned, Resumes
  <2>2. books' = books /\ SaveNow
    BY <1>5 DEF RehedgeStateReturned
  <2>3. saved' \in Books /\ archive' \subseteq Books /\ missed' \in BOOLEAN
    BY <1>1, <2>2, SaveTyped DEF RestTyped
  <2>4. /\ TasksTyped' /\ DecisionsSound'
        /\ ordered' \in Int /\ targetHit' \in BOOLEAN /\ takes' \in Nat
    <3>1. CASE t = "loop" /\ targetHit /\ takes < MaxTakes
      <4>1. BeginTakeProfit(sent)
        BY <1>5, <3>1 DEF RehedgeStateReturned
      <4>2. QED
        BY <2>1, <3>1, <4>1, BeginTakeProfitSound
    <3>2. CASE ~(t = "loop" /\ targetHit /\ takes < MaxTakes)
      <4>1. Suspend(t, "idle", TRUE) /\ UNCHANGED <<targetHit, ordered, takes>>
        BY <1>5, <3>2 DEF RehedgeStateReturned
      <4>2. TasksTyped' /\ DecisionsSound'
        BY <1>2, <2>1, <4>1, SuspendSound
      <4>3. QED
        BY <1>1, <4>1, <4>2 DEF RestTyped
    <3>3. QED
      BY <3>1, <3>2
  <2>5. RestTyped'
    BY <1>1, <1>5, <2>2, <2>3, <2>4 DEF RehedgeStateReturned, RestTyped
  <2>6. QED
    BY <2>4, <2>5, IInvPartsNext
<1>6. QED
  BY <1>3, <1>4, <1>5

\* The steps of taking profit.
LEMMA TakeProfitStep ==
  ASSUME IInv, NEW sent \in BOOLEAN,
         \/ LoopTakeProfit(sent) \/ ProfitOrderReturned
         \/ ProfitPnlReturned(sent) \/ ProfitEventReturned
  PROVE  IInv'
<1>1. RestTyped /\ TasksTyped /\ DecisionsSound /\ TypeOK
  BY IInvParts DEF IInv
<1>2. /\ "loop" \in Tasks
      /\ {"profit_pnl", "profit_event", "idle"} \subseteq Awaits \ {"rehedge_order"}
  BY DEF Tasks, Awaits
<1>3. CASE LoopTakeProfit(sent)
  <2>1. /\ at["loop"] # "rehedge_order" /\ decision' = decision
        /\ BeginTakeProfit(sent)
    BY <1>3 DEF LoopTakeProfit
  <2>2. /\ TasksTyped' /\ DecisionsSound'
        /\ ordered' \in Int /\ targetHit' \in BOOLEAN /\ takes' \in Nat
    BY <2>1, BeginTakeProfitSound
  <2>3. RestTyped'
    BY <1>1, <1>3, <2>2 DEF LoopTakeProfit, RestTyped, storage
  <2>4. QED
    BY <2>2, <2>3, IInvPartsNext
<1>4. CASE ProfitOrderReturned
  <2>1. /\ Suspend("loop", "profit_pnl", TRUE) /\ decision' = decision
        /\ at["loop"] # "rehedge_order"
    BY <1>4 DEF ProfitOrderReturned, Resumes
  <2>2. TasksTyped' /\ DecisionsSound'
    BY <1>2, <2>1, SuspendSound
  <2>3. PICK g \in (IF books.long > 0 \/ books.short > 0 THEN Gains ELSE {0}) :
          realized' = realized + g
    BY <1>4 DEF ProfitOrderReturned
  <2>4. realized' \in Int
    BY <1>1, <2>3, PositionAssumption DEF RestTyped
  <2>5. RestTyped'
    BY <1>1, <1>4, <2>4
       DEF ProfitOrderReturned, RestTyped, PnlUpdated, storage, bounds
  <2>6. QED
    BY <2>2, <2>5, IInvPartsNext
<1>5. CASE ProfitPnlReturned(sent)
  <2>1. /\ Suspend("loop", "profit_event", sent) /\ decision' = decision
        /\ at["loop"] # "rehedge_order"
    BY <1>5 DEF ProfitPnlReturned
  <2>2. TasksTyped' /\ DecisionsSound'
    BY <1>2, <2>1, SuspendSound
  <2>3. RestTyped'
    BY <1>1, <1>5 DEF ProfitPnlReturned, RestTyped, storage, bounds
  <2>4. QED
    BY <2>2, <2>3, IInvPartsNext
<1>6. CASE ProfitEventReturned
  <2>1. /\ Suspend("loop", "idle", TRUE) /\ decision' = decision
        /\ at["loop"] # "rehedge_order"
    BY <1>6 DEF ProfitEventReturned, Resumes
  <2>2. TasksTyped' /\ DecisionsSound'
    BY <1>2, <2>1, SuspendSound
  <2>3. books' \in Books /\ SaveNow
    BY <1>6 DEF ProfitEventReturned, FlatBooks, Books
  <2>4. saved' \in Books /\ archive' \subseteq Books /\ missed' \in BOOLEAN
    BY <1>1, <2>3, SaveTyped
  <2>5. RestTyped'
    BY <1>1, <1>6, <2>3, <2>4 DEF ProfitEventReturned, RestTyped, bounds
  <2>6. QED
    BY <2>2, <2>5, IInvPartsNext
<1>7. QED
  BY <1>3, <1>4, <1>5, <1>6

\* The steps of process_messages.
LEMMA MessageTaskStep ==
  ASSUME IInv,
         \/ \E r \in FundingRegimes, sent \in BOOLEAN : HandleFundingUpdate(r, sent)
         \/ \E base \in HedgeRatios : HandlePriceUpdate(base)
         \/ MessageStep
  PROVE  IInv'
<1>1. RestTyped /\ TasksTyped /\ DecisionsSound /\ TypeOK
  BY IInvParts DEF IInv
<1>2. /\ "messages" \in Tasks
      /\ {"close_order", "close_event", "price_pnl", "idle"}
           \subseteq Awaits \ {"rehedge_order"}
  BY DEF Tasks, Awaits
<1>3. ASSUME NEW r \in FundingRegimes, NEW sent \in BOOLEAN,
             HandleFundingUpdate(r, sent)
      PROVE  IInv'
  <2>1. at["messages"] # "rehedge_order" /\ decision' = decision
    BY <1>3 DEF HandleFundingUpdate
  <2>2. TotalPosition \in Int
    BY <1>1 DEF RestTyped, TotalPosition, Books
  <2>3. regime' \in Regimes
    BY <1>3, PositionAssumption DEF HandleFundingUpdate
  <2>4. /\ TasksTyped' /\ DecisionsSound'
        /\ ordered' \in Int /\ exits' \in BOOLEAN
    <3>1. CASE r \notin ExtremeRegimes
      <4>1. UNCHANGED <<at, reached, ordered, exits>>
        BY <1>3, <3>1 DEF HandleFundingUpdate
      <4>2. QED
        BY <1>1, <2>1, <4>1 DEF TasksTyped, DecisionsSound, RestTyped
    <3>2. CASE r \in ExtremeRegimes /\ Magnitude(TotalPosition) > MinOrder
      <4>1. /\ Suspend("messages", "close_order", sent) /\ exits' = TRUE
            /\ ordered' = IF sent THEN ordered - TotalPosition ELSE ordered
        BY <1>3, <3>2 DEF HandleFundingUpdate
      <4>2. TasksTyped' /\ DecisionsSound'
        BY <1>2, <2>1, <4>1, SuspendSound
      <4>3. QED
        BY <1>1, <2>2, <4>1, <4>2 DEF RestTyped
    <3>3. CASE r \in ExtremeRegimes /\ ~(Magnitude(TotalPosition) > MinOrder)
      <4>1. /\ Suspend("messages", "close_event", sent) /\ exits' = TRUE
            /\ ordered' = ordered
        BY <1>3, <3>3 DEF HandleFundingUpdate
      <4>2. TasksTyped' /\ DecisionsSound'
        BY <1>2, <2>1, <4>1, SuspendSound
      <4>3. QED
        BY <1>1, <4>1, <4>2 DEF RestTyped
    <3>4. QED
      BY <3>1, <3>2, <3>3
  <2>5. RestTyped'
    BY <1>1, <1>3, <2>3, <2>4 DEF HandleFundingUpdate, Input, RestTyped, storage
  <2>6. QED
    BY <2>4, <2>5, IInvPartsNext
<1>4. ASSUME NEW base \in HedgeRatios, HandlePriceUpdate(base)
      PROVE  IInv'
  <2>1. /\ Suspend("messages", "price_pnl", TRUE) /\ decision' = decision
        /\ at["messages"] # "rehedge_order"
    BY <1>4 DEF HandlePriceUpdate
  <2>2. TasksTyped' /\ DecisionsSound'
    BY <1>2, <2>1, SuspendSound
  <2>3. RestTyped'
    BY <1>1, <1>4 DEF HandlePriceUpdate, Input, PnlUpdated, RestTyped, storage
  <2>4. QED
    BY <2>2, <2>3, IInvPartsNext
<1>5. ASSUME NEW sent \in BOOLEAN, CloseOrderReturned(sent)
      PROVE  IInv'
  <2>1. /\ Suspend("messages", "close_event", sent) /\ decision' = decision
        /\ at["messages"] # "rehedge_order"
    BY <1>5 DEF CloseOrderReturned, Resumes
  <2>2. TasksTyped' /\ DecisionsSound'
    BY <1>2, <2>1, SuspendSound
  <2>3. RestTyped'
    BY <1>1, <1>5 DEF CloseOrderReturned, RestTyped, storage, bounds
  <2>4. QED
    BY <2>2, <2>3, IInvPartsNext
<1>6. CASE CloseEventReturned
  <2>1. /\ Suspend("messages", "idle", TRUE) /\ decision' = decision
        /\ at["messages"] # "rehedge_order"
    BY <1>6 DEF CloseEventReturned, Resumes
  <2>2. TasksTyped' /\ DecisionsSound'
    BY <1>2, <2>1, SuspendSound
  <2>3. books' \in Books /\ SaveNow
    BY <1>6 DEF CloseEventReturned, BooksAfterClose, FlatBooks, Books
  <2>4. saved' \in Books /\ archive' \subseteq Books /\ missed' \in BOOLEAN
    BY <1>1, <2>3, SaveTyped
  <2>5. RestTyped'
    BY <1>1, <1>6, <2>3, <2>4 DEF CloseEventReturned, RestTyped, bounds
  <2>6. QED
    BY <2>2, <2>5, IInvPartsNext
<1>7. CASE PricePnlReturned
  <2>1. /\ Suspend("messages", "idle", TRUE) /\ decision' = decision
        /\ at["messages"] # "rehedge_order"
    BY <1>7 DEF PricePnlReturned
  <2>2. TasksTyped' /\ DecisionsSound'
    BY <1>2, <2>1, SuspendSound
  <2>3. RestTyped'
    BY <1>1, <1>7 DEF PricePnlReturned, RestTyped, storage, bounds
  <2>4. QED
    BY <2>2, <2>3, IInvPartsNext
<1>8. QED
  BY <1>3, <1>4, <1>5, <1>6, <1>7 DEF MessageStep

\* A send that raises, and a restart.
LEMMA FailureStep ==
  ASSUME IInv, Restart \/ \E t \in Tasks : SendFailed(t)
  PROVE  IInv'
<1>1. RestTyped /\ TasksTyped /\ DecisionsSound /\ TypeOK
  BY IInvParts DEF IInv
<1>2. ASSUME NEW t \in Tasks, SendFailed(t)
      PROVE  IInv'
  <2>1. Suspend(t, "idle", TRUE) /\ Holds(t, NoDecision)
    BY <1>2 DEF SendFailed, AfterFailure
  <2>2. "idle" \in Awaits \ {"rehedge_order"}
    BY DEF Awaits
  <2>3. TasksTyped' /\ DecisionsSound'
    BY <2>1, <2>2, DropSound
  <2>4. RestTyped'
    BY <1>1, <1>2 DEF SendFailed, RestTyped, storage
  <2>5. QED
    BY <2>3, <2>4, IInvPartsNext
<1>3. CASE Restart
  <2>1. /\ at' = [t \in Tasks |-> "idle"]
        /\ decision' = [t \in Tasks |-> NoDecision]
        /\ reached' = [t \in Tasks |-> TRUE]
    BY <1>3 DEF Restart
  <2>2. "idle" \in Awaits /\ NoDecision \in Decisions
    BY DEF Awaits, NoDecision, Decisions
  <2>3. TasksTyped' /\ DecisionsSound'
    BY <2>1, <2>2 DEF TasksTyped, DecisionsSound
  <2>4. Recoverable \subseteq Books /\ InitialBooks \in Books
    BY <1>1, PositionAssumption DEF Recoverable, InitialBooks, Books, RestTyped
  <2>5. regime' \in Regimes
    BY <1>3, PositionAssumption DEF Restart, Regimes
  <2>6. books' \in Books /\ volatility' \in HedgeRatios
    BY <1>3, <2>4 DEF Restart, RecoverState
  <2>7. RestTyped'
    <3>1. hedgeDue' \in BOOLEAN /\ targetHit' \in BOOLEAN /\ exits' \in BOOLEAN
      BY <1>3 DEF Restart, PnlUpdated
    <3>2. /\ realized' \in Int /\ ordered' \in Int
          /\ saved' \in Books /\ archive' \subseteq Books
      BY <1>1, <1>3 DEF Restart, RestTyped
    <3>3. missed' \in BOOLEAN
      BY <1>3 DEF Restart, RecoverState
    <3>4. inputs' \in Nat /\ takes' \in Nat /\ restarts' \in Nat /\ failures' \in Nat
      BY <1>1, <1>3 DEF Restart, RestTyped
    <3>5. QED
      BY <2>5, <2>6, <3>1, <3>2, <3>3, <3>4 DEF RestTyped
  <2>8. QED
    BY <2>3, <2>7, IInvPartsNext
<1>4. QED
  BY <1>2, <1>3

\* Every step of the service keeps the invariant.
THEOREM StepIInv == IInv /\ [Next]_vars => IInv'
<1>1. SUFFICES ASSUME IInv, [Next]_vars PROVE IInv'
  OBVIOUS
<1>2. "loop" \in Tasks /\ Rehedgers \subseteq Tasks
  BY DEF Tasks
<1>3. CASE HourPasses \/ SaveState
  BY <1>1, <1>3, QuietStep
<1>4. CASE RehedgeLoop
  <2>1. CASE \E sent \in BOOLEAN :
               LoopRehedge(sent) \/ LoopTakeProfit(sent) \/ ProfitPnlReturned(sent)
    BY <1>1, <2>1, RehedgeBegins, TakeProfitStep
  <2>2. CASE RehedgeStep("loop")
    <3>1. TRUE \in BOOLEAN
      OBVIOUS
    <3>2. QED
      BY <1>1, <1>2, <2>2, <3>1, RehedgeGoesOn DEF RehedgeStep
  <2>3. CASE ProfitOrderReturned \/ ProfitEventReturned
    <3>1. TRUE \in BOOLEAN
      OBVIOUS
    <3>2. QED
      BY <1>1, <2>3, <3>1, TakeProfitStep
  <2>4. QED
    BY <1>4, <2>1, <2>2, <2>3 DEF RehedgeLoop
<1>5. CASE MessageStep
  BY <1>1, <1>5, MessageTaskStep
<1>6. ASSUME NEW t \in Rehedgers \ {"loop"}, RehedgeStep(t)
      PROVE  IInv'
  <2>1. TRUE \in BOOLEAN
    OBVIOUS
  <2>2. QED
    BY <1>1, <1>2, <1>6, <2>1, RehedgeGoesOn DEF RehedgeStep
<1>7. CASE Restart \/ \E t \in Tasks : SendFailed(t)
  BY <1>1, <1>7, FailureStep
<1>8. CASE Inputs
  BY <1>1, <1>8, MessageTaskStep, RehedgeBegins DEF Inputs
<1>9. CASE UNCHANGED vars
  BY <1>1, <1>9 DEF vars, IInv, TypeOK, DecisionsSound
<1>10. QED
  BY <1>1, <1>3, <1>4, <1>5, <1>6, <1>7, <1>8, <1>9 DEF Next

\* The invariant always holds.
THEOREM Invariance == Spec => []IInv
<1>1. Init => IInv
  BY InitIInv
<1>2. IInv /\ [Next]_vars => IInv'
  BY StepIInv
<1>3. QED
  BY <1>1, <1>2, PTL DEF Spec

-----------------------------------------------------------------------------
(* The theorems.                                                           *)

\* Every variable keeps its type, and no task holds a decision outside the await
\* of its order.
THEOREM TypeCorrect == Spec => []TypeOK
<1>1. IInv => TypeOK
  BY DEF IInv
<1>2. QED
  BY <1>1, Invariance, PTL

\* Only RehedgeOrderReturned takes a task from its order to the P&L.
LEMMA OnlyOrderReturnedAdjusts ==
  ASSUME TypeOK, Next, NEW t \in Rehedgers, Adjusts(t)
  PROVE  RehedgeOrderReturned(t)
<1>1. t \in Tasks /\ at \in [Tasks -> Awaits]
  BY DEF Tasks, TypeOK
<1>2. at[t] = "rehedge_order" /\ at'[t] = "rehedge_pnl"
  BY DEF Adjusts
<1>3. ASSUME NEW u \in Tasks, NEW where, NEW sent, Suspend(u, where, sent)
      PROVE  u = t /\ where = "rehedge_pnl"
  BY <1>1, <1>2, <1>3 DEF Suspend
<1>4. {"loop", "messages"} \subseteq Tasks /\ Rehedgers \subseteq Tasks
  BY DEF Tasks
<1>5. ASSUME NEW u \in Tasks, at[u] = "idle", NEW ratio, NEW sent,
             BeginRehedge(u, ratio, sent)
      PROVE  FALSE
  <2>1. \E where, s : Suspend(u, where, s)
    BY <1>5 DEF BeginRehedge
  <2>2. QED
    BY <1>2, <1>3, <1>5, <2>1
<1>6. ASSUME NEW sent, BeginTakeProfit(sent) PROVE FALSE
  <2>1. \E where \in {"profit_order", "profit_pnl"} : \E s : Suspend("loop", where, s)
    BY <1>6 DEF BeginTakeProfit
  <2>2. QED
    BY <1>3, <1>4, <2>1
<1>7. ~(at' = at)
  BY <1>2
<1>8. ~HourPasses /\ ~SaveState
  BY <1>7 DEF HourPasses, SaveState, tasks
<1>9. ~Restart
  BY <1>1, <1>2 DEF Restart
<1>10. ASSUME NEW u \in Tasks, SendFailed(u) PROVE FALSE
  <2>1. \E where \in {"idle"} : Suspend(u, where, TRUE)
    BY <1>10 DEF SendFailed, AfterFailure
  <2>2. QED
    BY <1>3, <2>1
<1>11. ~MessageStep
  <2>1. MessageStep =>
          \E where \in {"close_event", "idle"} : \E s : Suspend("messages", where, s)
    BY DEF MessageStep, CloseOrderReturned, CloseEventReturned, PricePnlReturned
  <2>2. QED
    BY <1>3, <1>4, <2>1
<1>12. ASSUME NEW r, NEW sent, HandleFundingUpdate(r, sent) PROVE FALSE
  BY <1>3, <1>4, <1>7, <1>12 DEF HandleFundingUpdate
<1>13. ASSUME NEW base, HandlePriceUpdate(base) PROVE FALSE
  BY <1>2, <1>3, <1>4, <1>13 DEF HandlePriceUpdate
<1>14. ASSUME NEW sent, LoopRehedge(sent) PROVE FALSE
  BY <1>4, <1>5, <1>14 DEF LoopRehedge
<1>15. ASSUME NEW sent, ApiRehedge(sent) PROVE FALSE
  BY <1>4, <1>5, <1>15 DEF ApiRehedge
<1>16. ASSUME NEW base, NEW large, NEW sent, HourlyUpdate(base, large, sent)
       PROVE  FALSE
  BY <1>4, <1>5, <1>7, <1>16 DEF HourlyUpdate, tasks
<1>17. ASSUME NEW sent, LoopTakeProfit(sent) PROVE FALSE
  BY <1>6, <1>17 DEF LoopTakeProfit
<1>18. ~ProfitOrderReturned /\ ~ProfitEventReturned
  <2>1. ProfitOrderReturned \/ ProfitEventReturned =>
          \E where \in {"profit_pnl", "idle"} : Suspend("loop", where, TRUE)
    BY DEF ProfitOrderReturned, ProfitEventReturned
  <2>2. QED
    BY <1>3, <1>4, <2>1
<1>19. ASSUME NEW sent, ProfitPnlReturned(sent) PROVE FALSE
  BY <1>3, <1>4, <1>19 DEF ProfitPnlReturned
<1>20. ASSUME NEW u \in Tasks, NEW sent, RehedgePnlReturned(u, sent) PROVE FALSE
  <2>1. Suspend(u, "rehedge_state", sent)
    BY <1>20 DEF RehedgePnlReturned
  <2>2. QED
    BY <1>3, <2>1
<1>21. ASSUME NEW u \in Tasks, NEW sent, RehedgeStateReturned(u, sent) PROVE FALSE
  <2>1. ~BeginTakeProfit(sent)
    BY <1>6
  <2>2. \E where \in {"idle"} : Suspend(u, where, TRUE)
    BY <1>21, <2>1 DEF RehedgeStateReturned
  <2>3. QED
    BY <1>3, <2>2
<1>22. ASSUME NEW u \in Tasks, RehedgeOrderReturned(u) PROVE u = t
  BY <1>3, <1>22 DEF RehedgeOrderReturned
<1>23. \E u \in Tasks : RehedgeStep(u)
  <2>1. ~Inputs
    BY <1>12, <1>13, <1>15, <1>16 DEF Inputs
  <2>2. RehedgeLoop => RehedgeStep("loop")
    BY <1>14, <1>17, <1>18, <1>19 DEF RehedgeLoop
  <2>3. QED
    BY <1>4, <1>8, <1>9, <1>10, <1>11, <2>1, <2>2 DEF Next
<1>24. QED
  BY <1>20, <1>21, <1>22, <1>23 DEF RehedgeStep

\* A rehedge whose order was sent while no other task moved the net position leaves
\* the books delta-neutral, for every hedge ratio and regime.
THEOREM RehedgesReachNeutral == Spec => RehedgeReachesNeutral
<1>1. IInv /\ [Next]_vars => [NeutralWhenUndisturbed]_vars
  <2>1. SUFFICES ASSUME IInv, Next, NEW t \in Rehedgers, Adjusts(t),
                        Delta(books) = decision[t].delta
                 PROVE  Delta(books') = 0
    BY DEF NeutralWhenUndisturbed
  <2>2. RehedgeOrderReturned(t)
    BY <2>1, OnlyOrderReturnedAdjusts DEF IInv
  <2>3. t \in Tasks /\ books \in Books /\ decision[t] \in Decisions
        /\ decision[t].long - decision[t].short = -decision[t].delta
    BY <2>1 DEF Tasks, IInv, TypeOK, DecisionsSound, Adjusts
  <2>4. books' = [long  |-> books.long + decision[t].long,
                  short |-> books.short + decision[t].short]
    BY <2>2 DEF RehedgeOrderReturned
  <2>5. QED
    BY <2>1, <2>3, <2>4, AdjustedNeutral
<1>2. QED
  BY <1>1, Invariance, PTL DEF Spec, RehedgeReachesNeutral

-----------------------------------------------------------------------------
(* What is saved when the tasks have come to rest.                         *)

\* The awaits in which a rehedge has changed the books and has not saved them.
Unsaved == {"rehedge_pnl", "rehedge_state"}

\* What is not saved yet some rehedge is going to save, unless a save was missed.
SavedOrPending ==
  missed \/ saved = books \/ \E t \in Tasks : at[t] \in Unsaved

\* A task that was not to save moves on, and leaves books and storage alone.
LEMMA StepAside ==
  ASSUME TypeOK, SavedOrPending, NEW t \in Tasks, NEW where, NEW sent,
         Suspend(t, where, sent), at[t] \notin Unsaved,
         UNCHANGED <<books, saved, missed>>
  PROVE  SavedOrPending'
<1>1. \A u \in Tasks \ {t} : at'[u] = at[u]
  BY DEF TypeOK, Suspend
<1>2. QED
  BY <1>1 DEF SavedOrPending

\* A save, or one that failed.
LEMMA StepSaves ==
  ASSUME SaveNow
  PROVE  SavedOrPending'
  BY DEF SaveNow, SaveFails, SavedOrPending

\* A rehedge has yet to save.
LEMMA StepPends ==
  ASSUME TypeOK, NEW t \in Tasks, NEW where \in Unsaved, NEW sent, Suspend(t, where, sent)
  PROVE  SavedOrPending'
  BY DEF TypeOK, Suspend, SavedOrPending

\* The beginnings of a rehedge and of profit taking.
LEMMA StepBegins ==
  ASSUME TypeOK, SavedOrPending, NEW t \in Tasks, at[t] = "idle",
         UNCHANGED <<books, saved, missed>>, NEW sent,
         \/ \E ratio : BeginRehedge(t, ratio, sent)
         \/ t = "loop" /\ BeginTakeProfit(sent)
  PROVE  SavedOrPending'
<1>1. \E where, s : Suspend(t, where, s)
  BY DEF BeginRehedge, BeginTakeProfit
<1>2. QED
  BY <1>1, StepAside DEF Unsaved

\* The steps of a rehedge.
LEMMA RehedgeKeepsSaved ==
  ASSUME TypeOK, SavedOrPending, NEW t \in Tasks, NEW sent \in BOOLEAN,
         \/ RehedgeOrderReturned(t) \/ RehedgePnlReturned(t, sent)
         \/ RehedgeStateReturned(t, sent)
         \/ LoopRehedge(sent) \/ ApiRehedge(sent)
         \/ \E base, large : HourlyUpdate(base, large, sent)
  PROVE  SavedOrPending'
<1>1. CASE RehedgeOrderReturned(t) \/ RehedgePnlReturned(t, sent)
  BY <1>1, StepPends DEF RehedgeOrderReturned, RehedgePnlReturned, Unsaved
<1>2. CASE RehedgeStateReturned(t, sent)
  BY <1>2, StepSaves DEF RehedgeStateReturned
<1>3. CASE LoopRehedge(sent)
  BY <1>3, StepBegins DEF LoopRehedge, storage, Tasks
<1>4. CASE ApiRehedge(sent)
  BY <1>4, StepBegins DEF ApiRehedge, storage, Tasks
<1>5. ASSUME NEW base, NEW large, HourlyUpdate(base, large, sent)
      PROVE  SavedOrPending'
  <2>1. CASE large
    BY <1>5, <2>1, StepBegins DEF HourlyUpdate, storage, Tasks
  <2>2. CASE ~large
    BY <1>5, <2>2, StepSaves DEF HourlyUpdate
  <2>3. QED
    BY <2>1, <2>2
<1>6. QED
  BY <1>1, <1>2, <1>3, <1>4, <1>5

\* The steps of profit taking, which save at their end.
LEMMA TakeProfitKeepsSaved ==
  ASSUME TypeOK, SavedOrPending, NEW sent \in BOOLEAN,
         \/ LoopTakeProfit(sent) \/ ProfitOrderReturned
         \/ ProfitPnlReturned(sent) \/ ProfitEventReturned
  PROVE  SavedOrPending'
<1>1. "loop" \in Tasks
  BY DEF Tasks
<1>2. CASE LoopTakeProfit(sent)
  BY <1>1, <1>2, StepBegins DEF LoopTakeProfit, storage
<1>3. CASE ProfitOrderReturned \/ ProfitPnlReturned(sent)
  <2>1. at["loop"] \notin Unsaved /\ UNCHANGED <<books, saved, missed>>
    BY <1>3 DEF ProfitOrderReturned, ProfitPnlReturned, Resumes, storage, Unsaved
  <2>2. \E where, s : Suspend("loop", where, s)
    BY <1>3 DEF ProfitOrderReturned, ProfitPnlReturned
  <2>3. QED
    BY <1>1, <2>1, <2>2, StepAside
<1>4. CASE ProfitEventReturned
  BY <1>4, StepSaves DEF ProfitEventReturned
<1>5. QED
  BY <1>2, <1>3, <1>4

\* The steps of the task that reads messages.
LEMMA MessagesKeepSaved ==
  ASSUME TypeOK, SavedOrPending, NEW sent \in BOOLEAN,
         \/ CloseOrderReturned(sent) \/ CloseEventReturned \/ PricePnlReturned
         \/ \E r : HandleFundingUpdate(r, sent)
         \/ \E base : HandlePriceUpdate(base)
  PROVE  SavedOrPending'
<1>1. "messages" \in Tasks
  BY DEF Tasks
<1>2. CASE CloseEventReturned
  BY <1>2, StepSaves DEF CloseEventReturned
<1>3. CASE CloseOrderReturned(sent) \/ PricePnlReturned \/ \E base : HandlePriceUpdate(base)
  <2>1. at["messages"] \notin Unsaved /\ UNCHANGED <<books, saved, missed>>
    BY <1>3 DEF CloseOrderReturned, PricePnlReturned, HandlePriceUpdate, Resumes, storage,
       Unsaved
  <2>2. \E where, s : Suspend("messages", where, s)
    BY <1>3 DEF CloseOrderReturned, PricePnlReturned, HandlePriceUpdate
  <2>3. QED
    BY <1>1, <2>1, <2>2, StepAside
<1>4. ASSUME NEW r, HandleFundingUpdate(r, sent)
      PROVE  SavedOrPending'
  <2>1. at["messages"] \notin Unsaved /\ UNCHANGED <<books, saved, missed>>
    BY <1>4 DEF HandleFundingUpdate, storage, Unsaved
  <2>2. CASE r \notin ExtremeRegimes
    BY <1>4, <2>1, <2>2 DEF HandleFundingUpdate, SavedOrPending
  <2>3. CASE r \in ExtremeRegimes
    <3>1. \E where, s : Suspend("messages", where, s)
      BY <1>4, <2>3 DEF HandleFundingUpdate
    <3>2. QED
      BY <1>1, <2>1, <3>1, StepAside
  <2>4. QED
    BY <2>2, <2>3
<1>5. QED
  BY <1>2, <1>3, <1>4

\* A send that raises, and a restart that reads the last save or none.
LEMMA FailuresKeepSaved ==
  ASSUME TypeOK, SavedOrPending, Durable,
         Restart \/ \E t \in Tasks : SendFailed(t)
  PROVE  SavedOrPending'
<1>1. CASE Restart
  BY <1>1 DEF Restart, RecoverState, Recoverable, SavedOrPending
<1>2. ASSUME NEW t \in Tasks, SendFailed(t), at[t] = "rehedge_state"
      PROVE  SavedOrPending'
  BY <1>2 DEF SendFailed, SavedOrPending
<1>3. ASSUME NEW t \in Tasks, SendFailed(t), at[t] # "rehedge_state"
      PROVE  SavedOrPending'
  <2>1. at[t] \notin Unsaved /\ UNCHANGED <<books, saved>> /\ missed' = (missed \/ FALSE)
    BY <1>3 DEF SendFailed, Unsaved
  <2>2. UNCHANGED missed
    BY <2>1 DEF TypeOK
  <2>3. Suspend(t, AfterFailure, TRUE)
    BY <1>3 DEF SendFailed
  <2>4. QED
    BY <2>1, <2>2, <2>3, StepAside
<1>4. QED
  BY <1>1, <1>2, <1>3

\* Every step keeps it.
LEMMA SavedOrPendingStep ==
  ASSUME TypeOK, SavedOrPending, Durable, [Next]_vars
  PROVE  SavedOrPending'
<1>1. CASE HourPasses \/ UNCHANGED vars
  <2>1. UNCHANGED <<books, at, saved, missed>>
    BY <1>1 DEF HourPasses, vars, tasks, storage
  <2>2. QED
    BY <2>1 DEF SavedOrPending
<1>2. CASE SaveState
  BY <1>2, StepSaves DEF SaveState
<1>3. TRUE \in BOOLEAN /\ "loop" \in Tasks /\ Rehedgers \subseteq Tasks
  BY DEF Tasks
<1>4. CASE \E t \in Tasks : RehedgeStep(t)
  BY <1>3, <1>4, RehedgeKeepsSaved DEF RehedgeStep
<1>5. CASE RehedgeLoop
  BY <1>3, <1>4, <1>5, RehedgeKeepsSaved, TakeProfitKeepsSaved DEF RehedgeLoop
<1>6. CASE MessageStep
  BY <1>3, <1>6, MessagesKeepSaved DEF MessageStep
<1>7. CASE Inputs
  BY <1>3, <1>7, MessagesKeepSaved, RehedgeKeepsSaved DEF Inputs
<1>8. CASE Restart \/ \E t \in Tasks : SendFailed(t)
  BY <1>8, FailuresKeepSaved
<1>9. QED
  BY <1>1, <1>2, <1>3, <1>4, <1>5, <1>6, <1>7, <1>8 DEF Next

\* The tasks change the books around awaits, fail in them and save at other times, and
\* saves fail too; yet when all have come to rest the last save is of the books, unless
\* a save was missed after it.  Storage that finds the last save (Redis) is assumed.
THEOREM QuietBooksSaved ==
  ASSUME Durable
  PROVE  Spec => []SavedWhenQuiet
<1>1. Init => SavedOrPending
  BY DEF Init, SavedOrPending
<1>2. TypeOK /\ SavedOrPending /\ [Next]_vars => SavedOrPending'
  BY SavedOrPendingStep
<1>3. SavedOrPending => SavedWhenQuiet
  BY DEF SavedOrPending, SavedWhenQuiet, AllIdle, Unsaved
<1>4. QED
  BY <1>1, <1>2, <1>3, TypeCorrect, PTL DEF Spec

-----------------------------------------------------------------------------
(* The emergency exit, for the liveness that TLC checks.                   *)

\* The message task is closing the positions that should_exit told it to close.
ExitUnderWay == exits => at["messages"] \in {"close_order", "close_event"} \/ failures > 0

\* A task suspends without touching the message task.
LEMMA OtherSuspends ==
  ASSUME TypeOK, NEW u \in Tasks \ {"messages"}, NEW where, NEW sent, Suspend(u, where, sent)
  PROVE  at'["messages"] = at["messages"]
PROOF
<1>1. at \in [Tasks -> Awaits] /\ "messages" \in Tasks
  BY DEF TypeOK, Tasks
<1> QED BY <1>1 DEF Suspend

LEMMA OtherBegins ==
  ASSUME TypeOK, NEW sent,
         \/ \E ratio : \E u \in Tasks \ {"messages"} : BeginRehedge(u, ratio, sent)
         \/ BeginTakeProfit(sent)
  PROVE  at'["messages"] = at["messages"]
PROOF
<1>0. "loop" \in Tasks \ {"messages"} /\ Rehedgers \subseteq Tasks \ {"messages"}
  BY PositionAssumption DEF Tasks, PositionAssumption
<1>1. CASE \E ratio : \E u \in Tasks \ {"messages"} : BeginRehedge(u, ratio, sent)
  <2>0. PICK ratio : \E u \in Tasks \ {"messages"} : BeginRehedge(u, ratio, sent)
    BY <1>1
  <2>1. PICK u \in Tasks \ {"messages"} : BeginRehedge(u, ratio, sent)
    BY <2>0
  <2>2. \E where, s : Suspend(u, where, s)
    BY <2>1 DEF BeginRehedge
  <2> QED BY <1>0, <2>2, OtherSuspends
<1>2. CASE BeginTakeProfit(sent)
  <2>1. \E where, s : Suspend("loop", where, s)
    BY <1>2 DEF BeginTakeProfit
  <2> QED BY <1>0, <2>1, OtherSuspends
<1> QED BY <1>1, <1>2

\* Neither the rehedge loop nor the other tasks that rehedge touch the exit.
LEMMA RehedgersKeepExit ==
  ASSUME TypeOK, ExitUnderWay,
         \/ RehedgeLoop \/ HourPasses \/ SaveState
         \/ \E t \in Rehedgers \ {"loop"} : RehedgeStep(t)
         \/ \E sent \in BOOLEAN : ApiRehedge(sent)
         \/ \E base \in HedgeRatios, large, sent \in BOOLEAN : HourlyUpdate(base, large, sent)
  PROVE  ExitUnderWay' /\ exits' = exits
PROOF
<1>0. "loop" \in Tasks \ {"messages"} /\ Rehedgers \subseteq Tasks \ {"messages"}
  BY PositionAssumption DEF Tasks, PositionAssumption
<1>1. ASSUME at'["messages"] = at["messages"], UNCHANGED <<exits, failures>>
      PROVE  ExitUnderWay' /\ exits' = exits
  BY <1>1 DEF ExitUnderWay
<1>2. CASE HourPasses \/ SaveState
  BY <1>1, <1>2 DEF HourPasses, SaveState, tasks, bounds
<1>3. ASSUME NEW t \in Tasks \ {"messages"}, RehedgeStep(t)
      PROVE  ExitUnderWay' /\ exits' = exits
  <2>1. CASE RehedgeOrderReturned(t)
    BY <1>0, <1>1, <2>1, OtherSuspends DEF RehedgeOrderReturned, bounds
  <2>2. ASSUME NEW sent \in BOOLEAN, RehedgePnlReturned(t, sent)
        PROVE  ExitUnderWay' /\ exits' = exits
    BY <1>0, <1>1, <2>2, OtherSuspends DEF RehedgePnlReturned, bounds
  <2>3. ASSUME NEW sent \in BOOLEAN, RehedgeStateReturned(t, sent)
        PROVE  ExitUnderWay' /\ exits' = exits
    <3>1. BeginTakeProfit(sent) \/ Suspend(t, "idle", TRUE)
      BY <2>3 DEF RehedgeStateReturned
    <3>2. at'["messages"] = at["messages"]
      BY <1>0, <3>1, OtherSuspends, OtherBegins
    <3> QED BY <1>1, <2>3, <3>2 DEF RehedgeStateReturned
  <2> QED BY <1>3, <2>1, <2>2, <2>3 DEF RehedgeStep
<1>4. CASE RehedgeLoop
  <2>1. ASSUME NEW sent \in BOOLEAN, LoopRehedge(sent) \/ LoopTakeProfit(sent)
        PROVE  ExitUnderWay' /\ exits' = exits
    <3>1. at'["messages"] = at["messages"]
      BY <1>0, <2>1, OtherBegins DEF LoopRehedge, LoopTakeProfit
    <3> QED BY <1>1, <2>1, <3>1 DEF LoopRehedge, LoopTakeProfit, bounds
  <2>2. ASSUME NEW sent \in BOOLEAN, ProfitPnlReturned(sent)
        PROVE  ExitUnderWay' /\ exits' = exits
    BY <1>0, <1>1, <2>2, OtherSuspends DEF ProfitPnlReturned, bounds
  <2>3. CASE ProfitOrderReturned \/ ProfitEventReturned
    <3>1. \E where, s : Suspend("loop", where, s)
      BY <2>3 DEF ProfitOrderReturned, ProfitEventReturned
    <3>2. at'["messages"] = at["messages"]
      BY <1>0, <3>1, OtherSuspends
    <3> QED BY <1>1, <2>3, <3>2 DEF ProfitOrderReturned, ProfitEventReturned, bounds
  <2> QED BY <1>0, <1>3, <1>4, <2>1, <2>2, <2>3 DEF RehedgeLoop
<1>5. ASSUME NEW sent \in BOOLEAN, ApiRehedge(sent)
      PROVE  ExitUnderWay' /\ exits' = exits
  <2>1. at'["messages"] = at["messages"]
    BY <1>0, <1>5, OtherBegins DEF ApiRehedge
  <2> QED BY <1>1, <1>5, <2>1 DEF ApiRehedge
<1>6. ASSUME NEW base, NEW large, NEW sent, HourlyUpdate(base, large, sent)
      PROVE  ExitUnderWay' /\ exits' = exits
  <2>1. at'["messages"] = at["messages"]
    BY <1>0, <1>6, OtherBegins DEF HourlyUpdate, tasks
  <2> QED BY <1>1, <1>6, <2>1 DEF HourlyUpdate
<1> QED BY <1>0, <1>2, <1>3, <1>4, <1>5, <1>6

\* The message task takes up nothing new before it has closed the positions.
LEMMA MessagesKeepExit ==
  ASSUME TypeOK, ExitUnderWay,
         \/ MessageStep \/ Restart \/ UNCHANGED vars
         \/ \E t \in Tasks : SendFailed(t)
         \/ \E r \in FundingRegimes, sent \in BOOLEAN : HandleFundingUpdate(r, sent)
         \/ \E base \in HedgeRatios : HandlePriceUpdate(base)
  PROVE  /\ ExitUnderWay'
         /\ exits /\ ~exits' => Flat(books') \/ restarts' # restarts
PROOF
<1>0. /\ at \in [Tasks -> Awaits] /\ "messages" \in Tasks
      /\ failures \in Nat /\ restarts \in Nat
  BY DEF TypeOK, Tasks
<1>1. ASSUME NEW where, NEW sent, Suspend("messages", where, sent)
      PROVE  at'["messages"] = where
  BY <1>0, <1>1 DEF Suspend
<1>2. CASE MessageStep
  <2>1. ASSUME NEW sent \in BOOLEAN, CloseOrderReturned(sent)
        PROVE  ExitUnderWay' /\ exits' = exits
    BY <1>1, <2>1 DEF CloseOrderReturned, ExitUnderWay
  <2>2. CASE CloseEventReturned
    BY <2>2 DEF CloseEventReturned, ExitUnderWay, BooksAfterClose, FlatBooks, Flat
  <2>3. CASE PricePnlReturned
    BY <1>0, <2>3 DEF PricePnlReturned, ExitUnderWay, bounds
  <2> QED BY <1>2, <2>1, <2>2, <2>3 DEF MessageStep
<1>3. CASE Restart
  BY <1>0, <1>3 DEF Restart, ExitUnderWay
<1>4. CASE UNCHANGED vars
  BY <1>4 DEF vars, ExitUnderWay
<1>5. CASE \E t \in Tasks : SendFailed(t)
  BY <1>0, <1>5 DEF SendFailed, ExitUnderWay
<1>6. ASSUME NEW r \in FundingRegimes, NEW sent \in BOOLEAN, HandleFundingUpdate(r, sent)
      PROVE  ExitUnderWay' /\ (exits => exits')
  <2>1. failures' = failures
    BY <1>6 DEF HandleFundingUpdate
  <2>2. CASE r \notin ExtremeRegimes
    BY <1>6, <2>1, <2>2 DEF HandleFundingUpdate, ExitUnderWay
  <2>3. CASE r \in ExtremeRegimes
    <3>1. exits' /\ \E where \in {"close_order", "close_event"} : \E s : Suspend("messages", where, s)
      BY <1>6, <2>3 DEF HandleFundingUpdate
    <3> QED BY <1>1, <3>1 DEF ExitUnderWay
  <2> QED BY <2>2, <2>3
<1>7. ASSUME NEW base, HandlePriceUpdate(base)
      PROVE  ExitUnderWay' /\ exits' = exits
  BY <1>7 DEF HandlePriceUpdate, ExitUnderWay
<1> QED BY <1>2, <1>3, <1>4, <1>5, <1>6, <1>7

\* What EmergencyCloses rests on, for any number of tasks, inputs and restarts: from
\* the moment should_exit is read, the message task is closing the positions and
\* takes up nothing else, unless a send raises; and it ends with the books closed,
\* whatever the rehedge loop did to them meanwhile, unless the service restarts.
THEOREM ExitCarriedOut ==
  Spec => /\ []ExitUnderWay
          /\ [][exits /\ ~exits' => Flat(books') \/ restarts' # restarts]_vars
PROOF
<1>1. Init => ExitUnderWay
  BY DEF Init, ExitUnderWay
<1>2. TypeOK /\ ExitUnderWay /\ [Next]_vars
        => /\ ExitUnderWay'
           /\ exits /\ ~exits' => Flat(books') \/ restarts' # restarts
  <2> SUFFICES ASSUME TypeOK, ExitUnderWay, [Next]_vars
               PROVE  /\ ExitUnderWay'
                      /\ exits /\ ~exits' => Flat(books') \/ restarts' # restarts
    OBVIOUS
  <2>1. CASE \/ RehedgeLoop \/ HourPasses \/ SaveState
             \/ \E t \in Rehedgers \ {"loop"} : RehedgeStep(t)
             \/ \E sent \in BOOLEAN : ApiRehedge(sent)
             \/ \E base \in HedgeRatios, large, sent \in BOOLEAN : HourlyUpdate(base, large, sent)
    BY <2>1, RehedgersKeepExit
  <2>2. CASE \/ MessageStep \/ Restart \/ UNCHANGED vars
             \/ \E t \in Tasks : SendFailed(t)
             \/ \E r \in FundingRegimes, sent \in BOOLEAN : HandleFundingUpdate(r, sent)
             \/ \E base \in HedgeRatios : HandlePriceUpdate(base)
    BY <2>2, MessagesKeepExit
  <2> QED BY <2>1, <2>2 DEF Next, Inputs
<1> QED BY <1>1, <1>2, TypeCorrect, PTL DEF Spec
=============================================================================
