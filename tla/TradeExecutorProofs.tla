------------------------ MODULE TradeExecutorProofs ------------------------
(***************************************************************************)
(* What TLAPS proves of TradeExecutor, for every set of quantities, every  *)
(* limit and any length of the topic: its types, that the volume counted   *)
(* stays within the daily limit and is the sum of the fills counted, when  *)
(* that keeps the limit itself, that no trade is ordered twice, when none  *)
(* is skipped, and that it implements OrderOnce.                           *)
(***************************************************************************)
EXTENDS TradeExecutor, FiniteSetTheorems, SequenceTheorems,
        WellFoundedInduction, TLAPS

Following == {"polling", "waiting"}

\* The execution in flight is of a trade the consumer has been given, and no
\* more of it is filled than was ordered.
ExecutionKnown ==
  pc \in InFlight => /\ execution.trade \in 1..position
                     /\ execution.filled <= execution.qty

\* The orders are of trades that were given, and are not overfilled.
OrdersKnown ==
  \A i \in DOMAIN orders :
    orders[i].trade <= position /\ orders[i].filled <= orders[i].qty

\* The order that is being followed is the last one.
LastIsFollowed ==
  pc \in Following => /\ orders # <<>>
                      /\ orders[Len(orders)].qty = execution.qty
                      /\ orders[Len(orders)].filled <= orders[Len(orders)].qty

\* Trades are ordered in topic order, each at most once.
OrdersAscend ==
  \A i, j \in DOMAIN orders : i < j => orders[i].trade < orders[j].trade

\* The trade that is being placed comes after those.
PlacedIsNew ==
  pc = "placing" => \A i \in DOMAIN orders : orders[i].trade < execution.trade

IInv ==
  /\ TypeOK
  /\ ExecutionKnown
  /\ OrdersKnown
  /\ LastIsFollowed
  /\ OrdersAscend
  /\ PlacedIsNew
  /\ VolumeWithinLimit

\* A batch is processed from its first record.
LEMMA FirstTaken ==
  ASSUME NEW n \in Nat \ {0}, NEW p \in Nat
  PROVE  Taken([i \in 1..n |-> p + i]) = p + 1
  BY DEF Taken

\* An order appended for the execution being placed keeps the orders in order.
LEMMA PlacedOrder ==
  ASSUME TypeOK, ExecutionKnown, OrdersKnown, OrdersAscend, PlacedIsNew, pc = "placing",
         NEW os, os = Append(orders, Placed(execution))
  PROVE  /\ os \in Seq(Orders)
         /\ Len(os) = Len(orders) + 1
         /\ os[Len(os)] = Placed(execution)
         /\ \A i \in DOMAIN os : os[i].trade <= position /\ os[i].filled <= os[i].qty
         /\ \A i, j \in DOMAIN os : i < j => os[i].trade < os[j].trade
PROOF
<1>0. Placed(execution) \in Orders
  BY DEF Placed, TypeOK, Executions, Orders, OrderStates
<1>1. os \in Seq(Orders) /\ Len(os) = Len(orders) + 1 /\ os[Len(os)] = Placed(execution)
  BY <1>0 DEF TypeOK
<1>2. \A i \in DOMAIN os : (i \in DOMAIN orders /\ os[i] = orders[i])
                           \/ (i = Len(os) /\ i \notin DOMAIN orders)
  BY <1>0 DEF TypeOK
<1>3. /\ Placed(execution).trade = execution.trade /\ Placed(execution).filled = 0
      /\ Placed(execution).qty = execution.qty
  BY DEF Placed
<1>4. execution.trade \in 1..position /\ execution.qty \in Nat /\ execution.trade \in Nat
  BY DEF ExecutionKnown, InFlight, TypeOK, Executions
<1>5. position \in Nat
  BY DEF TypeOK
<1>6. \A i \in DOMAIN os : os[i].trade <= position /\ os[i].filled <= os[i].qty
  BY <1>1, <1>2, <1>3, <1>4, <1>5 DEF OrdersKnown
<1>7. \A i, j \in DOMAIN os : i < j => os[i].trade < os[j].trade
  <2> SUFFICES ASSUME NEW i \in DOMAIN os, NEW j \in DOMAIN os, i < j
               PROVE  os[i].trade < os[j].trade
    OBVIOUS
  <2>1. i \in DOMAIN orders /\ os[i] = orders[i]
    BY <1>1, <1>2 DEF TypeOK
  <2>2. CASE j \in DOMAIN orders /\ os[j] = orders[j]
    BY <2>1, <2>2 DEF OrdersAscend
  <2>3. CASE j = Len(os)
    BY <2>1, <2>3, <1>1, <1>3 DEF PlacedIsNew
  <2> QED BY <2>2, <2>3, <1>2
<1> QED BY <1>1, <1>6, <1>7

\* An order to which the exchange gives a new state and today a fill within its
\* quantity.
LEMMA FilledOrder ==
  ASSUME NEW r \in Orders, NEW st \in OrderStates, NEW f \in Nat, f <= r.qty,
         NEW d \in Nat,
         NEW o, o = [trade |-> r.trade, qty |-> r.qty, state |-> st, filled |-> f,
                     day |-> d, counted |-> r.counted]
  PROVE  o \in Orders /\ o.trade = r.trade /\ o.qty = r.qty /\ o.filled <= o.qty
  BY DEF Orders

-----------------------------------------------------------------------------
\* One lemma per group of steps: what surrounds the service ...
LEMMA WorldSteps ==
  ASSUME IInv, ExecutorAssumption,
         (\E q \in Quantities : Publish(q)) \/ Midnight \/ Exchange
  PROVE  IInv'
PROOF
<1> USE DEF IInv
<1>1. CASE \E q \in Quantities : Publish(q)
  <2> PICK q \in Quantities : Publish(q)
    BY <1>1
  <2>1. trades' \in Seq(Quantities) /\ Len(trades') = Len(trades) + 1
    BY DEF Publish, TypeOK
  <2>2. UNCHANGED <<orders, day, pc, position, execution, pending, volume, resetDay,
                    stats, startedAt, firstOrder, attempted, starts, polls>>
    BY DEF Publish, counters, history
  <2>3. TypeOK'
    BY <2>1, <2>2 DEF TypeOK
  <2> QED BY <2>2, <2>3 DEF ExecutionKnown, OrdersKnown, LastIsFollowed,
            OrdersAscend, PlacedIsNew, VolumeWithinLimit
<1>2. CASE Midnight
  <2>1. UNCHANGED <<trades, orders, pc, position, execution, pending, volume, resetDay,
                    stats, startedAt, firstOrder, attempted, starts, polls>> /\ day' \in Nat
    BY <1>2 DEF Midnight, counters, history, TypeOK
  <2>2. TypeOK'
    BY <2>1 DEF TypeOK
  <2> QED BY <2>1, <2>2 DEF ExecutionKnown, OrdersKnown, LastIsFollowed,
            OrdersAscend, PlacedIsNew, VolumeWithinLimit
<1>3. CASE Exchange
  <2>0. PICK i \in DOMAIN orders :
          \E r \in Exchanged(orders[i]) : orders' = [orders EXCEPT ![i] = r]
    BY <1>3 DEF Exchange
  <2>1. PICK o \in Exchanged(orders[i]) : orders' = [orders EXCEPT ![i] = o]
    BY <2>0
  <2>2. UNCHANGED <<trades, day, pc, position, execution, pending, volume, resetDay,
                    stats, startedAt, firstOrder, attempted, starts, polls>>
    BY <1>3 DEF Exchange, external, counters, history
  <2>3. orders \in Seq(Orders) /\ orders[i] \in Orders /\ orders[i].filled <= orders[i].qty
    BY DEF TypeOK, OrdersKnown
  <2>4. /\ o \in Orders /\ o.trade = orders[i].trade /\ o.qty = orders[i].qty
        /\ o.filled <= o.qty
    <3> DEFINE r == orders[i]
    <3> SUFFICES o \in Orders /\ o.trade = r.trade /\ o.qty = r.qty /\ o.filled <= o.qty
      OBVIOUS
    <3>1. r \in Orders /\ r.filled <= r.qty /\ r.filled \in Nat /\ r.qty \in Nat
          /\ day \in Nat
      BY <2>3 DEF Orders, TypeOK
    <3>6. o \in Exchanged(r)
      BY <2>1
    <3> HIDE DEF r
    <3>2. CASE o = [r EXCEPT !.state = "Filled", !.filled = r.qty, !.day = day]
      <4>1. "Filled" \in OrderStates /\ r.qty <= r.qty
        BY <3>1 DEF OrderStates
      <4>2. o = [trade |-> r.trade, qty |-> r.qty, state |-> "Filled", filled |-> r.qty,
                day |-> day, counted |-> r.counted]
        BY <3>1, <3>2 DEF Orders
      <4> QED BY <3>1, <4>1, <4>2, FilledOrder
    <3>3. CASE o = [r EXCEPT !.state = "Cancelled"]
      BY <3>1, <3>3 DEF Orders, OrderStates
    <3>4. CASE \E f \in (r.filled + 1)..(r.qty - 1) :
                 o = [r EXCEPT !.state = "PartiallyFilled", !.filled = f, !.day = day]
      <4> PICK f \in (r.filled + 1)..(r.qty - 1) :
                 o = [r EXCEPT !.state = "PartiallyFilled", !.filled = f, !.day = day]
        BY <3>4
      <4>1. f \in Nat /\ f <= r.qty /\ "PartiallyFilled" \in OrderStates
        BY <3>1 DEF OrderStates
      <4>2. o = [trade |-> r.trade, qty |-> r.qty, state |-> "PartiallyFilled", filled |-> f,
                day |-> day, counted |-> r.counted]
        BY <3>1 DEF Orders
      <4>3. /\ r.trade \in Nat /\ r.qty \in Nat /\ r.counted \in Nat \cup {Uncounted}
            /\ day \in Nat
        BY <3>1 DEF Orders
      <4>4. o \in Orders
        BY <4>1, <4>2, <4>3 DEF Orders
      <4>5. o.trade = r.trade /\ o.qty = r.qty /\ o.filled = f
        BY <4>2
      <4> QED BY <4>1, <4>4, <4>5
    <3>5. CASE o = [r EXCEPT !.state = "Rejected"]
      BY <3>1, <3>5 DEF Orders, OrderStates
    <3> QED BY <3>6, <3>2, <3>3, <3>4, <3>5 DEF Exchanged
  <2>5. /\ orders' \in Seq(Orders) /\ Len(orders') = Len(orders)
        /\ DOMAIN orders' = DOMAIN orders
        /\ \A k \in DOMAIN orders : orders'[k] = IF k = i THEN o ELSE orders[k]
    BY <2>1, <2>3, <2>4
  <2>6. /\ \A k \in DOMAIN orders : /\ orders'[k].trade = orders[k].trade
                                    /\ orders'[k].qty = orders[k].qty
                                    /\ orders'[k].filled <= orders'[k].qty
    BY <2>4, <2>5 DEF OrdersKnown
  <2>7. TypeOK'
    BY <2>2, <2>5 DEF TypeOK
  <2>8. LastIsFollowed'
    <3> SUFFICES ASSUME pc' \in Following
                 PROVE  LastIsFollowed'
      BY DEF LastIsFollowed
    <3>1. orders # <<>> /\ orders[Len(orders)].qty = execution.qty
      BY <2>2 DEF LastIsFollowed
    <3>2. Len(orders) \in DOMAIN orders
      BY <3>1, <2>3
    <3>3. orders' # <<>>
      BY <3>2, <2>5
    <3> QED BY <3>1, <3>2, <3>3, <2>2, <2>5, <2>6 DEF LastIsFollowed
  <2> QED BY <2>2, <2>5, <2>6, <2>7, <2>8 DEF ExecutionKnown, OrdersKnown,
            OrdersAscend, PlacedIsNew, VolumeWithinLimit
<1> QED BY <1>1, <1>2, <1>3

\* ... its start and stop ...
LEMMA LifeSteps ==
  ASSUME IInv, ExecutorAssumption, Start \/ Stop
  PROVE  IInv'
PROOF
<1> USE DEF IInv
<1>1. CASE Start
  <2>1. /\ pc = "down" /\ pc' = "idle" /\ position' = Len(trades) /\ volume' = 0
        /\ resetDay' = day /\ stats' = NoStats /\ startedAt' = Len(trades)
        /\ firstOrder' = Len(orders) /\ starts' = starts + 1
        /\ UNCHANGED <<trades, day, orders, execution, pending, attempted, polls>>
    BY <1>1 DEF Start, ResetPosition, external
  <2>2. TypeOK'
    BY <2>1 DEF TypeOK, InFlight, NoStats
  <2>3. position \in Nat /\ position <= position' /\ position' \in Nat
    BY <2>1 DEF TypeOK
  <2>4. OrdersKnown'
    <3> SUFFICES ASSUME NEW i \in DOMAIN orders
                 PROVE  orders[i].trade <= position' /\ orders[i].filled <= orders[i].qty
      BY <2>1 DEF OrdersKnown
    <3>1. orders[i].trade <= position /\ orders[i].filled <= orders[i].qty
      BY DEF OrdersKnown
    <3>2. orders[i] \in Orders /\ orders[i].trade \in Nat
      <4>1. orders[i] \in Orders
        BY DEF TypeOK
      <4> QED BY <4>1 DEF Orders
    <3> QED BY <3>1, <3>2, <2>3
  <2> QED BY <2>1, <2>2, <2>4, ExecutorAssumption DEF ExecutionKnown, InFlight, Following,
            LastIsFollowed, OrdersAscend, PlacedIsNew, VolumeWithinLimit, ExecutorAssumption
<1>2. CASE Stop
  <2>1. /\ pc' = "down" /\ execution' = NoExecution /\ pending' = {} /\ polls' = 0
        /\ UNCHANGED <<trades, day, position, volume, resetDay, stats, startedAt,
                       firstOrder, attempted, starts>>
    BY <1>2 DEF Stop, external, counters, history
  <2>2. /\ orders' \in Seq(Orders) /\ Len(orders') >= Len(orders)
        /\ OrdersKnown' /\ OrdersAscend'
    <3>1. CASE UNCHANGED orders
      BY <3>1, <2>1 DEF TypeOK, OrdersKnown, OrdersAscend
    <3>2. CASE pc = "placing" /\ orders' = Append(orders, Placed(execution))
      <4>1. /\ orders' \in Seq(Orders) /\ Len(orders') = Len(orders) + 1
            /\ \A i \in DOMAIN orders' :
                 orders'[i].trade <= position /\ orders'[i].filled <= orders'[i].qty
            /\ \A i, j \in DOMAIN orders' : i < j => orders'[i].trade < orders'[j].trade
        BY <3>2, PlacedOrder
      <4>2. Len(orders') >= Len(orders)
        BY <4>1 DEF TypeOK
      <4> QED BY <4>1, <4>2, <2>1 DEF OrdersKnown, OrdersAscend
    <3> QED BY <1>2, <3>1, <3>2 DEF Stop
  <2>3. NoExecution \in Executions
    BY DEF NoExecution, Executions, Statuses
  <2>4. TypeOK'
    BY <2>1, <2>2, <2>3 DEF TypeOK, InFlight
  <2>5. volume \in Nat /\ volume <= MaxDailyVolume
    <3>1. execution.qty \in Nat /\ volume \in Nat /\ MaxDailyVolume \in Nat
      BY ExecutorAssumption DEF TypeOK, Executions, ExecutorAssumption
    <3> QED BY <3>1 DEF VolumeWithinLimit
  <2> QED BY <2>1, <2>2, <2>4, <2>5 DEF ExecutionKnown, InFlight, Following,
            LastIsFollowed, PlacedIsNew, VolumeWithinLimit
<1> QED BY <1>1, <1>2

\* ... a trade that is taken from the topic ...
LEMMA ConsumeStep ==
  ASSUME IInv, ExecutorAssumption, Consume
  PROVE  IInv'
PROOF
<1> USE DEF IInv
<1>1. PICK n \in 1..MaxPollRecords :
        /\ position + n <= Len(trades)
        /\ position' = position + n
        /\ LET t == Taken([i \in 1..n |-> position + i])
               e == [trade |-> t, qty |-> trades[t], status |-> "submitted", filled |-> 0]
           IN /\ attempted' = attempted \cup {t}
              /\ volume' = IF e.qty <= MaxOrderSize THEN ResetVolume(volume) ELSE volume
              /\ resetDay' = CheckedDay(e.qty)
              /\ IF WithinLimits(e.qty)
                 THEN pc' = "placing" /\ execution' = e /\ pending' = pending \cup {t}
                 ELSE pc' = "backoff" /\ UNCHANGED <<execution, pending>>
  BY DEF Consume
<1>2. pc = "idle" /\ UNCHANGED <<trades, day, orders, stats, startedAt, firstOrder, starts, polls>>
  BY DEF Consume, external
<1> DEFINE t == position + 1
<1> DEFINE q == trades[t]
<1> DEFINE e == [trade |-> t, qty |-> q, status |-> "submitted", filled |-> 0]
<1>3. position \in Nat /\ n \in Nat \ {0} /\ Len(trades) \in Nat /\ pending = {}
  BY <1>2, ExecutorAssumption DEF TypeOK, ExecutorAssumption, InFlight
<1>4. Taken([i \in 1..n |-> position + i]) = t
  BY <1>3, FirstTaken
<1>5. t \in 1..Len(trades) /\ t \in 1..position' /\ position' \in 0..Len(trades)
      /\ position <= position' /\ position' \in Nat
  BY <1>1, <1>3
<1>6. q \in Nat /\ q \in Quantities
  <2>1. trades \in Seq(Quantities)
    BY DEF TypeOK
  <2>2. q \in Quantities
    BY <1>5, <2>1
  <2> QED BY <2>2, ExecutorAssumption DEF ExecutorAssumption
<1>7. e \in Executions /\ e.trade = t /\ e.qty = q /\ e.filled = 0
  BY <1>3, <1>6 DEF Executions, Statuses
<1>8. /\ attempted' = attempted \cup {t}
      /\ volume' = IF q <= MaxOrderSize THEN ResetVolume(volume) ELSE volume
      /\ resetDay' = CheckedDay(q)
      /\ IF WithinLimits(q)
         THEN pc' = "placing" /\ execution' = e /\ pending' = {t}
         ELSE pc' = "backoff" /\ UNCHANGED <<execution, pending>>
  BY <1>1, <1>3, <1>4, <1>7
<1> HIDE DEF e, q, t
<1>9. volume' \in Nat /\ resetDay' \in Nat /\ volume' <= volume
  BY <1>8 DEF ResetVolume, CheckedDay, TypeOK
<1>10. MaxDailyVolume \in Nat /\ volume \in Nat /\ volume <= MaxDailyVolume
  <2>1. MaxDailyVolume \in Nat /\ volume \in Nat
    BY ExecutorAssumption DEF TypeOK, ExecutorAssumption
  <2> QED BY <2>1, <1>2 DEF VolumeWithinLimit, InFlight
<1>11. TypeOK'
  <2>1. /\ trades' \in Seq(Quantities) /\ orders' \in Seq(Orders) /\ day' \in Nat
        /\ position' \in 0..Len(trades')
        /\ volume' \in Nat /\ resetDay' \in Nat
        /\ stats' \in [submitted : Nat, filled : Nat, rejected : Nat, failed : Nat]
        /\ startedAt' \in Nat /\ firstOrder' \in 0..Len(orders')
        /\ attempted' \in SUBSET (1..Len(trades'))
        /\ starts' \in Nat /\ polls' \in Nat
    BY <1>2, <1>5, <1>8, <1>9 DEF TypeOK
  <2>2. /\ pc' \in {"down", "idle", "backoff"} \cup InFlight /\ execution' \in Executions
        /\ pending' = IF pc' \in InFlight THEN {execution'.trade} ELSE {}
    BY <1>3, <1>7, <1>8 DEF TypeOK, InFlight
  <2> QED BY <2>1, <2>2 DEF TypeOK
<1>12. OrdersKnown' /\ \A i \in DOMAIN orders : orders[i].trade < t
  <2> SUFFICES ASSUME NEW i \in DOMAIN orders
               PROVE  /\ orders[i].trade <= position' /\ orders[i].filled <= orders[i].qty
                      /\ orders[i].trade < t
    BY <1>2 DEF OrdersKnown
  <2>1. orders[i] \in Orders /\ orders[i].trade <= position /\ orders[i].filled <= orders[i].qty
    BY DEF TypeOK, OrdersKnown
  <2>2. orders[i].trade \in Nat
    BY <2>1 DEF Orders
  <2> QED BY <2>1, <2>2, <1>3, <1>5 DEF t
<1>13. ExecutionKnown'
  BY <1>5, <1>6, <1>7, <1>8 DEF ExecutionKnown, InFlight
<1>14. PlacedIsNew'
  BY <1>2, <1>7, <1>8, <1>12 DEF PlacedIsNew
<1>15. VolumeWithinLimit'
  <2>1. CASE WithinLimits(q)
    <3>1. volume' + q <= MaxDailyVolume /\ volume' <= MaxDailyVolume
      BY <2>1, <1>8, <1>9, <1>10 DEF WithinLimits
    <3> QED BY <3>1, <2>1, <1>7, <1>8 DEF VolumeWithinLimit, InFlight
  <2>2. CASE ~WithinLimits(q)
    <3>1. volume' <= MaxDailyVolume /\ pc' = "backoff"
      BY <2>2, <1>8, <1>9, <1>10
    <3> QED BY <3>1 DEF VolumeWithinLimit, InFlight
  <2> QED BY <2>1, <2>2
<1> QED BY <1>2, <1>8, <1>11, <1>12, <1>13, <1>14, <1>15
        DEF LastIsFollowed, Following, OrdersAscend

\* What Fail leaves of the execution.
LEMMA FailLeaves ==
  ASSUME IInv, ExecutorAssumption, pc \in InFlight, Fail
  PROVE  /\ pc' = "backoff" /\ execution' \in Executions /\ pending' = {} /\ polls' = 0
         /\ volume \in Nat /\ volume + execution.qty <= MaxDailyVolume
         /\ volume <= MaxDailyVolume /\ MaxDailyVolume \in Nat
PROOF
<1>1. pc' = "backoff" /\ execution' = NoExecution /\ polls' = 0
      /\ pending' = pending \ {execution.trade} /\ pending = {execution.trade}
  BY DEF Fail, IInv, TypeOK
<1>2. volume \in Nat /\ MaxDailyVolume \in Nat /\ execution.qty \in Nat
  BY ExecutorAssumption DEF IInv, TypeOK, Executions, ExecutorAssumption
<1>3. volume + execution.qty <= MaxDailyVolume
  BY DEF IInv, VolumeWithinLimit
<1> QED BY <1>1, <1>2, <1>3 DEF NoExecution, Executions, Statuses

\* ... the outcome of place_order ...
LEMMA PlacingSteps ==
  ASSUME IInv, ExecutorAssumption, Accepted \/ Refused \/ AnswerLost
  PROVE  IInv'
PROOF
<1> USE DEF IInv
<1>1. /\ pc = "placing"
      /\ UNCHANGED <<trades, day, position, volume, resetDay, stats, startedAt,
                     firstOrder, attempted, starts>>
  BY DEF Accepted, Refused, AnswerLost, external, counters, history
<1>2. CASE Accepted
  <2>1. /\ pc' = "polling" /\ orders' = Append(orders, Placed(execution))
        /\ UNCHANGED <<execution, pending, polls>>
    BY <1>2 DEF Accepted
  <2>2. /\ orders' \in Seq(Orders) /\ Len(orders') = Len(orders) + 1
        /\ orders'[Len(orders')] = Placed(execution)
        /\ \A i \in DOMAIN orders' :
             orders'[i].trade <= position /\ orders'[i].filled <= orders'[i].qty
        /\ \A i, j \in DOMAIN orders' : i < j => orders'[i].trade < orders'[j].trade
    BY <1>1, <2>1, PlacedOrder
  <2>3. TypeOK'
    BY <1>1, <2>1, <2>2 DEF TypeOK, InFlight
  <2>4. LastIsFollowed'
    <3>1. Placed(execution).qty = execution.qty /\ Placed(execution).filled = 0
      BY DEF Placed
    <3>2. execution.qty \in Nat
      BY DEF TypeOK, Executions
    <3>3. Len(orders') # 0
      BY <2>2 DEF TypeOK
    <3> QED BY <3>1, <3>2, <3>3, <2>1, <2>2 DEF LastIsFollowed
  <2> QED BY <1>1, <2>1, <2>2, <2>3, <2>4 DEF ExecutionKnown, OrdersKnown, OrdersAscend,
            PlacedIsNew, VolumeWithinLimit, InFlight
<1>3. CASE Refused \/ AnswerLost
  <2>1. Fail /\ pc \in InFlight
    BY <1>1, <1>3 DEF Refused, AnswerLost, InFlight
  <2>2. /\ pc' = "backoff" /\ execution' \in Executions /\ pending' = {} /\ polls' = 0
        /\ volume <= MaxDailyVolume /\ volume \in Nat /\ MaxDailyVolume \in Nat
    BY <2>1, FailLeaves
  <2>3. /\ orders' \in Seq(Orders) /\ Len(orders') >= Len(orders)
        /\ OrdersKnown' /\ OrdersAscend'
    <3>1. CASE orders' = orders
      BY <3>1, <1>1 DEF TypeOK, OrdersKnown, OrdersAscend
    <3>2. CASE orders' = Append(orders, Placed(execution))
      <4>1. /\ orders' \in Seq(Orders) /\ Len(orders') = Len(orders) + 1
            /\ \A i \in DOMAIN orders' :
                 orders'[i].trade <= position /\ orders'[i].filled <= orders'[i].qty
            /\ \A i, j \in DOMAIN orders' : i < j => orders'[i].trade < orders'[j].trade
        BY <1>1, <3>2, PlacedOrder
      <4>2. Len(orders') >= Len(orders)
        BY <4>1 DEF TypeOK
      <4> QED BY <4>1, <4>2, <1>1 DEF OrdersKnown, OrdersAscend
    <3> QED BY <1>3, <3>1, <3>2 DEF Refused, AnswerLost
  <2>4. TypeOK'
    BY <1>1, <2>2, <2>3 DEF TypeOK, InFlight
  <2> QED BY <1>1, <2>2, <2>3, <2>4 DEF ExecutionKnown, LastIsFollowed, Following,
            PlacedIsNew, VolumeWithinLimit, InFlight
<1> QED BY <1>2, <1>3

\* What a status read makes of an execution that fits its order.
LEMMA UpdatedFits ==
  ASSUME NEW e \in Executions, NEW o \in Orders, e.filled <= e.qty,
         o.qty = e.qty, o.filled <= o.qty
  PROVE  /\ Updated(e, o) \in Executions
         /\ Updated(e, o).trade = e.trade /\ Updated(e, o).qty = e.qty
         /\ Updated(e, o).filled <= e.qty
PROOF
<1>1. /\ o.filled \in Nat /\ o.filled <= e.qty
      /\ e.trade \in Nat /\ e.qty \in Nat /\ e.filled \in Nat
  BY DEF Orders, Executions
<1>2. ASSUME NEW st \in Statuses, NEW f \in Nat
      PROVE  /\ Seen(e, st, f) \in Executions
             /\ Seen(e, st, f).trade = e.trade /\ Seen(e, st, f).qty = e.qty
             /\ Seen(e, st, f).filled = f
  <2>1. Seen(e, st, f) \in Executions
    BY <1>1 DEF Seen, Executions
  <2>2. /\ Seen(e, st, f).trade = e.trade /\ Seen(e, st, f).qty = e.qty
        /\ Seen(e, st, f).filled = f
    BY DEF Seen
  <2> QED BY <2>1, <2>2
<1>3. Updated(e, o) = e \/ \E st \in Statuses, f \in {o.filled, e.filled} :
                             Updated(e, o) = Seen(e, st, f)
  BY DEF Updated, Orders, OrderStates, Statuses
<1> QED BY <1>1, <1>2, <1>3

\* Settling an execution that fits the last order keeps the invariant: what is
\* counted is at most what was checked.
LEMMA SettleStep ==
  ASSUME IInv, ExecutorAssumption, pc \in Following,
         NEW e \in Executions, e.qty = execution.qty, e.filled <= e.qty, Settle(e),
         UNCHANGED <<trades, day, position, startedAt, firstOrder, attempted, starts>>
  PROVE  IInv'
PROOF
<1> DEFINE c == IF e.status = "submitted" THEN [e EXCEPT !.status = "failed"] ELSE e
<1>1. Counted(c) /\ Fail /\ pc \in InFlight
  BY DEF Settle, Following, InFlight
<1>2. c.filled = e.filled /\ e.filled \in Nat /\ e.qty \in Nat
  BY DEF Executions
<1> HIDE DEF c
<1>3. /\ pc' = "backoff" /\ execution' \in Executions /\ pending' = {} /\ polls' = 0
      /\ volume \in Nat /\ volume + execution.qty <= MaxDailyVolume
      /\ volume <= MaxDailyVolume /\ MaxDailyVolume \in Nat
  BY <1>1, FailLeaves
<1>4. /\ volume' = (IF c.status = "filled" THEN volume + c.filled ELSE volume)
      /\ resetDay' = resetDay
  BY <1>1 DEF Counted
<1>5. volume' \in Nat /\ volume' <= MaxDailyVolume
  BY <1>2, <1>3, <1>4
<1>6. stats' \in [submitted : Nat, filled : Nat, rejected : Nat, failed : Nat]
  <2>1. stats \in [submitted : Nat, filled : Nat, rejected : Nat, failed : Nat]
    BY DEF IInv, TypeOK
  <2>2. stats' = [stats EXCEPT
         !.submitted = @ + 1,
         !.filled = IF c.status = "filled" THEN @ + 1 ELSE @,
         !.rejected = IF c.status = "rejected" THEN @ + 1 ELSE @,
         !.failed = IF c.status = "failed" THEN @ + 1 ELSE @]
    BY <1>1 DEF Counted
  <2>3. stats' = [submitted |-> stats.submitted + 1,
                  filled |-> IF c.status = "filled" THEN stats.filled + 1 ELSE stats.filled,
                  rejected |-> IF c.status = "rejected" THEN stats.rejected + 1 ELSE stats.rejected,
                  failed |-> IF c.status = "failed" THEN stats.failed + 1 ELSE stats.failed]
    BY <2>1, <2>2
  <2>4. /\ stats.submitted \in Nat /\ stats.filled \in Nat
        /\ stats.rejected \in Nat /\ stats.failed \in Nat
    BY <2>1
  <2> QED BY <2>3, <2>4 DEF TypeOK
<1>7. /\ orders' \in Seq(Orders) /\ Len(orders') = Len(orders)
      /\ DOMAIN orders' = DOMAIN orders
      /\ \A i \in DOMAIN orders : /\ orders'[i].trade = orders[i].trade
                                  /\ orders'[i].qty = orders[i].qty
                                  /\ orders'[i].filled = orders[i].filled
  <2>1. orders \in Seq(Orders) /\ orders # <<>>
    BY DEF IInv, TypeOK, LastIsFollowed
  <2>2. CASE orders' = orders
    BY <2>1, <2>2
  <2>3. CASE orders' = [orders EXCEPT ![Current].counted = resetDay]
    <3>1. Current \in DOMAIN orders
      BY <2>1 DEF Current
    <3>2. orders[Current] \in Orders
      BY <2>1, <3>1
    <3> DEFINE o == [orders[Current] EXCEPT !.counted = resetDay]
    <3>0. resetDay \in Nat
      BY DEF IInv, TypeOK
    <3>3. /\ o \in Orders /\ o.trade = orders[Current].trade /\ o.qty = orders[Current].qty
          /\ o.filled = orders[Current].filled
      BY <3>0, <3>2 DEF Orders
    <3>4. orders' = [orders EXCEPT ![Current] = o]
      BY <2>3
    <3> HIDE DEF o
    <3> QED BY <2>1, <3>1, <3>3, <3>4
  <2> QED BY <2>2, <2>3, <1>1 DEF Counted
<1>8. TypeOK'
  BY <1>3, <1>4, <1>5, <1>6, <1>7 DEF IInv, TypeOK, InFlight
<1>9. OrdersKnown' /\ OrdersAscend'
  BY <1>7 DEF IInv, OrdersKnown, OrdersAscend
<1>10. VolumeWithinLimit'
  BY <1>5, <1>3 DEF VolumeWithinLimit, InFlight
<1> QED BY <1>3, <1>8, <1>9, <1>10 DEF IInv, ExecutionKnown, LastIsFollowed,
          Following, PlacedIsNew, InFlight

\* ... and the steps of the tracking loop.
LEMMA TrackingSteps ==
  ASSUME IInv, ExecutorAssumption, PollAnswered \/ PollAgain \/ TrackTimeout \/ WakeUp
  PROVE  IInv'
PROOF
<1> USE DEF IInv
<1>1. UNCHANGED <<trades, day, position, startedAt, firstOrder, attempted, starts>>
  BY DEF PollAnswered, PollAgain, TrackTimeout, WakeUp, external, history
<1>2. CASE PollAnswered
  <2>1. PICK answered \in BOOLEAN :
          LET e == IF answered THEN Updated(execution, orders[Current]) ELSE execution
          IN IF answered /\ Final(e.status)
             THEN Settle(e)
             ELSE /\ pc' = "waiting" /\ execution' = e
                  /\ UNCHANGED <<orders, pending, counters, polls>>
    BY <1>2 DEF PollAnswered
  <2> DEFINE e == IF answered THEN Updated(execution, orders[Current]) ELSE execution
  <2>2. /\ pc = "polling" /\ pc \in InFlight /\ pc \in Following
        /\ execution \in Executions /\ execution.filled <= execution.qty
        /\ orders # <<>> /\ orders \in Seq(Orders)
    BY <1>2 DEF PollAnswered, InFlight, Following, TypeOK, ExecutionKnown, LastIsFollowed
  <2>3. /\ orders[Current] \in Orders /\ orders[Current].qty = execution.qty
        /\ orders[Current].filled <= orders[Current].qty
    <3>1. Current \in DOMAIN orders
      BY <2>2 DEF Current
    <3> QED BY <2>2, <3>1 DEF Current, LastIsFollowed
  <2>4. /\ e \in Executions /\ e.trade = execution.trade /\ e.qty = execution.qty
        /\ e.filled <= execution.qty
    BY <2>2, <2>3, UpdatedFits
  <2> HIDE DEF e
  <2>5. CASE Settle(e)
    BY <1>1, <2>2, <2>4, <2>5, SettleStep
  <2>6. CASE /\ pc' = "waiting" /\ execution' = e
             /\ UNCHANGED <<orders, pending, counters, polls>>
    <3>1. UNCHANGED <<orders, pending, volume, resetDay, stats, polls>>
      BY <2>6 DEF counters
    <3>2. TypeOK'
      BY <1>1, <2>2, <2>4, <2>6, <3>1 DEF TypeOK, InFlight
    <3> QED BY <1>1, <2>2, <2>4, <2>6, <3>1, <3>2 DEF ExecutionKnown, OrdersKnown,
              LastIsFollowed, Following, OrdersAscend, PlacedIsNew, VolumeWithinLimit, InFlight
  <2> QED BY <2>1, <2>5, <2>6 DEF e
<1>3. CASE PollAgain
  <2>1. /\ pc = "waiting" /\ pc' = "polling" /\ polls' = polls + 1
        /\ UNCHANGED <<orders, execution, pending, volume, resetDay, stats>>
    BY <1>3 DEF PollAgain, counters
  <2>2. TypeOK'
    BY <1>1, <2>1 DEF TypeOK, InFlight
  <2> QED BY <1>1, <2>1, <2>2 DEF ExecutionKnown, OrdersKnown, LastIsFollowed, Following,
            OrdersAscend, PlacedIsNew, VolumeWithinLimit, InFlight
<1>4. CASE TrackTimeout
  <2>1. /\ pc \in Following /\ execution \in Executions
        /\ execution.filled <= execution.qty /\ Settle(execution)
    BY <1>4 DEF TrackTimeout, Following, InFlight, TypeOK, ExecutionKnown
  <2> QED BY <1>1, <2>1, SettleStep
<1>5. CASE WakeUp
  <2>1. /\ pc = "backoff" /\ pc' = "idle"
        /\ UNCHANGED <<orders, execution, pending, volume, resetDay, stats, polls>>
    BY <1>5 DEF WakeUp, counters
  <2>2. TypeOK'
    BY <1>1, <2>1 DEF TypeOK, InFlight
  <2> QED BY <1>1, <2>1, <2>2 DEF ExecutionKnown, OrdersKnown, LastIsFollowed, Following,
            OrdersAscend, PlacedIsNew, VolumeWithinLimit, InFlight
<1> QED BY <1>2, <1>3, <1>4, <1>5

-----------------------------------------------------------------------------
\* The invariant holds at every moment.
THEOREM Invariance == ASSUME ExecutorAssumption PROVE Spec => []IInv
PROOF
<1>1. Init => IInv
  BY ExecutorAssumption DEF Init, IInv, TypeOK, ExecutionKnown, OrdersKnown, LastIsFollowed,
     OrdersAscend, PlacedIsNew, VolumeWithinLimit, InFlight, Following, NoExecution,
     Executions, Statuses, NoStats, ExecutorAssumption
<1>2. IInv /\ [Next]_vars => IInv'
  <2> SUFFICES ASSUME IInv, [Next]_vars
               PROVE  IInv'
    OBVIOUS
  <2>1. CASE (\E q \in Quantities : Publish(q)) \/ Midnight \/ Exchange
    BY <2>1, ExecutorAssumption, WorldSteps
  <2>2. CASE Start \/ Stop
    BY <2>2, ExecutorAssumption, LifeSteps
  <2>3. CASE Consume
    BY <2>3, ExecutorAssumption, ConsumeStep
  <2>4. CASE Accepted \/ Refused \/ AnswerLost
    BY <2>4, ExecutorAssumption, PlacingSteps
  <2>5. CASE PollAnswered \/ PollAgain \/ TrackTimeout \/ WakeUp
    BY <2>5, ExecutorAssumption, TrackingSteps
  <2>6. CASE UNCHANGED vars
    <3>1. UNCHANGED <<trades, orders, day, pc, position, execution, pending, volume,
                      resetDay, stats, startedAt, firstOrder, attempted, starts, polls>>
      BY <2>6 DEF vars
    <3> QED BY <3>1 DEF IInv, TypeOK, ExecutionKnown, OrdersKnown, LastIsFollowed,
              OrdersAscend, PlacedIsNew, VolumeWithinLimit
  <2> QED BY <2>1, <2>2, <2>3, <2>4, <2>5, <2>6 DEF Next, Loop
<1> QED BY <1>1, <1>2, PTL DEF Spec

\* Types, and pending_executions holds exactly what is in flight.
THEOREM TypeCorrect == ASSUME ExecutorAssumption PROVE Spec => []TypeOK
PROOF
<1>1. IInv => TypeOK
  BY DEF IInv
<1> QED BY <1>1, Invariance, ExecutorAssumption, PTL

\* _check_safety_limits is enough: seconds after it was made, when the fill is
\* counted, the volume is within the limit, whatever the date did meanwhile.
THEOREM VolumeAlwaysWithinLimit == ASSUME ExecutorAssumption PROVE Spec => []VolumeWithinLimit
PROOF
<1>1. IInv => VolumeWithinLimit
  BY DEF IInv
<1> QED BY <1>1, Invariance, ExecutorAssumption, PTL

\* No trade is ordered twice, however often the service restarts, whichever
\* answers are lost, for batches of any size.
THEOREM TradesOrderedOnce == ASSUME ExecutorAssumption PROVE Spec => []OneOrderPerTrade
PROOF
<1>1. IInv => OneOrderPerTrade
  <2> SUFFICES ASSUME IInv, NEW i \in DOMAIN orders, NEW j \in DOMAIN orders,
                      orders[i].trade = orders[j].trade, i # j
               PROVE  FALSE
    BY DEF OneOrderPerTrade
  <2>1. orders \in Seq(Orders) /\ i \in Nat /\ j \in Nat
    BY DEF IInv, TypeOK
  <2>2. orders[i] \in Orders /\ orders[j] \in Orders
    BY <2>1
  <2>3. orders[i].trade \in Nat /\ orders[j].trade \in Nat
    BY <2>2 DEF Orders
  <2>4. i < j \/ j < i
    BY <2>1
  <2> QED BY <2>3, <2>4 DEF IInv, OrdersAscend
<1> QED BY <1>1, Invariance, ExecutorAssumption, PTL

-----------------------------------------------------------------------------
\* The counters.  While an order is followed, it is not counted, and is one more
\* than were submitted; what is counted was filled, and nothing happens to it.
FollowedUncounted ==
  /\ pc = "placing" => execution.status = "submitted"
  /\ pc \in Following => /\ firstOrder < Len(orders)
                         /\ orders[Len(orders)].counted = Uncounted
                         /\ execution.status \in {"submitted", "partially_filled"}

CountedFilled ==
  pc # "down" => /\ \A i \in CountedOrders : orders[i].state = "Filled"
                 /\ stats.filled = Cardinality(CountedOrders)

SubmissionsBounded ==
  pc # "down" =>
    /\ stats.submitted + (IF pc \in Following THEN 1 ELSE 0) <= Len(orders) - firstOrder
    /\ stats.filled + stats.rejected + stats.failed <= stats.submitted

CountInv == FollowedUncounted /\ CountedFilled /\ SubmissionsBounded

\* The types the counters need.
LEMMA CounterTypes ==
  ASSUME TypeOK
  PROVE  /\ orders \in Seq(Orders) /\ Len(orders) \in Nat /\ DOMAIN orders = 1..Len(orders)
         /\ firstOrder \in Nat /\ firstOrder <= Len(orders)
         /\ stats = [submitted |-> stats.submitted, filled |-> stats.filled,
                     rejected |-> stats.rejected, failed |-> stats.failed]
         /\ stats.submitted \in Nat /\ stats.filled \in Nat
         /\ stats.rejected \in Nat /\ stats.failed \in Nat
  BY DEF TypeOK

\* Steps that touch neither the orders nor the counters.
LEMMA CountsUntouched ==
  ASSUME TypeOK, CountInv, UNCHANGED <<orders, firstOrder, stats>>,
         pc # "down", pc' # "down", pc' \in Following => pc \in Following,
         pc' \in InFlight => \/ pc' = "placing" /\ execution'.status = "submitted"
                             \/ pc' \in Following
                                /\ execution'.status \in {"submitted", "partially_filled"}
  PROVE  CountInv'
PROOF
<1>1. FollowedUncounted'
  BY DEF CountInv, FollowedUncounted, Following, InFlight
<1>2. CountedOrders' = CountedOrders
  BY DEF CountedOrders, OfThisRun
<1>3. CountedFilled'
  BY <1>2 DEF CountInv, CountedFilled, CountedOrders, OfThisRun
<1>4. SubmissionsBounded'
  <2>1. /\ stats.submitted + (IF pc \in Following THEN 1 ELSE 0) <= Len(orders) - firstOrder
        /\ stats.filled + stats.rejected + stats.failed <= stats.submitted
    BY DEF CountInv, SubmissionsBounded
  <2>2. stats.submitted \in Nat /\ Len(orders) \in Nat /\ firstOrder \in Nat
    BY CounterTypes
  <2>3. stats.submitted + (IF pc' \in Following THEN 1 ELSE 0) <= Len(orders) - firstOrder
    BY <2>1, <2>2
  <2> QED BY <2>1, <2>3 DEF SubmissionsBounded
<1> QED BY <1>1, <1>3, <1>4 DEF CountInv

\* A new order is not counted.
LEMMA CountsAppended ==
  ASSUME TypeOK, TypeOK', CountInv, orders' = Append(orders, Placed(execution)),
         UNCHANGED <<firstOrder, stats>>, pc = "placing"
  PROVE  /\ CountedFilled' /\ SubmissionsBounded'
         /\ firstOrder' < Len(orders') /\ orders'[Len(orders')].counted = Uncounted
PROOF
<1>1. /\ orders \in Seq(Orders) /\ Len(orders) \in Nat /\ DOMAIN orders = 1..Len(orders)
      /\ firstOrder \in Nat /\ firstOrder <= Len(orders)
      /\ stats.submitted \in Nat
  BY CounterTypes
<1>2. Placed(execution) \in Orders /\ Placed(execution).counted = Uncounted
  BY DEF Placed, TypeOK, Executions, Orders, OrderStates, Uncounted
<1>3. /\ Len(orders') = Len(orders) + 1 /\ DOMAIN orders' = 1..(Len(orders) + 1)
      /\ orders'[Len(orders) + 1] = Placed(execution)
      /\ \A i \in DOMAIN orders : orders'[i] = orders[i]
  BY <1>1, <1>2
<1>4. CountedOrders' = CountedOrders
  BY <1>1, <1>2, <1>3 DEF CountedOrders, OfThisRun
<1>5. CountedFilled'
  BY <1>3, <1>4 DEF CountInv, CountedFilled, CountedOrders, OfThisRun
<1>6. SubmissionsBounded'
  <2>1. /\ stats.submitted <= Len(orders) - firstOrder
        /\ stats.filled + stats.rejected + stats.failed <= stats.submitted
    BY <1>1 DEF CountInv, SubmissionsBounded, Following
  <2>2. stats.submitted + (IF pc' \in Following THEN 1 ELSE 0) <= Len(orders') - firstOrder
    <3> HIDE DEF Following
    <3> QED BY <1>1, <1>3, <2>1
  <2>3. stats' = stats /\ firstOrder' = firstOrder
    OBVIOUS
  <2> QED BY <2>1, <2>2, <2>3 DEF SubmissionsBounded
<1> QED BY <1>1, <1>2, <1>3, <1>5, <1>6

\* What the exchange does to an order touches none that is counted.
LEMMA CountsExchanged ==
  ASSUME IInv, IInv', CountInv, Exchange
  PROVE  CountInv'
PROOF
<1>1. PICK i \in DOMAIN orders :
        /\ Open(orders[i])
        /\ \E r \in Exchanged(orders[i]) : orders' = [orders EXCEPT ![i] = r]
  BY DEF Exchange
<1>2. PICK o \in Exchanged(orders[i]) : orders' = [orders EXCEPT ![i] = o]
  BY <1>1
<1>3. UNCHANGED <<pc, execution, stats, firstOrder>>
  BY DEF Exchange, counters, history
<1>4. orders \in Seq(Orders) /\ orders[i] \in Orders /\ Len(orders) \in Nat
      /\ DOMAIN orders = 1..Len(orders)
  <2>1. orders \in Seq(Orders)
    BY DEF IInv, TypeOK
  <2> QED BY <2>1
<1>5. o.counted = orders[i].counted
  BY <1>4 DEF Exchanged, Orders
<1>6. /\ DOMAIN orders' = DOMAIN orders /\ Len(orders') = Len(orders)
      /\ \A k \in DOMAIN orders : /\ orders'[k].counted = orders[k].counted
                                  /\ k # i => orders'[k] = orders[k]
  BY <1>2, <1>4, <1>5
<1>7. CountedOrders' = CountedOrders
  BY <1>3, <1>6 DEF CountedOrders, OfThisRun
<1>8. CountedFilled'
  <2> SUFFICES ASSUME pc # "down"
               PROVE  (\A k \in CountedOrders' : orders'[k].state = "Filled")
                      /\ stats.filled = Cardinality(CountedOrders')
    BY <1>3 DEF CountedFilled
  <2>1. i \notin CountedOrders
    BY <1>1 DEF CountInv, CountedFilled, Open
  <2>2. \A k \in CountedOrders : orders'[k] = orders[k]
    BY <2>1, <1>6 DEF CountedOrders, OfThisRun
  <2> QED BY <2>2, <1>7 DEF CountInv, CountedFilled
<1>9. FollowedUncounted'
  <2>1. pc \in Following => Len(orders) \in DOMAIN orders
    BY <1>4 DEF IInv, LastIsFollowed
  <2> QED BY <2>1, <1>3, <1>6 DEF CountInv, FollowedUncounted
<1>10. SubmissionsBounded'
  BY <1>3, <1>6 DEF CountInv, SubmissionsBounded
<1> QED BY <1>8, <1>9, <1>10 DEF CountInv

\* The followed order is counted as filled only if the exchange has filled it, and
\* for one order one of the outcomes is counted.
LEMMA CountsSettled ==
  ASSUME IInv, IInv', CountInv, pc \in Following, NEW e, Settle(e),
         UNCHANGED firstOrder, e.status = "filled" => orders[Len(orders)].state = "Filled",
         e.status \in Statuses, e.status = "submitted" => e \in Executions
  PROVE  CountInv'
PROOF
<1> DEFINE c == IF e.status = "submitted" THEN [e EXCEPT !.status = "failed"] ELSE e
<1>1. Counted(c) /\ pc' = "backoff"
  BY DEF Settle, Fail
<1>2. c.status = "filled" <=> e.status = "filled"
  BY DEF Executions
<1> HIDE DEF c
<1>3. /\ orders \in Seq(Orders) /\ Len(orders) \in Nat /\ DOMAIN orders = 1..Len(orders)
      /\ firstOrder \in Nat /\ firstOrder < Len(orders)
      /\ stats = [submitted |-> stats.submitted, filled |-> stats.filled,
                  rejected |-> stats.rejected, failed |-> stats.failed]
      /\ stats.submitted \in Nat /\ stats.filled \in Nat
      /\ stats.rejected \in Nat /\ stats.failed \in Nat
      /\ orders[Len(orders)].counted = Uncounted /\ resetDay \in Nat
  BY CounterTypes DEF IInv, TypeOK, CountInv, FollowedUncounted
<1>4. /\ stats'.submitted = stats.submitted + 1
      /\ stats'.filled = IF c.status = "filled" THEN stats.filled + 1 ELSE stats.filled
      /\ stats'.rejected = IF c.status = "rejected" THEN stats.rejected + 1 ELSE stats.rejected
      /\ stats'.failed = IF c.status = "failed" THEN stats.failed + 1 ELSE stats.failed
  BY <1>1, <1>3 DEF Counted
<1>5. IsFiniteSet(CountedOrders) /\ Len(orders) \in OfThisRun /\ Len(orders) \notin CountedOrders
  <2>1. CountedOrders \subseteq 1..Len(orders)
    BY <1>3 DEF CountedOrders, OfThisRun
  <2>2. IsFiniteSet(1..Len(orders))
    <3>1. 1 \in Int /\ Len(orders) \in Int
      BY <1>3
    <3> QED BY <3>1, FS_Interval
  <2> QED BY <2>1, <2>2, <1>3, FS_Subset DEF OfThisRun, CountedOrders
<1>6. pc # "down"
  BY DEF Following
<1>7. CountedFilled' /\ Len(orders') = Len(orders)
  <2>1. CASE c.status = "filled"
    <3>1. orders' = [orders EXCEPT ![Len(orders)].counted = resetDay]
      BY <1>1, <2>1 DEF Counted, Current
    <3>2. orders[Len(orders)] \in Orders /\ orders[Len(orders)].state = "Filled"
      BY <1>2, <1>3, <2>1
    <3>3. /\ DOMAIN orders' = DOMAIN orders /\ Len(orders') = Len(orders)
          /\ orders'[Len(orders)].counted # Uncounted /\ orders'[Len(orders)].state = "Filled"
          /\ \A k \in DOMAIN orders : k # Len(orders) => orders'[k] = orders[k]
      BY <1>3, <3>1, <3>2 DEF Orders, Uncounted
    <3>4. CountedOrders' = CountedOrders \cup {Len(orders)}
      BY <1>3, <1>5, <3>3 DEF CountedOrders, OfThisRun
    <3>5. Cardinality(CountedOrders') = Cardinality(CountedOrders) + 1
      BY <1>5, <3>4, FS_AddElement
    <3>6. \A k \in CountedOrders' : orders'[k].state = "Filled"
      BY <1>6, <3>3, <3>4 DEF CountInv, CountedFilled, CountedOrders, OfThisRun
    <3> QED BY <1>4, <1>6, <2>1, <3>3, <3>5, <3>6 DEF CountInv, CountedFilled
  <2>2. CASE c.status # "filled"
    <3>1. orders' = orders /\ stats'.filled = stats.filled
      BY <1>1, <1>4, <2>2 DEF Counted
    <3>2. CountedOrders' = CountedOrders
      BY <3>1 DEF CountedOrders, OfThisRun
    <3> QED BY <1>6, <3>1, <3>2 DEF CountInv, CountedFilled
  <2> QED BY <2>1, <2>2
<1>8. SubmissionsBounded'
  BY <1>1, <1>3, <1>4, <1>6, <1>7 DEF CountInv, SubmissionsBounded, Following
<1>9. FollowedUncounted'
  BY <1>1 DEF FollowedUncounted, Following
<1> QED BY <1>7, <1>8, <1>9 DEF CountInv

\* The counters stay right whatever the service does.
LEMMA CountStep ==
  ASSUME IInv, IInv', CountInv, [Next]_vars
  PROVE  CountInv'
PROOF
<1>0. TypeOK /\ TypeOK'
  BY DEF IInv
<1>1. CASE (\E q \in Quantities : Publish(q)) \/ Midnight \/ UNCHANGED vars
  <2>1. UNCHANGED <<orders, pc, execution, stats, firstOrder>>
    BY <1>1 DEF Publish, Midnight, vars, counters, history
  <2>2. CountedOrders' = CountedOrders
    BY <2>1 DEF CountedOrders, OfThisRun
  <2> QED BY <2>1, <2>2 DEF CountInv, FollowedUncounted, CountedFilled, SubmissionsBounded
<1>2. CASE Exchange
  BY <1>2, CountsExchanged
<1>3. CASE Start
  <2>1. /\ pc' = "idle" /\ stats' = NoStats /\ firstOrder' = Len(orders)
        /\ orders' = orders
    BY <1>3 DEF Start
  <2>2. Len(orders) \in Nat /\ DOMAIN orders = 1..Len(orders)
    BY <1>0, CounterTypes
  <2>3. CountedOrders' = {}
    BY <2>1, <2>2 DEF CountedOrders, OfThisRun
  <2>4. Cardinality(CountedOrders') = 0
    BY <2>3, FS_EmptySet
  <2> QED BY <2>1, <2>2, <2>3, <2>4 DEF CountInv, FollowedUncounted, CountedFilled,
            SubmissionsBounded, Following, NoStats
<1>4. CASE Stop
  BY <1>4 DEF Stop, CountInv, FollowedUncounted, CountedFilled, SubmissionsBounded, Following
<1>5. CASE Consume
  <2>1. /\ pc = "idle" /\ UNCHANGED <<orders, stats, firstOrder>>
        /\ \/ pc' = "placing" /\ execution'.status = "submitted"
           \/ pc' = "backoff"
    BY <1>5 DEF Consume
  <2> QED BY <1>0, <2>1, CountsUntouched DEF Following, InFlight
<1>6. CASE WakeUp
  <2>1. pc = "backoff" /\ pc' = "idle" /\ UNCHANGED <<orders, stats, firstOrder>>
    BY <1>6 DEF WakeUp, counters, history
  <2> QED BY <1>0, <2>1, CountsUntouched DEF Following, InFlight
<1>7. CASE Accepted
  <2>1. /\ pc = "placing" /\ pc' = "polling" /\ orders' = Append(orders, Placed(execution))
        /\ UNCHANGED <<execution, stats, firstOrder>>
    BY <1>7 DEF Accepted, counters, history
  <2>2. /\ CountedFilled' /\ SubmissionsBounded'
        /\ firstOrder' < Len(orders') /\ orders'[Len(orders')].counted = Uncounted
    BY <1>0, <2>1, CountsAppended
  <2> QED BY <2>1, <2>2 DEF CountInv, FollowedUncounted
<1>8. CASE Refused
  <2>1. /\ pc = "placing" /\ pc' = "backoff" /\ UNCHANGED <<orders, stats, firstOrder>>
    BY <1>8 DEF Refused, Fail, counters, history
  <2> QED BY <1>0, <2>1, CountsUntouched DEF Following, InFlight
<1>9. CASE AnswerLost
  <2>1. /\ pc = "placing" /\ pc' = "backoff" /\ orders' = Append(orders, Placed(execution))
        /\ UNCHANGED <<stats, firstOrder>>
    BY <1>9 DEF AnswerLost, Fail, counters, history
  <2>2. CountedFilled' /\ SubmissionsBounded'
    BY <1>0, <2>1, CountsAppended
  <2> QED BY <2>1, <2>2 DEF CountInv, FollowedUncounted, Following
<1>10. CASE PollAnswered
  <2>1. PICK answered \in BOOLEAN :
          LET e == IF answered THEN Updated(execution, orders[Current]) ELSE execution
          IN IF answered /\ Final(e.status)
             THEN Settle(e)
             ELSE /\ pc' = "waiting" /\ execution' = e
                  /\ UNCHANGED <<orders, pending, counters, polls>>
    BY <1>10 DEF PollAnswered
  <2> DEFINE e == IF answered THEN Updated(execution, orders[Current]) ELSE execution
  <2>2. /\ pc = "polling" /\ pc \in Following /\ UNCHANGED firstOrder
        /\ execution \in Executions
        /\ execution.status \in {"submitted", "partially_filled"}
    BY <1>0, <1>10 DEF PollAnswered, Following, history, TypeOK, CountInv, FollowedUncounted
  <2>3. orders[Len(orders)] \in Orders
    <3>1. orders \in Seq(Orders) /\ orders # <<>>
      BY <2>2 DEF IInv, TypeOK, LastIsFollowed
    <3> QED BY <3>1
  <2>4. /\ e.status \in Statuses
        /\ e.status = "filled" => orders[Len(orders)].state = "Filled"
        /\ e.status = "submitted" => e \in Executions
        /\ ~(answered /\ Final(e.status)) => e.status \in {"submitted", "partially_filled"}
    BY <2>2, <2>3 DEF Updated, Seen, Current, Orders, OrderStates, Statuses, Final
  <2> HIDE DEF e
  <2>5. CASE answered /\ Final(e.status)
    <3>1. Settle(e)
      BY <2>1, <2>5 DEF e
    <3> QED BY <2>2, <2>4, <3>1, CountsSettled
  <2>6. CASE ~(answered /\ Final(e.status))
    <3>1. pc' = "waiting" /\ execution' = e /\ UNCHANGED <<orders, stats>>
      BY <2>1, <2>6 DEF e, counters
    <3> QED BY <2>2, <2>4, <2>6, <3>1, <1>0, CountsUntouched DEF Following
  <2> QED BY <2>5, <2>6
<1>11. CASE PollAgain
  <2>1. /\ pc = "waiting" /\ pc' = "polling"
        /\ UNCHANGED <<orders, execution, stats, firstOrder>>
        /\ execution.status \in {"submitted", "partially_filled"}
    BY <1>11 DEF PollAgain, counters, history, CountInv, FollowedUncounted, Following
  <2> QED BY <1>0, <2>1, CountsUntouched DEF Following
<1>12. CASE TrackTimeout
  <2>1. /\ pc \in Following /\ UNCHANGED firstOrder /\ Settle(execution)
        /\ execution \in Executions
        /\ execution.status \in {"submitted", "partially_filled"}
    BY <1>0, <1>12 DEF TrackTimeout, Following, history, TypeOK, CountInv, FollowedUncounted
  <2> QED BY <2>1, CountsSettled DEF Statuses
<1> QED BY <1>1, <1>2, <1>3, <1>4, <1>5, <1>6, <1>7, <1>8, <1>9, <1>10, <1>11, <1>12
       DEF Next, Loop

-----------------------------------------------------------------------------
(* The sum of a sequence, which Total computes by recursion.               *)

\* Induction over the naturals, for a set in place of a predicate: the least number
\* outside the set would have a predecessor inside it.
LEMMA Induction ==
  ASSUME NEW S \in SUBSET Nat, 0 \in S, \A n \in S : n + 1 \in S
  PROVE  S = Nat
PROOF
<1> SUFFICES ASSUME S # Nat PROVE FALSE
  OBVIOUS
<1> DEFINE T == Nat \ S
<1> DEFINE R == OpToRel(<, Nat)
<1>1. IsWellFoundedOn(R, Nat)
  BY NatLessThanWellFounded
<1>2. \A m, n \in Nat : m < n => <<m, n>> \in R
  BY DEF OpToRel
<1>3. T \subseteq Nat /\ T # {}
  OBVIOUS
<1> HIDE DEF R
<1>4. PICK n \in T : \A m \in T : <<m, n>> \notin R
  <2> HIDE DEF T
  <2> QED BY <1>1, <1>3, WFMin
<1>5. n \in Nat /\ n # 0
  OBVIOUS
<1>6. n - 1 \in S
  <2>1. n - 1 \in Nat /\ n - 1 < n
    BY <1>5
  <2>2. n - 1 \notin T
    BY <1>2, <1>4, <1>5, <2>1
  <2> QED BY <2>1, <2>2
<1>7. (n - 1) + 1 \in S
  BY <1>6
<1> QED BY <1>5, <1>7

\* t is the sequence of running sums of w.
Running(t, w) ==
  /\ t \in [0..Len(w) -> Nat]
  /\ t[0] = 0
  /\ \A k \in 1..Len(w) : t[k] = t[k - 1] + w[k]

\* Every sequence of quantities has running sums.
LEMMA RunningExists ==
  ASSUME NEW w \in Seq(Nat)
  PROVE  \E t : Running(t, w)
PROOF
<1> DEFINE P(t, n) == /\ t \in [0..n -> Nat] /\ t[0] = 0
                      /\ \A k \in 1..n : t[k] = t[k - 1] + w[k]
<1> DEFINE S == {n \in Nat : n <= Len(w) => \E t : P(t, n)}
<1>1. 0 \in S
  <2>1. P([k \in 0..0 |-> 0], 0)
    OBVIOUS
  <2> QED BY <2>1
<1>2. ASSUME NEW n \in S
      PROVE  n + 1 \in S
  <2>0. n \in Nat /\ n + 1 \in Nat
    BY <1>2
  <2> SUFFICES ASSUME n + 1 <= Len(w)
               PROVE  \E t : P(t, n + 1)
    BY <2>0
  <2>1. PICK t : P(t, n)
    <3>1. n <= Len(w)
      BY <2>0
    <3> HIDE DEF P
    <3> QED BY <3>1, <1>2
  <2>2. w[n + 1] \in Nat /\ t[n] \in Nat
    BY <2>1
  <2> DEFINE u == [k \in 0..(n + 1) |-> IF k <= n THEN t[k] ELSE t[n] + w[n + 1]]
  <2>3. u \in [0..(n + 1) -> Nat] /\ u[0] = 0
    BY <2>0, <2>1, <2>2
  <2>4. \A k \in 1..(n + 1) : u[k] = u[k - 1] + w[k]
    <3> SUFFICES ASSUME NEW k \in 1..(n + 1)
                 PROVE  u[k] = u[k - 1] + w[k]
      OBVIOUS
    <3>1. CASE k <= n
      BY <2>0, <2>1, <3>1
    <3>2. CASE k = n + 1
      BY <2>0, <3>2
    <3> QED BY <2>0, <3>1, <3>2
  <2>5. P(u, n + 1)
    BY <2>3, <2>4
  <2> HIDE DEF P, u
  <2> QED BY <2>5
<1>3. S = Nat
  <2> HIDE DEF S
  <2> S \in SUBSET Nat BY DEF S
  <2> QED BY <1>1, <1>2, Induction
<1>4. PICK t : P(t, Len(w))
  <2>1. Len(w) \in Nat /\ Len(w) <= Len(w)
    OBVIOUS
  <2> HIDE DEF P
  <2> QED BY <1>3, <2>1
<1>5. Running(t, w)
  BY <1>4 DEF Running
<1> QED BY <1>5

\* Running sums agree as long as what is summed agrees.
LEMMA RunningAgree ==
  ASSUME NEW w \in Seq(Nat), NEW v \in Seq(Nat), NEW n \in Nat,
         NEW t, NEW u, Running(t, w), Running(u, v),
         n <= Len(w), n <= Len(v), \A k \in 1..n : w[k] = v[k]
  PROVE  t[n] = u[n]
PROOF
<1> DEFINE S == {k \in Nat : k <= n => t[k] = u[k]}
<1>1. 0 \in S
  BY DEF Running
<1>2. ASSUME NEW k \in S
      PROVE  k + 1 \in S
  BY DEF Running
<1>3. S = Nat
  <2> HIDE DEF S
  <2> S \in SUBSET Nat BY DEF S
  <2> QED BY <1>1, <1>2, Induction
<1> QED BY <1>3

\* The recursion of Total computes them.
LEMMA TotalIs ==
  ASSUME NEW w \in Seq(Nat), NEW t, Running(t, w)
  PROVE  Total(w) = t[Len(w)]
PROOF
<1> DEFINE total == CHOOSE s : s = [n \in 0..Len(w) |-> IF n = 0 THEN 0 ELSE s[n - 1] + w[n]]
<1>0. Total(w) = total[Len(w)]
  BY DEF Total
<1>1. t = [n \in 0..Len(w) |-> IF n = 0 THEN 0 ELSE t[n - 1] + w[n]]
  BY DEF Running
<1>2. total = [n \in 0..Len(w) |-> IF n = 0 THEN 0 ELSE total[n - 1] + w[n]]
  BY <1>1
<1>3. \A n \in 0..Len(w) : total[n] = t[n]
  <2> DEFINE S == {n \in Nat : n <= Len(w) => total[n] = t[n]}
  <2> HIDE DEF total
  <2>1. 0 \in S
    BY <1>2 DEF Running
  <2>2. ASSUME NEW n \in S
        PROVE  n + 1 \in S
    BY <1>2 DEF Running
  <2>3. S = Nat
    <3> HIDE DEF S
    <3> S \in SUBSET Nat BY DEF S
    <3> QED BY <2>1, <2>2, Induction
  <2> QED BY <2>3
<1> HIDE DEF total
<1> QED BY <1>0, <1>3

\* A sum without its last quantity is that of what comes before.
LEMMA TotalSplit ==
  ASSUME NEW w \in Seq(Nat), NEW v \in Seq(Nat), Len(w) # 0, Len(v) = Len(w),
         \A k \in 1..(Len(w) - 1) : v[k] = w[k]
  PROVE  \E s \in Nat : Total(w) = s + w[Len(w)] /\ Total(v) = s + v[Len(w)]
PROOF
<1>1. PICK t : Running(t, w)
  BY RunningExists
<1>2. PICK u : Running(u, v)
  BY RunningExists
<1> DEFINE n == Len(w) - 1
<1>3. n \in Nat /\ n <= Len(w) /\ n <= Len(v) /\ n + 1 = Len(w) /\ Len(w) \in 1..Len(w)
  OBVIOUS
<1>4. t[n] = u[n]
  <2>1. \A k \in 1..n : w[k] = v[k]
    OBVIOUS
  <2>2. n \in Nat /\ n <= Len(w) /\ n <= Len(v)
    BY <1>3
  <2> HIDE DEF n
  <2> QED BY <1>1, <1>2, <2>1, <2>2, RunningAgree
<1>5. Total(w) = t[Len(w)] /\ Total(v) = u[Len(w)]
  BY <1>1, <1>2, TotalIs
<1>6. t[Len(w)] = t[n] + w[Len(w)] /\ u[Len(w)] = u[n] + v[Len(w)] /\ t[n] \in Nat
  <2>1. t[Len(w)] = t[Len(w) - 1] + w[Len(w)]
    BY <1>1, <1>3 DEF Running
  <2>2. Len(w) \in 1..Len(v)
    BY <1>3
  <2>3. u[Len(w)] = u[Len(w) - 1] + v[Len(w)]
    BY <1>2, <2>2 DEF Running
  <2>4. t[n] \in Nat
    <3>1. t \in [0..Len(w) -> Nat] /\ n \in 0..Len(w)
      BY <1>1, <1>3 DEF Running
    <3> QED BY <3>1
  <2> QED BY <2>1, <2>3, <2>4
<1> QED BY <1>4, <1>5, <1>6

\* One quantity more.
LEMMA TotalAppended ==
  ASSUME NEW w \in Seq(Nat), NEW x \in Nat
  PROVE  Total(Append(w, x)) = Total(w) + x
PROOF
<1> DEFINE v == Append(w, x)
<1>1. v \in Seq(Nat) /\ Len(v) = Len(w) + 1 /\ v[Len(v)] = x /\ Len(w) \in Nat
      /\ \A k \in 1..Len(w) : w[k] = v[k]
  OBVIOUS
<1> HIDE DEF v
<1>2. PICK t : Running(t, w)
  BY RunningExists
<1>3. PICK u : Running(u, v)
  BY <1>1, RunningExists
<1>5. t[Len(w)] = u[Len(w)]
  <2> DEFINE n == Len(w)
  <2>1. n \in Nat /\ n <= Len(w) /\ n <= Len(v) /\ \A k \in 1..n : w[k] = v[k]
    BY <1>1
  <2> HIDE DEF n
  <2>2. t[n] = u[n]
    BY <1>1, <1>2, <1>3, <2>1, RunningAgree
  <2> QED BY <2>2 DEF n
<1>6. u[Len(v)] = u[Len(w)] + x
  <2>1. Len(v) \in 1..Len(v) /\ Len(v) - 1 = Len(w) /\ v[Len(v)] = x
    BY <1>1
  <2>2. \A k \in 1..Len(v) : u[k] = u[k - 1] + v[k]
    BY <1>3 DEF Running
  <2>3. u[Len(v)] = u[Len(v) - 1] + v[Len(v)]
    BY <2>1, <2>2
  <2> QED BY <2>1, <2>3
<1>7. Total(w) = t[Len(w)] /\ Total(v) = u[Len(v)]
  BY <1>1, <1>2, <1>3, TotalIs
<1> QED BY <1>5, <1>6, <1>7 DEF v

\* The same quantities add up to the same.
LEMMA TotalOfSame ==
  ASSUME NEW w \in Seq(Nat), NEW v \in Seq(Nat), NEW n, Len(w) = n, Len(v) = n,
         \A k \in 1..n : v[k] = w[k]
  PROVE  Total(v) = Total(w)
PROOF
<1>1. n \in Nat /\ n <= Len(w) /\ n <= Len(v)
  OBVIOUS
<1>2. PICK t : Running(t, w)
  BY RunningExists
<1>3. PICK u : Running(u, v)
  BY RunningExists
<1>4. t[n] = u[n]
  BY <1>1, <1>2, <1>3, RunningAgree
<1>5. Total(w) = t[n] /\ Total(v) = u[n]
  BY <1>2, <1>3, TotalIs
<1> QED BY <1>4, <1>5

\* Smaller quantities do not add up to more.
LEMMA TotalOfLess ==
  ASSUME NEW w \in Seq(Nat), NEW v \in Seq(Nat), NEW n, Len(w) = n, Len(v) = n,
         \A k \in 1..n : v[k] <= w[k]
  PROVE  Total(v) <= Total(w)
PROOF
<1>1. PICK t : Running(t, w)
  BY RunningExists
<1>2. PICK u : Running(u, v)
  BY RunningExists
<1> DEFINE S == {k \in Nat : k <= n => u[k] <= t[k]}
<1>3. 0 \in S
  BY <1>1, <1>2 DEF Running
<1>4. ASSUME NEW k \in S
      PROVE  k + 1 \in S
  <2> SUFFICES ASSUME k + 1 <= n
               PROVE  u[k + 1] <= t[k + 1]
    OBVIOUS
  <2>1. k \in 0..n /\ k + 1 \in 1..n /\ (k + 1) - 1 = k /\ u[k] <= t[k]
    OBVIOUS
  <2>2. t[k + 1] = t[k] + w[k + 1] /\ u[k + 1] = u[k] + v[k + 1]
    BY <1>1, <1>2, <2>1 DEF Running
  <2>3. t[k] \in Nat /\ u[k] \in Nat
    BY <1>1, <1>2, <2>1 DEF Running
  <2>4. w[k + 1] \in Nat /\ v[k + 1] \in Nat /\ v[k + 1] <= w[k + 1]
    BY <2>1
  <2> QED BY <2>1, <2>2, <2>3, <2>4
<1>5. S = Nat
  <2> HIDE DEF S
  <2> S \in SUBSET Nat BY DEF S
  <2> QED BY <1>3, <1>4, Induction
<1>6. u[n] <= t[n]
  BY <1>5
<1> QED BY <1>1, <1>2, <1>6, TotalIs

\* Nothing adds up to nothing.
LEMMA TotalOfNothing ==
  ASSUME NEW w \in Seq(Nat), \A k \in DOMAIN w : w[k] = 0
  PROVE  Total(w) = 0
PROOF
<1>1. PICK t : Running(t, w)
  BY RunningExists
<1> DEFINE S == {k \in Nat : k <= Len(w) => t[k] = 0}
<1>2. 0 \in S
  BY <1>1 DEF Running
<1>3. ASSUME NEW k \in S
      PROVE  k + 1 \in S
  BY <1>1 DEF Running
<1>4. S = Nat
  <2> HIDE DEF S
  <2> S \in SUBSET Nat BY DEF S
  <2> QED BY <1>2, <1>3, Induction
<1>5. t[Len(w)] = 0
  BY <1>4
<1> QED BY <1>1, <1>5, TotalIs

-----------------------------------------------------------------------------
\* The volume.  What was counted to the counter's day is in it, and no order of this
\* run was counted to a later day.
VolumeInv ==
  pc # "down" => /\ volume = Total(CountedFills)
                 /\ \A i \in CountedOrders : orders[i].counted <= resetDay

\* The fills that are summed are quantities, one for each order.
LEMMA FillsTyped ==
  ASSUME TypeOK
  PROVE  CountedFills \in Seq(Nat) /\ Len(CountedFills) = Len(orders)
PROOF
<1>1. orders \in Seq(Orders) /\ Len(orders) \in Nat /\ DOMAIN orders = 1..Len(orders)
  BY CounterTypes
<1>2. \A i \in 1..Len(orders) : orders[i].filled \in Nat
  <2> SUFFICES ASSUME NEW i \in 1..Len(orders)
               PROVE  orders[i].filled \in Nat
    OBVIOUS
  <2>1. orders[i] \in Orders
    BY <1>1
  <2> QED BY <2>1 DEF Orders
<1>3. CountedFills \in [1..Len(orders) -> Nat]
  BY <1>1, <1>2 DEF CountedFills
<1> QED BY <1>1, <1>3

\* Steps that change neither orders, counters nor dates.
LEMMA VolumeUntouched ==
  ASSUME VolumeInv, UNCHANGED <<orders, firstOrder, volume, resetDay>>,
         pc' # "down" => pc # "down"
  PROVE  VolumeInv'
PROOF
<1>1. CountedOrders' = CountedOrders
  BY DEF CountedOrders, OfThisRun
<1>2. CountedFills' = CountedFills
  BY <1>1 DEF CountedFills
<1> QED BY <1>1, <1>2 DEF VolumeInv

\* A new order adds nothing.
LEMMA VolumeAppended ==
  ASSUME TypeOK, VolumeInv, pc = "placing", orders' = Append(orders, Placed(execution)),
         UNCHANGED <<firstOrder, volume, resetDay>>
  PROVE  VolumeInv'
PROOF
<1>1. /\ orders \in Seq(Orders) /\ Len(orders) \in Nat /\ DOMAIN orders = 1..Len(orders)
      /\ firstOrder \in Nat /\ firstOrder <= Len(orders)
  BY CounterTypes
<1>2. Placed(execution) \in Orders /\ Placed(execution).counted = Uncounted
  BY DEF Placed, TypeOK, Executions, Orders, OrderStates, Uncounted
<1>3. /\ Len(orders') = Len(orders) + 1 /\ DOMAIN orders' = 1..(Len(orders) + 1)
      /\ orders'[Len(orders) + 1] = Placed(execution)
      /\ \A i \in DOMAIN orders : orders'[i] = orders[i]
  BY <1>1, <1>2
<1>4. CountedOrders' = CountedOrders /\ CountedOrders \subseteq DOMAIN orders
      /\ Len(orders) + 1 \notin CountedOrders
  BY <1>1, <1>2, <1>3 DEF CountedOrders, OfThisRun
<1>5. CountedFills' = Append(CountedFills, 0)
  <2>1. CountedFills \in Seq(Nat) /\ Len(CountedFills) = Len(orders)
    BY FillsTyped
  <2>2. DOMAIN CountedFills' = 1..(Len(orders) + 1)
    BY <1>3 DEF CountedFills
  <2>3. \A i \in 1..Len(orders) : CountedFills'[i] = CountedFills[i]
    BY <1>1, <1>3, <1>4 DEF CountedFills
  <2>4. CountedFills'[Len(orders) + 1] = 0
    BY <1>1, <1>3, <1>4 DEF CountedFills
  <2> DEFINE f == CountedFills'
  <2> DEFINE g == CountedFills
  <2> DEFINE n == Len(orders)
  <2>5. f \in [1..(n + 1) -> Nat]
    <3>1. \A i \in 1..n : CountedFills[i] \in Nat
      BY <1>1, <2>1
    <3>2. f = [i \in 1..(n + 1) |-> f[i]]
      BY <1>3 DEF CountedFills
    <3>3. \A i \in 1..(n + 1) : f[i] \in Nat
      <4>1. \A i \in 1..(n + 1) : i \in 1..n \/ i = n + 1
        BY <1>1
      <4> HIDE DEF n
      <4> QED BY <2>3, <2>4, <3>1, <4>1 DEF n
    <3> QED BY <3>2, <3>3
  <2>6. /\ g \in Seq(Nat) /\ Len(g) = n /\ n \in Nat
        /\ \A i \in 1..n : f[i] = g[i]
        /\ f[n + 1] = 0
    BY <1>1, <2>1, <2>3, <2>4
  <2> HIDE DEF f, g, n
  <2>7. f = Append(g, 0)
    <3>1. f \in Seq(Nat) /\ Len(f) = n + 1
      BY <2>5, <2>6
    <3>2. Append(g, 0) \in Seq(Nat) /\ Len(Append(g, 0)) = n + 1
      BY <2>6
    <3>3. \A i \in 1..(n + 1) : f[i] = Append(g, 0)[i]
      BY <2>6
    <3> QED BY <3>1, <3>2, <3>3, SeqEqual
  <2> QED BY <2>7 DEF f, g
<1>6. Total(CountedFills') = Total(CountedFills)
  <2>1. CountedFills \in Seq(Nat) /\ 0 \in Nat
    BY FillsTyped
  <2>2. Total(Append(CountedFills, 0)) = Total(CountedFills) + 0
    BY <2>1, TotalAppended
  <2>3. Total(CountedFills) = volume /\ volume \in Nat
    BY DEF VolumeInv, TypeOK
  <2> QED BY <1>5, <2>2, <2>3
<1>7. Total(CountedFills)' = Total(CountedFills')
  BY DEF Total
<1> QED BY <1>2, <1>3, <1>4, <1>6, <1>7 DEF VolumeInv, CountedOrders, OfThisRun

\* What the exchange does to an open order adds nothing.
LEMMA VolumeExchanged ==
  ASSUME IInv, CountInv, VolumeInv, Exchange
  PROVE  VolumeInv'
PROOF
<1>1. PICK i \in DOMAIN orders :
        /\ Open(orders[i])
        /\ \E r \in Exchanged(orders[i]) : orders' = [orders EXCEPT ![i] = r]
  BY DEF Exchange
<1>2. PICK o \in Exchanged(orders[i]) : orders' = [orders EXCEPT ![i] = o]
  BY <1>1
<1>3. UNCHANGED <<pc, firstOrder, volume, resetDay>>
  BY DEF Exchange, counters, history
<1>4. orders \in Seq(Orders) /\ Len(orders) \in Nat /\ DOMAIN orders = 1..Len(orders)
  BY CounterTypes DEF IInv
<1>5. orders[i] \in Orders
  BY <1>4
<1>6. o.counted = orders[i].counted
  BY <1>5 DEF Exchanged, Orders
<1>7. /\ DOMAIN orders' = DOMAIN orders /\ Len(orders') = Len(orders)
      /\ \A k \in DOMAIN orders : /\ orders'[k].counted = orders[k].counted
                                  /\ k # i => orders'[k] = orders[k]
  BY <1>2, <1>4, <1>6
<1>8. CountedOrders' = CountedOrders
  BY <1>3, <1>7 DEF CountedOrders, OfThisRun
<1>9. CASE pc # "down"
  <2>1. i \notin CountedOrders
    BY <1>1, <1>9 DEF CountInv, CountedFilled, Open
  <2>2. CountedFills' = CountedFills
    BY <2>1, <1>3, <1>7, <1>8 DEF CountedFills
  <2>3. \A k \in CountedOrders : orders'[k].counted = orders[k].counted
    BY <1>7 DEF CountedOrders, OfThisRun
  <2>4. pc \in Following => Len(orders) \in DOMAIN orders
    BY <1>4 DEF IInv, LastIsFollowed
  <2> QED BY <1>3, <1>7, <1>8, <2>2, <2>3, <2>4 DEF VolumeInv
<1>10. CASE pc = "down"
  BY <1>3, <1>10 DEF VolumeInv, Following
<1> QED BY <1>9, <1>10

\* A start forgets the orders of earlier runs, and the volume.
LEMMA VolumeStarted ==
  ASSUME IInv, IInv', Start
  PROVE  VolumeInv'
PROOF
<1>1. /\ pc' = "idle" /\ volume' = 0 /\ firstOrder' = Len(orders) /\ orders' = orders
  BY DEF Start
<1>2. Len(orders) \in Nat /\ DOMAIN orders = 1..Len(orders) /\ orders \in Seq(Orders)
  BY CounterTypes DEF IInv
<1>3. CountedOrders' = {}
  BY <1>1, <1>2 DEF CountedOrders, OfThisRun
<1>4. CountedFills' = [i \in 1..Len(orders) |-> 0]
  BY <1>1, <1>2, <1>3 DEF CountedFills
<1>5. Total(CountedFills') = 0
  <2> DEFINE w == [i \in 1..Len(orders) |-> 0]
  <2>1. w \in Seq(Nat) /\ \A k \in DOMAIN w : w[k] = 0
    BY <1>2
  <2> HIDE DEF w
  <2>2. Total(w) = 0
    BY <2>1, TotalOfNothing
  <2> QED BY <1>4, <2>2 DEF w
<1>6. Total(CountedFills)' = Total(CountedFills')
  BY DEF Total
<1> QED BY <1>1, <1>3, <1>5, <1>6 DEF VolumeInv, Following

\* A trade that is checked on a later day finds nothing counted for that day.
LEMMA VolumeConsumed ==
  ASSUME IInv, VolumeInv, Consume
  PROVE  VolumeInv'
PROOF
<1>1. /\ pc = "idle" /\ pc' \in {"placing", "backoff"} /\ UNCHANGED <<day, orders, firstOrder>>
      /\ \E q : /\ volume' = IF q <= MaxOrderSize THEN ResetVolume(volume) ELSE volume
                /\ resetDay' = CheckedDay(q)
  <2>1. /\ pc = "idle" /\ UNCHANGED <<day, orders, firstOrder>>
        /\ pc' \in {"placing", "backoff"}
    BY DEF Consume, external
  <2>2. PICK n \in 1..MaxPollRecords :
          LET t == Taken([i \in 1..n |-> position + i])
              e == [trade |-> t, qty |-> trades[t], status |-> "submitted", filled |-> 0]
          IN /\ volume' = IF e.qty <= MaxOrderSize THEN ResetVolume(volume) ELSE volume
             /\ resetDay' = CheckedDay(e.qty)
    BY DEF Consume
  <2>3. \E q : /\ volume' = IF q <= MaxOrderSize THEN ResetVolume(volume) ELSE volume
               /\ resetDay' = CheckedDay(q)
    BY <2>2
  <2> QED BY <2>1, <2>3
<1>2. CASE UNCHANGED <<volume, resetDay>>
  BY <1>1, <1>2, VolumeUntouched DEF Following
<1>3. CASE day > resetDay /\ volume' = 0 /\ resetDay' = day
  <2>1. /\ orders \in Seq(Orders) /\ Len(orders) \in Nat /\ DOMAIN orders = 1..Len(orders)
        /\ day \in Nat /\ resetDay \in Nat
    BY CounterTypes DEF IInv, TypeOK
  <2>2. CountedOrders' = CountedOrders
    BY <1>1 DEF CountedOrders, OfThisRun
  <2>3. \A i \in CountedOrders : orders[i].counted \in Nat /\ orders[i].counted <= resetDay
    <3> SUFFICES ASSUME NEW i \in CountedOrders
                 PROVE  orders[i].counted \in Nat /\ orders[i].counted <= resetDay
      OBVIOUS
    <3>1. orders[i] \in Orders /\ orders[i].counted # Uncounted
      BY <2>1 DEF CountedOrders, OfThisRun
    <3> QED BY <3>1, <1>1 DEF Orders, VolumeInv
  <2>4. \A i \in CountedOrders : orders[i].counted < day /\ orders[i].counted # day
    BY <1>3, <2>1, <2>3
  <2>5. CountedFills' = [i \in 1..Len(orders) |-> 0]
    BY <1>1, <1>3, <2>1, <2>2, <2>4 DEF CountedFills
  <2>6. Total(CountedFills') = 0
    <3> DEFINE w == [i \in 1..Len(orders) |-> 0]
    <3>1. w \in Seq(Nat) /\ \A k \in DOMAIN w : w[k] = 0
      BY <2>1
    <3> HIDE DEF w
    <3>2. Total(w) = 0
      BY <3>1, TotalOfNothing
    <3> QED BY <2>5, <3>2 DEF w
  <2>7. Total(CountedFills)' = Total(CountedFills')
    BY DEF Total
  <2>8. \A i \in CountedOrders : orders[i].counted <= day
    BY <2>1, <2>3, <2>4
  <2> QED BY <1>1, <1>3, <2>2, <2>6, <2>7, <2>8 DEF VolumeInv, Following
<1> QED BY <1>1, <1>2, <1>3 DEF ResetVolume, CheckedDay

\* The fill of the followed order, which is the last, is added to both.
LEMMA VolumeSettled ==
  ASSUME IInv, IInv', CountInv, VolumeInv, pc \in Following, NEW e, Settle(e),
         UNCHANGED firstOrder,
         e.status = "filled" => e.filled = orders[Len(orders)].filled,
         e.status = "submitted" => e \in Executions
  PROVE  VolumeInv'
PROOF
<1> DEFINE c == IF e.status = "submitted" THEN [e EXCEPT !.status = "failed"] ELSE e
<1>1. Counted(c) /\ pc' = "backoff"
  BY DEF Settle, Fail
<1>2. (c.status = "filled" <=> e.status = "filled") /\ (e.status = "filled" => c.filled = e.filled)
  BY DEF Executions
<1> HIDE DEF c
<1>3. /\ orders \in Seq(Orders) /\ Len(orders) \in Nat /\ DOMAIN orders = 1..Len(orders)
      /\ firstOrder \in Nat /\ firstOrder < Len(orders) /\ orders[Len(orders)].counted = Uncounted
      /\ resetDay \in Nat /\ pc # "down"
      /\ resetDay' = resetDay
  BY <1>1, CounterTypes DEF IInv, TypeOK, CountInv, FollowedUncounted, VolumeInv, Counted, Following
<1>4. CASE c.status # "filled"
  <2>1. UNCHANGED <<orders, volume>>
    BY <1>1, <1>4 DEF Counted
  <2> QED BY <1>1, <1>3, <2>1, VolumeUntouched DEF Following
<1>5. CASE c.status = "filled"
  <2> DEFINE n == Len(orders)
  <2>1. /\ volume' = volume + orders[n].filled
        /\ orders' = [orders EXCEPT ![n].counted = resetDay]
    BY <1>1, <1>2, <1>5 DEF Counted, Current
  <2>2. n \in DOMAIN orders /\ n \in Nat /\ n # 0 /\ orders[n] \in Orders
        /\ orders[n].filled \in Nat
    <3>1. n \in DOMAIN orders /\ n \in Nat /\ n # 0
      BY <1>3
    <3>2. orders[n] \in Orders
      BY <1>3, <3>1
    <3> QED BY <3>1, <3>2 DEF Orders
  <2>3. /\ DOMAIN orders' = DOMAIN orders
        /\ orders'[n].counted = resetDay /\ orders'[n].counted # Uncounted
        /\ orders'[n].filled = orders[n].filled
        /\ \A k \in DOMAIN orders : k # n => orders'[k] = orders[k]
    BY <1>3, <2>1, <2>2 DEF Orders, Uncounted
  <2>4. CountedOrders' = CountedOrders \cup {n} /\ n \notin CountedOrders
        /\ CountedOrders \subseteq DOMAIN orders
    BY <1>3, <2>2, <2>3 DEF CountedOrders, OfThisRun
  <2> DEFINE w == CountedFills
  <2> DEFINE v == CountedFills'
  <2>5. w \in Seq(Nat) /\ Len(w) = n
    BY FillsTyped DEF IInv
  <2>6. w[n] = 0 /\ v[n] = orders[n].filled
        /\ \A k \in DOMAIN orders : k # n => v[k] = w[k]
    BY <1>3, <2>2, <2>3, <2>4 DEF CountedFills
  <2>7. v = [k \in 1..n |-> v[k]]
    BY <1>3, <2>3 DEF CountedFills
  <2>8. v \in Seq(Nat) /\ Len(v) = Len(w)
    <3>1. \A k \in 1..n : w[k] \in Nat
      BY <2>2, <2>5
    <3>2. \A k \in 1..n : v[k] \in Nat
      BY <1>3, <2>2, <2>6, <3>1
    <3> HIDE DEF v, w
    <3>3. v \in [1..n -> Nat]
      BY <2>7, <3>2
    <3> QED BY <2>2, <2>5, <3>3
  <2> HIDE DEF v, w
  <2>9. \A k \in 1..(Len(w) - 1) : v[k] = w[k]
    <3>1. n \in Nat /\ DOMAIN orders = 1..n
      BY <1>3
    <3> HIDE DEF n
    <3>2. \A k \in 1..(n - 1) : k \in DOMAIN orders /\ k # n
      BY <3>1
    <3> QED BY <2>5, <2>6, <3>2
  <2>10. PICK s \in Nat : Total(w) = s + w[Len(w)] /\ Total(v) = s + v[Len(w)]
    BY <2>2, <2>5, <2>8, <2>9, TotalSplit
  <2>11. Total(v) = Total(w) + orders[n].filled
    BY <2>2, <2>5, <2>6, <2>10
  <2>12. Total(CountedFills)' = Total(v)
    BY DEF Total, v
  <2>13. volume = Total(w)
    BY <1>3 DEF VolumeInv, w
  <2>14. \A k \in CountedOrders' : orders'[k].counted <= resetDay
    <3> SUFFICES ASSUME NEW k \in CountedOrders'
                 PROVE  orders'[k].counted <= resetDay
      OBVIOUS
    <3>1. CASE k = n
      BY <1>3, <2>3, <3>1
    <3>2. CASE k # n
      BY <1>3, <2>3, <2>4, <3>2 DEF VolumeInv
    <3> QED BY <3>1, <3>2
  <2> QED BY <1>1, <1>3, <2>1, <2>11, <2>12, <2>13, <2>14 DEF VolumeInv, Following
<1> QED BY <1>4, <1>5

\* The volume stays right whatever the service does.
LEMMA VolumeStep ==
  ASSUME IInv, IInv', CountInv, VolumeInv, [Next]_vars
  PROVE  VolumeInv'
PROOF
<1>0. TypeOK
  BY DEF IInv
<1>1. CASE (\E q \in Quantities : Publish(q)) \/ Midnight \/ UNCHANGED vars
  <2>1. UNCHANGED <<orders, pc, firstOrder, volume, resetDay>>
    BY <1>1 DEF Publish, Midnight, vars, counters, history
  <2> QED BY <2>1, VolumeUntouched
<1>2. CASE Exchange
  BY <1>2, VolumeExchanged
<1>3. CASE Start
  BY <1>3, VolumeStarted
<1>4. CASE Stop
  BY <1>4 DEF Stop, VolumeInv, Following
<1>5. CASE Consume
  BY <1>5, VolumeConsumed
<1>6. CASE WakeUp \/ Refused
  <2>1. /\ pc # "down" /\ pc' \notin Following
        /\ UNCHANGED <<orders, firstOrder, volume, resetDay>>
    BY <1>6 DEF WakeUp, Refused, Fail, counters, history, Following
  <2> QED BY <2>1, VolumeUntouched
<1>7. CASE Accepted \/ AnswerLost
  <2>1. /\ pc = "placing" /\ orders' = Append(orders, Placed(execution))
        /\ UNCHANGED <<firstOrder, volume, resetDay>>
    BY <1>7 DEF Accepted, AnswerLost, counters, history
  <2> QED BY <1>0, <2>1, VolumeAppended
<1>8. CASE PollAnswered
  <2>1. PICK answered \in BOOLEAN :
          LET e == IF answered THEN Updated(execution, orders[Current]) ELSE execution
          IN IF answered /\ Final(e.status)
             THEN Settle(e)
             ELSE /\ pc' = "waiting" /\ execution' = e
                  /\ UNCHANGED <<orders, pending, counters, polls>>
    BY <1>8 DEF PollAnswered
  <2> DEFINE e == IF answered THEN Updated(execution, orders[Current]) ELSE execution
  <2>2. /\ pc = "polling" /\ pc \in Following /\ UNCHANGED firstOrder
        /\ execution \in Executions
        /\ execution.status \in {"submitted", "partially_filled"}
    BY <1>0, <1>8 DEF PollAnswered, Following, history, TypeOK, CountInv, FollowedUncounted
  <2>3. orders[Len(orders)] \in Orders
    <3>1. orders \in Seq(Orders) /\ orders # <<>>
      BY <2>2 DEF IInv, TypeOK, LastIsFollowed
    <3> QED BY <3>1
  <2>4. /\ e.status = "filled" => e.filled = orders[Len(orders)].filled
        /\ e.status = "submitted" => e \in Executions
    BY <2>2, <2>3 DEF Updated, Seen, Current, Orders, OrderStates
  <2> HIDE DEF e
  <2>5. CASE answered /\ Final(e.status)
    <3>1. Settle(e)
      BY <2>1, <2>5 DEF e
    <3> QED BY <2>2, <2>4, <3>1, VolumeSettled
  <2>6. CASE ~(answered /\ Final(e.status))
    <3>1. pc' = "waiting" /\ UNCHANGED <<orders, volume, resetDay>>
      BY <2>1, <2>6 DEF e, counters
    <3> QED BY <2>2, <3>1, VolumeUntouched DEF Following
  <2> QED BY <2>5, <2>6
<1>9. CASE PollAgain
  <2>1. /\ pc = "waiting" /\ pc' = "polling"
        /\ UNCHANGED <<orders, firstOrder, volume, resetDay>>
    BY <1>9 DEF PollAgain, counters, history
  <2> QED BY <2>1, VolumeUntouched DEF Following
<1>10. CASE TrackTimeout
  <2>1. /\ pc \in Following /\ UNCHANGED firstOrder /\ Settle(execution)
        /\ execution \in Executions
        /\ execution.status \in {"submitted", "partially_filled"}
    BY <1>0, <1>10 DEF TrackTimeout, Following, history, TypeOK, CountInv, FollowedUncounted
  <2> QED BY <2>1, VolumeSettled
<1> QED BY <1>1, <1>2, <1>3, <1>4, <1>5, <1>6, <1>7, <1>8, <1>9, <1>10 DEF Next, Loop

-----------------------------------------------------------------------------
\* Both counters hold at every moment.
LEMMA CountersInvariant == ASSUME ExecutorAssumption PROVE Spec => [](IInv /\ CountInv /\ VolumeInv)
PROOF
<1>1. Init => CountInv /\ VolumeInv
  BY DEF Init, CountInv, FollowedUncounted, CountedFilled, SubmissionsBounded, VolumeInv,
     Following
<1>2. IInv /\ IInv' /\ CountInv /\ VolumeInv /\ [Next]_vars => CountInv' /\ VolumeInv'
  BY CountStep, VolumeStep
<1> QED BY <1>1, <1>2, Invariance, ExecutorAssumption, PTL DEF Spec

\* trades_filled counts orders that the exchange filled, one each, no order is
\* counted under two outcomes, and daily_volume is the sum of the fills that were
\* counted to its day, over partial fills, timeouts, lost answers, midnight and restarts,
\* however many orders there are.
THEOREM CountersAlwaysMatch == ASSUME ExecutorAssumption PROVE Spec => []CountersMatchOrders
PROOF
<1>1. IInv /\ CountInv /\ VolumeInv => CountersMatchOrders
  <2> SUFFICES ASSUME IInv, CountInv, VolumeInv, pc # "down"
               PROVE  FillsMatchOrders /\ volume = Total(CountedFills)
    BY DEF CountersMatchOrders, FillsMatchOrders
  <2>1. /\ Len(orders) \in Nat /\ DOMAIN orders = 1..Len(orders)
        /\ firstOrder \in Nat /\ firstOrder <= Len(orders) /\ stats.submitted \in Nat
    BY CounterTypes DEF IInv
  <2>2. OfThisRun = (firstOrder + 1)..Len(orders)
    BY <2>1 DEF OfThisRun
  <2>3. Cardinality(OfThisRun) = Len(orders) - firstOrder
    <3>1. firstOrder + 1 \in Int /\ Len(orders) \in Int
      BY <2>1
    <3>2. Cardinality((firstOrder + 1)..Len(orders)) =
            IF firstOrder + 1 > Len(orders) THEN 0 ELSE Len(orders) - (firstOrder + 1) + 1
      BY <3>1, FS_Interval
    <3> QED BY <2>1, <2>2, <3>2
  <2>4. stats.submitted <= Len(orders) - firstOrder
    BY <2>1 DEF CountInv, SubmissionsBounded
  <2>5. FillsMatchOrders
    BY <2>3, <2>4 DEF CountInv, CountedFilled, SubmissionsBounded, FillsMatchOrders
  <2>6. volume = Total(CountedFills)
    BY DEF VolumeInv
  <2> QED BY <2>5, <2>6
<1> QED BY <1>1, CountersInvariant, ExecutorAssumption, PTL

-----------------------------------------------------------------------------
\* What the exchange filled today is counted to this day, or of the order that is
\* being followed.
EveryFillCounted ==
  \A i \in DOMAIN orders :
    orders[i].day = day /\ orders[i].filled > 0
      => \/ i \in CountedOrders /\ orders[i].counted = day
         \/ pc \in Following /\ i = Len(orders)

\* The counter is not ahead of the date.
CounterNotAhead == resetDay <= day

LEMMA CounterStep ==
  ASSUME IInv, CounterNotAhead, [Next]_vars
  PROVE  CounterNotAhead'
PROOF
<1>0. day \in Nat /\ resetDay \in Nat
  BY DEF IInv, TypeOK
<1>1. CASE Start \/ Midnight
  BY <1>0, <1>1 DEF Start, Midnight, external, counters, CounterNotAhead
<1>2. CASE Consume
  <2>1. PICK n \in 1..MaxPollRecords :
          LET t == Taken([i \in 1..n |-> position + i])
              e == [trade |-> t, qty |-> trades[t], status |-> "submitted", filled |-> 0]
          IN resetDay' = CheckedDay(e.qty)
    BY <1>2 DEF Consume
  <2>2. day' = day /\ resetDay' \in {day, resetDay}
    BY <1>2, <2>1 DEF Consume, external, CheckedDay
  <2> QED BY <1>0, <2>2 DEF CounterNotAhead
<1>3. CASE \/ \E q \in Quantities : Publish(q)
           \/ Exchange \/ Stop \/ WakeUp \/ Accepted \/ Refused \/ AnswerLost
           \/ PollAnswered \/ PollAgain \/ TrackTimeout \/ UNCHANGED vars
  <2>1. UNCHANGED <<day, resetDay>>
    BY <1>3 DEF Publish, Exchange, Stop, WakeUp, Accepted, Refused, AnswerLost, PollAnswered,
       PollAgain, TrackTimeout, Settle, Counted, external, counters, vars
  <2> QED BY <2>1 DEF CounterNotAhead
<1> QED BY <1>1, <1>2, <1>3 DEF Next, Loop

\* The fills of the day add up to at most the volume and what is filled of the
\* followed order.
LEMMA DayIsVolume ==
  ASSUME ExecutorAssumption, IInv, CountInv, VolumeInv, CounterNotAhead,
         pc # "down", EveryFillCounted
  PROVE  DailyLimitKept
PROOF
<1> DEFINE w == CountedFills
           v == [i \in DOMAIN orders |-> IF orders[i].day = day THEN orders[i].filled ELSE 0]
           n == Len(orders)
<1>1. /\ orders \in Seq(Orders) /\ n \in Nat /\ DOMAIN orders = 1..n
      /\ day \in Nat /\ resetDay \in Nat /\ volume \in Nat /\ execution.qty \in Nat
  <2>1. TypeOK
    BY DEF IInv
  <2> QED BY <2>1, CounterTypes DEF TypeOK, Executions
<1>2. w \in Seq(Nat) /\ Len(w) = n
  BY FillsTyped DEF IInv
<1>3. \A i \in 1..n : orders[i].filled \in Nat
  <2> SUFFICES ASSUME NEW i \in 1..n
               PROVE  orders[i].filled \in Nat
    OBVIOUS
  <2>1. orders[i] \in Orders
    BY <1>1
  <2> QED BY <2>1 DEF Orders
<1>4. v \in Seq(Nat) /\ Len(v) = n
  <2>1. v \in [1..n -> Nat]
    BY <1>1, <1>3
  <2> QED BY <1>1, <2>1
<1>5. volume = Total(w) /\ volume <= MaxDailyVolume /\ MaxDailyVolume \in Nat
  BY ExecutorAssumption DEF VolumeInv, IInv, VolumeWithinLimit, ExecutorAssumption
<1>6. DayVolume(day) = Total(v)
  BY DEF DayVolume
<1>7. \A i \in 1..n :
        /\ v[i] = IF orders[i].day = day THEN orders[i].filled ELSE 0
        /\ w[i] = IF i \in CountedOrders /\ orders[i].counted = resetDay
                  THEN orders[i].filled ELSE 0
  BY <1>1 DEF CountedFills
<1> HIDE DEF v, w, n
<1>8. \A i \in 1..n : v[i] \in Nat /\ w[i] \in Nat
  BY <1>1, <1>2, <1>4
\* What was counted to this day was counted to the counter's day.
<1>9. \A i \in CountedOrders : orders[i].counted = day => resetDay = day
  BY <1>1 DEF VolumeInv, CounterNotAhead
<1>10. ASSUME NEW i \in 1..n, ~(pc \in Following /\ i = n)
       PROVE  v[i] <= w[i]
  <2>1. CASE orders[i].day = day /\ orders[i].filled > 0
    <3>1. i \in CountedOrders /\ orders[i].counted = day
      BY <1>1, <1>10, <2>1 DEF EveryFillCounted, n
    <3>2. orders[i].counted = resetDay
      BY <1>9, <3>1
    <3>3. v[i] = orders[i].filled /\ w[i] = orders[i].filled
      BY <1>7, <2>1, <3>1, <3>2
    <3> QED BY <1>3, <3>3
  <2>2. CASE ~(orders[i].day = day /\ orders[i].filled > 0)
    <3>1. v[i] = 0
      BY <1>3, <1>7, <2>2
    <3>2. w[i] \in Nat
      BY <1>8
    <3> QED BY <3>1, <3>2
  <2> QED BY <2>1, <2>2
<1>11. CASE pc \notin Following
  <2>1. \A i \in 1..n : v[i] <= w[i]
    BY <1>10, <1>11
  <2>2. Total(v) <= Total(w)
    BY <1>2, <1>4, <2>1, TotalOfLess
  <2>3. DayVolume(day) <= MaxDailyVolume
    <3>1. DayVolume(day) <= volume
      BY <1>5, <1>6, <2>2
    <3>2. DayVolume(day) \in Nat
      <4>1. PICK u : Running(u, v)
        BY <1>4, RunningExists
      <4>2. Total(v) = u[Len(v)]
        BY <1>4, <4>1, TotalIs
      <4>3. u[Len(v)] \in Nat
        BY <1>1, <1>4, <4>1 DEF Running
      <4> QED BY <1>6, <4>2, <4>3
    <3> QED BY <1>1, <1>5, <3>1, <3>2
  <2> QED BY <2>3 DEF DailyLimitKept
<1>12. CASE pc \in Following
  <2>1. n # 0 /\ orders[n].filled <= orders[n].qty /\ orders[n].qty = execution.qty
        /\ volume + execution.qty <= MaxDailyVolume
    BY <1>1, <1>12 DEF IInv, LastIsFollowed, VolumeWithinLimit, Following, InFlight, n
  <2>2. n \in 1..n
    BY <1>1, <2>1
  <2>3. n \notin CountedOrders
    BY <1>12 DEF CountInv, FollowedUncounted, CountedOrders, n
  <2>4. w[n] = 0
    BY <1>7, <2>2, <2>3
  <2>5. v[n] \in Nat /\ v[n] <= execution.qty
    <3>1. orders[n].filled \in Nat
      BY <1>3, <2>2
    <3> QED BY <1>7, <1>1, <2>1, <2>2, <3>1
  \* The counted fills with that of the followed order put in.
  <2> DEFINE x == [i \in 1..n |-> IF i = n THEN v[n] ELSE w[i]]
  <2>6. x \in Seq(Nat) /\ Len(x) = n
    <3>1. x \in [1..n -> Nat]
      BY <1>8, <2>5
    <3> QED BY <1>1, <3>1
  <2>7. \A i \in 1..n : v[i] <= x[i]
    BY <1>10, <2>5
  <2>8. x[n] = v[n] /\ \A i \in 1..(n - 1) : x[i] = w[i]
    BY <1>1, <2>2
  <2> HIDE DEF x
  <2>9. Total(v) <= Total(x)
    BY <1>4, <2>6, <2>7, TotalOfLess
  <2>10. PICK s \in Nat : Total(w) = s + w[n] /\ Total(x) = s + x[n]
    BY <1>2, <2>1, <2>6, <2>8, TotalSplit
  <2>11. Total(x) <= MaxDailyVolume /\ Total(x) \in Nat
    BY <1>1, <1>5, <2>1, <2>4, <2>5, <2>8, <2>10
  <2>12. Total(v) \in Nat
    <3>1. PICK u : Running(u, v)
      BY <1>4, RunningExists
    <3>2. Total(v) = u[Len(v)]
      BY <1>4, <3>1, TotalIs
    <3>3. u[Len(v)] \in Nat
      BY <1>1, <1>4, <3>1 DEF Running
    <3> QED BY <3>2, <3>3
  <2> QED BY <1>5, <1>6, <2>9, <2>11, <2>12 DEF DailyLimitKept
<1> QED BY <1>11, <1>12

\* max_daily_volume_btc is kept on every day whose fills were counted to that day, or
\* are of the order being followed: the limit is broken only by what
\* _update_statistics misses (a part that was filled, an order that timed out or
\* lost its answer, the orders before a restart) or counts to the day before (a
\* fill after midnight of an order that was checked before it).
THEOREM DailyLimitWhenCounted ==
  ASSUME ExecutorAssumption
  PROVE  Spec => [](pc # "down" /\ EveryFillCounted => DailyLimitKept)
PROOF
<1>1. Init => CounterNotAhead
  BY DEF Init, CounterNotAhead
<1>2. IInv /\ CounterNotAhead /\ [Next]_vars => CounterNotAhead'
  BY CounterStep
<1>3. IInv /\ CountInv /\ VolumeInv /\ CounterNotAhead
        => (pc # "down" /\ EveryFillCounted => DailyLimitKept)
  BY ExecutorAssumption, DayIsVolume
<1> QED BY <1>1, <1>2, <1>3, CountersInvariant, ExecutorAssumption, PTL DEF Spec

-----------------------------------------------------------------------------
\* The batches are the only reason for which a trade is skipped while the service
\* runs: a consumer that polls one record at a time processes every trade that is
\* published after its start.  (With larger batches NoTradeSkipped is violated.)
THEOREM OneByOneSkipsNone ==
  ASSUME ExecutorAssumption, MaxPollRecords = 1
  PROVE  Spec => []NoTradeSkipped
PROOF
<1>1. Init => NoTradeSkipped
  BY DEF Init, NoTradeSkipped
<1>2. IInv /\ NoTradeSkipped /\ [Next]_vars => NoTradeSkipped'
  <2> SUFFICES ASSUME IInv, NoTradeSkipped, [Next]_vars
               PROVE  NoTradeSkipped'
    OBVIOUS
  <2>1. CASE Consume
    <3>1. PICK n \in 1..MaxPollRecords :
            /\ position' = position + n
            /\ attempted' = attempted \cup {Taken([i \in 1..n |-> position + i])}
      BY <2>1 DEF Consume
    <3>2. position \in Nat /\ startedAt \in Nat /\ n = 1 /\ n \in Nat \ {0}
      BY <3>1, ExecutorAssumption DEF IInv, TypeOK
    <3>3. Taken([i \in 1..n |-> position + i]) = position + 1
      BY <3>2, FirstTaken
    <3>4. pc # "down" /\ startedAt' = startedAt
      BY <2>1 DEF Consume
    <3>5. \A k \in (startedAt + 1)..(position + 1) :
            k \in (startedAt + 1)..position \/ k = position + 1
      BY <3>2
    <3> QED BY <3>1, <3>2, <3>3, <3>4, <3>5 DEF NoTradeSkipped
  <2>2. CASE Start
    <3>1. position' = Len(trades) /\ startedAt' = Len(trades) /\ Len(trades) \in Nat
      BY <2>2 DEF Start, ResetPosition, IInv, TypeOK
    <3> QED BY <3>1 DEF NoTradeSkipped
  <2>3. CASE Stop
    BY <2>3 DEF Stop, NoTradeSkipped
  <2>4. CASE \/ \E q \in Quantities : Publish(q)
             \/ Midnight \/ Exchange \/ WakeUp
             \/ Accepted \/ Refused \/ AnswerLost
             \/ PollAnswered \/ PollAgain \/ TrackTimeout \/ UNCHANGED vars
    <3>1. UNCHANGED <<position, startedAt, attempted>>
      BY <2>4 DEF Publish, Midnight, Exchange, WakeUp, Accepted, Refused, AnswerLost,
         PollAnswered, PollAgain, TrackTimeout, vars, history
    <3>2. pc' # "down" => pc # "down"
      BY <2>4 DEF Publish, Midnight, Exchange, WakeUp, Accepted, Refused, AnswerLost,
         PollAnswered, PollAgain, TrackTimeout, vars
    <3> QED BY <3>1, <3>2 DEF NoTradeSkipped
  <2> QED BY <2>1, <2>2, <2>3, <2>4 DEF Next, Loop
<1> QED BY <1>1, <1>2, Invariance, ExecutorAssumption, PTL DEF Spec

-----------------------------------------------------------------------------
\* What an order, or none, makes of the trades that were ordered.
LEMMA OrderedSoFar ==
  ASSUME IInv, ExecutorAssumption
  PROVE  /\ orders' = orders => TradesOrdered' = TradesOrdered
         /\ pc = "placing" /\ orders' = Append(orders, Placed(execution))
              => TradesOrdered' = Append(TradesOrdered, execution.trade)
PROOF
<1>1. orders \in Seq(Orders) /\ Placed(execution) \in Orders
      /\ Placed(execution).trade = execution.trade
  BY DEF IInv, TypeOK, Placed, Executions, Orders, OrderStates, Uncounted
<1>2. ASSUME orders' = Append(orders, Placed(execution))
      PROVE  TradesOrdered' = Append(TradesOrdered, execution.trade)
  BY <1>1, <1>2 DEF TradesOrdered
<1>3. ASSUME orders' = orders
      PROVE  TradesOrdered' = TradesOrdered
  BY <1>3 DEF TradesOrdered
<1> QED BY <1>2, <1>3

\* What goes on at the exchange changes no trade that was ordered.
LEMMA ExchangeKeepsTrades ==
  ASSUME IInv, Exchange
  PROVE  TradesOrdered' = TradesOrdered
PROOF
<1>1. PICK i \in DOMAIN orders :
        \E r \in Exchanged(orders[i]) : orders' = [orders EXCEPT ![i] = r]
  BY DEF Exchange
<1>2. PICK r \in Exchanged(orders[i]) : orders' = [orders EXCEPT ![i] = r]
  BY <1>1
<1>3. orders \in Seq(Orders) /\ orders[i] \in Orders
  BY DEF IInv, TypeOK
<1>4. r.trade = orders[i].trade
  BY <1>3 DEF Exchanged, Orders
<1> QED BY <1>2, <1>3, <1>4 DEF TradesOrdered

\* Counting an order changes no trade either.
LEMMA SettleKeepsTrades ==
  ASSUME IInv, NEW e, Settle(e)
  PROVE  TradesOrdered' = TradesOrdered /\ pc' = "backoff"
PROOF
<1> DEFINE c == IF e.status = "submitted" THEN [e EXCEPT !.status = "failed"] ELSE e
<1>1. Counted(c) /\ Fail
  BY DEF Settle
<1> HIDE DEF c
<1>2. orders' = orders \/ orders' = [orders EXCEPT ![Current].counted = resetDay]
  BY <1>1 DEF Counted
<1>3. orders \in Seq(Orders)
  BY DEF IInv, TypeOK
<1>4. ASSUME orders' = [orders EXCEPT ![Current].counted = resetDay]
      PROVE  TradesOrdered' = TradesOrdered
  <2>1. DOMAIN orders' = DOMAIN orders
    BY <1>4
  <2>2. \A i \in DOMAIN orders : orders'[i].trade = orders[i].trade
    <3> SUFFICES ASSUME NEW i \in DOMAIN orders
                 PROVE  orders'[i].trade = orders[i].trade
      OBVIOUS
    <3>1. orders[i] \in Orders
      BY <1>3
    <3>2. [orders[i] EXCEPT !.counted = resetDay].trade = orders[i].trade
      BY <3>1 DEF Orders
    <3> QED BY <1>4, <3>2
  <2> QED BY <2>1, <2>2 DEF TradesOrdered
<1>5. orders' = orders => TradesOrdered' = TradesOrdered
  BY DEF TradesOrdered
<1> QED BY <1>1, <1>2, <1>4, <1>5 DEF Fail

\* The steps around an order: each is one of the promise, or is not seen there.
LEMMA OrderSteps ==
  ASSUME IInv, IInv', ExecutorAssumption,
         Consume \/ Accepted \/ Refused \/ AnswerLost \/ Start \/ Stop
  PROVE  Promise!Next \/ UNCHANGED Promise!vars
PROOF
<1>1. /\ position \in Nat /\ position' \in Nat /\ position' <= Len(trades')
      /\ Len(trades) \in Nat /\ position <= Len(trades)
      /\ Len(trades') = Len(trades)
  <2>1. /\ trades \in Seq(Quantities) /\ position \in 0..Len(trades)
        /\ trades' \in Seq(Quantities) /\ position' \in 0..Len(trades')
    BY DEF IInv, TypeOK
  <2>2. trades' = trades
    BY DEF Consume, Accepted, Refused, AnswerLost, Start, Stop, external
  <2> QED BY <2>1, <2>2
<1>2. pc = "placing" => execution.trade # 0
  <2>1. pc = "placing" => execution.trade \in 1..position
    BY DEF IInv, ExecutionKnown, InFlight
  <2> QED BY <1>1, <2>1
<1>3. CASE Consume
  <2>1. pc = "idle" /\ orders' = orders
    BY <1>3 DEF Consume
  <2>2. TradePlaced = 0 /\ TradesOrdered' = TradesOrdered
    BY <2>1, ExecutorAssumption, OrderedSoFar DEF TradePlaced
  <2>3. PICK n \in 1..MaxPollRecords :
           /\ position' = position + n
           /\ \/ /\ pc' = "placing"
                 /\ execution'.trade = Taken([i \in 1..n |-> position + i])
              \/ pc' = "backoff"
    <3>1. PICK n \in 1..MaxPollRecords :
            /\ position + n <= Len(trades)
            /\ position' = position + n
            /\ LET t == Taken([i \in 1..n |-> position + i])
                   e == [trade |-> t, qty |-> trades[t], status |-> "submitted", filled |-> 0]
               IN /\ attempted' = attempted \cup {t}
                  /\ volume' = IF e.qty <= MaxOrderSize THEN ResetVolume(volume) ELSE volume
                  /\ resetDay' = CheckedDay(e.qty)
                  /\ IF WithinLimits(e.qty)
                     THEN pc' = "placing" /\ execution' = e /\ pending' = pending \cup {t}
                     ELSE pc' = "backoff" /\ UNCHANGED <<execution, pending>>
      BY <1>3 DEF Consume
    <3> DEFINE t == Taken([i \in 1..n |-> position + i])
    <3>2. \/ pc' = "backoff"
          \/ pc' = "placing" /\ execution' = [trade |-> t, qty |-> trades[t],
                                              status |-> "submitted", filled |-> 0]
      BY <3>1
    <3> HIDE DEF t
    <3>3. pc' = "backoff" \/ (pc' = "placing" /\ execution'.trade = t)
      BY <3>2
    <3> QED BY <3>1, <3>3 DEF t
  <2>4. position' \in (position + 1)..Len(trades)
    BY <1>1, <2>3, ExecutorAssumption DEF ExecutorAssumption
  <2>5. n \in Nat \ {0} /\ Taken([i \in 1..n |-> position + i]) = position + 1
    BY <1>1, <2>3, FirstTaken, ExecutorAssumption DEF ExecutorAssumption
  <2>6. CASE pc' = "placing"
    <3>1. TradePlaced' = position + 1
      BY <2>3, <2>5, <2>6 DEF TradePlaced
    <3>2. TradePlaced' \in (position + 1)..position'
      BY <1>1, <2>4, <3>1
    <3>3. Promise!Take
      BY <1>1, <2>2, <2>4, <3>2 DEF Promise!Take
    <3> QED BY <3>3 DEF Promise!Next
  <2>7. CASE pc' = "backoff"
    <3>1. TradePlaced' = 0
      BY <2>7 DEF TradePlaced
    <3>2. Promise!Skip
      BY <1>1, <2>2, <2>4, <3>1 DEF Promise!Skip
    <3> QED BY <3>2 DEF Promise!Next
  <2> QED BY <2>3, <2>6, <2>7
<1>4. CASE Start
  <2>1. pc = "down" /\ pc' = "idle" /\ orders' = orders /\ position' = Len(trades)
    BY <1>4 DEF Start, ResetPosition
  <2>2. TradePlaced = 0 /\ TradePlaced' = 0 /\ TradesOrdered' = TradesOrdered
    BY <2>1, ExecutorAssumption, OrderedSoFar DEF TradePlaced
  <2>3. CASE position = Len(trades)
    BY <1>1, <2>1, <2>2, <2>3 DEF Promise!vars
  <2>4. CASE position < Len(trades)
    <3>1. position' \in (position + 1)..Len(trades)
      BY <1>1, <2>1, <2>4
    <3>2. Promise!Skip
      BY <1>1, <2>2, <3>1 DEF Promise!Skip
    <3> QED BY <3>2 DEF Promise!Next
  <2> QED BY <1>1, <2>3, <2>4
<1>5. CASE Accepted \/ Refused \/ AnswerLost \/ Stop
  <2>1. /\ position' = position /\ pc' # "placing"
        /\ \/ orders' = orders
           \/ pc = "placing" /\ orders' = Append(orders, Placed(execution))
    BY <1>5 DEF Accepted, Refused, AnswerLost, Stop, Fail
  <2>2. TradePlaced' = 0
    BY <2>1 DEF TradePlaced
  <2>3. CASE pc = "placing"
    <3>1. TradePlaced = execution.trade /\ TradePlaced # 0
      BY <1>2, <2>3 DEF TradePlaced
    <3>2. CASE orders' = orders
      <4>1. Promise!GiveUp
        BY <1>1, <2>1, <2>2, <3>1, <3>2, ExecutorAssumption, OrderedSoFar DEF Promise!GiveUp
      <4> QED BY <4>1 DEF Promise!Next
    <3>3. CASE orders' = Append(orders, Placed(execution))
      <4>1. TradesOrdered' = Append(TradesOrdered, TradePlaced)
        BY <2>3, <3>1, <3>3, ExecutorAssumption, OrderedSoFar
      <4>2. Promise!Order
        BY <1>1, <2>1, <2>2, <3>1, <4>1 DEF Promise!Order
      <4> QED BY <4>2 DEF Promise!Next
    <3> QED BY <2>1, <3>2, <3>3
  <2>4. CASE pc # "placing"
    <3>1. TradePlaced = 0 /\ TradesOrdered' = TradesOrdered
      BY <2>1, <2>4, ExecutorAssumption, OrderedSoFar DEF TradePlaced
    <3> QED BY <1>1, <2>1, <2>2, <3>1 DEF Promise!vars
  <2> QED BY <2>3, <2>4
<1> QED BY <1>3, <1>4, <1>5

\* The other steps are not seen by the promise, but for the publication of a trade.
LEMMA OtherSteps ==
  ASSUME IInv, ExecutorAssumption,
         \/ \E q \in Quantities : Publish(q)
         \/ Midnight \/ Exchange \/ WakeUp \/ PollAnswered \/ PollAgain \/ TrackTimeout
         \/ UNCHANGED vars
  PROVE  Promise!Next \/ UNCHANGED Promise!vars
PROOF
<1>1. CASE \E q \in Quantities : Publish(q)
  <2>1. PICK q \in Quantities : Publish(q)
    BY <1>1
  <2>2. Len(trades') = Len(trades) + 1
    BY <2>1 DEF Publish, IInv, TypeOK
  <2>3. UNCHANGED <<position, TradePlaced, TradesOrdered>>
    BY <2>1 DEF Publish, TradePlaced, TradesOrdered
  <2>4. Promise!Publish
    BY <2>2, <2>3 DEF Promise!Publish
  <2> QED BY <2>4 DEF Promise!Next
<1>2. CASE Midnight \/ UNCHANGED vars \/ PollAgain \/ WakeUp
  <2>1. UNCHANGED <<trades, position, TradePlaced, TradesOrdered>>
    BY <1>2 DEF Midnight, vars, PollAgain, WakeUp, external, TradePlaced, TradesOrdered
  <2> QED BY <2>1 DEF Promise!vars
<1>3. CASE Exchange
  <2>1. UNCHANGED <<trades, position, TradePlaced>>
    BY <1>3 DEF Exchange, external, TradePlaced
  <2> QED BY <1>3, <2>1, ExchangeKeepsTrades DEF Promise!vars
<1>4. CASE PollAnswered \/ TrackTimeout
  <2>1. /\ UNCHANGED <<trades, position>> /\ pc # "placing"
        /\ \/ \E e : Settle(e)
           \/ orders' = orders /\ pc' = "waiting"
    BY <1>4 DEF PollAnswered, TrackTimeout, external
  <2>2. TradesOrdered' = TradesOrdered /\ pc' # "placing"
    BY <2>1, SettleKeepsTrades DEF TradesOrdered
  <2>3. TradePlaced = 0 /\ TradePlaced' = 0
    BY <2>1, <2>2 DEF TradePlaced
  <2> QED BY <2>1, <2>2, <2>3 DEF Promise!vars
<1> QED BY <1>1, <1>2, <1>3, <1>4

\* The service implements OrderOnce: every step is one of the promise or is not
\* seen there.
THEOREM OrderOnceHolds == ASSUME ExecutorAssumption PROVE Spec => OrderOnceImplemented
PROOF
<1>1. Init => Promise!Init
  BY DEF Init, Promise!Init, TradePlaced, TradesOrdered
<1>2. IInv /\ IInv' /\ [Next]_vars => [Promise!Next]_(Promise!vars)
  <2> SUFFICES ASSUME IInv, IInv', [Next]_vars
               PROVE  Promise!Next \/ UNCHANGED Promise!vars
    OBVIOUS
  <2>1. CASE Consume \/ Accepted \/ Refused \/ AnswerLost \/ Start \/ Stop
    BY <2>1, ExecutorAssumption, OrderSteps
  <2>2. CASE \/ \E q \in Quantities : Publish(q)
             \/ Midnight \/ Exchange \/ WakeUp \/ PollAnswered \/ PollAgain \/ TrackTimeout
             \/ UNCHANGED vars
    BY <2>2, ExecutorAssumption, OtherSteps
  <2> QED BY <2>1, <2>2 DEF Next, Loop
<1> QED BY <1>1, <1>2, Invariance, ExecutorAssumption, PTL DEF Spec, OrderOnceImplemented, Promise!Spec
=============================================================================
