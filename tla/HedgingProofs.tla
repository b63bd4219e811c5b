--------------------------- MODULE HedgingProofs ---------------------------
(***************************************************************************)
(* What TLAPS proves of Hedging, for every target, threshold, limit and    *)
(* multiplier, queues of any length and any number of failures: its types, *)
(* and that orders computed from a snapshot taken at rest move the delta   *)
(* towards the target and not beyond, provided that only one service has   *)
(* credentials.  And of the rule by which orders are sized: the account is *)
(* hedged just when nobody would order, and else an order gets it nearer.  *)
(*                                                                         *)
(* The argument: while the history variable `clean` holds, at most one     *)
(* thing is on its way from the account to the exchange, and it was        *)
(* computed from the delta that is still there.                            *)
(***************************************************************************)
EXTENDS Hedging, TLAPS

\* Only one of the two services that place orders has credentials.
OneOrders == \A d \in Deployments : ~({"hedger", "executor"} \subseteq d)

\* An order that takes the delta towards the aim.
GoodSize(size) == Towards(delta, delta + size, aim)

\* A risk state of the delta at the exchange, and of the target that is the aim.
GoodMessage(m) ==
  /\ m.delta = delta
  /\ IF m.funding.exit THEN aim = 0 ELSE m.hedge = Recommended(delta, aim)

\* At most one thing is on its way, and nobody has to start and go back.
OneOnItsWay == clean => Behind <= 1 /\ risk.pc # "down" /\ hedger.pc # "down"

SnapshotsGood ==
  clean => \A i \in 1..Len(accountRaw.todo) : accountRaw.todo[i].delta = delta

SendingGood == clean /\ risk.pc = "sending" => GoodMessage(risk.message)

MessagesGood == clean => \A i \in 1..Len(riskState.todo) : GoodMessage(riskState.todo[i])

\* An order that was placed by the hedger is published, and has no effect any more.
OrderGood ==
  clean /\ (hedger.pc = "placing" \/ (hedger.pc = "sending" /\ "hedger" \notin keys))
    => GoodSize(hedger.size)

TradesGood ==
  clean /\ "hedger" \notin keys => \A i \in 1..Len(hedgeTrades) : GoodSize(hedgeTrades[i])

Current == OneOnItsWay /\ SnapshotsGood /\ SendingGood /\ MessagesGood /\ OrderGood /\ TradesGood

IInv == TypeOK /\ Current

-----------------------------------------------------------------------------
(* Topics.                                                                 *)

\* What a message written does to the topic's queues ...
LEMMA TopicWritten ==
  ASSUME NEW S, NEW t \in Topics(S), NEW x \in S
  PROVE  /\ Written(t, x) \in Topics(S)
         /\ Written(t, x).todo = Append(t.todo, x)
  BY DEF Topics, Written

\* ... one given to the consumer ...
LEMMA TopicGiven ==
  ASSUME NEW S, NEW t \in Topics(S), t.todo # <<>>
  PROVE  /\ Given(t) \in Topics(S)
         /\ Given(t).todo = Tail(t.todo)
         /\ Head(t.todo) = t.todo[1] /\ t.todo[1] \in S
PROOF
<1>1. t.todo \in Seq(S) /\ t.done \in Seq(S) /\ t.committed \in BOOLEAN
  BY DEF Topics
<1>2. Head(t.todo) \in S /\ Tail(t.todo) \in Seq(S) /\ Head(t.todo) = t.todo[1]
  BY <1>1
<1>3. Append(t.done, Head(t.todo)) \in Seq(S)
  BY <1>1, <1>2
<1> QED BY <1>1, <1>2, <1>3 DEF Topics, Given

\* ... a commit ...
LEMMA TopicCommitted ==
  ASSUME NEW S, NEW t \in Topics(S)
  PROVE  Committed(t) \in Topics(S) /\ Committed(t).todo = t.todo
PROOF
<1>1. t.todo \in Seq(S) /\ <<>> \in Seq(S)
  BY DEF Topics
<1> QED BY <1>1 DEF Topics, Committed

\* ... and a consumer that starts.
LEMMA TopicRejoined ==
  ASSUME NEW S, NEW t \in Topics(S)
  PROVE  Rejoined(t) \in Topics(S)
PROOF
<1>1. t.todo \in Seq(S) /\ t.done \in Seq(S) /\ t.committed \in BOOLEAN /\ <<>> \in Seq(S)
  BY DEF Topics
<1> DEFINE todo == IF t.committed THEN t.done \o t.todo ELSE <<>>
<1>2. todo \in Seq(S)
  BY <1>1
<1>3. Rejoined(t) = [todo |-> todo, done |-> <<>>, committed |-> t.committed]
  BY DEF Rejoined
<1> HIDE DEF todo
<1> QED BY <1>1, <1>2, <1>3 DEF Topics

-----------------------------------------------------------------------------
(* The decision.                                                           *)

\* A share of an amount is not more than the amount.
LEMMA ShareWithin ==
  ASSUME NEW n \in Nat, NEW p \in 0..100
  PROVE  (n * p) \div 100 \in 0..n
PROOF
<1> DEFINE q == 100 - p
<1>1. q \in Nat /\ p \in Nat /\ p + q = 100
  OBVIOUS
<1> HIDE DEF q
<1>2. n * (p + q) = n * p + n * q /\ n * p \in Nat /\ n * q \in Nat
  BY <1>1
<1>3. n * p <= n * 100
  BY <1>1, <1>2
<1> DEFINE x == n * p
<1>4. x \in Nat /\ x <= n * 100
  BY <1>2, <1>3
<1> HIDE DEF x
<1>5. x \div 100 \in 0..n
  BY <1>4
<1> QED BY <1>5 DEF x

\* The size that the multiplier and the cap leave.
LEMMA AdjustedWithin ==
  ASSUME HedgingAssumption, NEW m \in Messages
  PROVE  /\ Abs(m.hedge) \in Nat
         /\ Adjusted(m) \in Nat /\ Capped(Adjusted(m)) \in Nat
         /\ Capped(Adjusted(m)) <= Abs(m.hedge)
PROOF
<1>1. m.hedge \in Int /\ m.funding.multiplier \in 0..100
  BY DEF Messages, Contexts
<1>2. Abs(m.hedge) \in Nat
  BY <1>1 DEF Abs
<1>3. Multiplier(m.funding) \in 0..100
  BY <1>1 DEF Multiplier
<1>4. Adjusted(m) \in 0..Abs(m.hedge)
  BY <1>2, <1>3, ShareWithin DEF Adjusted
<1>5. MaxOrder \in Nat
  BY DEF HedgingAssumption
<1> QED BY <1>2, <1>4, <1>5 DEF Capped

\* An order computed from the delta d and the target a leads from d towards a; an
\* exit leads to zero.
LEMMA OrderTowards ==
  ASSUME HedgingAssumption, NEW m \in Messages, NEW a \in Int,
         IF m.funding.exit THEN a = 0 ELSE m.hedge = Recommended(m.delta, a)
  PROVE  Towards(m.delta, m.delta + OrderSize(m), a)
PROOF
<1>1. m.delta \in Int /\ m.hedge \in Int
  BY DEF Messages
<1>2. CASE m.funding.exit
  <2>1. OrderSize(m) = -m.delta /\ a = 0
    BY <1>2 DEF OrderSize
  <2> QED BY <1>1, <2>1 DEF Towards
<1>3. CASE ~m.funding.exit
  <2> DEFINE c == Capped(Adjusted(m))
  <2>1. c \in Nat /\ c <= Abs(m.hedge)
    BY AdjustedWithin
  <2>2. OrderSize(m) = IF m.hedge > 0 THEN c ELSE -c
    BY <1>3 DEF OrderSize
  <2>3. m.hedge = 0 \/ m.hedge = a - m.delta
    BY <1>3 DEF Recommended
  <2> HIDE DEF c
  <2> QED BY <1>1, <2>1, <2>2, <2>3 DEF Abs, Towards
<1> QED BY <1>2, <1>3

\* Orders are numbers.
LEMMA OrderSizeType ==
  ASSUME HedgingAssumption, NEW m \in Messages
  PROVE  OrderSize(m) \in Int
PROOF
<1>1. m.delta \in Int /\ Capped(Adjusted(m)) \in Nat
  BY AdjustedWithin DEF Messages
<1> QED BY <1>1 DEF OrderSize

\* Targets are numbers.
LEMMA TargetType ==
  ASSUME HedgingAssumption, NEW level
  PROVE  Target(level) \in Int
PROOF
<1>1. /\ NormalTarget \in Int /\ CautionTarget \in Int
      /\ DangerTarget \in Int /\ CriticalTarget \in Int
  BY DEF HedgingAssumption
<1> QED BY <1>1 DEF Target

\* What a snapshot becomes.
LEMMA RiskMessageType ==
  ASSUME HedgingAssumption, NEW snapshot \in Snapshots, NEW f \in Contexts
  PROVE  /\ RiskMessage(snapshot, f) \in Messages
         /\ RiskMessage(snapshot, f).delta = snapshot.delta
         /\ RiskMessage(snapshot, f).funding = f
         /\ RiskMessage(snapshot, f).hedge
              = Recommended(snapshot.delta, Target(RiskLevel(snapshot.balance, f)))
PROOF
<1> DEFINE t == Target(RiskLevel(snapshot.balance, f))
<1>1. t \in Int /\ snapshot.delta \in Int
  BY TargetType DEF Snapshots
<1> HIDE DEF t
<1>2. Recommended(snapshot.delta, t) \in Int
  BY <1>1 DEF Recommended
<1> QED BY <1>1, <1>2 DEF RiskMessage, Messages, t

-----------------------------------------------------------------------------
(* Types.                                                                  *)

RiskPlaces == {"down", "dead", "waiting", "sending", "committing"}
HedgerPlaces == {"down", "dead", "waiting", "placing", "sending", "committing"}

\* A consumer that moves on without a message.
LEMMA RiskMoves ==
  ASSUME TypeOK, NEW pc \in RiskPlaces,
         \/ risk' = [risk EXCEPT !.pc = pc] /\ risk.pc # "sending"
         \/ risk' = [pc |-> pc, message |-> NoMessage]
  PROVE  risk' = [pc |-> pc, message |-> NoMessage] /\ NoMessage \in Messages
         /\ risk' \in [pc : RiskPlaces, message : Messages] /\ risk'.message = NoMessage
PROOF
<1>1. NoMessage \in Messages
  BY DEF NoMessage, NoContext, Messages, Contexts
<1>2. risk \in [pc : RiskPlaces, message : Messages]
      /\ (risk.pc # "sending" => risk.message = NoMessage)
  BY DEF TypeOK, RiskPlaces
<1>3. risk' = [pc |-> pc, message |-> NoMessage]
  BY <1>2
<1> QED BY <1>1, <1>3

\* The bound on disturbances is a number.
LEMMA DisturbancesCounted ==
  ASSUME TypeOK, Disturbs \/ Undisturbed
  PROVE  disturbances' \in Nat
  BY DEF TypeOK, Disturbs, Undisturbed

\* Types of what surrounds the services.
LEMMA WorldTypes ==
  ASSUME HedgingAssumption, TypeOK, Move \/ Snapshot \/ FundingReceived \/ ExecutorTakes
  PROVE  TypeOK'
PROOF
<1> USE DEF TypeOK
<1>1. CASE Move
  <2>1. delta' \in Deltas /\ balance' \in Balances /\ clean' = FALSE /\ Disturbs
    BY <1>1 DEF Move
  <2>2. delta' \in Int /\ balance' \in [collateral : Nat, debt : Nat]
    BY <2>1 DEF HedgingAssumption
  <2>3. disturbances' \in Nat
    BY <2>1, DisturbancesCounted
  <2> QED BY <1>1, <2>1, <2>2, <2>3 DEF Move, topics
<1>2. CASE Snapshot
  <2>1. PICK form \in Forms : accountRaw' = Written(accountRaw, [delta |-> delta,
                                       balance |-> balance, form |-> form])
    BY <1>2 DEF Snapshot
  <2>4. [delta |-> delta, balance |-> balance, form |-> form] \in Snapshots
    BY DEF Snapshots, HedgingAssumption
  <2>2. accountRaw' \in Topics(Snapshots)
    BY <2>1, <2>4, TopicWritten
  <2>3. clean' \in BOOLEAN
    BY <1>2 DEF Snapshot, Idle
  <2> QED BY <1>2, <2>2, <2>3 DEF Snapshot, world
<1>3. CASE FundingReceived
  <2>1. funding' \in Contexts
    BY <1>3 DEF FundingReceived, HedgingAssumption
  <2> QED BY <1>3, <2>1 DEF FundingReceived, world, topics
<1>4. CASE ExecutorTakes
  <2>1. hedgeTrades # <<>> /\ hedgeTrades' = Tail(hedgeTrades)
    BY <1>4 DEF ExecutorTakes
  <2>2. hedgeTrades' \in Seq(Int) /\ Head(hedgeTrades) \in Int
    BY <2>1, SMTT(30)
  <2>3. delta' \in {delta, delta + Head(hedgeTrades)} /\ (Disturbs \/ Undisturbed)
    BY <1>4 DEF ExecutorTakes
  <2>4. delta' \in Int /\ disturbances' \in Nat
    BY <2>2, <2>3, DisturbancesCounted
  <2> QED BY <1>4, <2>2, <2>4 DEF ExecutorTakes
<1> QED BY <1>1, <1>2, <1>3, <1>4

\* Types of the risk engine.
LEMMA RiskTypes ==
  ASSUME HedgingAssumption, TypeOK, RiskStep \/ RiskStops
  PROVE  TypeOK'
PROOF
<1> USE DEF TypeOK
<1>1. CASE RiskTakes
  <2> DEFINE snapshot == Head(accountRaw.todo)
  <2>1. accountRaw' \in Topics(Snapshots) /\ snapshot \in Snapshots
    BY <1>1, TopicGiven DEF RiskTakes, RiskGiven
  <2>2. RiskMessage(snapshot, funding) \in Messages
    BY <2>1, RiskMessageType
  <2>3. risk' = [pc |-> "sending", message |-> RiskMessage(snapshot, funding)]
    BY <1>1 DEF RiskTakes
  <2>4. aim' \in Int
    <3>1. Target(RiskLevel(snapshot.balance, funding)) \in Int
      BY TargetType
    <3> QED BY <1>1, <3>1 DEF RiskTakes
  <2> HIDE DEF snapshot
  <2>5. risk' \in [pc : RiskPlaces, message : Messages] /\ risk'.pc = "sending"
    BY <2>2, <2>3 DEF RiskPlaces
  <2> QED BY <1>1, <2>1, <2>4, <2>5 DEF RiskTakes, RiskGiven, RiskPlaces, world
<1>2. CASE RiskSends
  <2>1. riskState' \in Topics(Messages)
    <3>1. risk.message \in Messages
      OBVIOUS
    <3> QED BY <1>2, <3>1, TopicWritten DEF RiskSends
  <2>2. risk' \in [pc : RiskPlaces, message : Messages] /\ risk'.message = NoMessage
    <3>1. PICK pc \in {"committing", "waiting"} : risk' = [pc |-> pc, message |-> NoMessage]
      BY <1>2 DEF RiskSends
    <3> QED BY <3>1, RiskMoves DEF RiskPlaces
  <2>3. disturbances' \in Nat
    BY <1>2, DisturbancesCounted DEF RiskSends
  <2> QED BY <1>2, <2>1, <2>2, <2>3 DEF RiskSends, RiskPlaces, world
<1>3. CASE RiskCommits
  <2>1. accountRaw' \in Topics(Snapshots)
    <3>1. Committed(accountRaw) \in Topics(Snapshots)
      BY TopicCommitted
    <3> QED BY <1>3, <3>1 DEF RiskCommits
  <2>2. risk' \in [pc : RiskPlaces, message : Messages] /\ risk'.message = NoMessage
    <3>1. risk' = [risk EXCEPT !.pc = "waiting"] /\ risk.pc # "sending"
      BY <1>3 DEF RiskCommits
    <3> QED BY <3>1, RiskMoves DEF RiskPlaces
  <2>3. disturbances' \in Nat
    BY <1>3, DisturbancesCounted DEF RiskCommits
  <2> QED BY <1>3, <2>1, <2>2, <2>3 DEF RiskCommits, RiskPlaces, world
<1>4. CASE RiskStops
  <2>1. risk' \in [pc : RiskPlaces, message : Messages] /\ risk'.message = NoMessage
    <3>1. risk' = [pc |-> "down", message |-> NoMessage]
      BY <1>4 DEF RiskStops
    <3> QED BY <3>1, RiskMoves DEF RiskPlaces
  <2>3. disturbances' \in Nat
    BY <1>4, DisturbancesCounted DEF RiskStops
  <2>2. funding' \in Contexts
    BY <1>4 DEF RiskStops, NoContext, Contexts
  <2> QED BY <1>4, <2>1, <2>2, <2>3 DEF RiskStops, RiskPlaces, world, topics
<1>5. CASE RiskStarts
  <2>1. accountRaw' \in Topics(Snapshots)
    BY <1>5, TopicRejoined DEF RiskStarts
  <2>2. /\ risk' \in [pc : RiskPlaces, message : Messages]
        /\ risk'.message = NoMessage
    BY <1>5, RiskMoves DEF RiskStarts, RiskPlaces
  <2> QED BY <1>5, <2>1, <2>2 DEF RiskStarts, RiskPlaces, world
<1>6. CASE RiskDies
  <2>1. accountRaw' \in Topics(Snapshots)
    BY <1>6, TopicGiven DEF RiskDies, RiskGiven
  <2>2. risk' \in [pc : RiskPlaces, message : Messages] /\ risk'.message = NoMessage
    <3>1. risk' = [risk EXCEPT !.pc = "dead"] /\ risk.pc # "sending"
      BY <1>6 DEF RiskDies, RiskGiven
    <3> QED BY <3>1, RiskMoves DEF RiskPlaces
  <2> QED BY <1>6, <2>1, <2>2 DEF RiskDies, RiskPlaces, world
<1>7. CASE RiskRejects
  <2>1. accountRaw' \in Topics(Snapshots)
    BY <1>7, TopicGiven DEF RiskRejects, RiskGiven
  <2> QED BY <1>7, <2>1 DEF RiskRejects, world
<1> QED BY <1>1, <1>2, <1>3, <1>4, <1>5, <1>6, <1>7 DEF RiskStep

\* Types of the hedger.
LEMMA HedgerTypes ==
  ASSUME HedgingAssumption, TypeOK, HedgerStep \/ HedgerStops
  PROVE  TypeOK'
PROOF
<1> USE DEF TypeOK
<1>1. CASE HedgerTakes
  <2>1. riskState' \in Topics(Messages) /\ Head(riskState.todo) \in Messages
    BY <1>1, TopicGiven DEF HedgerTakes, HedgerGiven
  <2>2. \/ hedger' = [pc |-> Execution, size |-> OrderSize(Head(riskState.todo))]
        \/ hedger' = [pc |-> "committing", size |-> 0]
    BY <1>1 DEF HedgerTakes
  <2>3. /\ hedger' \in [pc : HedgerPlaces, size : Int]
        /\ hedger'.pc \notin {"placing", "sending"} => hedger'.size = 0
        /\ hedger'.pc = "placing" => "hedger" \in keys
    <3>1. OrderSize(Head(riskState.todo)) \in Int
      BY <2>1, OrderSizeType
    <3>2. \/ Execution = "placing" /\ "hedger" \in keys
          \/ Execution = "sending"
      BY DEF Execution
    <3> QED BY <2>2, <3>1, <3>2, SMTT(30) DEF HedgerPlaces
  <2> QED BY <1>1, <2>1, <2>3 DEF HedgerTakes, HedgerPlaces, world
<1>2. CASE HedgerOrders
  <2>1. delta' \in Int /\ disturbances' \in Nat
    <3>1. delta' \in {delta, delta + hedger.size} /\ hedger.size \in Int
      BY <1>2 DEF HedgerOrders
    <3>2. disturbances' \in Nat
      BY <1>2, DisturbancesCounted DEF HedgerOrders
    <3> QED BY <3>1, <3>2
  <2>2. hedger' \in [pc : HedgerPlaces, size : Int] /\ hedger'.pc = "sending"
    BY <1>2 DEF HedgerOrders, HedgerPlaces
  <2> QED BY <1>2, <2>1, <2>2 DEF HedgerOrders, HedgerPlaces, topics
<1>3. CASE HedgerSends
  <2>1. hedgeTrades' \in Seq(Int)
    <3>1. Append(hedgeTrades, hedger.size) \in Seq(Int)
      OBVIOUS
    <3> QED BY <1>3, <3>1 DEF HedgerSends
  <2>2. /\ hedger' \in [pc : HedgerPlaces, size : Int]
        /\ hedger'.size = 0 /\ hedger'.pc # "placing"
    <3>1. \E pc \in {"committing", "waiting"} : hedger' = [pc |-> pc, size |-> 0]
      BY <1>3 DEF HedgerSends
    <3> QED BY <3>1 DEF HedgerPlaces
  <2>3. disturbances' \in Nat
    BY <1>3, DisturbancesCounted DEF HedgerSends
  <2> QED BY <1>3, <2>1, <2>2, <2>3 DEF HedgerSends, HedgerPlaces, world
<1>4. CASE HedgerCommits
  <2>1. riskState' \in Topics(Messages)
    <3>1. Committed(riskState) \in Topics(Messages)
      BY TopicCommitted
    <3> QED BY <1>4, <3>1 DEF HedgerCommits
  <2>2. /\ hedger' \in [pc : HedgerPlaces, size : Int]
        /\ hedger'.size = 0 /\ hedger'.pc # "placing"
    BY <1>4 DEF HedgerCommits, HedgerPlaces
  <2>3. disturbances' \in Nat
    BY <1>4, DisturbancesCounted DEF HedgerCommits
  <2> QED BY <1>4, <2>1, <2>2, <2>3 DEF HedgerCommits, HedgerPlaces, world
<1>5. CASE HedgerStops
  <2>1. delta' \in Int /\ disturbances' \in Nat
    <3>1. hedger.size \in Int /\ delta' \in {delta, delta + hedger.size} /\ Disturbs
      BY <1>5 DEF HedgerStops
    <3> QED BY <3>1, DisturbancesCounted
  <2>2. /\ hedger' \in [pc : HedgerPlaces, size : Int]
        /\ hedger'.size = 0 /\ hedger'.pc # "placing"
    BY <1>5 DEF HedgerStops, HedgerPlaces
  <2> QED BY <1>5, <2>1, <2>2 DEF HedgerStops, HedgerPlaces, topics
<1>6. CASE HedgerStarts
  <2>1. riskState' \in Topics(Messages)
    BY <1>6, TopicRejoined DEF HedgerStarts
  <2>2. /\ hedger' \in [pc : HedgerPlaces, size : Int]
        /\ hedger'.size = 0 /\ hedger'.pc # "placing"
    BY <1>6 DEF HedgerStarts, HedgerPlaces
  <2> QED BY <1>6, <2>1, <2>2 DEF HedgerStarts, HedgerPlaces, world
<1>7. CASE HedgerDies
  <2>1. riskState' \in Topics(Messages)
    BY <1>7, TopicGiven DEF HedgerDies, HedgerGiven
  <2>2. /\ hedger' \in [pc : HedgerPlaces, size : Int]
        /\ hedger'.size = 0 /\ hedger'.pc = "dead"
    BY <1>7 DEF HedgerDies, HedgerGiven, HedgerPlaces
  <2> QED BY <1>7, <2>1, <2>2 DEF HedgerDies, HedgerPlaces, world
<1> QED BY <1>1, <1>2, <1>3, <1>4, <1>5, <1>6, <1>7 DEF HedgerStep

\* Types are right at the start, and every step keeps them.
THEOREM TypeCorrect == ASSUME HedgingAssumption PROVE Spec => []TypeOK
PROOF
<1>1. Init => TypeOK
  <2> SUFFICES ASSUME Init PROVE TypeOK
    OBVIOUS
  <2>1. delta \in Int /\ balance \in [collateral : Nat, debt : Nat] /\ keys \in Deployments
        /\ readers \in Readers
    BY DEF Init, HedgingAssumption
  <2>2. EmptyTopic \in Topics(Snapshots) /\ EmptyTopic \in Topics(Messages)
    BY DEF EmptyTopic, Topics
  <2>3. NoContext \in Contexts /\ NoMessage \in Messages
    BY DEF NoContext, NoMessage, Contexts, Messages
  <2> QED BY <2>1, <2>2, <2>3 DEF Init, TypeOK
<1>2. TypeOK /\ [Next]_vars => TypeOK'
  <2> SUFFICES ASSUME TypeOK, [Next]_vars PROVE TypeOK'
    OBVIOUS
  <2>1. CASE Move \/ Snapshot \/ FundingReceived \/ ExecutorTakes
    BY <2>1, WorldTypes
  <2>2. CASE RiskStep \/ RiskStops
    BY <2>2, RiskTypes
  <2>3. CASE HedgerStep \/ HedgerStops
    BY <2>3, HedgerTypes
  <2>4. CASE UNCHANGED vars
    BY <2>4 DEF vars, world, topics, TypeOK
  <2> QED BY <2>1, <2>2, <2>3, <2>4 DEF Next
<1> QED BY <1>1, <1>2, PTL DEF Spec

-----------------------------------------------------------------------------
(* One thing on its way, computed from the delta that is there.            *)

SizeOnItsWay == hedger.pc \in {"placing", "sending"}

\* What is on its way is alone.
LEMMA Alone ==
  ASSUME TypeOK, OneOnItsWay, clean
  PROVE  /\ risk.pc # "down" /\ hedger.pc # "down"
         /\ accountRaw.todo # <<>> =>
              /\ Len(accountRaw.todo) = 1 /\ riskState.todo = <<>> /\ hedgeTrades = <<>>
              /\ risk.pc # "sending" /\ ~SizeOnItsWay
         /\ risk.pc = "sending" =>
              accountRaw.todo = <<>> /\ riskState.todo = <<>> /\ hedgeTrades = <<>> /\ ~SizeOnItsWay
         /\ riskState.todo # <<>> =>
              /\ Len(riskState.todo) = 1 /\ accountRaw.todo = <<>> /\ hedgeTrades = <<>>
              /\ risk.pc # "sending" /\ ~SizeOnItsWay
         /\ SizeOnItsWay =>
              /\ accountRaw.todo = <<>> /\ riskState.todo = <<>> /\ hedgeTrades = <<>>
              /\ risk.pc # "sending"
         /\ hedgeTrades # <<>> =>
              /\ Len(hedgeTrades) = 1 /\ accountRaw.todo = <<>> /\ riskState.todo = <<>>
              /\ risk.pc # "sending" /\ ~SizeOnItsWay
PROOF
<1>1. /\ accountRaw.todo \in Seq(Snapshots) /\ riskState.todo \in Seq(Messages)
      /\ hedgeTrades \in Seq(Int)
  BY DEF TypeOK, Topics
<1> DEFINE a == Len(accountRaw.todo)
<1> DEFINE r == Len(riskState.todo)
<1> DEFINE h == Len(hedgeTrades)
<1> DEFINE s == IF risk.pc = "sending" THEN 1 ELSE 0
<1> DEFINE o == IF SizeOnItsWay THEN 1 ELSE 0
<1>2. /\ a \in Nat /\ r \in Nat /\ h \in Nat
      /\ (accountRaw.todo = <<>> <=> a = 0) /\ (riskState.todo = <<>> <=> r = 0)
      /\ (hedgeTrades = <<>> <=> h = 0)
  BY <1>1
<1>3. s \in {0, 1} /\ o \in {0, 1} /\ (risk.pc = "sending" <=> s = 1) /\ (SizeOnItsWay <=> o = 1)
  OBVIOUS
<1>4. a + r + h + s + o <= 1 /\ risk.pc # "down" /\ hedger.pc # "down"
  BY DEF OneOnItsWay, Behind, SizeOnItsWay
<1> HIDE DEF a, r, h, s, o
<1>5. /\ a # 0 => a = 1 /\ r = 0 /\ h = 0 /\ s = 0 /\ o = 0
      /\ r # 0 => r = 1 /\ a = 0 /\ h = 0 /\ s = 0 /\ o = 0
      /\ h # 0 => h = 1 /\ a = 0 /\ r = 0 /\ s = 0 /\ o = 0
      /\ s = 1 => a = 0 /\ r = 0 /\ h = 0 /\ o = 0
      /\ o = 1 => a = 0 /\ r = 0 /\ h = 0 /\ s = 0
  BY <1>2, <1>3, <1>4
<1>6. a = Len(accountRaw.todo) /\ r = Len(riskState.todo) /\ h = Len(hedgeTrades)
  BY DEF a, r, h
<1> QED BY <1>2, <1>3, <1>4, <1>5, <1>6

\* How much is on its way, from its parts.
LEMMA BehindWithin ==
  ASSUME NEW a \in {0, 1}, NEW r \in {0, 1}, NEW h \in {0, 1}, NEW s \in {0, 1}, NEW o \in {0, 1},
         a + r + h + s + o <= 1,
         Len(accountRaw'.todo) = a, Len(riskState'.todo) = r, Len(hedgeTrades') = h,
         s = IF risk'.pc = "sending" THEN 1 ELSE 0, o = IF SizeOnItsWay' THEN 1 ELSE 0,
         risk'.pc # "down", hedger'.pc # "down"
  PROVE  OneOnItsWay'
PROOF
<1>1. Behind' = a + r + h + s + o
  BY DEF Behind, SizeOnItsWay
<1> QED BY <1>1 DEF OneOnItsWay

\* The account, the consumer of its topic ...
LEMMA WorldCurrent ==
  ASSUME HedgingAssumption, IInv, Move \/ Snapshot \/ FundingReceived, clean'
  PROVE  Current'
PROOF
<1>1. CASE Move
  BY <1>1 DEF Move
<1>2. CASE FundingReceived
  BY <1>2 DEF FundingReceived, IInv, Current, OneOnItsWay, Behind, SnapshotsGood, SendingGood,
     MessagesGood, OrderGood, TradesGood, GoodMessage, GoodSize, world, topics
<1>3. CASE Snapshot
  <2>1. TypeOK /\ Idle
    BY <1>3 DEF Snapshot, IInv
  <2>2. /\ accountRaw.todo = <<>> /\ riskState.todo = <<>> /\ hedgeTrades = <<>>
        /\ risk.pc # "sending" /\ ~SizeOnItsWay /\ risk.pc # "down" /\ hedger.pc # "down"
    <3>1. /\ accountRaw.todo \in Seq(Snapshots) /\ riskState.todo \in Seq(Messages)
          /\ hedgeTrades \in Seq(Int)
      BY <2>1 DEF TypeOK, Topics
    <3>2. /\ Len(accountRaw.todo) \in Nat /\ Len(riskState.todo) \in Nat /\ Len(hedgeTrades) \in Nat
      BY <3>1
    <3>3. /\ Len(accountRaw.todo) = 0 /\ Len(riskState.todo) = 0 /\ Len(hedgeTrades) = 0
          /\ risk.pc # "sending" /\ ~SizeOnItsWay
      <4> DEFINE s == IF risk.pc = "sending" THEN 1 ELSE 0
      <4> DEFINE o == IF SizeOnItsWay THEN 1 ELSE 0
      <4>1. s \in {0, 1} /\ o \in {0, 1} /\ (s = 0 => risk.pc # "sending")
            /\ (o = 0 => ~SizeOnItsWay)
        OBVIOUS
      <4> DEFINE a == Len(accountRaw.todo)
      <4> DEFINE r == Len(riskState.todo)
      <4> DEFINE h == Len(hedgeTrades)
      <4>2. a + r + h + s + o = 0
        BY <2>1 DEF Idle, Behind, SizeOnItsWay
      <4>3. a \in Nat /\ r \in Nat /\ h \in Nat
        BY <3>2
      <4> HIDE DEF a, r, h, s, o
      <4>4. a = 0 /\ r = 0 /\ h = 0 /\ s = 0 /\ o = 0
        BY <4>1, <4>2, <4>3
      <4> QED BY <4>1, <4>4 DEF a, r, h
    <3> QED BY <2>1, <3>1, <3>3 DEF Idle, Stopped
  <2>7. PICK form \in Forms : accountRaw' = Written(accountRaw, [delta |-> delta,
                                       balance |-> balance, form |-> form])
    BY <1>3 DEF Snapshot
  <2>3. /\ accountRaw'.todo = Append(<<>>, [delta |-> delta, balance |-> balance,
                                           form |-> form])
        /\ UNCHANGED <<delta, riskState, hedgeTrades, risk, hedger, aim>>
    <3> DEFINE x == [delta |-> delta, balance |-> balance, form |-> form]
    <3>1. x \in Snapshots /\ accountRaw \in Topics(Snapshots)
      BY <2>1 DEF TypeOK, Snapshots, HedgingAssumption
    <3>2. accountRaw' = Written(accountRaw, x)
      BY <2>7
    <3> HIDE DEF x
    <3>3. accountRaw'.todo = Append(accountRaw.todo, x)
      BY <3>1, <3>2, TopicWritten
    <3> QED BY <1>3, <2>2, <3>3 DEF Snapshot, world, x
  <2>4. Len(accountRaw'.todo) = 1 /\ accountRaw'.todo[1].delta = delta
    BY <2>3
  <2>5. OneOnItsWay'
    <3>1. /\ Len(riskState'.todo) = 0 /\ Len(hedgeTrades') = 0 /\ ~SizeOnItsWay'
          /\ risk'.pc # "sending" /\ risk'.pc # "down" /\ hedger'.pc # "down"
      BY <2>2, <2>3 DEF SizeOnItsWay
    <3>2. 1 + 0 + 0 + 0 + 0 <= 1 /\ 0 \in {0, 1} /\ 1 \in {0, 1}
      OBVIOUS
    <3> QED BY <2>4, <3>1, <3>2, BehindWithin
  <2>6. SnapshotsGood'
    BY <2>3, <2>4 DEF SnapshotsGood
  <2> QED BY <2>2, <2>3, <2>5, <2>6 DEF Current, SendingGood, MessagesGood, OrderGood,
            TradesGood, SizeOnItsWay
<1> QED BY <1>1, <1>2, <1>3

\* ... the risk engine ...
LEMMA RiskCurrent ==
  ASSUME HedgingAssumption, IInv, RiskStep \/ RiskStops, clean'
  PROVE  Current'
PROOF
<1>0. TypeOK /\ Current
  BY DEF IInv
<1>1. clean
  BY DEF RiskStep, RiskDies, RiskRejects, RiskTakes, RiskSends, RiskCommits, RiskStarts,
     RiskStops
<1>2. ~RiskStops
  BY DEF RiskStops
<1>3. ~RiskStarts
  BY <1>0, <1>1 DEF RiskStarts, Current, OneOnItsWay
<1>4. CASE RiskTakes
  <2>1. /\ accountRaw.todo # <<>> /\ accountRaw' = Given(accountRaw)
        /\ risk' = [pc |-> "sending", message |-> RiskMessage(Head(accountRaw.todo), funding)]
        /\ aim' = IF funding.exit THEN 0
                  ELSE Target(RiskLevel(Head(accountRaw.todo).balance, funding))
        /\ UNCHANGED <<delta, riskState, hedgeTrades, hedger>>
    BY <1>4 DEF RiskTakes, RiskGiven, world
  <2>2. /\ Len(accountRaw.todo) = 1 /\ riskState.todo = <<>> /\ hedgeTrades = <<>>
        /\ ~SizeOnItsWay /\ hedger.pc # "down"
    BY <1>0, <1>1, <2>1, Alone DEF Current
  <2>3. /\ accountRaw'.todo = Tail(accountRaw.todo) /\ Head(accountRaw.todo) = accountRaw.todo[1]
        /\ Head(accountRaw.todo) \in Snapshots /\ accountRaw.todo \in Seq(Snapshots)
    <3>1. accountRaw \in Topics(Snapshots)
      BY <1>0 DEF TypeOK
    <3>2. accountRaw.todo \in Seq(Snapshots)
      BY <3>1 DEF Topics
    <3> QED BY <2>1, <3>1, <3>2, TopicGiven
  <2>4. Len(accountRaw'.todo) = 0
    BY <2>1, <2>2, <2>3
  <2>5. Head(accountRaw.todo).delta = delta
    BY <1>0, <1>1, <2>2, <2>3 DEF Current, SnapshotsGood
  <2>6. /\ RiskMessage(Head(accountRaw.todo), funding).delta = delta'
        /\ IF RiskMessage(Head(accountRaw.todo), funding).funding.exit THEN aim' = 0
           ELSE RiskMessage(Head(accountRaw.todo), funding).hedge = Recommended(delta', aim')
    <3> DEFINE x == Head(accountRaw.todo)
    <3>1. x \in Snapshots /\ x.delta = delta /\ funding \in Contexts
      BY <1>0, <2>3, <2>5 DEF TypeOK
    <3>2. aim' = (IF funding.exit THEN 0 ELSE Target(RiskLevel(x.balance, funding)))
          /\ delta' = delta
      BY <2>1
    <3> HIDE DEF x
    <3>3. /\ RiskMessage(x, funding).delta = delta' /\ RiskMessage(x, funding).funding = funding
          /\ RiskMessage(x, funding).hedge
               = Recommended(delta', Target(RiskLevel(x.balance, funding)))
      BY <3>1, <3>2, RiskMessageType
    <3>4. /\ RiskMessage(x, funding).delta = delta'
          /\ IF RiskMessage(x, funding).funding.exit THEN aim' = 0
             ELSE RiskMessage(x, funding).hedge = Recommended(delta', aim')
      BY <3>2, <3>3
    <3> QED BY <3>4 DEF x
  <2>7. OneOnItsWay'
    <3>1. /\ Len(riskState'.todo) = 0 /\ Len(hedgeTrades') = 0 /\ ~SizeOnItsWay'
          /\ risk'.pc = "sending" /\ hedger'.pc # "down"
      BY <2>1, <2>2 DEF SizeOnItsWay
    <3>2. 0 + 0 + 0 + 1 + 0 <= 1 /\ 0 \in {0, 1} /\ 1 \in {0, 1}
      OBVIOUS
    <3> QED BY <2>4, <3>1, <3>2, BehindWithin
  <2>8. SendingGood'
    <3>1. risk'.message = RiskMessage(Head(accountRaw.todo), funding)
      BY <2>1
    <3> QED BY <2>6, <3>1 DEF SendingGood, GoodMessage
  <2> QED BY <2>1, <2>2, <2>4, <2>7, <2>8 DEF Current, SnapshotsGood, MessagesGood,
            OrderGood, TradesGood, SizeOnItsWay
<1>5. CASE RiskSends
  <2>1. /\ risk.pc = "sending" /\ risk'.pc \in {"committing", "waiting"}
        /\ riskState' = riskState \/ riskState' = Written(riskState, risk.message)
        /\ UNCHANGED <<keys, delta, accountRaw, hedgeTrades, hedger, aim>>
    BY <1>5 DEF RiskSends, world
  <2>2. /\ accountRaw.todo = <<>> /\ riskState.todo = <<>> /\ hedgeTrades = <<>>
        /\ ~SizeOnItsWay /\ hedger.pc # "down"
    BY <1>0, <1>1, <2>1, Alone DEF Current
  <2>3. GoodMessage(risk.message) /\ risk.message \in Messages
    BY <1>0, <1>1, <2>1 DEF Current, SendingGood, TypeOK
  <2>4. riskState'.todo = <<>> \/ riskState'.todo = Append(<<>>, risk.message)
    <3>1. riskState \in Topics(Messages)
      BY <1>0 DEF TypeOK
    <3>2. Written(riskState, risk.message).todo = Append(riskState.todo, risk.message)
      BY <2>3, <3>1, TopicWritten
    <3> QED BY <2>1, <2>2, <3>2
  <2>5. Len(riskState'.todo) \in {0, 1} /\ MessagesGood'
    <3>1. CASE riskState'.todo = <<>>
      BY <3>1 DEF MessagesGood
    <3>2. CASE riskState'.todo = Append(<<>>, risk.message)
      <4>1. Len(riskState'.todo) = 1 /\ riskState'.todo[1] = risk.message
        BY <3>2
      <4> QED BY <4>1, <2>1, <2>3 DEF MessagesGood, GoodMessage
    <3> QED BY <2>4, <3>1, <3>2
  <2>6. OneOnItsWay'
    <3>1. /\ Len(accountRaw'.todo) = 0 /\ Len(hedgeTrades') = 0 /\ ~SizeOnItsWay'
          /\ risk'.pc # "sending" /\ risk'.pc # "down" /\ hedger'.pc # "down"
      BY <2>1, <2>2 DEF SizeOnItsWay
    <3>2. /\ 0 + 0 + 0 + 0 + 0 <= 1 /\ 0 + 1 + 0 + 0 + 0 <= 1 /\ 0 \in {0, 1} /\ 1 \in {0, 1}
      OBVIOUS
    <3> QED BY <2>5, <3>1, <3>2, BehindWithin
  <2> QED BY <2>1, <2>2, <2>5, <2>6 DEF Current, SnapshotsGood, SendingGood,
            OrderGood, TradesGood, SizeOnItsWay
<1>6. CASE RiskCommits
  <2>1. /\ risk.pc = "committing" /\ risk' = [risk EXCEPT !.pc = "waiting"]
        /\ accountRaw' = accountRaw \/ accountRaw' = Committed(accountRaw)
        /\ UNCHANGED <<keys, delta, riskState, hedgeTrades, hedger, aim>>
    BY <1>6 DEF RiskCommits, world
  <2>2. accountRaw'.todo = accountRaw.todo
    BY <1>0, <2>1, TopicCommitted DEF TypeOK
  <2>3. risk'.pc = "waiting"
    BY <1>0, <2>1 DEF TypeOK
  <2> QED BY <1>0, <1>1, <2>1, <2>2, <2>3 DEF Current, OneOnItsWay, Behind, SnapshotsGood,
            SendingGood, MessagesGood, OrderGood, TradesGood, GoodMessage, GoodSize
<1>7. CASE RiskDies \/ RiskRejects
  <2>1. /\ accountRaw.todo # <<>> /\ accountRaw' = Given(accountRaw)
        /\ risk'.pc \in {"waiting", "dead"}
        /\ UNCHANGED <<delta, riskState, hedgeTrades, hedger>>
    <3>1. risk.pc = "waiting" /\ (risk' = risk \/ risk' = [risk EXCEPT !.pc = "dead"])
      BY <1>7 DEF RiskDies, RiskRejects, RiskGiven
    <3>2. risk'.pc \in {"waiting", "dead"}
      BY <1>0, <3>1 DEF TypeOK
    <3> QED BY <1>7, <3>2 DEF RiskDies, RiskRejects, RiskGiven, world
  <2>2. /\ Len(accountRaw.todo) = 1 /\ riskState.todo = <<>> /\ hedgeTrades = <<>>
        /\ ~SizeOnItsWay /\ hedger.pc # "down"
    BY <1>0, <1>1, <2>1, Alone DEF Current
  <2>3. accountRaw.todo \in Seq(Snapshots) /\ accountRaw'.todo = Tail(accountRaw.todo)
    <3>1. accountRaw \in Topics(Snapshots)
      BY <1>0 DEF TypeOK
    <3>2. accountRaw.todo \in Seq(Snapshots)
      BY <3>1 DEF Topics
    <3> QED BY <2>1, <3>1, <3>2, TopicGiven
  <2>4. Len(accountRaw'.todo) = 0
    BY <2>1, <2>2, <2>3
  <2>5. OneOnItsWay'
    <3>1. /\ Len(riskState'.todo) = 0 /\ Len(hedgeTrades') = 0 /\ ~SizeOnItsWay'
          /\ risk'.pc # "sending" /\ risk'.pc # "down" /\ hedger'.pc # "down"
      BY <2>1, <2>2 DEF SizeOnItsWay
    <3>2. 0 + 0 + 0 + 0 + 0 <= 1 /\ 0 \in {0, 1}
      OBVIOUS
    <3> QED BY <2>4, <3>1, <3>2, BehindWithin
  <2> QED BY <2>1, <2>2, <2>4, <2>5 DEF Current, SnapshotsGood, SendingGood, MessagesGood,
            OrderGood, TradesGood, SizeOnItsWay
<1> QED BY <1>2, <1>3, <1>4, <1>5, <1>6, <1>7 DEF RiskStep

\* ... the hedger ...
LEMMA HedgerCurrent ==
  ASSUME HedgingAssumption, IInv, HedgerStep \/ HedgerStops, clean'
  PROVE  Current'
PROOF
<1>0. TypeOK /\ Current
  BY DEF IInv
<1>1. clean
  BY DEF HedgerStep, HedgerDies, HedgerTakes, HedgerOrders, HedgerSends, HedgerCommits,
     HedgerStarts, HedgerStops
<1>2. ~HedgerStops
  BY DEF HedgerStops
<1>3. ~HedgerStarts
  BY <1>0, <1>1 DEF HedgerStarts, Current, OneOnItsWay
<1>4. 0 \in {0, 1} /\ 1 \in {0, 1} /\ 0 + 0 + 0 + 0 + 0 <= 1 /\ 0 + 0 + 0 + 0 + 1 <= 1
      /\ 0 + 0 + 1 + 0 + 0 <= 1
  OBVIOUS
<1>5. CASE HedgerTakes
  <2> DEFINE m == Head(riskState.todo)
  <2>1. /\ riskState.todo # <<>> /\ riskState' = Given(riskState)
        /\ \/ hedger' = [pc |-> Execution, size |-> OrderSize(m)]
           \/ hedger' = [pc |-> "committing", size |-> 0]
        /\ UNCHANGED <<keys, delta, accountRaw, hedgeTrades, risk, aim>>
    BY <1>5 DEF HedgerTakes, HedgerGiven, world
  <2>2. /\ Len(riskState.todo) = 1 /\ accountRaw.todo = <<>> /\ hedgeTrades = <<>>
        /\ risk.pc # "sending" /\ risk.pc # "down"
    BY <1>0, <1>1, <2>1, Alone DEF Current
  <2>3. riskState'.todo = Tail(riskState.todo) /\ m = riskState.todo[1] /\ m \in Messages
        /\ riskState.todo \in Seq(Messages)
    <3>1. riskState \in Topics(Messages)
      BY <1>0 DEF TypeOK
    <3>2. riskState.todo \in Seq(Messages)
      BY <3>1 DEF Topics
    <3> QED BY <2>1, <3>1, <3>2, TopicGiven
  <2>4. Len(riskState'.todo) = 0
    BY <2>1, <2>2, <2>3
  <2>5. GoodMessage(m)
    BY <1>0, <1>1, <2>2, <2>3 DEF Current, MessagesGood
  <2>6. GoodSize(OrderSize(m))
    <3>1. /\ m.delta = delta /\ aim \in Int
          /\ IF m.funding.exit THEN aim = 0 ELSE m.hedge = Recommended(m.delta, aim)
      BY <1>0, <2>5 DEF GoodMessage, TypeOK
    <3>2. Towards(m.delta, m.delta + OrderSize(m), aim)
      BY <2>3, <3>1, OrderTowards
    <3> QED BY <3>1, <3>2 DEF GoodSize
  <2> HIDE DEF m
  <2>7. OneOnItsWay'
    <3>1. /\ Len(accountRaw'.todo) = 0 /\ Len(hedgeTrades') = 0
          /\ risk'.pc # "sending" /\ risk'.pc # "down" /\ hedger'.pc # "down"
      BY <2>1, <2>2 DEF Execution
    <3> QED BY <1>4, <2>4, <3>1, BehindWithin
  <2>8. OrderGood'
    <3>1. hedger'.pc \in {"placing", "sending"} => hedger'.size = OrderSize(m)
      BY <2>1
    <3> QED BY <2>1, <2>6, <3>1 DEF OrderGood, GoodSize
  <2> QED BY <2>1, <2>2, <2>4, <2>7, <2>8 DEF Current, SnapshotsGood, SendingGood, MessagesGood,
            TradesGood
<1>6. CASE HedgerOrders
  <2>1. /\ hedger.pc = "placing" /\ hedger' = [hedger EXCEPT !.pc = "sending"]
        /\ UNCHANGED <<keys, accountRaw, riskState, hedgeTrades, risk, aim>>
    BY <1>6 DEF HedgerOrders, topics
  <2>2. SizeOnItsWay /\ "hedger" \in keys /\ hedger'.pc = "sending"
    BY <1>0, <2>1 DEF SizeOnItsWay, TypeOK
  <2>3. /\ accountRaw.todo = <<>> /\ riskState.todo = <<>> /\ hedgeTrades = <<>>
        /\ risk.pc # "sending" /\ risk.pc # "down"
    BY <1>0, <1>1, <2>2, Alone DEF Current
  <2>4. OneOnItsWay'
    <3>1. /\ Len(accountRaw'.todo) = 0 /\ Len(riskState'.todo) = 0 /\ Len(hedgeTrades') = 0
          /\ risk'.pc # "sending" /\ risk'.pc # "down" /\ hedger'.pc # "down"
      BY <2>1, <2>2, <2>3
    <3> QED BY <1>4, <3>1, BehindWithin
  <2> QED BY <2>1, <2>2, <2>3, <2>4 DEF Current, SnapshotsGood, SendingGood, MessagesGood,
            OrderGood, TradesGood
<1>7. CASE HedgerSends
  <2>1. /\ hedger.pc = "sending" /\ hedger'.pc \in {"committing", "waiting"}
        /\ hedgeTrades' = hedgeTrades \/ hedgeTrades' = Append(hedgeTrades, hedger.size)
        /\ UNCHANGED <<keys, delta, accountRaw, riskState, risk, aim>>
    BY <1>7 DEF HedgerSends, world
  <2>2. /\ accountRaw.todo = <<>> /\ riskState.todo = <<>> /\ hedgeTrades = <<>>
        /\ risk.pc # "sending" /\ risk.pc # "down"
    BY <1>0, <1>1, <2>1, Alone DEF Current, SizeOnItsWay
  <2>3. "hedger" \notin keys => GoodSize(hedger.size)
    BY <1>0, <1>1, <2>1 DEF Current, OrderGood
  <2>4. Len(hedgeTrades') \in {0, 1} /\ TradesGood'
    <3>1. CASE hedgeTrades' = <<>>
      BY <3>1 DEF TradesGood
    <3>2. CASE hedgeTrades' = Append(<<>>, hedger.size)
      <4>1. Len(hedgeTrades') = 1 /\ hedgeTrades'[1] = hedger.size
        BY <3>2
      <4> QED BY <4>1, <2>1, <2>3 DEF TradesGood, GoodSize
    <3> QED BY <2>1, <2>2, <3>1, <3>2
  <2>5. OneOnItsWay'
    <3>1. /\ Len(accountRaw'.todo) = 0 /\ Len(riskState'.todo) = 0 /\ ~SizeOnItsWay'
          /\ risk'.pc # "sending" /\ risk'.pc # "down" /\ hedger'.pc # "down"
      BY <2>1, <2>2 DEF SizeOnItsWay
    <3> QED BY <1>4, <2>4, <3>1, BehindWithin
  <2> QED BY <2>1, <2>2, <2>4, <2>5 DEF Current, SnapshotsGood, SendingGood, MessagesGood, OrderGood
<1>8. CASE HedgerCommits
  <2>1. /\ hedger.pc = "committing" /\ hedger' = [hedger EXCEPT !.pc = "waiting"]
        /\ riskState' = riskState \/ riskState' = Committed(riskState)
        /\ UNCHANGED <<keys, delta, accountRaw, hedgeTrades, risk, aim>>
    BY <1>8 DEF HedgerCommits, world
  <2>2. riskState'.todo = riskState.todo
    BY <1>0, <2>1, TopicCommitted DEF TypeOK
  <2>3. hedger'.pc = "waiting"
    BY <1>0, <2>1 DEF TypeOK
  <2> QED BY <1>0, <1>1, <2>1, <2>2, <2>3 DEF Current, OneOnItsWay, Behind, SnapshotsGood,
            SendingGood, MessagesGood, OrderGood, TradesGood, GoodMessage, GoodSize
<1>9. CASE HedgerDies
  <2>1. /\ riskState.todo # <<>> /\ riskState' = Given(riskState)
        /\ hedger'.pc = "dead"
        /\ UNCHANGED <<keys, delta, accountRaw, hedgeTrades, risk, aim>>
    <3>1. hedger'.pc = "dead"
      BY <1>0, <1>9 DEF HedgerDies, TypeOK
    <3> QED BY <1>9, <3>1 DEF HedgerDies, HedgerGiven, world
  <2>2. /\ Len(riskState.todo) = 1 /\ accountRaw.todo = <<>> /\ hedgeTrades = <<>>
        /\ risk.pc # "sending" /\ risk.pc # "down"
    BY <1>0, <1>1, <2>1, Alone DEF Current
  <2>3. riskState.todo \in Seq(Messages) /\ riskState'.todo = Tail(riskState.todo)
    <3>1. riskState \in Topics(Messages)
      BY <1>0 DEF TypeOK
    <3>2. riskState.todo \in Seq(Messages)
      BY <3>1 DEF Topics
    <3> QED BY <2>1, <3>1, <3>2, TopicGiven
  <2>4. Len(riskState'.todo) = 0
    BY <2>1, <2>2, <2>3
  <2>5. OneOnItsWay'
    <3>1. /\ Len(accountRaw'.todo) = 0 /\ Len(hedgeTrades') = 0 /\ ~SizeOnItsWay'
          /\ risk'.pc # "sending" /\ risk'.pc # "down" /\ hedger'.pc # "down"
      BY <2>1, <2>2 DEF SizeOnItsWay
    <3> QED BY <1>4, <2>4, <3>1, BehindWithin
  <2> QED BY <2>1, <2>2, <2>4, <2>5 DEF Current, SnapshotsGood, SendingGood, MessagesGood,
            OrderGood, TradesGood
<1> QED BY <1>2, <1>3, <1>5, <1>6, <1>7, <1>8, <1>9 DEF HedgerStep

\* ... and the executor.
LEMMA ExecutorCurrent ==
  ASSUME HedgingAssumption, IInv, ExecutorTakes, clean'
  PROVE  Current'
PROOF
<1>1. TypeOK /\ Current /\ clean
  BY DEF IInv, ExecutorTakes
<1>2. /\ hedgeTrades # <<>> /\ hedgeTrades' = Tail(hedgeTrades)
      /\ UNCHANGED <<keys, accountRaw, riskState, risk, hedger, aim>>
  BY DEF ExecutorTakes
<1>3. /\ Len(hedgeTrades) = 1 /\ accountRaw.todo = <<>> /\ riskState.todo = <<>>
      /\ risk.pc # "sending" /\ ~SizeOnItsWay /\ risk.pc # "down" /\ hedger.pc # "down"
  BY <1>1, <1>2, Alone DEF Current
<1>4. Len(hedgeTrades') = 0
  BY <1>1, <1>2, <1>3 DEF TypeOK
<1>5. OneOnItsWay'
  <2>1. /\ Len(accountRaw'.todo) = 0 /\ Len(riskState'.todo) = 0 /\ ~SizeOnItsWay'
        /\ risk'.pc # "sending" /\ risk'.pc # "down" /\ hedger'.pc # "down"
    BY <1>2, <1>3 DEF SizeOnItsWay
  <2>2. 0 \in {0, 1} /\ 0 + 0 + 0 + 0 + 0 <= 1
    OBVIOUS
  <2> QED BY <1>4, <2>1, <2>2, BehindWithin
<1>6. TradesGood'
  BY <1>4 DEF TradesGood
<1>7. OrderGood' /\ SendingGood'
  BY <1>2, <1>3 DEF OrderGood, SendingGood, SizeOnItsWay
<1>8. SnapshotsGood' /\ MessagesGood'
  BY <1>2, <1>3 DEF SnapshotsGood, MessagesGood
<1> QED BY <1>5, <1>6, <1>7, <1>8 DEF Current

-----------------------------------------------------------------------------
\* The invariant holds at every moment.
THEOREM Invariance == ASSUME HedgingAssumption PROVE Spec => []IInv
PROOF
<1>1. Init => Current
  BY DEF Init, EmptyTopic, Current, OneOnItsWay, Behind, SnapshotsGood, SendingGood,
     MessagesGood, OrderGood, TradesGood
<1>2. IInv /\ TypeOK' /\ [Next]_vars => Current'
  <2> SUFFICES ASSUME IInv, [Next]_vars, clean' PROVE Current'
    BY DEF Current, OneOnItsWay, SnapshotsGood, SendingGood, MessagesGood, OrderGood, TradesGood
  <2>1. CASE Move \/ Snapshot \/ FundingReceived
    BY <2>1, WorldCurrent
  <2>2. CASE RiskStep \/ RiskStops
    BY <2>2, RiskCurrent
  <2>3. CASE HedgerStep \/ HedgerStops
    BY <2>3, HedgerCurrent
  <2>4. CASE ExecutorTakes
    BY <2>4, ExecutorCurrent
  <2>5. CASE UNCHANGED vars
    BY <2>5 DEF vars, world, topics, IInv, Current, OneOnItsWay, Behind, SnapshotsGood,
       SendingGood, MessagesGood, OrderGood, TradesGood, GoodMessage, GoodSize
  <2> QED BY <2>1, <2>2, <2>3, <2>4, <2>5 DEF Next
<1>3. Init /\ TypeOK => IInv
  BY <1>1 DEF IInv
<1>4. IInv /\ TypeOK' /\ [Next]_vars => IInv'
  BY <1>2 DEF IInv
<1> QED BY <1>3, <1>4, TypeCorrect, PTL DEF Spec

\* Every order that follows a snapshot taken at rest moves the delta towards the
\* target of the risk state and not beyond, for every target, multiplier and limit,
\* whatever is lost or fails on the way: if one service only places orders.
THEOREM OrdersHitTarget ==
  ASSUME HedgingAssumption, OneOrders PROVE Spec => OrdersApproachTarget
PROOF
<1>1. IInv /\ [Next]_vars => [clean /\ clean' => Towards(delta, delta', aim)]_vars
  <2> SUFFICES ASSUME IInv, Next, clean, clean'
               PROVE  Towards(delta, delta', aim)
    OBVIOUS
  <2>1. TypeOK /\ Current /\ delta \in Int /\ aim \in Int
    BY DEF IInv, TypeOK
  <2>2. ASSUME delta' = delta
        PROVE  Towards(delta, delta', aim)
    BY <2>1, <2>2 DEF Towards
  <2>3. CASE HedgerOrders
    <3>1. hedger.pc = "placing" /\ delta' \in {delta, delta + hedger.size}
      BY <2>3 DEF HedgerOrders
    <3>2. Towards(delta, delta + hedger.size, aim)
      BY <2>1, <3>1 DEF Current, OrderGood, GoodSize
    <3> QED BY <2>2, <3>1, <3>2
  <2>4. CASE ExecutorTakes
    <3>1. /\ hedgeTrades # <<>>
          /\ delta' = delta \/ ("executor" \in keys /\ delta' = delta + Head(hedgeTrades))
      BY <2>4 DEF ExecutorTakes
    <3>2. CASE "executor" \in keys /\ delta' = delta + Head(hedgeTrades)
      <4>1. "hedger" \notin keys
        BY <2>1, <3>2 DEF TypeOK, OneOrders
      <4>2. hedgeTrades \in Seq(Int) /\ Len(hedgeTrades) = 1 /\ Head(hedgeTrades) = hedgeTrades[1]
        BY <2>1, <3>1, Alone DEF Current, TypeOK
      <4>3. GoodSize(hedgeTrades[1])
        BY <2>1, <4>1, <4>2 DEF Current, TradesGood
      <4> QED BY <3>2, <4>2, <4>3 DEF GoodSize
    <3> QED BY <2>2, <3>1, <3>2
  <2>5. CASE Move \/ Snapshot \/ FundingReceived \/ RiskStep \/ RiskStops
    <3>1. delta' = delta
      BY <2>5 DEF Move, Snapshot, FundingReceived, RiskStep, RiskDies, RiskRejects, RiskTakes,
         RiskSends, RiskCommits, RiskStarts, RiskStops, world
    <3> QED BY <2>2, <3>1
  <2>6. CASE HedgerDies \/ HedgerTakes \/ HedgerSends \/ HedgerCommits \/ HedgerStarts \/ HedgerStops
    <3>1. delta' = delta
      BY <2>6 DEF HedgerDies, HedgerTakes, HedgerSends, HedgerCommits, HedgerStarts, HedgerStops, world
    <3> QED BY <2>2, <3>1
  <2> QED BY <2>3, <2>4, <2>5, <2>6 DEF Next, HedgerStep
<1> QED BY <1>1, Invariance, PTL DEF Spec, OrdersApproachTarget

-----------------------------------------------------------------------------
(* What is left to do.                                                     *)

\* The risk state that a snapshot of the account as it is now would become.
Fresh ==
  RiskMessage([delta |-> delta, balance |-> balance, form |-> "AccountData"], funding)

\* Where an order decided by it leads.
FreshAim == IF funding.exit THEN 0 ELSE Target(RiskLevel(balance, funding))

\* Nobody would place an order for it: there is nothing to decide or to close, or
\* the executor alone places orders and refuses this one.
NothingToOrder ==
  \/ ~Decides(Fresh)
  \/ OrderSize(Fresh) = 0
  \/ keys = {"executor"} /\ ~Allowed(OrderSize(Fresh))

LEMMA FreshIs ==
  ASSUME HedgingAssumption, TypeOK
  PROVE  /\ Fresh \in Messages /\ FreshAim \in Int /\ Target(RiskLevel(balance, funding)) \in Int
         /\ Fresh.delta = delta /\ Fresh.funding = funding /\ delta \in Int
         /\ Fresh.hedge = Recommended(delta, Target(RiskLevel(balance, funding)))
PROOF
<1> DEFINE snapshot == [delta |-> delta, balance |-> balance, form |-> "AccountData"]
<1>1. snapshot \in Snapshots /\ funding \in Contexts /\ delta \in Int
  BY DEF TypeOK, Snapshots, MessageForms
<1>2. snapshot.delta = delta /\ snapshot.balance = balance
  OBVIOUS
<1>3. Target(RiskLevel(balance, funding)) \in Int /\ FreshAim \in Int
  BY TargetType DEF FreshAim
<1> HIDE DEF snapshot
<1> QED BY <1>1, <1>2, <1>3, RiskMessageType DEF Fresh, snapshot

\* What is decided without an exit has a size.
LEMMA DecidedHasSize ==
  ASSUME HedgingAssumption, NEW m \in Messages, ~m.funding.exit, Decides(m)
  PROVE  /\ OrderSize(m) # 0 /\ Abs(OrderSize(m)) = Capped(Adjusted(m))
PROOF
<1>1. Adjusted(m) \in Nat /\ Capped(Adjusted(m)) \in Nat /\ Adjusted(m) >= MinOrder
  BY AdjustedWithin DEF Decides
<1>2. MinOrder \in Nat \ {0} /\ MaxOrder \in Nat \ {0}
  BY DEF HedgingAssumption
<1>3. Capped(Adjusted(m)) # 0
  BY <1>1, <1>2 DEF Capped
<1>4. OrderSize(m) \in {Capped(Adjusted(m)), -Capped(Adjusted(m))}
  BY DEF OrderSize
<1> HIDE DEF Capped
<1> QED BY <1>1, <1>3, <1>4 DEF Abs

\* Hedged asks neither more nor less of the services than their code does once they can
\* read their messages: the account is Hedged exactly when nobody would place an order for a
\* snapshot taken now, for all targets, multipliers, limits and contexts.
THEOREM HedgedIsRest == ASSUME HedgingAssumption PROVE Spec => [](Hedged <=> NothingToOrder)
PROOF
<1>1. TypeOK => (Hedged <=> NothingToOrder)
  <2> SUFFICES ASSUME TypeOK PROVE Hedged <=> NothingToOrder
    OBVIOUS
  <2> DEFINE target == Target(RiskLevel(balance, funding))
             left == Abs(target - delta)
             cut == (left * Multiplier(funding)) \div 100
  <2>1. /\ Fresh \in Messages /\ target \in Int /\ delta \in Int
        /\ Fresh.delta = delta /\ Fresh.funding = funding
        /\ Fresh.hedge = Recommended(delta, target)
    BY FreshIs
  <2>2. Hedged <=> \/ left < MinDifference
                   \/ funding.exit /\ delta = 0
                   \/ ~funding.exit /\ cut < MinOrder
                   \/ keys = {"executor"}
                        /\ ~Allowed(IF funding.exit THEN delta ELSE Capped(cut))
    BY DEF Hedged
  <2> HIDE DEF target
  <2>3. left \in Nat /\ MinDifference \in Nat \ {0} /\ MinOrder \in Nat \ {0}
    BY <2>1 DEF Abs, HedgingAssumption
  <2>4. CASE left < MinDifference
    <3>1. Fresh.hedge = 0
      BY <2>1, <2>4 DEF Recommended
    <3> QED BY <2>2, <2>4, <3>1 DEF NothingToOrder, Decides
  <2>5. CASE ~(left < MinDifference)
    <3>1. Fresh.hedge = target - delta
      BY <2>1, <2>5 DEF Recommended
    <3>2. Abs(Fresh.hedge) = left /\ Fresh.hedge # 0
      BY <2>1, <2>3, <2>5, <3>1 DEF Abs
    <3>3. Adjusted(Fresh) = cut
      BY <2>1, <3>2 DEF Adjusted
    <3>4. CASE funding.exit
      <4>1. Decides(Fresh) /\ OrderSize(Fresh) = -delta
        BY <2>1, <3>2, <3>4 DEF Decides, OrderSize
      <4>2. Allowed(-delta) <=> Allowed(delta)
        BY <2>1 DEF Allowed, Abs
      <4>3. -delta = 0 <=> delta = 0
        BY <2>1
      <4> QED BY <2>2, <2>5, <3>4, <4>1, <4>2, <4>3 DEF NothingToOrder
    <3>5. CASE ~funding.exit
      <4>1. Adjusted(Fresh) \in Nat /\ Capped(Adjusted(Fresh)) \in Nat
        BY <2>1, AdjustedWithin
      <4>2. Decides(Fresh) <=> ~(cut < MinOrder)
        BY <2>1, <2>3, <3>2, <3>3, <3>5, <4>1 DEF Decides
      <4>3. CASE cut < MinOrder
        BY <2>2, <3>5, <4>2, <4>3 DEF NothingToOrder
      <4>4. CASE ~(cut < MinOrder)
        <5>1. OrderSize(Fresh) # 0 /\ Abs(OrderSize(Fresh)) = Capped(cut)
          BY <2>1, <3>3, <3>5, <4>2, <4>4, DecidedHasSize
        <5>2. Capped(cut) \in Nat
          BY <3>3, <4>1
        <5>3. Allowed(OrderSize(Fresh)) <=> Allowed(Capped(cut))
          <6>1. Abs(Capped(cut)) = Capped(cut)
            <7> HIDE DEF cut, Capped
            <7> QED BY <5>2 DEF Abs
          <6> QED BY <5>1, <6>1 DEF Allowed
        <5> HIDE DEF cut, left
        <5> QED BY <2>2, <2>5, <3>5, <4>2, <4>4, <5>1, <5>3 DEF NothingToOrder
      <4> QED BY <4>3, <4>4
    <3> QED BY <3>4, <3>5
  <2> QED BY <2>4, <2>5
<1> QED BY <1>1, TypeCorrect, HedgingAssumption, PTL

\* And what is ordered while the account is not hedged gets it nearer: an order
\* decided on a snapshot of the account as it is strictly lessens the distance to
\* the target, or to zero in an emergency.
THEOREM OrderGetsNearer ==
  ASSUME HedgingAssumption
  PROVE  Spec => [](~Hedged =>
                      /\ Decides(Fresh)
                      /\ Abs(FreshAim - (delta + OrderSize(Fresh))) < Abs(FreshAim - delta))
PROOF
<1>1. TypeOK /\ (Hedged <=> NothingToOrder)
        => (~Hedged =>
              /\ Decides(Fresh)
              /\ Abs(FreshAim - (delta + OrderSize(Fresh))) < Abs(FreshAim - delta))
  <2> SUFFICES ASSUME TypeOK, ~NothingToOrder
               PROVE  Abs(FreshAim - (delta + OrderSize(Fresh))) < Abs(FreshAim - delta)
    BY DEF NothingToOrder
  <2>1. /\ Fresh \in Messages /\ FreshAim \in Int /\ delta \in Int
        /\ Fresh.delta = delta /\ Fresh.funding = funding
        /\ Fresh.hedge = Recommended(delta, Target(RiskLevel(balance, funding)))
    BY FreshIs
  <2>2. OrderSize(Fresh) # 0 /\ OrderSize(Fresh) \in Int
    BY <2>1, OrderSizeType DEF NothingToOrder
  <2>3. IF Fresh.funding.exit THEN FreshAim = 0 ELSE Fresh.hedge = Recommended(Fresh.delta, FreshAim)
    BY <2>1 DEF FreshAim
  <2>4. Towards(delta, delta + OrderSize(Fresh), FreshAim)
    BY <2>1, <2>3, OrderTowards
  <2> QED BY <2>1, <2>2, <2>4 DEF Towards, Abs
<1> QED BY <1>1, TypeCorrect, HedgedIsRest, HedgingAssumption, PTL
=============================================================================
