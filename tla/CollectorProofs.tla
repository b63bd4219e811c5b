--------------------------- MODULE CollectorProofs ---------------------------
(***************************************************************************)
(* The types of Collector, and that the positions on account_raw never go  *)
(* back.  Both follow from what is in the producer's buffer: at most one   *)
(* update of each task, in the order of their positions, none older than   *)
(* the topic and none newer than what has been received.  And when stop()  *)
(* leaves no socket open.                                                  *)
(***************************************************************************)
EXTENDS Collector, SequenceTheorems, TLAPS

Update == [from : Publishers, positions : Nat]

\* TypeOK without the buffer: the flags, the places of the tasks and the figures.
Flags ==
  /\ open \in [Sockets -> BOOLEAN]
  /\ running \in BOOLEAN /\ streaming \in BOOLEAN /\ connected \in BOOLEAN
  /\ known \in BOOLEAN
  /\ main \in {"idle", "producer", "up", "failed"}
  /\ stopping \in {"nothing", "public", "private", "http", "kafka", "done"}

Located ==
  /\ at \in [Tasks -> Places]
  /\ at["public"] \in {"off", "connecting", "reading", "backoff", "done"}
  /\ at["private"] \in {"off", "connecting", "auth", "refused", "reading",
                        "collateral", "loan", "send", "backoff", "done"}
  /\ at["poll"] \in {"off", "collateral", "loan", "wallet", "send", "sleep", "done"}
  /\ main # "up" => \A t \in Tasks : at[t] = "off"

Figures ==
  /\ clock \in 1..MaxClock
  /\ delay \in 1..MaxDelay
  /\ positions \in 0..clock /\ account_raw \in Nat

\* The buffer holds updates of exactly the tasks that wait for them.
Buffer ==
  /\ sending \in Seq(Update)
  /\ \A t \in Publishers :
       at[t] = "send" <=> \E i \in DOMAIN sending : sending[i].from = t

OnePerTask ==
  \A i, j \in 1..Len(sending) : sending[i].from = sending[j].from => i = j

InOrder ==
  /\ account_raw <= positions
  /\ \A i \in 1..Len(sending) :
       account_raw <= sending[i].positions /\ sending[i].positions <= positions
  /\ \A i, j \in 1..Len(sending) : i <= j => sending[i].positions <= sending[j].positions

IInv == Flags /\ Located /\ Figures /\ Buffer /\ OnePerTask /\ InOrder

\* TypeOK is part of the invariant.
LEMMA TypesFollow == IInv => TypeOK
BY DEF IInv, Flags, Located, Figures, Buffer, TypeOK, Update

\* A sequence of updates is indexed from one.
LEMMA BufferDomain ==
  ASSUME NEW s \in Seq(Update)
  PROVE  DOMAIN s = 1..Len(s) /\ Len(s) \in Nat
BY LenProperties

\* Every update in the buffer states positions.
LEMMA BufferedPositions ==
  ASSUME IInv
  PROVE  \A i \in 1..Len(sending) : sending[i].positions \in Nat
<1>1. TAKE i \in 1..Len(sending)
<1>2. sending[i] \in Update
  BY ElementOfSeq DEF IInv, Buffer
<1>3. QED
  BY <1>2 DEF Update

\* Nothing about the buffer changes when it stays and no task goes to or from a
\* send.  More positions may have been received.
LEMMA BufferKept ==
  ASSUME IInv, UNCHANGED <<sending, account_raw>>,
         positions' \in Nat, positions <= positions',
         \A t \in Publishers : at'[t] = "send" <=> at[t] = "send"
  PROVE  Buffer' /\ OnePerTask' /\ InOrder'
<1>1. Buffer' /\ OnePerTask'
  BY DEF IInv, Buffer, OnePerTask
<1>2. sending \in Seq(Update) /\ account_raw \in Nat /\ positions \in Nat
  BY DEF IInv, Buffer, Figures
<1>3. \A i \in 1..Len(sending) : sending[i].positions \in Nat
  BY BufferedPositions
<1>4. InOrder'
  BY <1>2, <1>3 DEF IInv, InOrder
<1>5. QED
  BY <1>1, <1>4

\* A task that goes somewhere else leaves the others where they are.
LEMMA OthersStay ==
  ASSUME Located, NEW t \in Tasks, NEW place \in Places, Goes(t, place)
  PROVE  /\ at' \in [Tasks -> Places] /\ at'[t] = place
         /\ \A u \in Tasks : u # t => at'[u] = at[u]
BY DEF Located, Goes

\* The invariant holds initially.
LEMMA InitSound == CollectorAssumption /\ Init => IInv
<1>1. SUFFICES ASSUME CollectorAssumption, Init PROVE IInv
  OBVIOUS
<1>2. sending \in Seq(Update) /\ Len(sending) = 0 /\ DOMAIN sending = {}
  BY <1>1, EmptySeq DEF Init
<1>3. Flags
  BY <1>1 DEF Init, Flags
<1>4. Located
  BY <1>1 DEF Init, Located, Tasks, Sockets, Publishers, Places
<1>5. Figures
  BY <1>1 DEF Init, Figures, CollectorAssumption
<1>6. Buffer
  BY <1>1, <1>2 DEF Init, Buffer, Tasks, Publishers
<1>7. OnePerTask /\ InOrder
  BY <1>1, <1>2 DEF Init, OnePerTask, InOrder
<1>8. QED
  BY <1>3, <1>4, <1>5, <1>6, <1>7 DEF IInv

\* start() and stop() leave the buffer alone.
LEMMA ServiceSound ==
  ASSUME CollectorAssumption, IInv,
         Start \/ ProducerUp \/ ProducerFailed \/ Shutdown \/ Stopping \/ Trade
  PROVE  IInv'
<1> USE DEF service, account, kafka
<1>1. UNCHANGED <<sending, account_raw, positions, delay>>
  BY DEF Start, ProducerUp, ProducerFailed, Shutdown, Stopping, StopSocket,
         StopHttp, StopProducer, Trade
<1>2. Located' /\ \A t \in Publishers : at'[t] = "send" <=> at[t] = "send"
  <2>1. CASE ProducerUp
    <3>1. at' = [public |-> "connecting",
                 private |-> IF Credentials THEN "connecting" ELSE "done",
                 poll |-> IF running THEN "collateral" ELSE "done"]
          /\ main' = "up" /\ \A t \in Tasks : at[t] = "off"
      BY <2>1 DEF IInv, Located, ProducerUp
    <3>2. at' \in [Tasks -> Places]
      BY <3>1 DEF Tasks, Sockets, Publishers, Places
    <3>3. QED
      BY <3>1, <3>2 DEF Located, Tasks, Sockets, Publishers
  <2>2. CASE ~ProducerUp
    BY <2>2 DEF IInv, Located, Start, ProducerFailed, Shutdown, Stopping, StopSocket,
                StopHttp, StopProducer, Trade
  <2>3. QED
    BY <2>1, <2>2
<1>3. Flags'
  <2>1. CASE Start \/ ProducerUp
    BY <2>1 DEF IInv, Flags, Start, ProducerUp
  <2>2. CASE ProducerFailed \/ Shutdown
    BY <2>2 DEF IInv, Flags, ProducerFailed, Shutdown, Stops
  <2>3. CASE Stopping
    <3>1. open' \in [Sockets -> BOOLEAN]
      BY <2>3 DEF IInv, Flags, Stopping, StopSocket, StopHttp, StopProducer
    <3>2. stopping' \in {"private", "http", "kafka", "done"}
      <4>1. NextStop["public"] = "private" /\ NextStop["private"] = "http"
        BY DEF NextStop
      <4>2. QED
        BY <2>3, <4>1 DEF Stopping, StopSocket, StopHttp, StopProducer, Sockets
    <3>3. connected' \in BOOLEAN
      BY <2>3 DEF IInv, Flags, Stopping, StopSocket, StopHttp, StopProducer
    <3>4. QED
      BY <2>3, <3>1, <3>2, <3>3 DEF IInv, Flags, Stopping, StopSocket, StopHttp,
                                    StopProducer
  <2>4. CASE Trade
    BY <2>4 DEF IInv, Flags, Trade
  <2>5. QED
    BY <2>1, <2>2, <2>3, <2>4
<1>4. Figures'
  <2>1. clock' = clock \/ (clock < MaxClock /\ clock' = clock + 1)
    BY DEF Start, ProducerUp, ProducerFailed, Shutdown, Stopping, StopSocket, StopHttp,
           StopProducer, Trade
  <2>2. QED
    BY <1>1, <2>1 DEF IInv, Figures, CollectorAssumption
<1>5. Buffer' /\ OnePerTask' /\ InOrder'
  BY <1>1, <1>2, BufferKept DEF IInv, Figures
<1>6. QED
  BY <1>2, <1>3, <1>4, <1>5 DEF IInv

\* The sockets come and go without a send.
LEMMA ConnectionsSound ==
  ASSUME CollectorAssumption, IInv, NEW s \in Sockets, Connecting(s) \/ Drop(s)
  PROVE  IInv'
<1> USE DEF service, account, kafka
<1>1. UNCHANGED <<clock, running, streaming, connected, main, stopping, positions, known,
                  sending, account_raw>>
  BY DEF Connecting, Drop, Connected, ConnectFailed, ConnectionLost, Reconnect,
         Authenticated, Refused, RetryRefused
<1>2. Flags'
  BY <1>1, ZenonT(30) DEF IInv, Flags, Connecting, Drop, Connected, ConnectFailed, ConnectionLost,
              Reconnect, Authenticated, Refused, RetryRefused, Sockets
<1>3. Figures'
  <2>1. DoubledDelay \in 1..MaxDelay /\ 1 \in 1..MaxDelay
    BY DEF IInv, Figures, DoubledDelay, CollectorAssumption
  <2>2. delay' \in {1, delay, DoubledDelay}
    BY DEF Connecting, Drop, Connected, ConnectFailed, ConnectionLost, Reconnect,
           Authenticated, Refused, RetryRefused
  <2>3. QED
    BY <1>1, <2>1, <2>2 DEF IInv, Figures
<1>4. Located' /\ \A t \in Publishers : at'[t] = "send" <=> at[t] = "send"
  <2>1. CASE Drop(s)
    BY <1>1, <2>1 DEF IInv, Located, Drop
  <2>2. CASE Connecting(s)
    <3>1. PICK place \in {"connecting", "reading", "auth", "refused", "backoff", "done"} :
            Goes(s, place) /\ (s = "public" => place \notin {"auth", "refused"})
      BY <2>2 DEF Connecting, Connected, ConnectFailed, ConnectionLost, Reconnect,
                  Authenticated, Refused, RetryRefused, AfterConnection, Sockets
    <3>2. at[s] \notin {"off", "send"}
      BY <2>2 DEF Connecting, Connected, ConnectFailed, ConnectionLost, Reconnect,
                  Authenticated, Refused, RetryRefused
    <3>3. /\ at' \in [Tasks -> Places] /\ at'[s] = place
          /\ \A u \in Tasks : u # s => at'[u] = at[u]
      BY <3>1, OthersStay DEF IInv, Tasks, Places
    <3>4. main' = "up"
      BY <1>1, <3>2 DEF IInv, Located, Flags, Tasks
    <3>5. QED
      BY <3>1, <3>2, <3>3, <3>4 DEF IInv, Located, Tasks, Sockets, Publishers
  <2>3. QED
    BY <2>1, <2>2
<1>5. Buffer' /\ OnePerTask' /\ InOrder'
  BY <1>1, <1>4, BufferKept DEF IInv, Figures
<1>6. QED
  BY <1>2, <1>3, <1>4, <1>5 DEF IInv

\* A message may bring newer positions; the update that it triggers is not sent yet.
LEMMA MessagesSound ==
  ASSUME IInv, PositionMessage \/ WalletMessage
  PROVE  IInv'
<1> USE DEF service, account, kafka
<1>1. UNCHANGED <<clock, open, running, streaming, connected, main, stopping, delay,
                  sending, account_raw>>
  BY DEF PositionMessage, WalletMessage
<1>2. Flags'
  BY <1>1 DEF IInv, Flags, PositionMessage, WalletMessage
<1>3. positions' \in 0..clock /\ positions <= positions' /\ positions \in Nat
  BY DEF IInv, Figures, PositionMessage, WalletMessage
<1>4. Located' /\ \A t \in Publishers : at'[t] = "send" <=> at[t] = "send"
  <2>1. CASE PositionMessage
    <3>1. Goes("private", "collateral") /\ at["private"] = "reading"
      BY <2>1 DEF PositionMessage, Reads
    <3>2. /\ at' \in [Tasks -> Places] /\ at'["private"] = "collateral"
          /\ \A u \in Tasks : u # "private" => at'[u] = at[u]
      BY <3>1, OthersStay DEF IInv, Tasks, Sockets, Places
    <3>3. QED
      BY <1>1, <3>1, <3>2 DEF IInv, Located, Tasks, Sockets, Publishers
  <2>2. CASE WalletMessage
    BY <1>1, <2>2 DEF IInv, Located, WalletMessage
  <2>3. QED
    BY <2>1, <2>2
<1>5. Figures'
  BY <1>1, <1>3 DEF IInv, Figures
<1>6. Buffer' /\ OnePerTask' /\ InOrder'
  BY <1>1, <1>3, <1>4, BufferKept DEF Figures
<1>7. QED
  BY <1>2, <1>4, <1>5, <1>6 DEF IInv

\* What is put into the buffer is of a task that has nothing there, and none of
\* the positions there are newer.
LEMMA SendSound ==
  ASSUME IInv, NEW t \in Publishers, Send(t), connected, at[t] # "send",
         UNCHANGED <<account_raw, positions>>
  PROVE  /\ Buffer' /\ OnePerTask' /\ InOrder'
         /\ Goes(t, "send")
<1> DEFINE update == [from |-> t, positions |-> positions]
<1>1. sending' = Append(sending, update) /\ Goes(t, "send")
  BY DEF Send
<1>2. /\ sending \in Seq(Update) /\ update \in Update
      /\ positions \in Nat /\ account_raw \in Nat
  BY DEF IInv, Buffer, Figures, Update
<1>3. Len(sending) \in Nat /\ DOMAIN sending = 1..Len(sending)
  BY <1>2, BufferDomain
<1>4. /\ sending' \in Seq(Update) /\ Len(sending') = Len(sending) + 1
      /\ \A i \in 1..Len(sending) : sending'[i] = sending[i]
      /\ sending'[Len(sending) + 1] = update
  BY <1>1, <1>2, AppendProperties
<1>5. DOMAIN sending' = 1..Len(sending) + 1
  BY <1>3, <1>4, BufferDomain
<1>6. \A i \in 1..Len(sending) : sending[i].from # t
  BY <1>3 DEF IInv, Buffer
<1>7. update.from = t /\ update.positions = positions
  OBVIOUS
<1> HIDE DEF update
<1>8. Buffer'
  <2>1. /\ at'[t] = "send"
        /\ \A u \in Publishers : u # t => at'[u] = at[u]
    BY <1>1, OthersStay DEF IInv, Tasks, Places
  <2>2. ASSUME NEW u \in Publishers
        PROVE  at'[u] = "send" <=> \E i \in DOMAIN sending' : sending'[i].from = u
    <3>1. CASE u = t
      BY <1>3, <1>4, <1>5, <1>7, <2>1, <3>1
    <3>2. CASE u # t
      <4>1. at'[u] = "send" <=> \E i \in 1..Len(sending) : sending[i].from = u
        BY <1>3, <2>1, <3>2 DEF IInv, Buffer
      <4>2. (\E i \in 1..Len(sending) : sending[i].from = u)
              <=> \E i \in 1..Len(sending) + 1 : sending'[i].from = u
        BY <1>3, <1>4, <1>7, <3>2
      <4>3. QED
        BY <1>5, <4>1, <4>2
    <3>3. QED
      BY <3>1, <3>2
  <2>3. QED
    BY <1>4, <2>2 DEF Buffer
<1>9. OnePerTask'
  BY <1>3, <1>4, <1>6, <1>7 DEF IInv, OnePerTask
<1>10. InOrder'
  <2>1. \A i \in 1..Len(sending) : sending[i].positions \in Nat
    BY BufferedPositions
  <2>2. QED
    BY <1>2, <1>3, <1>4, <1>7, <2>1 DEF IInv, InOrder
<1>11. QED
  BY <1>1, <1>8, <1>9, <1>10

\* The first update leaves the buffer, delivered or given up.
LEMMA FirstGone ==
  ASSUME IInv, Delivered \/ SendRefused
  PROVE  IInv' /\ account_raw' >= account_raw
<1> USE DEF service, account, kafka
<1> DEFINE t == Head(sending).from
           place == AfterUpdate(t)
<1>1. /\ sending # <<>> /\ sending' = Tail(sending) /\ Goes(t, place)
      /\ account_raw' \in {account_raw, Head(sending).positions}
      /\ UNCHANGED <<clock, open, running, streaming, connected, main, stopping, delay,
                     positions, known>>
  BY DEF Delivered, SendRefused, WithoutRefused
<1>2. sending \in Seq(Update) /\ positions \in Nat /\ account_raw \in Nat
  BY DEF IInv, Buffer, Figures
<1>3. Len(sending) \in Nat /\ Len(sending) >= 1 /\ DOMAIN sending = 1..Len(sending)
  BY <1>1, <1>2, BufferDomain, EmptySeq
<1>4. Head(sending) = sending[1] /\ Head(sending) \in Update
  BY <1>1, <1>2, <1>3, HeadTailProperties
<1>5. /\ sending' \in Seq(Update) /\ Len(sending') = Len(sending) - 1
      /\ \A i \in 1..Len(sending) - 1 : sending'[i] = sending[i + 1]
  BY <1>1, <1>2, HeadTailProperties
<1>6. DOMAIN sending' = 1..Len(sending) - 1
  BY <1>5, BufferDomain
<1>7. t \in Publishers /\ place \in {"sleep", "reading"} /\ (t = "poll" <=> place = "sleep")
  BY <1>4 DEF Update, AfterUpdate
<1>8. /\ at' \in [Tasks -> Places] /\ at'[t] = place
      /\ \A u \in Tasks : u # t => at'[u] = at[u]
  BY <1>1, <1>7, OthersStay DEF IInv, Tasks, Places
<1>9. at[t] = "send"
  BY <1>3, <1>4, <1>7 DEF IInv, Buffer
<1> HIDE DEF t, place
<1>10. \A i \in 1..Len(sending) : sending[i].positions \in Nat
  BY BufferedPositions
<1>11. account_raw <= account_raw' /\ account_raw' <= positions /\ account_raw' \in Nat
  BY <1>1, <1>2, <1>3, <1>4, <1>10 DEF IInv, InOrder
<1>12. Flags' /\ Figures'
  BY <1>1, <1>11 DEF IInv, Flags, Figures
<1>13. Located'
  <2>1. main' = "up"
    BY <1>1, <1>7, <1>9 DEF IInv, Located, Tasks
  <2>2. QED
    BY <1>7, <1>8, <2>1 DEF IInv, Located, Tasks, Sockets, Publishers
<1>14. \A i \in 1..Len(sending) - 1 : sending'[i].from # t
  BY <1>3, <1>4, <1>5 DEF IInv, OnePerTask, t
<1>15. Buffer'
  <2>1. ASSUME NEW u \in Publishers
        PROVE  at'[u] = "send" <=> \E i \in DOMAIN sending' : sending'[i].from = u
    <3>1. CASE u = t
      BY <1>6, <1>7, <1>8, <1>14, <3>1
    <3>2. CASE u # t
      <4>1. at'[u] = "send" <=> \E i \in 1..Len(sending) : sending[i].from = u
        BY <1>3, <1>8, <3>2 DEF IInv, Buffer, Tasks
      <4>2. ASSUME NEW i \in 1..Len(sending), sending[i].from = u
            PROVE  \E j \in 1..Len(sending) - 1 : sending'[j].from = u
        <5>1. i # 1
          BY <1>4, <3>2, <4>2 DEF t
        <5>2. i - 1 \in 1..Len(sending) - 1 /\ sending'[i - 1] = sending[i]
          BY <1>3, <1>5, <5>1
        <5>3. QED
          BY <4>2, <5>2
      <4>3. ASSUME NEW j \in 1..Len(sending) - 1, sending'[j].from = u
            PROVE  \E i \in 1..Len(sending) : sending[i].from = u
        BY <1>3, <1>5, <4>3
      <4>4. QED
        BY <1>6, <4>1, <4>2, <4>3
    <3>3. QED
      BY <3>1, <3>2
  <2>2. QED
    BY <1>5, <2>1 DEF Buffer
<1>16. OnePerTask'
  BY <1>3, <1>5 DEF IInv, OnePerTask
<1>17. InOrder'
  <2>1. \A i \in 1..Len(sending) - 1 :
          account_raw' <= sending'[i].positions /\ sending'[i].positions <= positions'
    BY <1>1, <1>2, <1>3, <1>4, <1>5, <1>10 DEF IInv, InOrder
  <2>2. \A i, j \in 1..Len(sending) - 1 :
          i <= j => sending'[i].positions <= sending'[j].positions
    BY <1>3, <1>5 DEF IInv, InOrder
  <2>3. QED
    BY <1>1, <1>5, <1>11, <2>1, <2>2 DEF InOrder
<1>18. QED
  BY <1>2, <1>11, <1>12, <1>13, <1>15, <1>16, <1>17 DEF IInv

\* Requests end in a send or in an update that is given up.
LEMMA RequestsSound ==
  ASSUME IInv, NEW t \in Publishers, Requests(t)
  PROVE  IInv'
<1> USE DEF service, account, kafka
<1>1. /\ UNCHANGED <<clock, open, running, streaming, connected, main, stopping, delay,
                     positions, account_raw>>
      /\ at[t] \in {"collateral", "loan", "wallet", "sleep"}
      /\ at[t] \in {"wallet", "sleep"} => t = "poll"
  BY DEF Requests, CollateralRead, CollateralFailed, LoanRead, WalletRead, PollAgain
<1>2. known' \in BOOLEAN
  BY DEF IInv, Flags, Requests, CollateralRead, CollateralFailed, LoanRead, WalletRead,
         PollAgain
<1>3. Flags' /\ Figures'
  BY <1>1, <1>2 DEF IInv, Flags, Figures
<1>4. main' = "up"
  BY <1>1 DEF IInv, Located, Tasks
<1>5. PICK place \in {"collateral", "loan", "wallet", "send", "sleep", "reading", "done"} :
        /\ Goes(t, place)
        /\ t = "private" => place \in {"loan", "send", "reading"}
        /\ t = "poll" => place # "reading"
        /\ place = "send" => Send(t) /\ connected
        /\ place # "send" => UNCHANGED sending
  BY DEF Requests, CollateralRead, CollateralFailed, LoanRead, WalletRead, PollAgain,
         Send, AfterUpdate, Publishers
<1>6. /\ at' \in [Tasks -> Places] /\ at'[t] = place
      /\ \A u \in Tasks : u # t => at'[u] = at[u]
  BY <1>5, OthersStay DEF IInv, Tasks, Places
<1>7. Located'
  BY <1>4, <1>5, <1>6 DEF IInv, Located, Tasks, Sockets, Publishers
<1>8. Buffer' /\ OnePerTask' /\ InOrder'
  <2>1. CASE place = "send"
    BY <1>1, <1>5, <2>1, SendSound
  <2>2. CASE place # "send"
    <3>1. \A u \in Publishers : at'[u] = "send" <=> at[u] = "send"
      BY <1>1, <1>6, <2>2 DEF Tasks
    <3>2. positions \in Nat
      BY DEF IInv, Figures
    <3>3. QED
      BY <1>1, <1>5, <2>2, <3>1, <3>2, BufferKept
  <2>3. QED
    BY <2>1, <2>2
<1>9. QED
  BY <1>3, <1>7, <1>8 DEF IInv

\* Every step preserves the invariant.
LEMMA StepSound ==
  ASSUME CollectorAssumption, IInv, [Next]_vars
  PROVE  IInv' /\ account_raw' >= account_raw
<1>1. account_raw \in Nat
  BY DEF IInv, Figures
<1>2. CASE Start \/ ProducerUp \/ ProducerFailed \/ Shutdown \/ Stopping \/ Trade
  <2>1. account_raw' = account_raw
    BY <1>2 DEF Start, ProducerUp, ProducerFailed, Shutdown, Stopping, StopSocket,
                StopHttp, StopProducer, Trade, kafka
  <2>2. QED
    BY <1>1, <1>2, <2>1, ServiceSound
<1>3. CASE \E s \in Sockets : Connecting(s) \/ Drop(s)
  <2>1. account_raw' = account_raw
    BY <1>3 DEF Connecting, Drop, Connected, ConnectFailed, ConnectionLost, Reconnect,
                Authenticated, Refused, RetryRefused, kafka
  <2>2. QED
    BY <1>1, <1>3, <2>1, ConnectionsSound
<1>4. CASE PositionMessage \/ WalletMessage
  <2>1. account_raw' = account_raw
    BY <1>4 DEF PositionMessage, WalletMessage, kafka
  <2>2. QED
    BY <1>1, <1>4, <2>1, MessagesSound
<1>5. CASE \E t \in Publishers : Requests(t)
  <2>1. account_raw' = account_raw
    BY <1>5 DEF Requests, CollateralRead, CollateralFailed, LoanRead, WalletRead,
                PollAgain, kafka
  <2>2. QED
    BY <1>1, <1>5, <2>1, RequestsSound
<1>6. CASE Delivered \/ SendRefused
  BY <1>6, FirstGone
<1>7. CASE UNCHANGED vars
  <2>1. IInv'
    BY <1>7 DEF vars, IInv, Flags, Located, Figures, Buffer, OnePerTask, InOrder
  <2>2. QED
    BY <1>1, <1>7, <2>1 DEF vars
<1>8. QED
  BY <1>2, <1>3, <1>4, <1>5, <1>6, <1>7 DEF Next

\* The buffer and the types are as described in every reachable state.
THEOREM Invariant == Spec => []IInv
<1>1. CollectorAssumption
  BY CollectorAssumption
<1>2. Init => IInv
  BY <1>1, InitSound
<1>3. IInv /\ [Next]_vars => IInv'
  BY <1>1, StepSound
<1>4. QED
  BY <1>2, <1>3, PTL DEF Spec

\* Every variable keeps its type, and the buffer holds an update of exactly the
\* tasks that wait for one (kafka_producer.py, publish_account_update).
THEOREM TypeCorrect == Spec => []TypeOK
<1>1. IInv => TypeOK
  BY TypesFollow
<1>2. QED
  BY <1>1, Invariant, PTL

\* The positions on account_raw never go back (main.py, _poll_account_data and
\* _send_account_update), for any number of versions and any limit of the delay.
THEOREM PositionsKeepTheirOrder == Spec => PositionsNeverGoBack
<1>1. CollectorAssumption
  BY CollectorAssumption
<1>2. IInv /\ [Next]_vars => [account_raw' >= account_raw]_vars
  BY <1>1, StepSound
<1>3. QED
  BY <1>2, Invariant, PTL DEF Spec, PositionsNeverGoBack

-----------------------------------------------------------------------------
(* When stop() closes the sockets for good.                                *)

\* stop() begins when the collector is up and no connection is being opened.
StopBegun ==
  /\ stopping = "public" /\ main = "up" /\ ~streaming
  /\ \A s \in Sockets : at[s] # "connecting"

\* From then on no task connects, and the sockets are closed one after the other.
Ending ==
  /\ stopping # "nothing" /\ main = "up" /\ ~streaming
  /\ \A s \in Sockets : at[s] # "connecting"
  /\ stopping \in {"private", "http", "kafka", "done"} => ~open["public"]
  /\ stopping \in {"http", "kafka", "done"} => ~open["private"]

\* A task that goes elsewhere than to a connection.
LEMMA NoneConnects ==
  ASSUME IInv, Ending, NEW t \in Tasks, NEW place, place # "connecting", Goes(t, place)
  PROVE  \A s \in Sockets : at'[s] # "connecting"
<1>1. at \in [Tasks -> Places]
  BY DEF IInv, Located
<1>2. QED
  BY <1>1 DEF Goes, Ending, Tasks

LEMMA EndingStep ==
  ASSUME IInv, Ending, [Next]_vars
  PROVE  Ending'
<1>0. open \in [Sockets -> BOOLEAN] /\ at \in [Tasks -> Places]
  BY DEF IInv, Flags, Located
<1>1. ASSUME UNCHANGED service,
             \A s \in Sockets : at'[s] # "connecting",
             \A s \in Sockets : open'[s] => open[s]
      PROVE  Ending'
  BY <1>1 DEF Ending, service, Sockets
<1>2. ~Start /\ ~ProducerUp /\ ~ProducerFailed /\ ~Shutdown
  BY DEF Start, ProducerUp, ProducerFailed, Shutdown, Ending
<1>3. CASE Stopping
  <2>1. UNCHANGED <<main, streaming, at>>
    BY <1>3 DEF Stopping, StopSocket, StopHttp, StopProducer
  <2>2. ASSUME NEW s \in Sockets, StopSocket(s)
        PROVE  Ending'
    <3>1. stopping = s /\ stopping' = NextStop[s]
          /\ open' = [open EXCEPT ![s] = @ /\ ~Closes(s)]
      BY <2>2 DEF StopSocket
    <3>2. ~open'[s] /\ \A other \in Sockets : other # s => open'[other] = open[other]
      BY <1>0, <3>1 DEF Closes
    <3>3. CASE s = "public"
      BY <2>1, <3>1, <3>2, <3>3 DEF Ending, NextStop, Sockets
    <3>4. CASE s = "private"
      BY <2>1, <3>1, <3>2, <3>4 DEF Ending, NextStop, Sockets
    <3>5. QED
      BY <3>3, <3>4 DEF Sockets
  <2>3. CASE StopHttp \/ StopProducer
    <3>1. UNCHANGED open /\ stopping \in {"http", "kafka"} /\ stopping' \in {"kafka", "done"}
      BY <2>3 DEF StopHttp, StopProducer
    <3>2. QED
      BY <2>1, <3>1 DEF Ending
  <2>4. QED
    BY <1>3, <2>2, <2>3 DEF Stopping
<1>4. ASSUME NEW s \in Sockets, Connecting(s)
      PROVE  Ending'
  <2>1. s \in Tasks /\ ~Connected(s) /\ ~streaming
    BY DEF Connected, Ending, Tasks
  <2>2. UNCHANGED service
    BY <1>4, <2>1 DEF Connecting, ConnectFailed, ConnectionLost, Reconnect,
                      Authenticated, Refused, RetryRefused
  <2>3. \E place \in {"reading", "refused", "done"} : Goes(s, place)
    BY <1>4, <2>1 DEF Connecting, ConnectFailed, ConnectionLost, Reconnect,
                      Authenticated, Refused, RetryRefused, AfterConnection
  <2>4. \A other \in Sockets : at'[other] # "connecting"
    BY <2>1, <2>3, NoneConnects
  <2>5. UNCHANGED open \/ open' = [open EXCEPT !["private"] = FALSE]
    BY <1>4, <2>1 DEF Connecting, ConnectFailed, ConnectionLost, Reconnect,
                      Authenticated, Refused, RetryRefused
  <2>6. \A other \in Sockets : open'[other] => open[other]
    BY <1>0, <2>5
  <2>7. QED
    BY <1>1, <2>2, <2>4, <2>6
<1>5. ASSUME NEW s \in Sockets, Drop(s)
      PROVE  Ending'
  <2>1. UNCHANGED <<service, at>> /\ open' = [open EXCEPT ![s] = FALSE]
    BY <1>5 DEF Drop
  <2>2. \A other \in Sockets : open'[other] => open[other]
    BY <1>0, <2>1
  <2>3. QED
    BY <1>1, <2>1, <2>2 DEF Ending
<1>6. CASE \/ PositionMessage \/ WalletMessage \/ Delivered \/ SendRefused
           \/ \E t \in Publishers : Requests(t)
  <2>1. UNCHANGED <<service, open>>
    BY <1>6 DEF PositionMessage, WalletMessage, Delivered, SendRefused, Requests,
                CollateralRead, CollateralFailed, LoanRead, WalletRead, PollAgain
  <2>2. ASSUME NEW t \in Tasks,
               \E place \in {"collateral", "loan", "wallet", "send", "sleep",
                             "reading", "done"} : Goes(t, place)
        PROVE  \A s \in Sockets : at'[s] # "connecting"
    BY <2>2, NoneConnects
  <2>3. CASE PositionMessage
    <3>1. Goes("private", "collateral") /\ "private" \in Tasks
      BY <2>3 DEF PositionMessage, Tasks, Sockets
    <3>2. QED
      BY <1>1, <2>1, <2>2, <3>1
  <2>4. CASE WalletMessage
    BY <1>1, <2>1, <2>4 DEF WalletMessage, Ending
  <2>5. CASE Delivered \/ SendRefused
    <3>1. Head(sending).from \in Publishers
      <4>1. sending \in Seq(Update) /\ sending # <<>>
        BY <2>5 DEF Delivered, SendRefused, IInv, Buffer
      <4>2. Head(sending) \in Update
        BY <4>1
      <4>3. QED
        BY <4>2 DEF Update
    <3>2. Goes(Head(sending).from, AfterUpdate(Head(sending).from))
      BY <2>5 DEF Delivered, SendRefused
    <3>3. \A s \in Sockets : at'[s] # "connecting"
      BY <2>2, <3>1, <3>2 DEF AfterUpdate, Tasks
    <3>4. QED
      BY <1>1, <2>1, <3>3
  <2>6. ASSUME NEW t \in Publishers, Requests(t)
        PROVE  \A s \in Sockets : at'[s] # "connecting"
    <3>1. \E u \in {t, "poll"}, place \in {"collateral", "loan", "wallet", "send",
                                           "sleep", "reading", "done"} : Goes(u, place)
      BY <2>6 DEF Requests, CollateralRead, CollateralFailed, LoanRead, WalletRead,
                  PollAgain, Send, AfterUpdate
    <3>2. QED
      BY <2>2, <3>1 DEF Tasks, Publishers
  <2>7. QED
    BY <1>1, <1>6, <2>1, <2>3, <2>4, <2>5, <2>6
<1>7. CASE Trade \/ UNCHANGED vars
  BY <1>1, <1>7 DEF Trade, vars, service, Ending
<1>8. QED
  BY <1>2, <1>3, <1>4, <1>5, <1>6, <1>7 DEF Next

\* Once stop() has begun while the collector is up and opens no connection, no
\* socket is open when it is through, and none is opened afterwards: whatever the
\* tasks still do, the connections that are lost meanwhile are not made again
\* (websocket_client.py, stop).  StoppedIsClosed fails in the two cases left out.
THEOREM StopClosesSockets == Spec => [](StopBegun => []StoppedIsClosed)
<1>1. StopBegun => Ending
  BY DEF StopBegun, Ending
<1>2. IInv /\ Ending /\ [Next]_vars => Ending'
  BY EndingStep
<1>3. Ending => StoppedIsClosed
  BY DEF Ending, StoppedIsClosed, Sockets
<1>4. QED
  BY <1>1, <1>2, <1>3, Invariant, PTL DEF Spec

=============================================================================
