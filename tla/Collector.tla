------------------------------ MODULE Collector ------------------------------
(***************************************************************************)
(* The collector (src/hedgelock/collector): two websockets and a polling   *)
(* task that turn what the exchange tells into account updates on          *)
(* account_raw.  Everything runs in one event loop, so tasks interleave    *)
(* only where they wait.                                                   *)
(*                                                                         *)
(*   CollectorService.start      Start, ProducerUp, ProducerFailed         *)
(*   CollectorService.stop       Shutdown and the Stop... actions          *)
(*   _connect_public, _private   Connected ... Reconnect, for each socket  *)
(*   _handle_private_message     PositionMessage, WalletMessage            *)
(*   _poll_account_data and      CollateralRead ... SendRefused, PollAgain *)
(*   _send_account_update                                                  *)
(*                                                                         *)
(* A version of the account stands for its positions and figures.  Market  *)
(* data, order updates and funding rates, which are passed on and change   *)
(* nothing here, pings and statistics are left out.                        *)
(***************************************************************************)
EXTENDS Integers, Sequences

CONSTANTS
  Credentials,  \* are an API key and secret configured
  MaxDelay,     \* max_reconnect_delay
  MaxClock      \* bound: versions of the account

ASSUME CollectorAssumption ==
  Credentials \in BOOLEAN /\ {MaxDelay, MaxClock} \subseteq Nat \ {0}

VARIABLES
  clock,        \* exchange: the current version of the account
  open,         \* exchange: which sockets are open
  running,      \* CollectorService.is_running
  streaming,    \* BybitWebSocketClient.is_running
  connected,    \* KafkaMessageProducer._is_connected
  main,         \* where start() is
  stopping,     \* what stop() stops next
  at,           \* where the tasks are
  delay,        \* reconnect_delay, of both sockets
  positions,    \* current_positions: a version, 0 when there are none yet
  known,        \* is there anything in current_balances
  sending,      \* the producer's buffer: account updates that are waited for
  account_raw   \* the version of the positions in the last message of the topic

service == <<running, streaming, connected, main, stopping>>
account == <<positions, known>>
kafka == <<sending, account_raw>>
vars == <<clock, open, running, streaming, connected, main, stopping, at, delay,
          positions, known, sending, account_raw>>

Sockets == {"public", "private"}

\* The tasks that send account updates.
Publishers == {"poll", "private"}

Tasks == Sockets \cup Publishers

\* Where a task may be: it connects, reads messages, waits for a request or a send,
\* or sleeps.
Places ==
  {"off", "connecting", "auth", "refused", "reading", "backoff",
   "collateral", "loan", "wallet", "send", "sleep", "done"}

Init ==
  /\ clock = 1
  /\ open = [s \in Sockets |-> FALSE]
  /\ running = FALSE /\ streaming = FALSE /\ connected = FALSE
  /\ main = "idle" /\ stopping = "nothing"
  /\ at = [t \in Tasks |-> "off"]
  /\ delay = 1
  /\ positions = 0 /\ known = FALSE
  /\ sending = <<>> /\ account_raw = 0

Goes(t, place) == at' = [at EXCEPT ![t] = place]

-----------------------------------------------------------------------------
(* CollectorService.start and stop.                                        *)

Start ==
  /\ main = "idle" /\ main' = "producer"
  /\ running' = TRUE
  /\ UNCHANGED <<clock, open, streaming, connected, stopping, at, delay, account, kafka>>

\* The tasks begin.  The websocket client sets its own is_running, also when
\* stop() has come in between.
ProducerUp ==
  /\ main = "producer" /\ main' = "up"
  /\ connected' = TRUE /\ streaming' = TRUE
  /\ at' = [public |-> "connecting",
            private |-> IF Credentials THEN "connecting" ELSE "done",
            poll |-> IF running THEN "collateral" ELSE "done"]
  /\ UNCHANGED <<clock, open, running, stopping, delay, account, kafka>>

\* stop() up to its first await.
Stops ==
  /\ running' = FALSE /\ streaming' = FALSE
  /\ stopping' = IF stopping = "nothing" THEN "public" ELSE stopping

ProducerFailed ==
  /\ main = "producer" /\ main' = "failed"
  /\ connected' = FALSE /\ Stops
  /\ UNCHANGED <<clock, open, at, delay, account, kafka>>

Shutdown ==
  /\ main # "idle" /\ stopping = "nothing"
  /\ Stops
  /\ UNCHANGED <<clock, open, connected, main, at, delay, account, kafka>>

NextStop == [public |-> "private", private |-> "http"]

\* Mutant: only the public socket is closed.
ClosesPublic(s) == s = "public"

\* A socket that is open is closed.
Closes(s) == open[s]

StopSocket(s) ==
  /\ stopping = s /\ stopping' = NextStop[s]
  /\ open' = [open EXCEPT ![s] = @ /\ ~Closes(s)]
  /\ UNCHANGED <<clock, running, streaming, connected, main, at, delay, account, kafka>>

StopHttp ==
  /\ stopping = "http" /\ stopping' = "kafka"
  /\ UNCHANGED <<clock, open, running, streaming, connected, main, at, delay, account, kafka>>

\* A stop of the producer that raises leaves _is_connected as it was.
StopProducer ==
  /\ stopping = "kafka" /\ stopping' = "done"
  /\ connected' \in {FALSE, connected}
  /\ UNCHANGED <<clock, open, running, streaming, main, at, delay, account, kafka>>

Stopping == (\E s \in Sockets : StopSocket(s)) \/ StopHttp \/ StopProducer

-----------------------------------------------------------------------------
(* The connections.                                                        *)

\* The public socket begins to read, the private one to authenticate.
Connected(s) ==
  /\ at[s] = "connecting" /\ open' = [open EXCEPT ![s] = TRUE]
  /\ Goes(s, IF s = "public" THEN "reading" ELSE "auth")
  /\ delay' = IF s = "public" THEN 1 ELSE delay
  /\ UNCHANGED <<clock, service, account, kafka>>

\* Mutant: the task ends with its connection.
AfterConnectionDead == "done"

\* Where a task goes when its connection is gone.
AfterConnection == IF streaming THEN "backoff" ELSE "done"

ConnectFailed(s) ==
  /\ at[s] = "connecting" /\ Goes(s, AfterConnection)
  /\ UNCHANGED <<clock, open, service, delay, account, kafka>>

Authenticated ==
  /\ at["private"] = "auth" /\ open["private"]
  /\ Goes("private", "reading") /\ delay' = 1
  /\ UNCHANGED <<clock, open, service, account, kafka>>

\* Refused, or no answer in five seconds: wait five seconds with the socket open.
Refused ==
  /\ at["private"] = "auth" /\ Goes("private", "refused")
  /\ UNCHANGED <<clock, open, service, delay, account, kafka>>

\* continue: the socket is closed, and the delay plays no part.
RetryRefused ==
  /\ at["private"] = "refused" /\ open' = [open EXCEPT !["private"] = FALSE]
  /\ Goes("private", IF streaming THEN "connecting" ELSE "done")
  /\ UNCHANGED <<clock, service, delay, account, kafka>>

\* The exchange or the network closes a socket.
Drop(s) ==
  /\ open[s] /\ open' = [open EXCEPT ![s] = FALSE]
  /\ UNCHANGED <<clock, service, at, delay, account, kafka>>

\* The task notices when it waits for the next message.
ConnectionLost(s) ==
  /\ at[s] \in {"auth", "reading"} /\ ~open[s]
  /\ Goes(s, AfterConnection)
  /\ UNCHANGED <<clock, open, service, delay, account, kafka>>

\* Mutant: without the limit.
DoubledDelayUnlimited == 2 * delay

\* Twice the delay, at most the limit.
DoubledDelay == IF 2 * delay <= MaxDelay THEN 2 * delay ELSE MaxDelay

Reconnect(s) ==
  /\ at[s] = "backoff" /\ delay' = DoubledDelay
  /\ Goes(s, IF streaming THEN "connecting" ELSE "done")
  /\ UNCHANGED <<clock, open, service, account, kafka>>

Connecting(s) ==
  \/ Connected(s) \/ ConnectFailed(s) \/ ConnectionLost(s) \/ Reconnect(s)
  \/ s = "private" /\ (Authenticated \/ Refused \/ RetryRefused)

-----------------------------------------------------------------------------
(* Messages of the private socket.  The next one is read when the handler  *)
(* of the last has returned.  Messages that are still buffered when a      *)
(* socket closes are left out.                                             *)

Reads == at["private"] = "reading" /\ open["private"]

\* _handle_position_update begins to send an account update.  Messages come in
\* order and may be late.
PositionMessage ==
  /\ Reads /\ positions' \in positions..clock
  /\ Goes("private", "collateral")
  /\ UNCHANGED <<clock, open, service, delay, known, kafka>>

\* _handle_account_update.  A wallet may list no coins.
WalletMessage ==
  /\ Reads /\ known' \in BOOLEAN
  /\ UNCHANGED <<clock, open, service, at, delay, positions, kafka>>

-----------------------------------------------------------------------------
(* _poll_account_data and _send_account_update.                            *)

\* Requests raise when the HTTP client is closed.
HttpOpen == stopping \notin {"kafka", "done"}

\* Mutant: a failed poll is the last one.
AfterUpdateDead(t) == IF t = "poll" THEN "done" ELSE "reading"

\* Where a task goes when its update is sent or given up.
AfterUpdate(t) == IF t = "poll" THEN "sleep" ELSE "reading"

CollateralRead(t) ==
  /\ at[t] = "collateral" /\ HttpOpen
  /\ Goes(t, "loan")
  /\ UNCHANGED <<clock, open, service, delay, account, kafka>>

CollateralFailed(t) ==
  /\ at[t] = "collateral" /\ Goes(t, AfterUpdate(t))
  /\ UNCHANGED <<clock, open, service, delay, account, kafka>>

\* The update is made of what is current when the answers are there, and is put
\* into the buffer in the same step, unless the producer is not connected.
Send(t) ==
  IF connected
    THEN /\ sending' = Append(sending, [from |-> t, positions |-> positions])
         /\ Goes(t, "send")
    ELSE UNCHANGED sending /\ Goes(t, AfterUpdate(t))

\* With or without loan information.  Only the polling task asks for balances.
LoanRead(t) ==
  /\ at[t] = "loan"
  /\ IF t = "poll" /\ known = FALSE
       THEN Goes(t, "wallet") /\ UNCHANGED sending
       ELSE Send(t)
  /\ UNCHANGED <<clock, open, service, delay, account, account_raw>>

\* The answer replaces whatever a wallet message has set meanwhile.
WalletRead ==
  /\ at["poll"] = "wallet"
  /\ known' \in BOOLEAN /\ (known' => HttpOpen)
  /\ Send("poll")
  /\ UNCHANGED <<clock, open, service, delay, positions, account_raw>>

\* The idempotent producer keeps the order of the buffer.
Delivered ==
  /\ sending # <<>> /\ sending' = Tail(sending)
  /\ account_raw' = Head(sending).positions
  /\ Goes(Head(sending).from, AfterUpdate(Head(sending).from))
  /\ UNCHANGED <<clock, open, service, delay, account>>

\* Mutant: a message that timed out is retried behind the others.
WithoutRefusedRetried == Append(Tail(sending), Head(sending))

\* A message that is refused or times out is given up.
WithoutRefused == Tail(sending)

SendRefused ==
  /\ sending # <<>> /\ sending' = WithoutRefused
  /\ Goes(Head(sending).from, AfterUpdate(Head(sending).from))
  /\ UNCHANGED <<clock, open, service, delay, account, account_raw>>

PollAgain ==
  /\ at["poll"] = "sleep"
  /\ Goes("poll", IF running THEN "collateral" ELSE "done")
  /\ UNCHANGED <<clock, open, service, delay, account, kafka>>

Requests(t) ==
  \/ CollateralRead(t) \/ CollateralFailed(t) \/ LoanRead(t)
  \/ t = "poll" /\ (WalletRead \/ PollAgain)

-----------------------------------------------------------------------------
Trade ==
  /\ clock < MaxClock /\ clock' = clock + 1
  /\ UNCHANGED <<open, service, at, delay, account, kafka>>

Next ==
  \/ Start \/ ProducerUp \/ ProducerFailed
  \/ Shutdown \/ Stopping
  \/ \E s \in Sockets : Connecting(s) \/ Drop(s)
  \/ PositionMessage \/ WalletMessage
  \/ \E t \in Publishers : Requests(t)
  \/ Delivered \/ SendRefused
  \/ Trade

Spec == Init /\ [][Next]_vars

\* Every wait ends: requests and connections time out, the loop goes on.
Waits ==
  /\ WF_vars(Stopping)
  /\ \A s \in Sockets : WF_vars(Connecting(s))
  /\ \A t \in Publishers : WF_vars(Requests(t))
  /\ WF_vars(Delivered \/ SendRefused)

\* The exchange and the broker, tried again and again, answer now and then.
Answers ==
  /\ \A s \in Sockets : SF_vars(Connected(s))
  /\ SF_vars(Authenticated)
  /\ SF_vars(CollateralRead("poll"))
  /\ SF_vars(Delivered /\ Head(sending).from = "poll")

FairSpec == Spec /\ Waits /\ Answers

-----------------------------------------------------------------------------
(* Properties.                                                             *)

\* Types; the delay stays within its limit, and the buffer holds one update of
\* each task that waits for it.
TypeOK ==
  /\ clock \in 1..MaxClock
  /\ open \in [Sockets -> BOOLEAN]
  /\ running \in BOOLEAN /\ streaming \in BOOLEAN /\ connected \in BOOLEAN
  /\ known \in BOOLEAN
  /\ main \in {"idle", "producer", "up", "failed"}
  /\ stopping \in {"nothing", "public", "private", "http", "kafka", "done"}
  /\ at \in [Tasks -> Places]
  /\ at["public"] \in {"off", "connecting", "reading", "backoff", "done"}
  /\ at["private"] \in {"off", "connecting", "auth", "refused", "reading",
                        "collateral", "loan", "send", "backoff", "done"}
  /\ at["poll"] \in {"off", "collateral", "loan", "wallet", "send", "sleep", "done"}
  /\ main # "up" => \A t \in Tasks : at[t] = "off"
  /\ delay \in 1..MaxDelay
  /\ positions \in 0..clock /\ account_raw \in Nat
  /\ sending \in Seq([from : Publishers, positions : Nat])
  /\ \A t \in Publishers :
       at[t] = "send" <=> \E i \in DOMAIN sending : sending[i].from = t

\* The positions on account_raw never go back, although two tasks send them and
\* each waits for the exchange in between.
PositionsNeverGoBack == [][account_raw' >= account_raw]_vars

\* Positions that the socket delivered are reported in the end, also when the
\* update that they trigger fails, unless the collector stops.
PositionsReported ==
  \A v \in 1..MaxClock :
    positions = v ~> account_raw >= v \/ stopping # "nothing"

\* A socket that is down is connected again, and authenticated when it is private,
\* however often that failed and whatever the other socket does to the delay they
\* share ("automatic reconnection").
SocketsReconnect ==
  \A s \in Sockets :
    at[s] \in {"connecting", "backoff"} ~> at[s] = "reading" \/ stopping # "nothing"

\* stop() ends every task, wherever it waits, unless it comes while a connection
\* is being opened or start() is still under way.
StopEndsTasks ==
  (stopping = "public" /\ main = "up" /\ ~streaming /\ \A s \in Sockets : at[s] # "connecting")
    ~> \A t \in Tasks : at[t] = "done"

-----------------------------------------------------------------------------
(* What the code does not keep (see the README).                           *)

\* Once stop() is through no socket is open ("Stop WebSocket connections.").
StoppedIsClosed == stopping = "done" => \A s \in Sockets : ~open[s]

=============================================================================
