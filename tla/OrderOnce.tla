----------------------------- MODULE OrderOnce -----------------------------
(***************************************************************************)
(* What the trade executor promises to those who publish trades: it takes  *)
(* the trades of the topic in their order, one at a time, and orders each  *)
(* at the exchange once or not at all.  A trade is named by its place on   *)
(* the topic.  How an order ends, limits, restarts and time are not part   *)
(* of the promise, nor is that any trade is ordered.                       *)
(***************************************************************************)
EXTENDS Integers, Sequences

VARIABLES
  published,   \* how many trades the topic has
  given,       \* no trade up to this one will be taken any more
  inflight,    \* the trade whose order is being sent, or 0
  ordered      \* the trades that have been ordered, in that order

vars == <<published, given, inflight, ordered>>

Init == published = 0 /\ given = 0 /\ inflight = 0 /\ ordered = <<>>

Publish ==
  /\ published' = published + 1
  /\ UNCHANGED <<given, inflight, ordered>>

\* A trade is taken up; others may be passed over with it.
Take ==
  /\ inflight = 0
  /\ given' \in (given + 1)..published
  /\ inflight' \in (given + 1)..given'
  /\ UNCHANGED <<published, ordered>>

\* Trades are passed over.
Skip ==
  /\ inflight = 0
  /\ given' \in (given + 1)..published
  /\ UNCHANGED <<published, inflight, ordered>>

\* The order arrives at the exchange.
Order ==
  /\ inflight # 0 /\ inflight' = 0
  /\ ordered' = Append(ordered, inflight)
  /\ UNCHANGED <<published, given>>

\* It does not, and is not sent again.
GiveUp ==
  /\ inflight # 0 /\ inflight' = 0
  /\ UNCHANGED <<published, given, ordered>>

Next == Publish \/ Take \/ Skip \/ Order \/ GiveUp

Spec == Init /\ [][Next]_vars
=============================================================================
