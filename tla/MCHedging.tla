----------------------------- MODULE MCHedging -----------------------------
(***************************************************************************)
(* Hedging for TLC.  The least order is 100 units, which makes every order *)
(* of the runs a whole number of them.  Targets and limits keep the order  *)
(* they have in the code and are drawn closer: targets of 0, 1, 0 and -2   *)
(* least orders, the hedger orders at most 3 at once and the executor at   *)
(* most 2, from a delta of 4.  One service has credentials, as in the      *)
(* shipped docker-compose.yml.                                             *)
(***************************************************************************)
EXTENDS Hedging

MCCriticalTarget == -200

MCDeltas == {400}

\* An LTV of 50%, and the critical threshold of 90% met exactly.
MCBalances == {[collateral |-> 20, debt |-> d] : d \in {10, 18}}

\* A mania with a small multiplier, and an emergency exit.
MCFunding == {[mania |-> TRUE, exit |-> FALSE, multiplier |-> 30],
              [mania |-> FALSE, exit |-> TRUE, multiplier |-> 0]}

OneExecutor == {{"hedger"}, {"executor"}}

\* Headers that nobody can read, that the risk engine can, and that both can.
AllReaders == {{}, {"risk"}, {"risk", "hedger"}}
NoReader == {{}}

OnlyCollector == {"AccountUpdate"}
=============================================================================
