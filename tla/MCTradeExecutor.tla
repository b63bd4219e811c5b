-------------------------- MODULE MCTradeExecutor --------------------------
(***************************************************************************)
(* TradeExecutor for TLC.  A trade of 2 is the largest order, one of 3 is  *)
(* over the limit, and a day's volume of 3 has room for one order only.    *)
(***************************************************************************)
EXTENDS TradeExecutor

MCQuantities == {2, 3}
=============================================================================
