---------------------------- MODULE MCCollector ----------------------------
(***************************************************************************)
(* Collector for TLC: both sockets, two versions of the account and        *)
(* delays of 1 and 2 seconds.                                              *)
(***************************************************************************)
EXTENDS Collector

MCClock == 2
=============================================================================
