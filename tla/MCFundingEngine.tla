-------------------------- MODULE MCFundingEngine --------------------------
(***************************************************************************)
(* FundingEngine for TLC: the boundaries of the regimes, a negative rate   *)
(* and one beyond all limits.                                              *)
(***************************************************************************)
EXTENDS FundingEngine

MCRates == {9, 10, -60, 300, 1001}

MCLevels == {0, 10, 11, -49, 50, 58, 100, 200, 299}
=============================================================================
