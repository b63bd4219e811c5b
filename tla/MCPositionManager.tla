------------------------- MODULE MCPositionManager -------------------------
(***************************************************************************)
(* PositionManager for TLC.  The spot position is 10 units, so that every  *)
(* hedge ratio is a whole number of them; the perpetual positions start    *)
(* at 8, as in the code about four fifths of the spot.  The volatility     *)
(* stays in one band, in which it may change by 20%, which rehedges at     *)
(* once, and by less.                                                      *)
(***************************************************************************)
EXTENDS PositionManager

OneRatio == {20}
OneGain == {1}

\* As the funding engine spells them.
MCRegimes == {"normal", "extreme"}
OnlyNormal == {"normal"}

AllRehedgers == {"loop", "hourly", "api"}
LoopAndApi == {"loop", "api"}
=============================================================================
