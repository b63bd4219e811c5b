--------------------------- MODULE MCLoanReserve ---------------------------
(***************************************************************************)
(* LoanReserve for TLC, in units of $100 and with the code's defaults: a   *)
(* loan of $16200, $10000 of reserves, tiers of $3000 and $8000.           *)
(***************************************************************************)
EXTENDS LoanReserve

NoInput == {}

\* With $10000 of reserves the loan is at 70%, 79% and 90% of these values.
MCBtcValues == {80, 105, 130}
\* At 84%, below the emergency threshold.
CriticalBtcValue == {92}

\* Every message that one service could send the other.
AnyAmount == 1..100
AnyFigure == 0..100
AnyLtv == 0..250
=============================================================================
