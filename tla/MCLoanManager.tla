--------------------------- MODULE MCLoanManager ---------------------------
(***************************************************************************)
(* LoanManager for TLC, in a unit of $5 (a minimum payment of $10 is 2),   *)
(* with a small loan and one unit of reserves, which the first request     *)
(* takes and a report gives back.                                          *)
(***************************************************************************)
EXTENDS LoanManager

\* Half of 8 is less than the loan, twice as much is more.
RepayProfits == {8}
RepayManual == {3}

\* With the reserves the loan is at 87%, without them at 100%, and falls with the
\* repayments.
RepayBtcValues == {7}

\* The reserve manager has it again.
RepayFigures == {1}
=============================================================================
