-------------------------- MODULE MCSafetyManager --------------------------
(***************************************************************************)
(* SafetyManager for TLC.  The limits are small numbers that an input      *)
(* meets exactly; the leverage is the default of the code, since no        *)
(* position update states one.                                             *)
(***************************************************************************)
EXTENDS SafetyManager

MCPositions ==
  {[open |-> TRUE, value |-> 1, volatility |-> 1],
   [open |-> FALSE, value |-> 0, volatility |-> 0]}

MCPnls == {0, 10}
MCLtvPercents == {90}
MCManualActions == {"halt_trading"}
=============================================================================
