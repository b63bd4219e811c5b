------------------------- MODULE MCReserveManager --------------------------
(***************************************************************************)
(* ReserveManager for TLC.  A unit is $50 and the limits are the code's    *)
(* defaults: $10000 of reserves, $1000 minimum, 90% deployable, tiers of   *)
(* $3000 and $8000, a minimum reserve addition of $100.                    *)
(***************************************************************************)
EXTENDS ReserveManager

MCAmounts == {40, 120}
MCLtvPercents == {70, 80, 90}

\* One profit below the minimum addition, one above.
MCProfits == {1, 20}

\* The actions whose amount update_deployment moves.
MovingActions ==
  {"deploy_to_collateral", "deploy_to_trading", "withdraw_from_trading"}
=============================================================================
