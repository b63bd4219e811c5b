------------------------------- MODULE Money -------------------------------
(***************************************************************************)
(* Arithmetic shared by the ledgers.  The code keeps dollars in floats;    *)
(* the models keep whole units (the MC modules say how many dollars a unit *)
(* is) and round a percentage down.                                        *)
(***************************************************************************)
EXTENDS Integers

Lesser(a, b) == IF a <= b THEN a ELSE b

Greater(a, b) == IF a >= b THEN a ELSE b

Percent(amount, p) == (amount * p) \div 100

=============================================================================
