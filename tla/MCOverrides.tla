---------------------------- MODULE MCOverrides ----------------------------
(* The margin is revenue less cost; people edit the revenue.  A reconciliation *)
(* divides by three, and a behaviour within the bounds has at most seven of    *)
(* them, so amounts are multiples of 3^7.                                      *)
EXTENDS Overrides

Unit       == 2187
MCInputs   == {"revenue", "cost"}
MCSign     == [l \in MCInputs |-> IF l = "cost" THEN -1 ELSE 1]
MCBaseline == [l \in MCInputs |-> IF l = "cost" THEN 6 * Unit ELSE 10 * Unit]
MCValues   == {10 * Unit, 13 * Unit}
MCEdited   == {"revenue"}
MCAdjust   == {{"cost"}}
MCShifts   == {Unit}
=============================================================================
