---------------------------- MODULE Replenishment ----------------------------
(***************************************************************************)
(* The restock arithmetic: how much of a stock row to order, from what is   *)
(* available and from the units that left the row in the last WindowDays.   *)
(*                                                                         *)
(* The program divides with floats.  Here everything is cross-multiplied,   *)
(* and what the floats may get wrong is an input, the `rounding`: a product *)
(* that should be a whole number may come out a little above it, so its     *)
(* ceiling is one more (31 units in 30 days for 30 days give 32), and       *)
(* coverage that should equal the horizon may come out above it.            *)
(***************************************************************************)
EXTENDS StockRow

CONSTANTS
    WindowDays,    \* the history that estimates consumption
    TargetDays     \* a restocked row is to last this long

ASSUME PolicyIsValid ==
    /\ WindowDays \in Nat \ {0}
    /\ TargetDays \in Nat \ {0}

\* A policy may look at most as far ahead as it restocks for.
Horizons == 1..TargetDays

Roundings == [up: {0, 1}, soon: BOOLEAN]

Greater(a, b) == IF a >= b THEN a ELSE b

WholeUnits(a, b) == (a + b - 1) \div b

\* Units that TargetDays of the consumption `used` add up to, rounded up.
Demand(used, rounding) ==
    WholeUnits(used * TargetDays, WindowDays)
      + IF used > 0 /\ (used * TargetDays) % WindowDays = 0 THEN rounding.up ELSE 0

\* coverage <= horizon: what is available is used up within `horizon` days.
RunsOutSoon(row, used, horizon, rounding) ==
    LET have == Greater(Available(row), 0) * WindowDays
        need == horizon * used
    IN  used > 0 /\ (have < need \/ (have = need /\ rounding.soon))

NeedsRestock(row, reorderPoint, used, horizon, rounding) ==
    IsLow(row, reorderPoint) \/ RunsOutSoon(row, used, horizon, rounding)

\* Slip: restocked to the reorder point, which is still low.
TargetLevelAtPoint(reorderPoint, used, rounding) ==
    Greater(Demand(used, rounding), reorderPoint)

TargetLevel(reorderPoint, used, rounding) ==
    Greater(Demand(used, rounding), reorderPoint + 1)

\* evaluate
Suggested(row, reorderPoint, used, horizon, rounding) ==
    IF NeedsRestock(row, reorderPoint, used, horizon, rounding)
    THEN Greater(TargetLevel(reorderPoint, used, rounding) - Available(row), 0)
    ELSE 0

Restocked(row, reorderPoint, q) ==
    Synced([row EXCEPT !.quantity = MovedQuantity(row, "add_stock", q)], reorderPoint)

-----------------------------------------------------------------------------

\* The suggestion for a row that needs restocking is enough and not too much: once
\* it is added the row is above its reorder point, lasts the target days, and is
\* asked for nothing more; and less than it, but for one unit of rounding, would
\* leave the row low or short of the demand.
RestockSettles(row, reorderPoint, used, horizon, rounding) ==
    NeedsRestock(row, reorderPoint, used, horizon, rounding) =>
        LET q == Suggested(row, reorderPoint, used, horizon, rounding)
            after == Restocked(row, reorderPoint, q)
            short == Restocked(row, reorderPoint, q - rounding.up - 1)
        IN /\ ~IsLow(after, reorderPoint)
           /\ Available(after) * WindowDays >= used * TargetDays
           /\ Suggested(after, reorderPoint, used, horizon, rounding) = 0
           /\ q > rounding.up =>
                \/ Available(short) <= reorderPoint
                \/ Available(short) * WindowDays < used * TargetDays
=============================================================================
