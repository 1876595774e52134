------------------------------ MODULE StockRow ------------------------------
(***************************************************************************)
(* One row of inventory_stock and what the inventory service does to it in *)
(* memory between SELECT ... FOR UPDATE and COMMIT.  A row keeps the        *)
(* physical quantity, the units promised to confirmed orders, and whether   *)
(* low_stock_alerted_at is set.  `audited` is the quantity that the opening *)
(* balance and the recorded StockMovement rows account for.                 *)
(***************************************************************************)
EXTENDS Integers

Row == [live: BOOLEAN, quantity: Int, reserved: Int, alerted: BOOLEAN, audited: Int]

NoRow == [live |-> FALSE, quantity |-> 0, reserved |-> 0, alerted |-> FALSE, audited |-> 0]

NewRow(q) ==
    [live |-> TRUE, quantity |-> q, reserved |-> 0, alerted |-> FALSE, audited |-> q]

Available(row) == row.quantity - row.reserved

\* A reorder point of 0 switches the alert off.
IsLow(row, reorderPoint) == reorderPoint > 0 /\ Available(row) <= reorderPoint

\* Slip: the flag goes up but never comes down again.
SyncedUpOnly(row, reorderPoint) ==
    [row EXCEPT !.alerted = @ \/ IsLow(row, reorderPoint)]

\* _sync_low_stock: the flag follows the level ...
Synced(row, reorderPoint) == [row EXCEPT !.alerted = IsLow(row, reorderPoint)]

\* Slip: the alert waits until the level is below the point, the flag does not.
RaisesBelow(row, reorderPoint) == Available(row) < reorderPoint /\ ~row.alerted

\* Slip: every change of a low row raises the alert.
RaisesWhileLow(row, reorderPoint) == IsLow(row, reorderPoint)

\* ... and an alert is owed exactly when the flag goes up.
Raises(row, reorderPoint) == IsLow(row, reorderPoint) /\ ~row.alerted

\* Slip: the check looks at the physical quantity.
CoversPhysically(row, q) == row.live /\ row.quantity >= q

\* reserve_for_item: may q more units of the row be promised?
Covers(row, q) == row.live /\ Available(row) >= q

WithReserved(row, q) == [row EXCEPT !.reserved = @ + q]

\* Slip: the status changes and the counter stays.
ReleasedInNameOnly(row, q) == row

WithReleased(row, q) == [row EXCEPT !.reserved = @ - q]

Drawn(row, q) == [row EXCEPT !.quantity = @ - q]

\* The movement row that explains a change of d units.
Recorded(row, d) == [row EXCEPT !.audited = @ + d]

\* Slip: add_movement is forgotten.
FulfilledUnrecorded(row, q) == Drawn(WithReleased(row, q), q)

\* fulfill_for_item: the units leave, the hold ends, and the movement that says so
\* is part of the same transaction.
WithFulfilled(row, q) == Recorded(Drawn(WithReleased(row, q), q), -q)

\* add_stock, remove_stock and adjust_stock: what the physical quantity becomes.
MovedQuantity(row, op, q) ==
    CASE op = "add_stock"    -> row.quantity + q
      [] op = "remove_stock" -> row.quantity - q
      [] op = "adjust_stock" -> q

\* remove_stock looks at the physical quantity only, never at the reserved units.
MoveAllowed(row, op, q) == row.live /\ (op = "remove_stock" => row.quantity >= q)
=============================================================================
