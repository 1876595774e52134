------------------------- MODULE MCOrderFulfillment -------------------------
(* Small instances of OrderFulfillment for TLC. *)
EXTENDS OrderFulfillment, TLC

CONSTANTS o1, o2, i1, i2, i3, i4, p1, p2, l1, l2, r1, r2, r3

\* Requests, orders and the identities of fresh items are interchangeable.
OrderSymmetry ==
    Permutations(Requests) \cup Permutations(Items) \cup Permutations(Orders)

AllStocks == Stocks
NoStock == {}
LowAtOne == [s \in Stocks |-> 1]

\* One row is open and has no reorder point; the other is still to be opened.
SecondOpened == {s \in Stocks : s[1] = p2}
LowAtFirst == [s \in Stocks |-> IF s[1] = p2 THEN 0 ELSE 1]

OrderLifecycle == OrderOps
OrdersAndDesk == OrderOps \cup MoveOps
Desk == MoveOps \cup {"initialize_stock"}
OpeningAndOrders == {"add_item", "confirm", "cancel", "add_stock", "initialize_stock"}
=============================================================================
