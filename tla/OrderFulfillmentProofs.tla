----------------------- MODULE OrderFulfillmentProofs -----------------------
(***************************************************************************)
(* What holds of OrderFulfillment whatever the requests do to each other.   *)
(*                                                                         *)
(* First TypeOK, with SessionsMakeSense, which every other proof needs: each *)
(* request is at a step its call can be at, and a committed reservation has  *)
(* a newest version, whose row SettleStock copies.  Their conjunction        *)
(* WellFormed is inductive.                                                 *)
(*                                                                         *)
(* Then, under every race: NeverOversold; NoOrphanHold; and                 *)
(* FlagsStrayAtOpening, with AlertFlagFollowsLevel as long as no row is      *)
(* opened while the system runs.  As long as no request dies between its     *)
(* commits, LedgerBalances.  As long as no flag is up on a row that is not   *)
(* low, RaisedAlertIsAnnounced.                                             *)
(***************************************************************************)
EXTENDS OrderFulfillment, FiniteSetTheorems, TLAPS

-----------------------------------------------------------------------------
(* Where a request can be *)

\* Where a request is fits what it was asked: the loops of confirm_order and
\* remove_item hold items that were once created, and those of cancel_order and
\* complete_order, which skip `reservation is None`, items with a committed
\* reservation.
StepFitsCall(r) ==
    /\ pc[r] \notin {"work", "reserve", "settle"} => todo[r] = {}
    /\ pc[r] = "read" => call[r].op \in OrderOps
    /\ pc[r] = "work" => call[r].op \in {"remove_item", "confirm", "cancel", "complete"}
    /\ pc[r] = "reserve" => call[r].op = "confirm" /\ cur[r] \in todo[r]
    /\ pc[r] = "settle" => call[r].op \in {"cancel", "complete"} /\ cur[r] \in todo[r]
    /\ pc[r] = "movement" => call[r].op \in MoveOps
    /\ pc[r] \in {"opened", "mark"} => call[r].op = "initialize_stock"
    /\ call[r].op \in {"remove_item", "confirm"} => \A i \in todo[r] : item[i] # NoItem
    /\ call[r].op \in {"cancel", "complete"} => \A i \in todo[r] : resv[i] # NoResv

\* So it does for every request, and a committed reservation has a newest version.
SessionsMakeSense ==
    /\ \A r \in Requests : StepFitsCall(r)
    /\ \A i \in Items : resv[i] # NoResv => resvDraft[i] # NoResv

-----------------------------------------------------------------------------
(* One stock row *)

\* A row is inserted with every column it needs.
LEMMA NewRowTyped == ASSUME NEW q \in Int PROVE NewRow(q) \in Row /\ NoRow \in Row
  BY DEF NewRow, NoRow, Row

\* _sync_low_stock touches nothing but the flag, and leaves it true to the level.
LEMMA SyncedRow ==
  ASSUME NEW row \in Row, NEW p \in Nat
  PROVE  /\ Synced(row, p) \in Row
         /\ Synced(row, p).live = row.live
         /\ Synced(row, p).quantity = row.quantity
         /\ Synced(row, p).reserved = row.reserved
         /\ Synced(row, p).alerted = IsLow(Synced(row, p), p)
  BY DEF Synced, IsLow, Available, Row

\* Reserving, releasing and fulfilling change the counters by exactly q.
LEMMA ReservingRow ==
  ASSUME NEW row \in Row, NEW q \in Int
  PROVE  /\ WithReserved(row, q) \in Row
         /\ WithReserved(row, q).live = row.live
         /\ WithReserved(row, q).reserved = row.reserved + q
         /\ WithReserved(row, q).quantity = row.quantity
  BY DEF WithReserved, Row

\* Releasing lowers `reserved` by exactly q.
LEMMA ReleasingRow ==
  ASSUME NEW row \in Row, NEW q \in Int
  PROVE  /\ WithReleased(row, q) \in Row
         /\ WithReleased(row, q).live = row.live
         /\ WithReleased(row, q).reserved = row.reserved - q
         /\ WithReleased(row, q).quantity = row.quantity
  BY DEF WithReleased, Row

\* The movement row changes no column of the stock row.
LEMMA RecordedRow ==
  ASSUME NEW row \in Row, NEW d \in Int, NEW p \in Nat
  PROVE  /\ Recorded(row, d) \in Row
         /\ Recorded(row, d).live = row.live
         /\ Recorded(row, d).quantity = row.quantity
         /\ Recorded(row, d).reserved = row.reserved
         /\ Recorded(row, d).alerted = row.alerted
         /\ IsLow(Recorded(row, d), p) = IsLow(row, p)
  BY DEF Recorded, IsLow, Available, Row

\* Fulfilling lowers both counters by exactly q.
LEMMA FulfillingRow ==
  ASSUME NEW row \in Row, NEW q \in Int
  PROVE  /\ WithFulfilled(row, q) \in Row
         /\ WithFulfilled(row, q).live = row.live
         /\ WithFulfilled(row, q).reserved = row.reserved - q
         /\ WithFulfilled(row, q).quantity = row.quantity - q
<1> DEFINE released == WithReleased(row, q)
           drawn == Drawn(released, q)
<1>1. /\ released \in Row /\ released.live = row.live
      /\ released.reserved = row.reserved - q /\ released.quantity = row.quantity
  BY ReleasingRow
<1> HIDE DEF released
<1>2. /\ drawn \in Row /\ drawn.live = released.live
      /\ drawn.reserved = released.reserved /\ drawn.quantity = released.quantity - q
  BY <1>1 DEF Drawn, Row
<1> HIDE DEF drawn
<1>3. /\ Recorded(drawn, -q) \in Row /\ Recorded(drawn, -q).live = drawn.live
      /\ Recorded(drawn, -q).reserved = drawn.reserved
      /\ Recorded(drawn, -q).quantity = drawn.quantity
  BY <1>2, RecordedRow
<1>4. WithFulfilled(row, q) = Recorded(drawn, -q)
  BY DEF WithFulfilled, drawn, released
<1> QED
  BY <1>1, <1>2, <1>3, <1>4

\* The three stock changes write an integer quantity.
LEMMA MovedTyped ==
  ASSUME NEW row \in Row, NEW q \in Int,
         NEW op \in {"add_stock", "remove_stock", "adjust_stock"}
  PROVE  /\ MovedQuantity(row, op, q) \in Int
         /\ [row EXCEPT !.quantity = MovedQuantity(row, op, q)] \in Row
  BY DEF MovedQuantity, Row

-----------------------------------------------------------------------------
(* Calls and rows *)

\* The fields a call has follow from its operation.
LEMMA CallFields ==
  ASSUME NEW c \in Calls
  PROVE  /\ c.op \in OrderOps => c \in OrderCalls /\ c.order \in Orders
         /\ c.op = "add_item" => c.product \in Products /\ c.quantity \in Quantities
         /\ c.op = "remove_item" => c.product \in Products
         /\ c.op = "confirm" => c.location \in Locations
         /\ c.op \in MoveOps => c.stock \in Stocks /\ c.quantity \in Nat
         /\ c.op = "initialize_stock" => c.stock \in Stocks /\ c.quantity \in Nat
<1> USE QuantitiesPositive DEF OrderOps, MoveOps
<1>1. CASE c = NoCall
  BY <1>1 DEF NoCall
<1>2. CASE c \in [op: {"add_item"}, order: Orders, product: Products, quantity: Quantities]
  BY <1>2 DEF OrderCalls
<1>3. CASE c \in [op: {"remove_item"}, order: Orders, product: Products]
  BY <1>3 DEF OrderCalls
<1>4. CASE c \in [op: {"confirm"}, order: Orders, location: Locations]
  BY <1>4 DEF OrderCalls
<1>5. CASE c \in [op: {"cancel", "complete"}, order: Orders]
  BY <1>5 DEF OrderCalls
<1>6. CASE c \in [op: {"add_stock", "remove_stock", "adjust_stock"}, stock: Stocks,
                  quantity: Quantities]
  BY <1>6
<1>7. CASE c \in [op: {"adjust_stock"}, stock: Stocks, quantity: {0}]
  BY <1>7
<1>8. CASE c \in [op: {"initialize_stock"}, stock: Stocks, quantity: Quantities]
  BY <1>8
<1> QED
  BY <1>1, <1>2, <1>3, <1>4, <1>5, <1>6, <1>7, <1>8 DEF Calls, OrderCalls, StockCalls

\* An order_items row that was ever inserted names an order, a product and a quantity.
LEMMA ItemFields ==
  ASSUME NEW row \in ItemRows
  PROVE  /\ row # NoItem => /\ row.order \in Orders /\ row.product \in Products
                            /\ row.quantity \in Quantities /\ row.quantity \in Nat
                            /\ row.state \in {"live", "deleted"}
         /\ row = NoItem => row.state = "unused"
<1>1. CASE row = NoItem
  BY <1>1 DEF NoItem
<1>2. CASE row # NoItem
  <2>1. row \in [state: {"live", "deleted"}, order: Orders, product: Products,
                 quantity: Quantities]
    BY <1>2 DEF ItemRows
  <2>2. \A q \in Quantities : q \in Nat
    BY QuantitiesPositive
  <2> QED
    BY <1>2, <2>1, <2>2
<1> QED
  BY <1>1, <1>2

\* A stock_reservations row names a stock row and carries one of the three statuses.
LEMMA ResvFields ==
  ASSUME NEW row \in ResvRows
  PROVE  /\ row # NoResv => /\ row.stock \in Stocks
                            /\ row.quantity \in Quantities /\ row.quantity \in Nat
                            /\ row.status \in {"reserved", "released", "fulfilled"}
         /\ row = NoResv => row.status = "none"
<1>1. CASE row = NoResv
  BY <1>1 DEF NoResv
<1>2. CASE row # NoResv
  <2>1. row \in [status: {"reserved", "released", "fulfilled"}, stock: Stocks,
                 quantity: Quantities]
    BY <1>2 DEF ResvRows
  <2>2. \A q \in Quantities : q \in Nat
    BY QuantitiesPositive
  <2> QED
    BY <1>2, <2>1, <2>2
<1> QED
  BY <1>1, <1>2

\* append_item writes a well-formed row.
LEMMA NewItemRow ==
  ASSUME NEW o \in Orders, NEW p \in Products, NEW q \in Quantities
  PROVE  LET row == [state |-> "live", order |-> o, product |-> p, quantity |-> q]
         IN  row \in ItemRows /\ row # NoItem
  BY DEF ItemRows, NoItem

\* Deleting an item does not make its identity fresh again.
LEMMA DeletedItemRow ==
  ASSUME NEW row \in ItemRows, row # NoItem
  PROVE  /\ [row EXCEPT !.state = "deleted"] \in ItemRows
         /\ [row EXCEPT !.state = "deleted"] # NoItem
  BY DEF ItemRows, NoItem

\* create_reservation writes a well-formed row.
LEMMA NewResvRow ==
  ASSUME NEW s \in Stocks, NEW q \in Quantities
  PROVE  LET row == [status |-> "reserved", stock |-> s, quantity |-> q]
         IN  row \in ResvRows /\ row # NoResv
  BY DEF ResvRows, NoResv

\* Releasing or fulfilling a reservation changes its status and nothing else.
LEMMA SettledResvRow ==
  ASSUME NEW row \in ResvRows, row # NoResv, NEW to \in {"released", "fulfilled"}
  PROVE  /\ [row EXCEPT !.status = to] \in ResvRows
         /\ [row EXCEPT !.status = to] # NoResv
         /\ [row EXCEPT !.status = to].status = to
         /\ [row EXCEPT !.status = to].stock = row.stock
         /\ [row EXCEPT !.status = to].quantity = row.quantity
  BY DEF ResvRows, NoResv

-----------------------------------------------------------------------------
(* Initial states *)

\* The opened rows, synced, are well typed, and every session starts empty.
LEMMA InitTypeOK == Init => TypeOK
<1> SUFFICES ASSUME Init PROVE TypeOK
  OBVIOUS
<1>1. stock \in [Stocks -> Row]
  <2> DEFINE opened(s) == Synced(NewRow(OpeningQuantity), ReorderPoint[s])
  <2>1. \A s \in Stocks : opened(s) \in Row
    BY StockConstants, NewRowTyped, SyncedRow
  <2>2. NoRow \in Row
    BY StockConstants, NewRowTyped
  <2>3. stock = [s \in Stocks |-> IF s \in Opened THEN opened(s) ELSE NoRow]
    BY DEF Init
  <2> QED
    BY <2>1, <2>2, <2>3
<1>2. resv \in [Items -> ResvRows]
  BY DEF Init, ResvRows
<1>3. item \in [Items -> ItemRows]
  BY DEF Init, ItemRows
<1>4. call \in [Requests -> Calls]
  BY DEF Init, Calls
<1>5. order \in [Orders -> OrderStatuses]
  BY DEF Init, OrderStatuses
<1>6. pc \in [Requests -> PCs]
  BY DEF Init, PCs
<1> QED
  BY <1>1, <1>2, <1>3, <1>4, <1>5, <1>6, StockConstants
     DEF Init, TypeOK, TablesTyped, LocksTyped, SessionTyped

\* No request is under way at the start.
LEMMA InitSense == Init => SessionsMakeSense
  BY DEF Init, SessionsMakeSense, StepFitsCall, NoCall

-----------------------------------------------------------------------------
(* The shared pieces and the types *)

\* A finished request leaves a typed session behind.
LEMMA EndTyped ==
  ASSUME SessionTyped, NEW r \in Requests, End(r)
  PROVE  SessionTyped'
  BY DEF SessionTyped, End, PCs, Calls

\* So does one that still has alerts to send.
LEMMA FlushTyped ==
  ASSUME SessionTyped, NEW r \in Requests, NEW alerts \in SUBSET Stocks,
         FlushThenEnd(r, alerts)
  PROVE  SessionTyped'
<1>1. CASE alerts = {}
  BY <1>1, EndTyped DEF FlushThenEnd
<1>2. CASE alerts # {}
  BY <1>2 DEF FlushThenEnd, SessionTyped, PCs
<1> QED
  BY <1>1, <1>2

\* COMMIT only publishes row versions that were typed already.
LEMMA CommitTyped ==
  ASSUME TypeOK, NEW r \in Requests, Commit(r)
  PROVE  /\ resv' \in [Items -> ResvRows] /\ stock' \in [Stocks -> Row]
         /\ LocksTyped' /\ announced' \in SUBSET Stocks
  BY DEF TypeOK, TablesTyped, LocksTyped, Commit

\* ROLLBACK only restores them.
LEMMA RollbackTyped ==
  ASSUME TypeOK, NEW r \in Requests, Rollback(r)
  PROVE  TablesTyped' /\ LocksTyped' /\ announced' \in SUBSET Stocks
<1>1. TablesTyped'
  BY DEF TypeOK, TablesTyped, Rollback, tables
<1>2. LocksTyped'
  BY DEF TypeOK, TablesTyped, LocksTyped, Rollback
<1> QED
  BY <1>1, <1>2 DEF TypeOK, Rollback

\* A one-statement transaction writes a typed row.
LEMMA WriteStockTyped ==
  ASSUME TypeOK, NEW s \in Stocks, NEW row \in Row, WriteStock(s, row)
  PROVE  TablesTyped' /\ LocksTyped' /\ announced' \in SUBSET Stocks
<1>1. TablesTyped'
  BY DEF TypeOK, TablesTyped, WriteStock
<1>2. LocksTyped'
  BY DEF TypeOK, LocksTyped, WriteStock
<1> QED
  BY <1>1, <1>2 DEF TypeOK, WriteStock

\* A request that gives up leaves every variable typed.
LEMMA FailTyped ==
  ASSUME TypeOK, NEW r \in Requests, Rollback(r), End(r), faults' \in 0..MaxFaults
  PROVE  TypeOK'
  BY RollbackTyped, EndTyped DEF TypeOK

-----------------------------------------------------------------------------
(* The shared pieces and SessionsMakeSense *)

WellFormed == TypeOK /\ SessionsMakeSense

\* Rows of order_items and reservations are never taken back.
Grows ==
    /\ \A i \in Items : item[i] # NoItem => item'[i] # NoItem
    /\ \A i \in Items : resv[i] # NoResv => resv'[i] # NoResv

DraftsCover == \A i \in Items : resv[i] # NoResv => resvDraft[i] # NoResv

\* A step of request r leaves every other request at a step that fits its call.
LEMMA SenseByStep ==
  ASSUME WellFormed, NEW r \in Requests, Grows, StepFitsCall(r)',
         \A q \in Requests \ {r} : /\ pc'[q] = pc[q] /\ call'[q] = call[q]
                                   /\ todo'[q] = todo[q] /\ cur'[q] = cur[q]
  PROVE  \A q \in Requests : StepFitsCall(q)'
<1> SUFFICES ASSUME NEW q \in Requests, q # r PROVE StepFitsCall(q)'
  OBVIOUS
<1>1. StepFitsCall(q) /\ todo[q] \subseteq Items
  BY DEF WellFormed, SessionsMakeSense, TypeOK, SessionTyped
<1>2. pc'[q] = pc[q] /\ call'[q] = call[q] /\ todo'[q] = todo[q] /\ cur'[q] = cur[q]
  OBVIOUS
<1> QED
  BY <1>1, <1>2 DEF StepFitsCall, Grows

\* A finished request has nothing left in its loops.
LEMMA SenseByEnd ==
  ASSUME WellFormed, NEW r \in Requests, Grows, End(r)
  PROVE  \A q \in Requests : StepFitsCall(q)'
<1>1. StepFitsCall(r)'
  BY DEF End, StepFitsCall, NoCall, WellFormed, TypeOK, SessionTyped
<1>2. \A q \in Requests \ {r} : /\ pc'[q] = pc[q] /\ call'[q] = call[q]
                                /\ todo'[q] = todo[q] /\ cur'[q] = cur[q]
  BY DEF End, WellFormed, TypeOK, SessionTyped
<1> QED
  BY <1>1, <1>2, SenseByStep

\* Nor has one that goes on to flush its alerts.
LEMMA SenseByFlush ==
  ASSUME WellFormed, NEW r \in Requests, Grows, NEW alerts, FlushThenEnd(r, alerts)
  PROVE  \A q \in Requests : StepFitsCall(q)'
<1>1. CASE alerts = {}
  BY <1>1, SenseByEnd DEF FlushThenEnd
<1>2. CASE alerts # {}
  <2>1. StepFitsCall(r)'
    BY <1>2 DEF FlushThenEnd, StepFitsCall, WellFormed, TypeOK, SessionTyped
  <2>2. \A q \in Requests \ {r} : /\ pc'[q] = pc[q] /\ call'[q] = call[q]
                                  /\ todo'[q] = todo[q] /\ cur'[q] = cur[q]
    BY <1>2 DEF FlushThenEnd, WellFormed, TypeOK, SessionTyped
  <2> QED
    BY <2>1, <2>2, SenseByStep
<1> QED
  BY <1>1, <1>2

\* COMMIT takes no row back.
LEMMA CommitSense ==
  ASSUME WellFormed, NEW r \in Requests, Commit(r), item' = item
  PROVE  Grows /\ DraftsCover'
  BY DEF WellFormed, SessionsMakeSense, Commit, Grows, DraftsCover

\* Neither does ROLLBACK: it throws away versions, never committed rows.
LEMMA RollbackSense ==
  ASSUME WellFormed, NEW r \in Requests, Rollback(r)
  PROVE  Grows /\ DraftsCover'
<1>1. item' = item /\ resv' = resv
  BY DEF Rollback, tables
<1>2. \A i \in Items : resvDraft'[i] = IF resvOwner[i] = r THEN resv[i] ELSE resvDraft[i]
  BY DEF Rollback
<1> QED
  BY <1>1, <1>2 DEF WellFormed, SessionsMakeSense, Grows, DraftsCover

\* Every way a request has of giving up leaves a well-formed state.
LEMMA FailWellFormed ==
  ASSUME WellFormed, NEW r \in Requests, Rollback(r), End(r), faults' \in 0..MaxFaults
  PROVE  WellFormed'
<1>1. TypeOK'
  BY FailTyped DEF WellFormed
<1>2. Grows /\ DraftsCover'
  BY RollbackSense
<1>3. \A q \in Requests : StepFitsCall(q)'
  BY <1>2, SenseByEnd
<1> QED
  BY <1>1, <1>2, <1>3 DEF WellFormed, SessionsMakeSense, DraftsCover

\* The fault counter stays within its bound.
LEMMA FaultsTyped ==
  ASSUME WellFormed
  PROVE  /\ UNCHANGED faults => faults' \in 0..MaxFaults
         /\ faults < MaxFaults /\ faults' = faults + 1 => faults' \in 0..MaxFaults
  BY StockConstants DEF WellFormed, TypeOK

\* A step that touches neither order_items nor reservations takes no row back.
LEMMA GrowsUnchanged ==
  ASSUME WellFormed, UNCHANGED <<item, resv, resvDraft>>
  PROVE  Grows /\ DraftsCover'
  BY DEF WellFormed, SessionsMakeSense, Grows, DraftsCover

-----------------------------------------------------------------------------
(* One lemma per action *)

\* create_order touches no session.
LEMMA CreateOrderWF ==
  ASSUME WellFormed, NEW o \in Orders, CreateOrder(o) PROVE WellFormed'
<1>1. TypeOK'
  BY DEF WellFormed, TypeOK, CreateOrder, TablesTyped, LocksTyped, SessionTyped,
         OrderStatuses, locks, session
<1>2. SessionsMakeSense'
  BY DEF WellFormed, SessionsMakeSense, StepFitsCall, CreateOrder, locks, session
<1> QED
  BY <1>1, <1>2 DEF WellFormed

\* A call that passes the status check starts at the step of its operation.
LEMMA ReadOrderWF ==
  ASSUME WellFormed, NEW r \in Requests, NEW c \in OrderCalls, ReadOrder(r, c)
  PROVE  WellFormed'
<1> USE DEF ReadOrder, Goto
<1>1. TypeOK'
  BY DEF WellFormed, TypeOK, TablesTyped, LocksTyped, SessionTyped, tables, locks,
         PCs, Calls
<1>2. Grows /\ DraftsCover'
  BY GrowsUnchanged DEF tables, locks
<1>3. StepFitsCall(r)'
  <2>1. c.op \in OrderOps
    BY DEF OrderCalls, OrderOps
  <2>2. todo[r] = {}
    BY DEF WellFormed, SessionsMakeSense, StepFitsCall
  <2>3. pc'[r] = "read" /\ call'[r] = c /\ todo'[r] = {}
    BY <2>2 DEF WellFormed, TypeOK, SessionTyped
  <2> QED
    BY <2>1, <2>3 DEF StepFitsCall
<1>4. \A q \in Requests : StepFitsCall(q)'
  BY <1>2, <1>3, SenseByStep DEF WellFormed, TypeOK, SessionTyped
<1> QED
  BY <1>1, <1>2, <1>4 DEF WellFormed, SessionsMakeSense, DraftsCover

\* The live items of an order exist.
LEMMA LiveItems ==
  ASSUME WellFormed, NEW o, NEW i \in ItemsOf(o)
  PROVE  i \in Items /\ item[i] # NoItem
  BY DEF ItemsOf, NoItem

\* The loops are given only what ItemsToHandle returns.
LEMMA ReadItemsWF ==
  ASSUME WellFormed, NEW r \in Requests, ReadItems(r) PROVE WellFormed'
<1> USE DEF ReadItems, Goto
<1>1. ItemsToHandle(call[r].op, call[r].order) \subseteq Items
  BY DEF ItemsToHandle, ItemsOf
<1>2. TypeOK'
  <2>1. {i \in ItemsOf(call[r].order) : resv[i].status = "reserved"} \subseteq Items
    BY DEF ItemsOf
  <2> QED
    BY <1>1, <2>1 DEF WellFormed, TypeOK, TablesTyped, LocksTyped, SessionTyped,
                      tables, locks, PCs
<1>3. Grows /\ DraftsCover'
  BY GrowsUnchanged DEF tables, locks
<1>4. StepFitsCall(r)'
  <2>1. /\ pc'[r] = "work" /\ call'[r] = call[r] /\ item' = item /\ resv' = resv
        /\ todo'[r] = ItemsToHandle(call[r].op, call[r].order)
    BY DEF WellFormed, TypeOK, SessionTyped, tables
  <2>2. call[r].op = "confirm" => \A i \in todo'[r] : item[i] # NoItem
    BY <2>1, LiveItems DEF ItemsToHandle
  <2>3. call[r].op \in {"cancel", "complete"} => \A i \in todo'[r] : resv[i] # NoResv
    BY <2>1 DEF ItemsToHandle
  <2> QED
    BY <2>1, <2>2, <2>3 DEF StepFitsCall
<1>5. \A q \in Requests : StepFitsCall(q)'
  BY <1>3, <1>4, SenseByStep DEF WellFormed, TypeOK, SessionTyped
<1> QED
  BY <1>2, <1>3, <1>5 DEF WellFormed, SessionsMakeSense, DraftsCover

\* append_item fills an identity that no other row has.
LEMMA AddItemWF ==
  ASSUME WellFormed, NEW r \in Requests, NEW i \in Items, AddItem(r, i)
  PROVE  WellFormed'
<1> DEFINE row == [state |-> "live", order |-> call[r].order,
                   product |-> call[r].product, quantity |-> call[r].quantity]
<1>1. row \in ItemRows /\ row # NoItem
  <2>1. call[r] \in Calls /\ call[r].op = "add_item"
    BY DEF WellFormed, TypeOK, SessionTyped, AddItem
  <2>2. /\ call[r].order \in Orders /\ call[r].product \in Products
        /\ call[r].quantity \in Quantities
    BY <2>1, CallFields DEF OrderOps
  <2> QED
    BY <2>2, NewItemRow
<1> HIDE DEF row
<1>2. item' = [item EXCEPT ![i] = row] /\ End(r)
  BY DEF AddItem, row
<1>3. UNCHANGED <<order, resv, stock, locks, announced, faults>>
  BY DEF AddItem
<1>4. TypeOK'
  <2>1. SessionTyped'
    BY <1>2, EndTyped DEF WellFormed, TypeOK
  <2>2. TablesTyped' /\ LocksTyped'
    BY <1>1, <1>2, <1>3 DEF WellFormed, TypeOK, TablesTyped, LocksTyped, locks
  <2> QED
    BY <1>3, <2>1, <2>2 DEF WellFormed, TypeOK
<1>5. Grows /\ DraftsCover'
  BY <1>1, <1>2, <1>3 DEF WellFormed, SessionsMakeSense, Grows, DraftsCover,
                          TypeOK, TablesTyped, locks
<1>6. \A q \in Requests : StepFitsCall(q)'
  BY <1>2, <1>5, SenseByEnd
<1> QED
  BY <1>4, <1>5, <1>6 DEF WellFormed, SessionsMakeSense, DraftsCover

\* remove_item picks one live item of the order.
LEMMA PickItemWF ==
  ASSUME WellFormed, NEW r \in Requests, PickItem(r) PROVE WellFormed'
<1>1. PICK i \in ItemsOf(call[r].order) : todo' = [todo EXCEPT ![r] = {i}]
  BY DEF PickItem
<1>2. i \in Items
  BY DEF ItemsOf
<1> USE DEF PickItem, Goto
<1>3. TypeOK'
  BY <1>1, <1>2 DEF WellFormed, TypeOK, TablesTyped, LocksTyped, SessionTyped,
                    tables, locks, PCs
<1>4. Grows /\ DraftsCover'
  BY GrowsUnchanged DEF tables, locks
<1>5. StepFitsCall(r)'
  <2>1. item[i] # NoItem
    BY LiveItems
  <2>2. /\ pc'[r] = "work" /\ call'[r] = call[r] /\ call[r].op = "remove_item"
        /\ todo'[r] = {i} /\ item' = item
    BY <1>1 DEF WellFormed, TypeOK, SessionTyped, tables
  <2> QED
    BY <2>1, <2>2 DEF StepFitsCall
<1>6. \A q \in Requests : StepFitsCall(q)'
  BY <1>1, <1>4, <1>5, SenseByStep DEF WellFormed, TypeOK, SessionTyped
<1> QED
  BY <1>3, <1>4, <1>6 DEF WellFormed, SessionsMakeSense, DraftsCover

\* Deleting an item without reservation leaves every other loop sound.
LEMMA RemoveItemWF ==
  ASSUME WellFormed, NEW r \in Requests, NEW i \in Items, RemoveItem(r, i)
  PROVE  WellFormed'
<1> DEFINE row == [item[i] EXCEPT !.state = "deleted"]
<1>1. /\ item' = [item EXCEPT ![i] = row] /\ End(r)
      /\ UNCHANGED <<order, resv, stock, locks, announced, faults>>
  BY DEF RemoveItem
<1>2. item[i] # NoItem => row \in ItemRows /\ row # NoItem
  BY DeletedItemRow DEF WellFormed, TypeOK, TablesTyped
<1>3. CASE item[i] # NoItem
  <2> HIDE DEF row
  <2>1. SessionTyped'
    BY <1>1, EndTyped DEF WellFormed, TypeOK
  <2>2. TablesTyped' /\ LocksTyped'
    BY <1>1, <1>2, <1>3 DEF WellFormed, TypeOK, TablesTyped, LocksTyped, locks
  <2>3. TypeOK'
    BY <1>1, <2>1, <2>2 DEF WellFormed, TypeOK
  <2>4. Grows /\ DraftsCover'
    BY <1>1, <1>2, <1>3 DEF WellFormed, SessionsMakeSense, Grows, DraftsCover,
                            TypeOK, TablesTyped, locks
  <2>5. \A q \in Requests : StepFitsCall(q)'
    BY <1>1, <2>4, SenseByEnd
  <2> QED
    BY <2>3, <2>4, <2>5 DEF WellFormed, SessionsMakeSense, DraftsCover
<1>4. item[i] # NoItem
  BY DEF RemoveItem, WellFormed, SessionsMakeSense, StepFitsCall
<1> QED
  BY <1>3, <1>4

\* reserve_for_item moves on to the INSERT of the item it has just covered.
LEMMA ReserveStockWF ==
  ASSUME WellFormed, NEW r \in Requests, NEW i \in Items, ReserveStock(r, i)
  PROVE  WellFormed'
<1> DEFINE s == ItemStock(r, i)
           row == WithReserved(stockDraft[s], item[i].quantity)
           synced == Synced(row, ReorderPoint[s])
           raised == {t \in {s} : Raises(row, ReorderPoint[s])}
<1>1. s \in Stocks /\ item[i].quantity \in Int
  <2>1. call[r] \in Calls /\ call[r].op = "confirm" /\ item[i] # NoItem
    BY DEF ReserveStock, WellFormed, TypeOK, SessionTyped, SessionsMakeSense, StepFitsCall
  <2>2. call[r].location \in Locations
    BY <2>1, CallFields
  <2>3. item[i].product \in Products /\ item[i].quantity \in Nat
    BY <2>1, ItemFields DEF WellFormed, TypeOK, TablesTyped
  <2> QED
    BY <2>2, <2>3 DEF ItemStock, Stocks
<1>2. synced \in Row
  <2>1. stockDraft[s] \in Row /\ ReorderPoint[s] \in Nat
    BY <1>1, StockConstants DEF WellFormed, TypeOK, LocksTyped
  <2>2. row \in Row
    BY <1>1, <2>1, ReservingRow
  <2> QED
    BY <2>1, <2>2, SyncedRow
<1>3. raised \subseteq Stocks
  BY <1>1
<1>4. /\ stockOwner' = [stockOwner EXCEPT ![s] = r]
      /\ stockDraft' = [stockDraft EXCEPT ![s] = synced]
      /\ pending' = [pending EXCEPT ![r] = @ \cup raised]
      /\ cur' = [cur EXCEPT ![r] = i]
      /\ pc' = [pc EXCEPT ![r] = "reserve"]
      /\ UNCHANGED <<tables, resvDraft, resvOwner, call, todo, seen, delta,
                     announced, faults>>
      /\ call[r].op = "confirm" /\ pc[r] = "work" /\ i \in todo[r]
  BY DEF ReserveStock, Goto
<1> HIDE DEF s, row, synced, raised
<1>5. TypeOK'
  <2>1. TablesTyped' /\ LocksTyped'
    BY <1>1, <1>2, <1>4 DEF WellFormed, TypeOK, TablesTyped, LocksTyped, tables
  <2>2. SessionTyped'
    BY <1>3, <1>4 DEF WellFormed, TypeOK, SessionTyped, PCs
  <2> QED
    BY <1>4, <2>1, <2>2 DEF WellFormed, TypeOK
<1>6. Grows /\ DraftsCover'
  BY <1>4, GrowsUnchanged DEF tables
<1>7. StepFitsCall(r)'
  BY <1>4 DEF WellFormed, TypeOK, SessionTyped, SessionsMakeSense, StepFitsCall, tables
<1>8. \A q \in Requests : StepFitsCall(q)'
  BY <1>4, <1>6, <1>7, SenseByStep DEF WellFormed, TypeOK, SessionTyped
<1> QED
  BY <1>5, <1>6, <1>8 DEF WellFormed, SessionsMakeSense, DraftsCover

\* The INSERT takes the item out of the loop of confirm_order.
LEMMA InsertReservationWF ==
  ASSUME WellFormed, NEW r \in Requests, InsertReservation(r) PROVE WellFormed'
<1> DEFINE i == cur[r]
           row == [status |-> "reserved", stock |-> ItemStock(r, i),
                   quantity |-> item[i].quantity]
<1>1. i \in todo[r] /\ i \in Items /\ call[r] \in Calls /\ call[r].op = "confirm"
  BY DEF InsertReservation, WellFormed, TypeOK, SessionTyped, SessionsMakeSense, StepFitsCall
<1>2. item[i] # NoItem
  BY <1>1 DEF WellFormed, SessionsMakeSense, StepFitsCall
<1>3. row \in ResvRows /\ row # NoResv
  <2>1. call[r].location \in Locations
    BY <1>1, CallFields
  <2>2. item[i].product \in Products /\ item[i].quantity \in Quantities
    BY <1>1, <1>2, ItemFields DEF WellFormed, TypeOK, TablesTyped
  <2>3. ItemStock(r, i) \in Stocks
    BY <2>1, <2>2 DEF ItemStock, Stocks
  <2> QED
    BY <2>2, <2>3, NewResvRow
<1>4. /\ resvOwner' = [resvOwner EXCEPT ![i] = r]
      /\ resvDraft' = [resvDraft EXCEPT ![i] = row]
      /\ todo' = [todo EXCEPT ![r] = @ \ {i}]
      /\ cur' = [cur EXCEPT ![r] = None]
      /\ pc' = [pc EXCEPT ![r] = "work"]
      /\ UNCHANGED <<tables, stockDraft, stockOwner, call, seen, pending, delta,
                     announced, faults>>
  BY DEF InsertReservation, Goto
<1> HIDE DEF i, row
<1>5. TypeOK'
  <2>1. TablesTyped' /\ LocksTyped'
    BY <1>1, <1>3, <1>4 DEF WellFormed, TypeOK, TablesTyped, LocksTyped, tables
  <2>2. SessionTyped'
    BY <1>4 DEF WellFormed, TypeOK, SessionTyped, PCs
  <2> QED
    BY <1>4, <2>1, <2>2 DEF WellFormed, TypeOK
<1>6. Grows /\ DraftsCover'
  BY <1>1, <1>3, <1>4 DEF WellFormed, SessionsMakeSense, Grows, DraftsCover, TypeOK,
                          LocksTyped, tables
<1>7. StepFitsCall(r)'
  BY <1>1, <1>4 DEF WellFormed, TypeOK, SessionTyped, SessionsMakeSense, StepFitsCall, tables
<1>8. \A q \in Requests : StepFitsCall(q)'
  BY <1>4, <1>6, <1>7, SenseByStep DEF WellFormed, TypeOK, SessionTyped
<1> QED
  BY <1>5, <1>6, <1>8 DEF WellFormed, SessionsMakeSense, DraftsCover
\* The three commits differ in the status they write and in whether they flush.
LEMMA CommitOrderWF ==
  ASSUME WellFormed, NEW r \in Requests, NEW to \in OrderStatuses,
         order' = [order EXCEPT ![call[r].order] = to],
         Commit(r), UNCHANGED <<item, faults>>,
         End(r) \/ FlushThenEnd(r, pending[r])
  PROVE  WellFormed'
<1>1. /\ resv' \in [Items -> ResvRows] /\ stock' \in [Stocks -> Row]
      /\ LocksTyped' /\ announced' \in SUBSET Stocks
  BY CommitTyped DEF WellFormed
<1>2. pending[r] \in SUBSET Stocks
  BY DEF WellFormed, TypeOK, SessionTyped
<1>3. SessionTyped'
  BY <1>2, EndTyped, FlushTyped DEF WellFormed, TypeOK
<1>4. TypeOK'
  <2>1. order' \in [Orders -> OrderStatuses]
    BY DEF WellFormed, TypeOK, TablesTyped
  <2> QED
    BY <1>1, <1>3, <2>1 DEF WellFormed, TypeOK, TablesTyped
<1>5. Grows /\ DraftsCover'
  BY CommitSense
<1>6. \A q \in Requests : StepFitsCall(q)'
  BY <1>5, SenseByEnd, SenseByFlush
<1> QED
  BY <1>4, <1>5, <1>6 DEF WellFormed, SessionsMakeSense, DraftsCover

\* Each of the three commits ends its request or sends it to flush.
LEMMA CommitsWF ==
  ASSUME WellFormed, NEW r \in Requests,
         CommitConfirm(r) \/ CommitCancel(r) \/ CommitComplete(r)
  PROVE  WellFormed'
<1>1. CASE CommitConfirm(r)
  BY <1>1, CommitOrderWF DEF CommitConfirm, OrderStatuses
<1>2. CASE CommitCancel(r)
  BY <1>2, CommitOrderWF DEF CommitCancel, OrderStatuses
<1>3. CASE CommitComplete(r)
  BY <1>3, CommitOrderWF DEF CommitComplete, OrderStatuses
<1> QED
  BY <1>1, <1>2, <1>3

\* The item whose reservation is locked is one the loop still has.
LEMMA LockReservationWF ==
  ASSUME WellFormed, NEW r \in Requests, NEW i \in Items, LockReservation(r, i)
  PROVE  WellFormed'
<1> USE DEF LockReservation, Goto, Settling
<1>1. TypeOK'
  BY DEF WellFormed, TypeOK, TablesTyped, LocksTyped, SessionTyped, tables, PCs
<1>2. Grows /\ DraftsCover'
  BY GrowsUnchanged DEF tables
<1>3. StepFitsCall(r)'
  BY DEF WellFormed, TypeOK, SessionTyped, SessionsMakeSense, StepFitsCall, tables
<1>4. \A q \in Requests : StepFitsCall(q)'
  BY <1>2, <1>3, SenseByStep DEF WellFormed, TypeOK, SessionTyped
<1> QED
  BY <1>1, <1>2, <1>4 DEF WellFormed, SessionsMakeSense, DraftsCover

\* The reservation a settling request has locked exists, and so does its row.
LEMMA SettlingItem ==
  ASSUME WellFormed, NEW r \in Requests, pc[r] = "settle"
  PROVE  /\ cur[r] \in Items /\ cur[r] \in todo[r]
         /\ resv[cur[r]] # NoResv /\ resvDraft[cur[r]] # NoResv
         /\ resvDraft[cur[r]] \in ResvRows
         /\ resvDraft[cur[r]].stock \in Stocks
         /\ resvDraft[cur[r]].quantity \in Nat
         /\ call[r].op \in {"cancel", "complete"}
<1>1. cur[r] \in Items /\ cur[r] \in todo[r] /\ call[r].op \in {"cancel", "complete"}
  BY DEF WellFormed, TypeOK, SessionTyped, SessionsMakeSense, StepFitsCall
<1>2. resv[cur[r]] # NoResv
  BY <1>1 DEF WellFormed, SessionsMakeSense, StepFitsCall
<1>3. resvDraft[cur[r]] # NoResv /\ resvDraft[cur[r]] \in ResvRows
  BY <1>1, <1>2 DEF WellFormed, SessionsMakeSense, TypeOK, LocksTyped
<1> QED
  BY <1>1, <1>2, <1>3, ResvFields

SettledRow(r) ==
    IF call[r].op = "complete"
    THEN WithFulfilled(stockDraft[resvDraft[cur[r]].stock], resvDraft[cur[r]].quantity)
    ELSE WithReleased(stockDraft[resvDraft[cur[r]].stock], resvDraft[cur[r]].quantity)

\* What SettleStock does, with its local names resolved.
LEMMA SettleStockEffect ==
  ASSUME WellFormed, NEW r \in Requests, SettleStock(r),
         NEW i, i = cur[r], NEW s, s = resvDraft[i].stock
  PROVE  /\ pc[r] = "settle" /\ Free(stockOwner[s], r)
         /\ stockOwner' = [stockOwner EXCEPT ![s] = r]
         /\ stockDraft' = [stockDraft EXCEPT ![s] = Synced(SettledRow(r), ReorderPoint[s])]
         /\ \E to \in {"released", "fulfilled"} :
               resvDraft' = [resvDraft EXCEPT ![i] = [resvDraft[i] EXCEPT !.status = to]]
         /\ pending' = [pending EXCEPT ![r] =
                          pending[r] \cup {t \in {s} : Raises(SettledRow(r), ReorderPoint[s])}]
         /\ todo' = [todo EXCEPT ![r] = todo[r] \ {i}]
         /\ cur' = [cur EXCEPT ![r] = None]
         /\ pc' = [pc EXCEPT ![r] = "work"]
         /\ UNCHANGED <<tables, resvOwner, call, seen, delta, announced, faults>>
<1>1. r \in DOMAIN pending /\ r \in DOMAIN todo
  BY DEF WellFormed, TypeOK, SessionTyped
<1>2. CASE call[r].op = "complete"
  BY <1>1, <1>2 DEF SettleStock, SettledRow, SettledStatus, Goto
<1>3. CASE call[r].op # "complete"
  BY <1>1, <1>3 DEF SettleStock, SettledRow, SettledStatus, Goto
<1> QED
  BY <1>2, <1>3

\* Releasing or fulfilling, then syncing, yields a typed row.
LEMMA SettledRowTyped ==
  ASSUME WellFormed, NEW r \in Requests, pc[r] = "settle"
  PROVE  LET s == resvDraft[cur[r]].stock
         IN  /\ stockDraft[s] \in Row /\ SettledRow(r) \in Row
             /\ Synced(SettledRow(r), ReorderPoint[s]) \in Row
<1>1. /\ resvDraft[cur[r]].stock \in Stocks /\ resvDraft[cur[r]].quantity \in Int
      /\ call[r].op \in {"cancel", "complete"}
  BY SettlingItem
<1>2. /\ stockDraft[resvDraft[cur[r]].stock] \in Row
      /\ ReorderPoint[resvDraft[cur[r]].stock] \in Nat
  BY <1>1, StockConstants DEF WellFormed, TypeOK, LocksTyped
<1>3. SettledRow(r) \in Row
  BY <1>1, <1>2, ReleasingRow, FulfillingRow DEF SettledRow
<1> QED
  BY <1>2, <1>3, SyncedRow

\* release_for_item and fulfill_for_item settle one item and go back to the loop.
LEMMA SettleStockWF ==
  ASSUME WellFormed, NEW r \in Requests, SettleStock(r) PROVE WellFormed'
<1> DEFINE i == cur[r]
           s == resvDraft[i].stock
           synced == Synced(SettledRow(r), ReorderPoint[s])
           raised == {t \in {s} : Raises(SettledRow(r), ReorderPoint[s])}
<1>1. pc[r] = "settle"
  BY SettleStockEffect
<1>2. /\ i \in Items /\ i \in todo[r] /\ s \in Stocks /\ call[r].op \in {"cancel", "complete"}
      /\ resvDraft[i] \in ResvRows /\ resvDraft[i] # NoResv
  BY <1>1, SettlingItem
<1>3. synced \in Row
  BY <1>1, SettledRowTyped
<1>4. raised \subseteq Stocks
  BY <1>2
<1>5. PICK to \in {"released", "fulfilled"} :
        resvDraft' = [resvDraft EXCEPT ![i] = [resvDraft[i] EXCEPT !.status = to]]
  BY SettleStockEffect
<1> DEFINE row == [resvDraft[i] EXCEPT !.status = to]
<1>6. row \in ResvRows /\ row # NoResv
  BY <1>2, SettledResvRow
<1>7. /\ stockOwner' = [stockOwner EXCEPT ![s] = r]
      /\ stockDraft' = [stockDraft EXCEPT ![s] = synced]
      /\ pending' = [pending EXCEPT ![r] = pending[r] \cup raised]
      /\ todo' = [todo EXCEPT ![r] = todo[r] \ {i}]
      /\ cur' = [cur EXCEPT ![r] = None]
      /\ pc' = [pc EXCEPT ![r] = "work"]
      /\ UNCHANGED <<tables, resvOwner, call, seen, delta, announced, faults>>
  BY SettleStockEffect
<1>7a. resvDraft' = [resvDraft EXCEPT ![i] = row]
  BY <1>5
<1> HIDE DEF i, s, synced, raised, row
<1>8. TypeOK'
  <2>1. TablesTyped' /\ LocksTyped'
    BY <1>2, <1>3, <1>6, <1>7, <1>7a DEF WellFormed, TypeOK, TablesTyped, LocksTyped, tables
  <2>2. SessionTyped'
    BY <1>4, <1>7 DEF WellFormed, TypeOK, SessionTyped, PCs
  <2> QED
    BY <1>7, <2>1, <2>2 DEF WellFormed, TypeOK
<1>9. Grows /\ DraftsCover'
  BY <1>2, <1>6, <1>7, <1>7a DEF WellFormed, SessionsMakeSense, Grows, DraftsCover, TypeOK,
                          LocksTyped, tables
<1>10. StepFitsCall(r)'
  BY <1>2, <1>7 DEF WellFormed, TypeOK, SessionTyped, SessionsMakeSense, StepFitsCall, tables
<1>11. \A q \in Requests : StepFitsCall(q)'
  BY <1>7, <1>9, <1>10, SenseByStep DEF WellFormed, TypeOK, SessionTyped
<1> QED
  BY <1>8, <1>9, <1>11 DEF WellFormed, SessionsMakeSense, DraftsCover

\* The one-statement transactions touch neither items nor reservations.
LEMMA WriteStockSense ==
  ASSUME WellFormed, NEW s, NEW row, WriteStock(s, row)
  PROVE  Grows /\ DraftsCover'
  BY GrowsUnchanged DEF WriteStock

MovedRow(c) == [stock[c.stock] EXCEPT
                  !.quantity = MovedQuantity(stock[c.stock], c.op, c.quantity)]

\* add_stock, remove_stock and adjust_stock write one live, typed row.
LEMMA MoveStockEffect ==
  ASSUME WellFormed, NEW r \in Requests, NEW c \in StockCalls, MoveStock(r, c)
  PROVE  /\ c.stock \in Stocks /\ c.op \in MoveOps /\ pc[r] = "idle"
         /\ stock[c.stock] \in Row /\ stock[c.stock].live /\ MovedRow(c) \in Row
         /\ ReorderPoint[c.stock] \in Nat
         /\ Synced(MovedRow(c), ReorderPoint[c.stock]) \in Row
         /\ WriteStock(c.stock, Synced(MovedRow(c), ReorderPoint[c.stock]))
<1>1. c \in Calls /\ c.op \in MoveOps
  BY DEF MoveStock, Calls
<1>2. c.stock \in Stocks /\ c.quantity \in Int
  BY <1>1, CallFields
<1>3. stock[c.stock] \in Row /\ ReorderPoint[c.stock] \in Nat
  BY <1>2, StockConstants DEF WellFormed, TypeOK, TablesTyped
<1>4. MovedRow(c) \in Row
  BY <1>1, <1>2, <1>3, MovedTyped DEF MovedRow, MoveOps
<1>5. Synced(MovedRow(c), ReorderPoint[c.stock]) \in Row
  BY <1>3, <1>4, SyncedRow
<1>6. WriteStock(c.stock, Synced(MovedRow(c), ReorderPoint[c.stock]))
  BY DEF MoveStock, MovedRow
<1> QED
  BY <1>1, <1>2, <1>3, <1>4, <1>5, <1>6 DEF MoveStock, MoveAllowed

\* After the first commit of a stock change its movement is still owed.
LEMMA MoveStockWF ==
  ASSUME WellFormed, NEW r \in Requests, NEW c \in StockCalls, MoveStock(r, c)
  PROVE  WellFormed'
<1> DEFINE s == c.stock
           row == Synced(MovedRow(c), ReorderPoint[s])
           raised == {t \in {s} : Raises(MovedRow(c), ReorderPoint[s])}
           change == MovedRow(c).quantity - stock[s].quantity
<1>1. /\ s \in Stocks /\ row \in Row /\ WriteStock(s, row) /\ c.op \in MoveOps
      /\ pc[r] = "idle" /\ c \in Calls
  BY MoveStockEffect DEF Calls
<1>2. change \in Int
  BY MoveStockEffect DEF Row
<1>3. raised \subseteq Stocks
  BY <1>1
<1>4. /\ call' = [call EXCEPT ![r] = c]
      /\ pending' = [pending EXCEPT ![r] = raised]
      /\ delta' = [delta EXCEPT ![r] = change]
      /\ pc' = [pc EXCEPT ![r] = "movement"]
      /\ UNCHANGED <<todo, seen, cur, faults>>
  BY DEF MoveStock, Goto, MovedRow
<1> HIDE DEF s, row, raised, change
<1>5. TablesTyped' /\ LocksTyped' /\ announced' \in SUBSET Stocks
  BY <1>1, WriteStockTyped DEF WellFormed
<1>6. SessionTyped'
  BY <1>1, <1>2, <1>3, <1>4 DEF WellFormed, TypeOK, SessionTyped, PCs
<1>7. Grows /\ DraftsCover'
  BY <1>1, WriteStockSense
<1>8. StepFitsCall(r)'
  BY <1>1, <1>4 DEF WellFormed, TypeOK, SessionTyped, SessionsMakeSense, StepFitsCall, MoveOps
<1>9. \A q \in Requests : StepFitsCall(q)'
  BY <1>4, <1>7, <1>8, SenseByStep DEF WellFormed, TypeOK, SessionTyped
<1> QED
  BY <1>4, <1>5, <1>6, <1>7, <1>9 DEF WellFormed, TypeOK, SessionsMakeSense, DraftsCover

\* The second commit of a stock change, and the mark of initialize_stock.
LEMMA SecondCommitWF ==
  ASSUME WellFormed, NEW r \in Requests, NEW s \in Stocks, NEW row \in Row,
         WriteStock(s, row), FlushThenEnd(r, pending[r]), UNCHANGED faults
  PROVE  WellFormed'
<1>1. TablesTyped' /\ LocksTyped' /\ announced' \in SUBSET Stocks
  BY WriteStockTyped DEF WellFormed
<1>2. SessionTyped'
  BY FlushTyped DEF WellFormed, TypeOK, SessionTyped
<1>3. Grows /\ DraftsCover'
  BY WriteStockSense
<1>4. \A q \in Requests : StepFitsCall(q)'
  BY <1>3, SenseByFlush
<1> QED
  BY <1>1, <1>2, <1>3, <1>4 DEF WellFormed, TypeOK, SessionsMakeSense, DraftsCover

\* The movement is for the row its request changed.
LEMMA RecordMovementEffect ==
  ASSUME WellFormed, NEW r \in Requests, RecordMovement(r)
  PROVE  /\ call[r].stock \in Stocks /\ stock[call[r].stock] \in Row
         /\ delta[r] \in Int
         /\ Recorded(stock[call[r].stock], delta[r]) \in Row
<1>1. call[r] \in Calls /\ call[r].op \in MoveOps /\ delta[r] \in Int
  BY DEF RecordMovement, WellFormed, TypeOK, SessionTyped, SessionsMakeSense, StepFitsCall
<1>2. call[r].stock \in Stocks
  BY <1>1, CallFields
<1>3. stock[call[r].stock] \in Row
  BY <1>2 DEF WellFormed, TypeOK, TablesTyped
<1> QED
  BY <1>1, <1>2, <1>3, RecordedRow

\* The second commit of a stock change ends the request or sends it to flush.
LEMMA RecordMovementWF ==
  ASSUME WellFormed, NEW r \in Requests, RecordMovement(r) PROVE WellFormed'
  BY RecordMovementEffect, SecondCommitWF DEF RecordMovement

\* initialize_stock goes on with the row it has inserted.
LEMMA OpenedStock ==
  ASSUME WellFormed, NEW r \in Requests, pc[r] \in {"opened", "mark"}
  PROVE  call[r].stock \in Stocks /\ stock[call[r].stock] \in Row
<1>1. call[r] \in Calls /\ call[r].op = "initialize_stock"
  BY DEF WellFormed, TypeOK, SessionTyped, SessionsMakeSense, StepFitsCall
<1>2. call[r].stock \in Stocks
  BY <1>1, CallFields
<1> QED
  BY <1>2 DEF WellFormed, TypeOK, TablesTyped

\* Its second commit raises the flag and leaves the row typed.
LEMMA MarkOpenedWF ==
  ASSUME WellFormed, NEW r \in Requests, MarkOpened(r) PROVE WellFormed'
<1>1. call[r].stock \in Stocks /\ stock[call[r].stock] \in Row
  BY OpenedStock DEF MarkOpened
<1>2. [stock[call[r].stock] EXCEPT !.alerted = TRUE] \in Row
  BY <1>1 DEF Row
<1> QED
  BY <1>1, <1>2, SecondCommitWF DEF MarkOpened

\* Its first commit inserts a typed row.
LEMMA InitializeStockWF ==
  ASSUME WellFormed, NEW r \in Requests, NEW c \in StockCalls, InitializeStock(r, c)
  PROVE  WellFormed'
<1>1. c \in Calls /\ c.op = "initialize_stock" /\ pc[r] = "idle"
  BY DEF InitializeStock, Calls
<1>2. c.stock \in Stocks /\ c.quantity \in Int
  BY <1>1, CallFields
<1>3. NewRow(c.quantity) \in Row
  BY <1>2, NewRowTyped
<1>4. /\ WriteStock(c.stock, NewRow(c.quantity))
      /\ call' = [call EXCEPT ![r] = c]
      /\ pc' = [pc EXCEPT ![r] = "opened"]
      /\ UNCHANGED <<todo, seen, cur, pending, delta, faults>>
  BY DEF InitializeStock, Goto
<1>5. TablesTyped' /\ LocksTyped' /\ announced' \in SUBSET Stocks
  BY <1>2, <1>3, <1>4, WriteStockTyped DEF WellFormed
<1>6. SessionTyped'
  BY <1>1, <1>4 DEF WellFormed, TypeOK, SessionTyped, PCs
<1>7. Grows /\ DraftsCover'
  BY <1>4, WriteStockSense
<1>8. StepFitsCall(r)'
  BY <1>1, <1>4 DEF WellFormed, TypeOK, SessionTyped, SessionsMakeSense, StepFitsCall
<1>9. \A q \in Requests : StepFitsCall(q)'
  BY <1>4, <1>7, <1>8, SenseByStep DEF WellFormed, TypeOK, SessionTyped
<1> QED
  BY <1>4, <1>5, <1>6, <1>7, <1>9 DEF WellFormed, TypeOK, SessionsMakeSense, DraftsCover

\* Reading the row back changes no table.
LEMMA RefreshOpenedWF ==
  ASSUME WellFormed, NEW r \in Requests, RefreshOpened(r) PROVE WellFormed'
<1>1. /\ pc[r] = "opened" /\ UNCHANGED <<tables, locks, announced, faults>>
  BY DEF RefreshOpened
<1>2. call[r].stock \in Stocks
  BY <1>1, OpenedStock
<1>3. Grows /\ DraftsCover'
  BY <1>1, GrowsUnchanged DEF tables, locks
<1>4. TablesTyped' /\ LocksTyped' /\ announced' \in SUBSET Stocks /\ faults' \in 0..MaxFaults
  BY <1>1 DEF WellFormed, TypeOK, TablesTyped, LocksTyped, tables, locks
<1>5. CASE End(r)
  BY <1>3, <1>4, <1>5, EndTyped, SenseByEnd
     DEF WellFormed, TypeOK, SessionsMakeSense, DraftsCover
<1>6. CASE /\ pending' = [pending EXCEPT ![r] = {call[r].stock}]
           /\ pc' = [pc EXCEPT ![r] = "mark"]
           /\ UNCHANGED <<call, todo, seen, cur, delta>>
  <2>1. SessionTyped'
    BY <1>2, <1>6 DEF WellFormed, TypeOK, SessionTyped, PCs
  <2>2. StepFitsCall(r)'
    BY <1>1, <1>6 DEF WellFormed, TypeOK, SessionTyped, SessionsMakeSense, StepFitsCall
  <2>3. \A q \in Requests : StepFitsCall(q)'
    BY <1>3, <1>6, <2>2, SenseByStep DEF WellFormed, TypeOK, SessionTyped
  <2> QED
    BY <1>3, <1>4, <2>1, <2>3 DEF WellFormed, TypeOK, SessionsMakeSense, DraftsCover
<1> QED
  BY <1>5, <1>6 DEF RefreshOpened, Goto

\* An alert deferred or lost leaves one alert fewer to send.
LEMMA FlushWF ==
  ASSUME WellFormed, NEW r \in Requests, NEW s \in Stocks,
         DeferAlert(r, s) \/ LoseAlert(r, s)
  PROVE  WellFormed'
<1>1. /\ FlushThenEnd(r, pending[r] \ {s}) /\ UNCHANGED <<tables, locks>>
      /\ announced' \in SUBSET Stocks /\ faults' \in 0..MaxFaults
  BY StockConstants DEF DeferAlert, LoseAlert, WellFormed, TypeOK
<1>2. SessionTyped'
  <2>1. pending[r] \ {s} \in SUBSET Stocks
    BY DEF WellFormed, TypeOK, SessionTyped
  <2> QED
    BY <1>1, <2>1, FlushTyped DEF WellFormed, TypeOK
<1>3. Grows /\ DraftsCover'
  BY <1>1, GrowsUnchanged DEF tables, locks
<1>4. \A q \in Requests : StepFitsCall(q)'
  BY <1>1, <1>3, SenseByFlush
<1>5. TablesTyped' /\ LocksTyped'
  BY <1>1 DEF WellFormed, TypeOK, TablesTyped, LocksTyped, tables, locks
<1> QED
  BY <1>1, <1>2, <1>3, <1>4, <1>5 DEF WellFormed, TypeOK, SessionsMakeSense, DraftsCover

\* Every action that ends in Rollback and End.
GivesUp(r) ==
    \/ NoSuchItem(r) \/ InsertRefused(r) \/ LockWaitAborted(r)
    \/ SecondCommitTimesOut(r) \/ Crash(r)
    \/ \E i \in Items : RemoveItemRefused(r, i) \/ ReserveRefused(r, i) \/ SettleRefused(r, i)

\* Whatever makes a request give up, its transaction is rolled back.
LEMMA GivesUpEffect ==
  ASSUME WellFormed, NEW r \in Requests, GivesUp(r)
  PROVE  Rollback(r) /\ End(r) /\ faults' \in 0..MaxFaults
  BY FaultsTyped
     DEF GivesUp, NoSuchItem, InsertRefused, LockWaitAborted, SecondCommitTimesOut, Crash,
         RemoveItemRefused, ReserveRefused, SettleRefused, Fail

\* WellFormed is inductive: one step of the proof per action.
LEMMA NextWF == WellFormed /\ [Next]_vars => WellFormed'
<1> SUFFICES ASSUME WellFormed, [Next]_vars PROVE WellFormed'
  OBVIOUS
<1>1. ASSUME NEW o \in Orders, CreateOrder(o) PROVE WellFormed'
  BY <1>1, CreateOrderWF
<1>2. ASSUME NEW r \in Requests, Arrives(r) PROVE WellFormed'
  BY <1>2, ReadOrderWF, MoveStockWF, InitializeStockWF DEF Arrives
<1>3. ASSUME NEW r \in Requests, GivesUp(r) PROVE WellFormed'
  BY <1>3, GivesUpEffect, FailWellFormed
<1>4. ASSUME NEW r \in Requests, NEW i \in Items, ItemStep(r, i) PROVE WellFormed'
  BY <1>3, <1>4, AddItemWF, RemoveItemWF, ReserveStockWF, LockReservationWF
     DEF ItemStep, GivesUp
<1>5. ASSUME NEW r \in Requests, Advances(r) PROVE WellFormed'
  BY <1>3, <1>4, <1>5, ReadItemsWF, PickItemWF, InsertReservationWF, CommitsWF, SettleStockWF,
     RecordMovementWF, RefreshOpenedWF, MarkOpenedWF, FlushWF
     DEF Advances, GivesUp
<1>6. ASSUME NEW r \in Requests, Fails(r) PROVE WellFormed'
  BY <1>3, <1>6, FlushWF DEF Fails, GivesUp
<1>7. CASE UNCHANGED vars
  BY <1>7 DEF vars, tables, locks, session, WellFormed, TypeOK, TablesTyped, LocksTyped,
              SessionTyped, SessionsMakeSense, StepFitsCall
<1> QED
  BY <1>1, <1>2, <1>5, <1>6, <1>7 DEF Next

\* Every reachable state is well typed, and every request is at a step that its call
\* can be at: what the later proofs start from.
THEOREM StateWellFormed == Spec => [](TypeOK /\ SessionsMakeSense)
<1>1. Init => WellFormed
  BY InitTypeOK, InitSense DEF WellFormed
<1>2. WellFormed /\ [Next]_vars => WellFormed'
  BY NextWF
<1> QED
  BY <1>1, <1>2, PTL DEF Spec, WellFormed

\* The steps that write a row version, in either table.
StockWrite(r) ==
    \/ Commit(r) \/ Rollback(r) \/ SettleStock(r) \/ RecordMovement(r) \/ MarkOpened(r)
    \/ \E i \in Items : ReserveStock(r, i)
    \/ \E c \in StockCalls : MoveStock(r, c) \/ InitializeStock(r, c)

\* Every other step leaves the stock rows alone.
LEMMA StockSteps ==
  ASSUME WellFormed, [Next]_vars
  PROVE  UNCHANGED <<stock, stockDraft>> \/ \E r \in Requests : StockWrite(r)
<1>1. ASSUME NEW o \in Orders, CreateOrder(o) PROVE UNCHANGED <<stock, stockDraft>>
  BY <1>1 DEF CreateOrder, locks
<1>2. ASSUME NEW r \in Requests, Arrives(r)
      PROVE  UNCHANGED <<stock, stockDraft>> \/ StockWrite(r)
  BY <1>2 DEF Arrives, ReadOrder, tables, locks, StockWrite
<1>3. ASSUME NEW r \in Requests, GivesUp(r) PROVE StockWrite(r)
  BY <1>3, GivesUpEffect DEF StockWrite
<1>4. ASSUME NEW r \in Requests, NEW i \in Items, ItemStep(r, i)
      PROVE  UNCHANGED <<stock, stockDraft>> \/ StockWrite(r)
  <2>1. CASE RemoveItemRefused(r, i) \/ ReserveRefused(r, i) \/ SettleRefused(r, i)
    BY <2>1, <1>3 DEF GivesUp
  <2>2. CASE AddItem(r, i) \/ RemoveItem(r, i) \/ LockReservation(r, i)
    BY <2>2 DEF AddItem, RemoveItem, LockReservation, tables, locks
  <2>3. CASE ReserveStock(r, i)
    BY <2>3 DEF StockWrite
  <2> QED
    BY <1>4, <2>1, <2>2, <2>3 DEF ItemStep
<1>5. ASSUME NEW r \in Requests, NEW s \in Stocks, DeferAlert(r, s) \/ LoseAlert(r, s)
      PROVE  UNCHANGED <<stock, stockDraft>>
  BY <1>5 DEF DeferAlert, LoseAlert, tables, locks
<1>6. ASSUME NEW r \in Requests, Advances(r)
      PROVE  UNCHANGED <<stock, stockDraft>> \/ StockWrite(r)
  <2>1. CASE NoSuchItem(r) \/ InsertRefused(r) \/ LockWaitAborted(r)
    BY <2>1, <1>3 DEF GivesUp
  <2>2. CASE ReadItems(r) \/ PickItem(r) \/ InsertReservation(r) \/ RefreshOpened(r)
    BY <2>2 DEF ReadItems, PickItem, InsertReservation, RefreshOpened, tables, locks
  <2>3. CASE CommitConfirm(r) \/ CommitCancel(r) \/ CommitComplete(r)
    BY <2>3 DEF CommitConfirm, CommitCancel, CommitComplete, StockWrite
  <2>4. CASE SettleStock(r) \/ RecordMovement(r) \/ MarkOpened(r)
    BY <2>4 DEF StockWrite
  <2> QED
    BY <1>4, <1>5, <1>6, <2>1, <2>2, <2>3, <2>4 DEF Advances
<1>7. ASSUME NEW r \in Requests, Fails(r)
      PROVE  UNCHANGED <<stock, stockDraft>> \/ StockWrite(r)
  BY <1>3, <1>5, <1>7 DEF Fails, GivesUp
<1>8. CASE UNCHANGED vars
  BY <1>8 DEF vars, tables, locks
<1> QED
  BY <1>1, <1>2, <1>6, <1>7, <1>8 DEF Next

-----------------------------------------------------------------------------
(* NeverOversold *)

\* A row version not yet committed that promises more than the committed one
\* promises no more than it has.
PromiseBacked ==
    \A s \in Stocks : stockDraft[s].reserved > stock[s].reserved
                      => stockDraft[s].reserved <= stockDraft[s].quantity

\* The right-hand side of NeverOversold, for one step.
Backed == \A s \in Stocks : stock'[s].reserved > stock[s].reserved
                            => stock'[s].reserved <= stock'[s].quantity

\* The counters of a stock row are integers.
LEMMA RowNumbers ==
  ASSUME WellFormed, NEW s \in Stocks
  PROVE  /\ stock[s] \in Row /\ stockDraft[s] \in Row
         /\ stock[s].reserved \in Int /\ stock[s].quantity \in Int
         /\ stockDraft[s].reserved \in Int /\ stockDraft[s].quantity \in Int
         /\ ReorderPoint[s] \in Nat
  BY StockConstants DEF WellFormed, TypeOK, TablesTyped, LocksTyped, Row

\* A write that leaves `reserved` of the committed row alone, or zeroes it with
\* stock on the shelf, promises nothing new.
LEMMA WriteStockBacked ==
  ASSUME WellFormed, NEW s \in Stocks, NEW row \in Row, WriteStock(s, row), PromiseBacked,
         row.reserved = stock[s].reserved \/ (row.reserved = 0 /\ row.quantity >= 0)
  PROVE  Backed /\ PromiseBacked'
<1>1. \A t \in Stocks : /\ stock'[t] = (IF t = s THEN row ELSE stock[t])
                        /\ stockDraft'[t] = (IF t = s THEN row ELSE stockDraft[t])
  BY DEF WriteStock, WellFormed, TypeOK, TablesTyped, LocksTyped
<1>2. row.reserved \in Int /\ row.quantity \in Int
  BY DEF Row
<1>3. Backed
  BY <1>1, <1>2, RowNumbers DEF Backed
<1>4. PromiseBacked'
  BY <1>1, <1>2, RowNumbers DEF PromiseBacked
<1> QED
  BY <1>3, <1>4

\* reserve_for_item checks the very version it writes, under the row lock, so what
\* it promises is there.
LEMMA ReserveStockBacked ==
  ASSUME WellFormed, NEW r \in Requests, NEW i \in Items, ReserveStock(r, i), PromiseBacked
  PROVE  Backed /\ PromiseBacked'
<1> DEFINE s == ItemStock(r, i)
           q == item[i].quantity
           row == Synced(WithReserved(stockDraft[s], q), ReorderPoint[s])
<1>1. s \in Stocks /\ q \in Int
  <2>1. call[r] \in Calls /\ call[r].op = "confirm" /\ item[i] # NoItem
    BY DEF ReserveStock, WellFormed, TypeOK, SessionTyped, SessionsMakeSense, StepFitsCall
  <2>2. call[r].location \in Locations
    BY <2>1, CallFields
  <2>3. item[i].product \in Products /\ q \in Nat
    BY <2>1, ItemFields DEF WellFormed, TypeOK, TablesTyped
  <2> QED
    BY <2>2, <2>3 DEF ItemStock, Stocks
<1>2. row.reserved = stockDraft[s].reserved + q /\ row.quantity = stockDraft[s].quantity
  <2> DEFINE held == WithReserved(stockDraft[s], q)
  <2>1. stockDraft[s] \in Row /\ ReorderPoint[s] \in Nat
    BY <1>1, RowNumbers
  <2>2. /\ held \in Row /\ held.reserved = stockDraft[s].reserved + q
        /\ held.quantity = stockDraft[s].quantity
    BY <1>1, <2>1, ReservingRow
  <2> HIDE DEF held
  <2>3. /\ Synced(held, ReorderPoint[s]).reserved = held.reserved
        /\ Synced(held, ReorderPoint[s]).quantity = held.quantity
    BY <2>1, <2>2, SyncedRow
  <2> QED
    BY <2>2, <2>3 DEF held
<1>3. stockDraft[s].quantity - stockDraft[s].reserved >= q
  BY DEF ReserveStock, CanReserve, Covers, Available
<1>4. stock' = stock /\ stockDraft' = [stockDraft EXCEPT ![s] = row]
  BY DEF ReserveStock, tables
<1> HIDE DEF s, q, row
<1>5. Backed
  BY <1>4, RowNumbers DEF Backed
<1>6. PromiseBacked'
  <2> SUFFICES ASSUME NEW t \in Stocks
               PROVE  stockDraft'[t].reserved > stock'[t].reserved
                      => stockDraft'[t].reserved <= stockDraft'[t].quantity
    BY DEF PromiseBacked
  <2>1. CASE t = s
    BY <2>1, <1>1, <1>2, <1>3, <1>4, RowNumbers DEF WellFormed, TypeOK, LocksTyped
  <2>2. CASE t # s
    BY <2>2, <1>4 DEF PromiseBacked, WellFormed, TypeOK, LocksTyped
  <2> QED
    BY <2>1, <2>2
<1> QED
  BY <1>5, <1>6

\* Releasing and fulfilling never raise a promise.
LEMMA SettleStockBacked ==
  ASSUME WellFormed, NEW r \in Requests, SettleStock(r), PromiseBacked
  PROVE  Backed /\ PromiseBacked'
<1> DEFINE s == resvDraft[cur[r]].stock
           q == resvDraft[cur[r]].quantity
           row == Synced(SettledRow(r), ReorderPoint[s])
<1>1. pc[r] = "settle"
  BY SettleStockEffect
<1>2. s \in Stocks /\ q \in Nat /\ call[r].op \in {"cancel", "complete"}
  BY <1>1, SettlingItem
<1>3. /\ row.reserved = stockDraft[s].reserved - q
      /\ row.quantity \in {stockDraft[s].quantity, stockDraft[s].quantity - q}
  <2>1. SettledRow(r) \in Row /\ stockDraft[s] \in Row
    BY <1>1, SettledRowTyped
  <2>2. row.reserved = SettledRow(r).reserved /\ row.quantity = SettledRow(r).quantity
    BY <1>2, <2>1, RowNumbers, SyncedRow
  <2>3. /\ SettledRow(r).reserved = stockDraft[s].reserved - q
        /\ SettledRow(r).quantity \in {stockDraft[s].quantity, stockDraft[s].quantity - q}
    <3>1. q \in Int /\ s = resvDraft[cur[r]].stock /\ q = resvDraft[cur[r]].quantity
      BY <1>2
    <3> HIDE DEF s, q
    <3>2. CASE call[r].op = "complete"
      BY <2>1, <3>1, <3>2, FulfillingRow DEF SettledRow
    <3>3. CASE call[r].op # "complete"
      BY <2>1, <3>1, <3>3, ReleasingRow DEF SettledRow
    <3> QED
      BY <3>2, <3>3
  <2> QED
    BY <2>2, <2>3
<1>4. stock' = stock /\ stockDraft' = [stockDraft EXCEPT ![s] = row]
  BY SettleStockEffect DEF tables
<1> HIDE DEF s, q, row
<1>5. Backed
  BY <1>4, RowNumbers DEF Backed
<1>6. PromiseBacked'
  <2> SUFFICES ASSUME NEW t \in Stocks
               PROVE  stockDraft'[t].reserved > stock'[t].reserved
                      => stockDraft'[t].reserved <= stockDraft'[t].quantity
    BY DEF PromiseBacked
  <2>1. CASE t = s
    BY <2>1, <1>2, <1>3, <1>4, RowNumbers DEF PromiseBacked, WellFormed, TypeOK, LocksTyped
  <2>2. CASE t # s
    BY <2>2, <1>4 DEF PromiseBacked, WellFormed, TypeOK, LocksTyped
  <2> QED
    BY <2>1, <2>2
<1> QED
  BY <1>5, <1>6

\* COMMIT publishes versions whose promises were backed when they were written.
LEMMA CommitBacked ==
  ASSUME WellFormed, NEW r \in Requests, Commit(r), PromiseBacked
  PROVE  Backed /\ PromiseBacked'
<1>1. \A s \in Stocks :
        stock'[s] = (IF stockOwner[s] = r THEN stockDraft[s] ELSE stock[s])
  BY DEF Commit
<1>2. stockDraft' = stockDraft
  BY DEF Commit
<1> QED
  BY <1>1, <1>2, RowNumbers DEF Backed, PromiseBacked

\* ROLLBACK makes the newest version the committed one again.
LEMMA RollbackBacked ==
  ASSUME WellFormed, NEW r \in Requests, Rollback(r), PromiseBacked
  PROVE  Backed /\ PromiseBacked'
<1>1. \A s \in Stocks :
        stockDraft'[s] = (IF stockOwner[s] = r THEN stock[s] ELSE stockDraft[s])
  BY DEF Rollback
<1>2. stock' = stock
  BY DEF Rollback, tables
<1> QED
  BY <1>1, <1>2, RowNumbers DEF Backed, PromiseBacked

\* The one-statement writes never raise `reserved`.
LEMMA DeskWritesBacked ==
  ASSUME WellFormed, NEW r \in Requests, PromiseBacked,
         \/ RecordMovement(r) \/ MarkOpened(r)
         \/ \E c \in StockCalls : MoveStock(r, c) \/ InitializeStock(r, c)
  PROVE  Backed /\ PromiseBacked'
<1>1. CASE RecordMovement(r)
  <2> DEFINE s == call[r].stock
  <2>1. s \in Stocks /\ stock[s] \in Row /\ delta[r] \in Int /\ ReorderPoint[s] \in Nat
    BY <1>1, RecordMovementEffect, StockConstants
  <2>2. /\ Recorded(stock[s], delta[r]) \in Row
        /\ Recorded(stock[s], delta[r]).reserved = stock[s].reserved
    BY <2>1, RecordedRow
  <2>3. WriteStock(s, Recorded(stock[s], delta[r]))
    BY <1>1 DEF RecordMovement
  <2> QED
    BY <2>1, <2>2, <2>3, WriteStockBacked
<1>2. CASE MarkOpened(r)
  <2> DEFINE s == call[r].stock
             row == [stock[s] EXCEPT !.alerted = TRUE]
  <2>1. s \in Stocks /\ stock[s] \in Row
    BY <1>2, OpenedStock DEF MarkOpened
  <2>2. row \in Row /\ row.reserved = stock[s].reserved
    BY <2>1 DEF Row
  <2>3. WriteStock(s, row)
    BY <1>2 DEF MarkOpened
  <2> QED
    BY <2>1, <2>2, <2>3, WriteStockBacked
<1>3. ASSUME NEW c \in StockCalls, MoveStock(r, c)
      PROVE  Backed /\ PromiseBacked'
  <2> DEFINE row == Synced(MovedRow(c), ReorderPoint[c.stock])
  <2>1. /\ c.stock \in Stocks /\ stock[c.stock] \in Row /\ MovedRow(c) \in Row
        /\ ReorderPoint[c.stock] \in Nat /\ row \in Row /\ WriteStock(c.stock, row)
    BY <1>3, MoveStockEffect
  <2>2. row.reserved = MovedRow(c).reserved
    BY <2>1, SyncedRow
  <2>3. MovedRow(c).reserved = stock[c.stock].reserved
    BY <2>1 DEF MovedRow, Row
  <2> QED
    BY <2>1, <2>2, <2>3, WriteStockBacked
<1>4. ASSUME NEW c \in StockCalls, InitializeStock(r, c)
      PROVE  Backed /\ PromiseBacked'
  <2>1. c \in Calls /\ c.op = "initialize_stock"
    BY <1>4 DEF InitializeStock, Calls
  <2>2. c.stock \in Stocks /\ c.quantity \in Nat
    BY <2>1, CallFields
  <2>3. /\ NewRow(c.quantity) \in Row /\ NewRow(c.quantity).reserved = 0
        /\ NewRow(c.quantity).quantity >= 0
    BY <2>2, NewRowTyped DEF NewRow
  <2>4. WriteStock(c.stock, NewRow(c.quantity))
    BY <1>4 DEF InitializeStock
  <2> QED
    BY <2>2, <2>3, <2>4, WriteStockBacked
<1> QED
  BY <1>1, <1>2, <1>3, <1>4

\* Every step that raises `reserved` stays within the quantity.
LEMMA NextBacked ==
  ASSUME WellFormed, PromiseBacked, [Next]_vars
  PROVE  Backed /\ PromiseBacked'
<1>1. CASE UNCHANGED <<stock, stockDraft>>
  BY <1>1, RowNumbers DEF Backed, PromiseBacked
<1>2. ASSUME NEW r \in Requests, StockWrite(r) PROVE Backed /\ PromiseBacked'
  BY <1>2, CommitBacked, RollbackBacked, SettleStockBacked, ReserveStockBacked,
     DeskWritesBacked DEF StockWrite
<1> QED
  BY <1>1, <1>2, StockSteps

\* reserve_for_item under SELECT ... FOR UPDATE: no commit raises a row's
\* reserved_quantity above its quantity, however requests interleave, crash or
\* time out, and whatever their number.
THEOREM NoStepOversells == Spec => NeverOversold
<1>1. Init => WellFormed /\ PromiseBacked
  <2>1. Init => PromiseBacked
    <3> SUFFICES ASSUME Init, NEW s \in Stocks
                 PROVE  ~(stockDraft[s].reserved > stock[s].reserved)
      BY DEF PromiseBacked
    <3>1. stockDraft[s] = stock[s]
      BY DEF Init
    <3>2. stock[s].reserved \in Int
      BY InitTypeOK DEF TypeOK, TablesTyped, Row
    <3> QED
      BY <3>1, <3>2
  <2> QED
    BY <2>1, InitTypeOK, InitSense DEF WellFormed
<1>2. (WellFormed /\ PromiseBacked) /\ [Next]_vars => (WellFormed /\ PromiseBacked)'
  BY NextWF, NextBacked
<1>3. (WellFormed /\ PromiseBacked) /\ [Next]_vars
        => [\A s \in Stocks : stock'[s].reserved > stock[s].reserved
                              => stock'[s].reserved <= stock'[s].quantity]_vars
  BY NextBacked DEF Backed
<1> QED
  BY <1>1, <1>2, <1>3, PTL DEF Spec, NeverOversold
-----------------------------------------------------------------------------
(* AlertFlagFollowsLevel *)

\* No request is in an endpoint the workload does not use.
OnlyKnownOps == \A r \in Requests : call[r].op \in Ops \cup {"none"}

\* A workload without initialize_stock never has a request that opens a row.
LEMMA CallSteps ==
  ASSUME WellFormed, [Next]_vars, OnlyKnownOps
  PROVE  OnlyKnownOps'
<1> USE DEF OnlyKnownOps
<1>1. ASSUME UNCHANGED call PROVE OnlyKnownOps'
  BY <1>1
<1>2. ASSUME NEW r \in Requests, End(r) PROVE OnlyKnownOps'
  BY <1>2 DEF End, NoCall, WellFormed, TypeOK, SessionTyped
<1>3. ASSUME NEW r \in Requests, NEW alerts, FlushThenEnd(r, alerts) PROVE OnlyKnownOps'
  BY <1>1, <1>2, <1>3 DEF FlushThenEnd
<1>4. ASSUME NEW r \in Requests, NEW c, c.op \in Ops, call' = [call EXCEPT ![r] = c]
      PROVE  OnlyKnownOps'
  BY <1>4 DEF WellFormed, TypeOK, SessionTyped
<1>5. ASSUME NEW r \in Requests, Arrives(r) PROVE OnlyKnownOps'
  <2>1. ASSUME NEW c \in OrderCalls, ReadOrder(r, c) PROVE OnlyKnownOps'
    BY <1>4, <2>1 DEF ReadOrder
  <2>2. ASSUME NEW c \in StockCalls, MoveStock(r, c) \/ InitializeStock(r, c)
        PROVE  OnlyKnownOps'
    BY <1>4, <2>2 DEF MoveStock, InitializeStock
  <2> QED
    BY <1>5, <2>1, <2>2 DEF Arrives
<1>6. ASSUME NEW r \in Requests, GivesUp(r) PROVE OnlyKnownOps'
  BY <1>2, <1>6, GivesUpEffect
<1>7. ASSUME NEW r \in Requests, NEW i \in Items, ItemStep(r, i) PROVE OnlyKnownOps'
  <2>1. CASE RemoveItemRefused(r, i) \/ ReserveRefused(r, i) \/ SettleRefused(r, i)
    BY <1>6, <2>1 DEF GivesUp
  <2>2. CASE AddItem(r, i) \/ RemoveItem(r, i)
    BY <1>2, <2>2 DEF AddItem, RemoveItem
  <2>3. CASE ReserveStock(r, i) \/ LockReservation(r, i)
    BY <1>1, <2>3 DEF ReserveStock, LockReservation
  <2> QED
    BY <1>7, <2>1, <2>2, <2>3 DEF ItemStep
<1>8. ASSUME NEW r \in Requests, NEW s \in Stocks, DeferAlert(r, s) \/ LoseAlert(r, s)
      PROVE  OnlyKnownOps'
  BY <1>3, <1>8 DEF DeferAlert, LoseAlert
<1>9. ASSUME NEW r \in Requests, Advances(r) PROVE OnlyKnownOps'
  <2>1. CASE NoSuchItem(r) \/ InsertRefused(r) \/ LockWaitAborted(r)
    BY <1>6, <2>1 DEF GivesUp
  <2>2. CASE ReadItems(r) \/ PickItem(r) \/ InsertReservation(r) \/ SettleStock(r)
    BY <1>1, <2>2 DEF ReadItems, PickItem, InsertReservation, SettleStock
  <2>3. CASE CommitConfirm(r) \/ CommitComplete(r) \/ RecordMovement(r) \/ MarkOpened(r)
    BY <1>3, <2>3 DEF CommitConfirm, CommitComplete, RecordMovement, MarkOpened
  <2>4. CASE CommitCancel(r)
    BY <1>2, <2>4 DEF CommitCancel
  <2>5. CASE RefreshOpened(r)
    BY <1>1, <1>2, <2>5 DEF RefreshOpened
  <2> QED
    BY <1>7, <1>8, <1>9, <2>1, <2>2, <2>3, <2>4, <2>5 DEF Advances
<1>10. ASSUME NEW r \in Requests, Fails(r) PROVE OnlyKnownOps'
  BY <1>6, <1>8, <1>10 DEF Fails, GivesUp
<1>11. CASE UNCHANGED vars
  BY <1>1, <1>11 DEF vars, session
<1>12. ASSUME NEW o \in Orders, CreateOrder(o) PROVE OnlyKnownOps'
  BY <1>1, <1>12 DEF CreateOrder, session
<1> QED
  BY <1>5, <1>9, <1>10, <1>11, <1>12 DEF Next

\* The flag of an open row says whether it is low.
Follows(row, s) == row.live => row.alerted = IsLow(row, ReorderPoint[s])

\* So it does in both versions of every row.
FlagsFollow == \A s \in Stocks : Follows(stock[s], s) /\ Follows(stockDraft[s], s)

\* A write that syncs the flag keeps every flag true to its level.
LEMMA WriteStockFollows ==
  ASSUME WellFormed, FlagsFollow, NEW s \in Stocks, NEW row, WriteStock(s, row),
         Follows(row, s)
  PROVE  FlagsFollow'
<1>1. \A t \in Stocks : /\ stock'[t] = (IF t = s THEN row ELSE stock[t])
                        /\ stockDraft'[t] = (IF t = s THEN row ELSE stockDraft[t])
  BY DEF WriteStock, WellFormed, TypeOK, TablesTyped, LocksTyped
<1> QED
  BY <1>1 DEF FlagsFollow, Follows

\* A newest version that is synced keeps every flag true to its level.
LEMMA DraftFollows ==
  ASSUME WellFormed, FlagsFollow, NEW s \in Stocks, NEW row, Follows(row, s),
         stock' = stock, stockDraft' = [stockDraft EXCEPT ![s] = row]
  PROVE  FlagsFollow'
  BY DEF FlagsFollow, Follows, WellFormed, TypeOK, LocksTyped

\* With no row being opened, every write of a stock row syncs the flag or leaves the
\* level alone.
LEMMA NextFollows ==
  ASSUME "initialize_stock" \notin Ops, WellFormed, OnlyKnownOps, FlagsFollow, [Next]_vars
  PROVE  FlagsFollow'
<1>1. CASE UNCHANGED <<stock, stockDraft>>
  BY <1>1 DEF FlagsFollow, Follows
<1>2. ASSUME NEW r \in Requests, StockWrite(r) PROVE FlagsFollow'
  <2>1. CASE Commit(r)
    <3>1. /\ stockDraft' = stockDraft
          /\ \A s \in Stocks : stock'[s] \in {stock[s], stockDraft[s]}
      BY <2>1 DEF Commit
    <3> QED
      BY <3>1 DEF FlagsFollow, Follows
  <2>2. CASE Rollback(r)
    <3>1. /\ stock' = stock
          /\ \A s \in Stocks : stockDraft'[s] \in {stock[s], stockDraft[s]}
      BY <2>2 DEF Rollback, tables
    <3> QED
      BY <3>1 DEF FlagsFollow, Follows
  <2>3. CASE SettleStock(r)
    <3> DEFINE s == resvDraft[cur[r]].stock
               row == Synced(SettledRow(r), ReorderPoint[s])
    <3>1. s \in Stocks /\ SettledRow(r) \in Row
      BY <2>3, SettleStockEffect, SettlingItem, SettledRowTyped
    <3>2. Follows(row, s)
      BY <3>1, RowNumbers, SyncedRow DEF Follows
    <3>3. stock' = stock /\ stockDraft' = [stockDraft EXCEPT ![s] = row]
      BY <2>3, SettleStockEffect DEF tables
    <3> QED
      BY <3>1, <3>2, <3>3, DraftFollows
  <2>4. ASSUME NEW i \in Items, ReserveStock(r, i) PROVE FlagsFollow'
    <3> DEFINE s == ItemStock(r, i)
               held == WithReserved(stockDraft[s], item[i].quantity)
               row == Synced(held, ReorderPoint[s])
    <3>1. s \in Stocks /\ item[i].quantity \in Int
      <4>1. call[r] \in Calls /\ call[r].op = "confirm" /\ item[i] # NoItem
        BY <2>4 DEF ReserveStock, WellFormed, TypeOK, SessionTyped, SessionsMakeSense,
                    StepFitsCall
      <4>2. call[r].location \in Locations
        BY <4>1, CallFields
      <4>3. item[i].product \in Products /\ item[i].quantity \in Nat
        BY <4>1, ItemFields DEF WellFormed, TypeOK, TablesTyped
      <4> QED
        BY <4>2, <4>3 DEF ItemStock, Stocks
    <3>2. held \in Row /\ ReorderPoint[s] \in Nat
      BY <3>1, RowNumbers, ReservingRow
    <3>3. Follows(row, s)
      BY <3>2, SyncedRow DEF Follows
    <3>4. stock' = stock /\ stockDraft' = [stockDraft EXCEPT ![s] = row]
      BY <2>4 DEF ReserveStock, tables
    <3> QED
      BY <3>1, <3>3, <3>4, DraftFollows
  <2>5. CASE RecordMovement(r)
    <3> DEFINE s == call[r].stock
    <3>1. s \in Stocks /\ stock[s] \in Row /\ delta[r] \in Int /\ ReorderPoint[s] \in Nat
      BY <2>5, RecordMovementEffect, StockConstants
    <3>2. Follows(Recorded(stock[s], delta[r]), s)
      BY <3>1, RecordedRow DEF Follows, FlagsFollow
    <3>3. WriteStock(s, Recorded(stock[s], delta[r]))
      BY <2>5 DEF RecordMovement
    <3> QED
      BY <3>1, <3>2, <3>3, WriteStockFollows
  <2>6. ASSUME NEW c \in StockCalls, MoveStock(r, c) PROVE FlagsFollow'
    <3> DEFINE row == Synced(MovedRow(c), ReorderPoint[c.stock])
    <3>1. /\ c.stock \in Stocks /\ MovedRow(c) \in Row /\ ReorderPoint[c.stock] \in Nat
          /\ WriteStock(c.stock, row)
      BY <2>6, MoveStockEffect
    <3>2. Follows(row, c.stock)
      BY <3>1, SyncedRow DEF Follows
    <3> QED
      BY <3>1, <3>2, WriteStockFollows
  <2>7. ~MarkOpened(r)
    BY DEF MarkOpened, OnlyKnownOps, WellFormed, SessionsMakeSense, StepFitsCall
  <2>8. ASSUME NEW c \in StockCalls PROVE ~InitializeStock(r, c)
    BY DEF InitializeStock
  <2> QED
    BY <1>2, <2>1, <2>2, <2>3, <2>4, <2>5, <2>6, <2>7, <2>8 DEF StockWrite
<1> QED
  BY <1>1, <1>2, StockSteps

\* The opened rows start synced.
LEMMA InitFollows == Init => FlagsFollow /\ OnlyKnownOps
<1> SUFFICES ASSUME Init PROVE FlagsFollow /\ OnlyKnownOps
  OBVIOUS
<1>1. OnlyKnownOps
  BY DEF Init, OnlyKnownOps, NoCall
<1>2. ASSUME NEW s \in Stocks PROVE Follows(stock[s], s)
  <2>1. /\ NewRow(OpeningQuantity) \in Row /\ ReorderPoint[s] \in Nat
    BY StockConstants, NewRowTyped
  <2>2. Follows(Synced(NewRow(OpeningQuantity), ReorderPoint[s]), s)
    BY <2>1, SyncedRow DEF Follows
  <2>3. Follows(NoRow, s)
    BY DEF Follows, NoRow
  <2> QED
    BY <2>2, <2>3 DEF Init
<1> QED
  BY <1>1, <1>2 DEF Init, FlagsFollow

\* _sync_low_stock runs inside every transaction that changes a row, so between
\* transactions the flag of a row is exactly "available <= reorder_point", provided
\* no row is opened while others move stock.
THEOREM FlagFollowsLevel ==
  ASSUME "initialize_stock" \notin Ops
  PROVE  Spec => []AlertFlagFollowsLevel
<1> DEFINE Inv == WellFormed /\ OnlyKnownOps /\ FlagsFollow
<1>1. Init => Inv
  BY InitTypeOK, InitSense, InitFollows DEF WellFormed
<1>2. Inv /\ [Next]_vars => Inv'
  BY NextWF, CallSteps, NextFollows
<1>3. Inv => AlertFlagFollowsLevel
  BY DEF FlagsFollow, Follows, AlertFlagFollowsLevel
<1> QED
  BY <1>1, <1>2, <1>3, PTL DEF Spec

-----------------------------------------------------------------------------
(* Steps of one request *)

\* No row of order_items is taken back or given to another order.
ItemsStay ==
    \A i \in Items : item[i] # NoItem =>
        /\ item'[i] # NoItem /\ item'[i].order = item[i].order
        /\ item'[i].product = item[i].product /\ item'[i].quantity = item[i].quantity

\* Items that do not change stay.
LEMMA QuietItems == ASSUME item' = item PROVE ItemsStay
  BY DEF ItemsStay

\* FlushThenEnd leaves a request at flush or idle.
LEMMA FlushStep ==
  ASSUME WellFormed, NEW r \in Requests, NEW alerts, FlushThenEnd(r, alerts)
  PROVE  pc'[r] \in {"idle", "flush"}
  BY DEF FlushThenEnd, End, WellFormed, TypeOK, SessionTyped

-----------------------------------------------------------------------------
(* LedgerBalances *)

\* The units that the elements of S stand for.
UnitsOf(S, f) == UNION {{x} \X (1 .. f[x]) : x \in S}

\* One more element adds exactly its units, and none if it has none.
LEMMA OneMoreUnits ==
  ASSUME NEW S, NEW f, NEW g, NEW x, x \notin S, g[x] \in Int, \A y \in S : g[y] = f[y],
         IsFiniteSet(UnitsOf(S, f))
  PROVE  /\ IsFiniteSet(UnitsOf(S \cup {x}, g))
         /\ Cardinality(UnitsOf(S \cup {x}, g))
              = Cardinality(UnitsOf(S, f)) + (IF g[x] > 0 THEN g[x] ELSE 0)
<1> DEFINE old == UnitsOf(S, f)
           new == {x} \X (1 .. g[x])
<1>1. UnitsOf(S \cup {x}, g) = old \cup new
  BY DEF UnitsOf
<1>2. old \cap new = {}
  BY DEF UnitsOf
<1>3. IsFiniteSet(new) /\ Cardinality(new) = (IF g[x] > 0 THEN g[x] ELSE 0)
  <2>1. IsFiniteSet({x}) /\ Cardinality({x}) = 1
    BY FS_Singleton
  <2>2. IsFiniteSet(1 .. g[x]) /\ Cardinality(1 .. g[x]) = IF 1 > g[x] THEN 0 ELSE g[x] - 1 + 1
    BY FS_Interval
  <2>3. /\ IsFiniteSet({x} \X (1 .. g[x]))
        /\ Cardinality({x} \X (1 .. g[x])) = Cardinality({x}) * Cardinality(1 .. g[x])
    BY <2>1, <2>2, FS_Product
  <2> QED
    BY <2>1, <2>2, <2>3
<1> HIDE DEF old, new
<1>4. IsFiniteSet(old) /\ Cardinality(old) \in Int
  BY FS_CardinalityType DEF old
<1>5. /\ IsFiniteSet(old \cup new)
      /\ Cardinality(old \cup new)
           = Cardinality(old) + Cardinality(new) - Cardinality(old \cap new)
  BY <1>3, <1>4, FS_Union
<1>6. Cardinality(old \cap new) = 0
  BY <1>2, FS_EmptySet
<1>7. Cardinality(old \cup new) = Cardinality(old) + (IF g[x] > 0 THEN g[x] ELSE 0)
  BY <1>3, <1>4, <1>5, <1>6
<1> QED
  BY <1>1, <1>5, <1>7 DEF old

\* The elements of S count the same in f and g.
LEMMA SameUnits ==
  ASSUME NEW S, NEW f, NEW g, \A y \in S : g[y] = f[y]
  PROVE  UnitsOf(S, g) = UnitsOf(S, f)
  BY DEF UnitsOf

\* One element less takes exactly its units away.
LEMMA OneLessUnits ==
  ASSUME NEW S, NEW f, NEW g, NEW x \in S, f[x] \in Int, \A y \in S \ {x} : g[y] = f[y],
         IsFiniteSet(UnitsOf(S, f))
  PROVE  /\ IsFiniteSet(UnitsOf(S \ {x}, g))
         /\ Cardinality(UnitsOf(S \ {x}, g))
              = Cardinality(UnitsOf(S, f)) - (IF f[x] > 0 THEN f[x] ELSE 0)
<1> DEFINE rest == S \ {x}
<1>1. UnitsOf(rest, g) = UnitsOf(rest, f)
  BY SameUnits
<1>2. UnitsOf(rest, f) \subseteq UnitsOf(S, f)
  BY DEF UnitsOf
<1>3. IsFiniteSet(UnitsOf(rest, f))
  BY <1>2, FS_Subset
<1>4. rest \cup {x} = S /\ x \notin rest
  OBVIOUS
<1> HIDE DEF rest
<1>5. Cardinality(UnitsOf(rest \cup {x}, f))
        = Cardinality(UnitsOf(rest, f)) + (IF f[x] > 0 THEN f[x] ELSE 0)
  BY <1>3, <1>4, OneMoreUnits
<1>6. Cardinality(UnitsOf(rest, f)) \in Int
  BY <1>3, FS_CardinalityType
<1>7. Cardinality(UnitsOf(S, f))
        = Cardinality(UnitsOf(rest, f)) + (IF f[x] > 0 THEN f[x] ELSE 0)
  BY <1>4, <1>5
<1>8. Cardinality(UnitsOf(rest, f))
        = Cardinality(UnitsOf(S, f)) - (IF f[x] > 0 THEN f[x] ELSE 0)
  BY <1>6, <1>7
<1> QED
  BY <1>1, <1>3, <1>8 DEF rest

\* What the movements of a row do not account for.
Gap(row) == row.quantity - row.audited

\* The newest version of a row is as unaccounted for as the committed one, and open
\* only if that one is; a row that is not open has nothing to account for.
DraftsBooked ==
    \A s \in Stocks : /\ Gap(stockDraft[s]) = Gap(stock[s])
                      /\ stockDraft[s].live = stock[s].live
                      /\ ~stock[s].live => Gap(stock[s]) = 0

\* A step that keeps the accounts of every row.
BooksKept ==
    \A s \in Stocks : Gap(stock'[s]) = Gap(stock[s]) /\ (stock[s].live => stock'[s].live)

\* A one-statement write of row s.
LEMMA WriteStockBooked ==
  ASSUME WellFormed, DraftsBooked, NEW s \in Stocks, NEW row, WriteStock(s, row),
         row.live, stock[s].live \/ Gap(row) = 0
  PROVE  /\ DraftsBooked'
         /\ Gap(stock'[s]) = Gap(row) /\ stock'[s].live
         /\ \A t \in Stocks \ {s} : stock'[t] = stock[t]
<1>1. \A t \in Stocks : /\ stock'[t] = (IF t = s THEN row ELSE stock[t])
                        /\ stockDraft'[t] = (IF t = s THEN row ELSE stockDraft[t])
  BY DEF WriteStock, WellFormed, TypeOK, TablesTyped, LocksTyped
<1> QED
  BY <1>1 DEF DraftsBooked

\* A write of a newest version.
LEMMA DraftBooked ==
  ASSUME WellFormed, DraftsBooked, NEW s \in Stocks, NEW row,
         stock' = stock, stockDraft' = [stockDraft EXCEPT ![s] = row],
         row.live = stockDraft[s].live, Gap(row) = Gap(stockDraft[s])
  PROVE  DraftsBooked' /\ BooksKept
<1>1. \A t \in Stocks : stockDraft'[t] = (IF t = s THEN row ELSE stockDraft[t])
  BY DEF WellFormed, TypeOK, LocksTyped
<1> QED
  BY <1>1 DEF DraftsBooked, BooksKept

\* What the row operators do to the account of a row.
LEMMA RowsBooked ==
  ASSUME NEW row \in Row, NEW q \in Int, NEW p \in Nat
  PROVE  /\ Gap(Synced(row, p)) = Gap(row) /\ Synced(row, p).live = row.live
         /\ Gap(WithReserved(row, q)) = Gap(row) /\ Gap(WithReleased(row, q)) = Gap(row)
         /\ Gap(WithFulfilled(row, q)) = Gap(row)
         /\ Gap(Recorded(row, q)) = Gap(row) - q
<1>1. Gap(Synced(row, p)) = Gap(row) /\ Synced(row, p).live = row.live
  BY DEF Synced, Gap, Row
<1>2. Gap(WithReserved(row, q)) = Gap(row) /\ Gap(WithReleased(row, q)) = Gap(row)
  BY DEF WithReserved, WithReleased, Gap, Row
<1>3. ASSUME NEW rw \in Row, NEW d \in Int PROVE Gap(Recorded(rw, d)) = Gap(rw) - d
  BY DEF Recorded, Gap, Row
<1>4. Gap(WithFulfilled(row, q)) = Gap(row)
  <2> DEFINE released == WithReleased(row, q)
  <2>1. released \in Row
    BY ReleasingRow
  <2> HIDE DEF released
  <2> DEFINE drawn == Drawn(released, q)
  <2>2. drawn \in Row /\ Gap(drawn) = Gap(released) - q /\ Gap(released) \in Int
    BY <2>1 DEF Drawn, Gap, Row
  <2> HIDE DEF drawn
  <2>3. Gap(Recorded(drawn, -q)) = Gap(drawn) - (-q)
    BY <2>2, <1>3
  <2>4. WithFulfilled(row, q) = Recorded(drawn, -q)
    BY DEF WithFulfilled, drawn, released
  <2>5. Gap(released) = Gap(row)
    BY <1>2 DEF released
  <2> QED
    BY <2>2, <2>3, <2>4, <2>5
<1> QED
  BY <1>1, <1>2, <1>3, <1>4

\* Where delta counts what came in, this counts what went out.
Outgoing(d) == [r \in Requests |-> -d[r]]

\* Every unit of every row is in a movement or about to be; a row whose movement is
\* still to be written is open.
Accounted ==
    /\ \A r \in Requests : pc[r] = "movement" => stock[call[r].stock].live
    /\ \A s \in Stocks :
         /\ IsFiniteSet(UnitsOf(Unrecorded(s), delta))
         /\ IsFiniteSet(UnitsOf(Unrecorded(s), Outgoing(delta)))
         /\ Gap(stock[s]) = Cardinality(UnitsOf(Unrecorded(s), delta))
                              - Cardinality(UnitsOf(Unrecorded(s), Outgoing(delta)))

\* No movement is begun, written or changed.
MovementsRest ==
    \A r \in Requests :
        /\ pc'[r] = "movement" <=> pc[r] = "movement"
        /\ pc[r] = "movement" => call'[r] = call[r] /\ delta'[r] = delta[r]

\* The account of row s in words of its movements.
LEMMA AccountOfRow ==
  ASSUME WellFormed, NEW s \in Stocks, Accounted
  PROVE  stock[s].quantity + Cardinality(UnitsOut(s)) = stock[s].audited + Cardinality(UnitsIn(s))
<1>1. \A r \in Unrecorded(s) : Outgoing(delta)[r] = -delta[r]
  BY DEF Outgoing, Unrecorded
<1>2. UnitsIn(s) = UnitsOf(Unrecorded(s), delta)
  BY DEF UnitsIn, UnitsOf
<1>3. UnitsOut(s) = UnitsOf(Unrecorded(s), Outgoing(delta))
  BY <1>1 DEF UnitsOut, UnitsOf
<1>4. /\ IsFiniteSet(UnitsIn(s)) /\ IsFiniteSet(UnitsOut(s))
      /\ Gap(stock[s]) = Cardinality(UnitsIn(s)) - Cardinality(UnitsOut(s))
  BY <1>2, <1>3 DEF Accounted
<1>5. Cardinality(UnitsIn(s)) \in Int /\ Cardinality(UnitsOut(s)) \in Int
  BY <1>4, FS_CardinalityType
<1>6. stock[s].quantity \in Int /\ stock[s].audited \in Int
  BY DEF WellFormed, TypeOK, TablesTyped, Row
<1> QED
  BY <1>4, <1>5, <1>6 DEF Gap

\* A step that keeps the books and begins and ends no movement.
LEMMA AccountsRest ==
  ASSUME WellFormed, Accounted, BooksKept, MovementsRest
  PROVE  Accounted'
<1>1. ASSUME NEW r \in Requests, pc'[r] = "movement" PROVE stock'[call'[r].stock].live
  <2>1. pc[r] = "movement" /\ call'[r] = call[r]
    BY <1>1 DEF MovementsRest
  <2>2. stock[call[r].stock].live /\ call[r].op \in MoveOps
    BY <2>1 DEF Accounted, WellFormed, SessionsMakeSense, StepFitsCall
  <2>3. call[r].stock \in Stocks
    BY <2>2, CallFields DEF WellFormed, TypeOK, SessionTyped
  <2> QED
    BY <2>1, <2>2, <2>3 DEF BooksKept
<1>2. ASSUME NEW s \in Stocks
      PROVE  /\ Unrecorded(s)' = Unrecorded(s)
             /\ UnitsOf(Unrecorded(s), delta)' = UnitsOf(Unrecorded(s), delta)
             /\ UnitsOf(Unrecorded(s), Outgoing(delta))' = UnitsOf(Unrecorded(s), Outgoing(delta))
             /\ Gap(stock[s])' = Gap(stock[s])
  <2>1. Unrecorded(s)' = Unrecorded(s)
    BY DEF MovementsRest, Unrecorded
  <2>2. \A r \in Unrecorded(s) : delta'[r] = delta[r]
    BY DEF MovementsRest, Unrecorded
  <2>3. \A r \in Unrecorded(s) : Outgoing(delta')[r] = Outgoing(delta)[r]
    BY <2>2 DEF Outgoing, Unrecorded
  <2>4. UnitsOf(Unrecorded(s), delta') = UnitsOf(Unrecorded(s), delta)
    BY <2>2, SameUnits
  <2>5. UnitsOf(Unrecorded(s), Outgoing(delta')) = UnitsOf(Unrecorded(s), Outgoing(delta))
    BY <2>3, SameUnits
  <2>6. /\ UnitsOf(Unrecorded(s), delta)' = UnitsOf(Unrecorded(s)', delta')
        /\ UnitsOf(Unrecorded(s), Outgoing(delta))' = UnitsOf(Unrecorded(s)', Outgoing(delta'))
        /\ Gap(stock[s])' = Gap(stock'[s])
    BY DEF UnitsOf, Outgoing, Gap
  <2> QED
    BY <2>1, <2>4, <2>5, <2>6 DEF BooksKept
<1>3. ASSUME NEW s \in Stocks
      PROVE  /\ IsFiniteSet(UnitsOf(Unrecorded(s), delta))'
             /\ IsFiniteSet(UnitsOf(Unrecorded(s), Outgoing(delta)))'
             /\ Gap(stock[s])' = Cardinality(UnitsOf(Unrecorded(s), delta))'
                                   - Cardinality(UnitsOf(Unrecorded(s), Outgoing(delta)))'
  BY <1>2 DEF Accounted
<1> QED
  BY <1>1, <1>3 DEF Accounted

\* The movement of request r enters or leaves the account of row s.
MovementChanges(r, s) ==
    /\ \A q \in Requests \ {r} : /\ pc'[q] = pc[q] /\ call'[q] = call[q]
                                 /\ delta'[q] = delta[q]
    /\ \A t \in Stocks \ {s} : stock'[t] = stock[t]
    /\ stock'[s].live

\* The other rows have the movements they had.
LEMMA OtherAccounts ==
  ASSUME WellFormed, Accounted, NEW r \in Requests, NEW s \in Stocks, MovementChanges(r, s),
         pc[r] = "movement" => call[r].stock = s,
         pc'[r] = "movement" => call'[r].stock = s
  PROVE  /\ \A q \in Requests : pc'[q] = "movement" => stock'[call'[q].stock].live
         /\ \A t \in Stocks \ {s} :
              /\ IsFiniteSet(UnitsOf(Unrecorded(t)', delta'))
              /\ IsFiniteSet(UnitsOf(Unrecorded(t)', Outgoing(delta')))
              /\ Gap(stock'[t]) = Cardinality(UnitsOf(Unrecorded(t)', delta'))
                                    - Cardinality(UnitsOf(Unrecorded(t)', Outgoing(delta')))
<1>1. ASSUME NEW q \in Requests, pc'[q] = "movement" PROVE stock'[call'[q].stock].live
  <2>1. CASE q = r
    BY <1>1, <2>1 DEF MovementChanges
  <2>2. CASE q # r
    <3>1. pc[q] = "movement" /\ call'[q] = call[q]
      BY <1>1, <2>2 DEF MovementChanges
    <3>2. stock[call[q].stock].live /\ call[q].op \in MoveOps
      BY <3>1 DEF Accounted, WellFormed, SessionsMakeSense, StepFitsCall
    <3>3. call[q].stock \in Stocks
      BY <3>2, CallFields DEF WellFormed, TypeOK, SessionTyped
    <3> QED
      BY <3>1, <3>2, <3>3 DEF MovementChanges
  <2> QED
    BY <2>1, <2>2
<1>2. ASSUME NEW t \in Stocks \ {s}
      PROVE  /\ IsFiniteSet(UnitsOf(Unrecorded(t)', delta'))
             /\ IsFiniteSet(UnitsOf(Unrecorded(t)', Outgoing(delta')))
             /\ Gap(stock'[t]) = Cardinality(UnitsOf(Unrecorded(t)', delta'))
                                   - Cardinality(UnitsOf(Unrecorded(t)', Outgoing(delta')))
  <2>1. Unrecorded(t)' = Unrecorded(t) /\ r \notin Unrecorded(t)
    BY DEF MovementChanges, Unrecorded
  <2>2. \A q \in Unrecorded(t) : q \in Requests /\ delta'[q] = delta[q]
    BY <2>1 DEF MovementChanges, Unrecorded
  <2>3. \A q \in Unrecorded(t) : Outgoing(delta')[q] = Outgoing(delta)[q]
    BY <2>2 DEF Outgoing
  <2>4. UnitsOf(Unrecorded(t), delta') = UnitsOf(Unrecorded(t), delta)
    BY <2>2, SameUnits
  <2>5. UnitsOf(Unrecorded(t), Outgoing(delta')) = UnitsOf(Unrecorded(t), Outgoing(delta))
    BY <2>3, SameUnits
  <2>6. Gap(stock'[t]) = Gap(stock[t])
    BY DEF MovementChanges
  <2> QED
    BY <2>1, <2>4, <2>5, <2>6 DEF Accounted
<1> QED
  BY <1>1, <1>2

\* The account is made up of its parts.
LEMMA AccountedFromParts ==
  ASSUME NEW s \in Stocks,
         \A q \in Requests : pc'[q] = "movement" => stock'[call'[q].stock].live,
         \A t \in Stocks :
              /\ IsFiniteSet(UnitsOf(Unrecorded(t)', delta'))
              /\ IsFiniteSet(UnitsOf(Unrecorded(t)', Outgoing(delta')))
              /\ Gap(stock'[t]) = Cardinality(UnitsOf(Unrecorded(t)', delta'))
                                    - Cardinality(UnitsOf(Unrecorded(t)', Outgoing(delta')))
  PROVE  Accounted'
<1>1. ASSUME NEW t \in Stocks
      PROVE  /\ UnitsOf(Unrecorded(t), delta)' = UnitsOf(Unrecorded(t)', delta')
             /\ UnitsOf(Unrecorded(t), Outgoing(delta))' = UnitsOf(Unrecorded(t)', Outgoing(delta'))
             /\ Gap(stock[t])' = Gap(stock'[t])
  BY DEF UnitsOf, Outgoing, Gap
<1> QED
  BY <1>1 DEF Accounted

\* A stock change leaves a movement to be written for exactly what it changed.
LEMMA MovementBegins ==
  ASSUME WellFormed, WellFormed', Accounted, NEW r \in Requests, NEW s \in Stocks,
         MovementChanges(r, s), pc[r] # "movement", pc'[r] = "movement", call'[r].stock = s,
         Gap(stock'[s]) = Gap(stock[s]) + delta'[r]
  PROVE  Accounted'
<1>1. Unrecorded(s)' = Unrecorded(s) \cup {r} /\ r \notin Unrecorded(s)
  BY DEF MovementChanges, Unrecorded
<1>2. delta'[r] \in Int
  BY DEF WellFormed, TypeOK, SessionTyped
<1>3. /\ Outgoing(delta')[r] = -delta'[r]
      /\ \A q \in Unrecorded(s) : /\ delta'[q] = delta[q]
                                  /\ Outgoing(delta')[q] = Outgoing(delta)[q]
  BY <1>1 DEF Outgoing, MovementChanges, Unrecorded
<1>4. /\ IsFiniteSet(UnitsOf(Unrecorded(s), delta))
      /\ IsFiniteSet(UnitsOf(Unrecorded(s), Outgoing(delta)))
      /\ Gap(stock[s]) = Cardinality(UnitsOf(Unrecorded(s), delta))
                           - Cardinality(UnitsOf(Unrecorded(s), Outgoing(delta)))
  BY DEF Accounted
<1>5. /\ Cardinality(UnitsOf(Unrecorded(s), delta)) \in Int
      /\ Cardinality(UnitsOf(Unrecorded(s), Outgoing(delta))) \in Int
  BY <1>4, FS_CardinalityType
<1>6. /\ IsFiniteSet(UnitsOf(Unrecorded(s) \cup {r}, delta'))
      /\ Cardinality(UnitsOf(Unrecorded(s) \cup {r}, delta'))
           = Cardinality(UnitsOf(Unrecorded(s), delta)) + (IF delta'[r] > 0 THEN delta'[r] ELSE 0)
  <2>1. PICK S, f, g : S = Unrecorded(s) /\ f = delta /\ g = delta'
    OBVIOUS
  <2>2. g[r] \in Int /\ \A q \in S : g[q] = f[q]
    BY <1>2, <1>3, <2>1
  <2>3. IsFiniteSet(UnitsOf(S, f)) /\ r \notin S
    BY <1>1, <1>4, <2>1
  <2>4. /\ IsFiniteSet(UnitsOf(S \cup {r}, g))
        /\ Cardinality(UnitsOf(S \cup {r}, g))
             = Cardinality(UnitsOf(S, f)) + (IF g[r] > 0 THEN g[r] ELSE 0)
    BY <2>2, <2>3, OneMoreUnits
  <2> QED
    BY <2>1, <2>4
<1>7. /\ IsFiniteSet(UnitsOf(Unrecorded(s) \cup {r}, Outgoing(delta')))
      /\ Cardinality(UnitsOf(Unrecorded(s) \cup {r}, Outgoing(delta')))
           = Cardinality(UnitsOf(Unrecorded(s), Outgoing(delta)))
               + (IF -delta'[r] > 0 THEN -delta'[r] ELSE 0)
  <2>1. PICK S, f, g : S = Unrecorded(s) /\ f = Outgoing(delta) /\ g = Outgoing(delta')
    OBVIOUS
  <2>2. g[r] \in Int /\ g[r] = -delta'[r] /\ \A q \in S : g[q] = f[q]
    BY <1>2, <1>3, <2>1
  <2>3. IsFiniteSet(UnitsOf(S, f)) /\ r \notin S
    BY <1>1, <1>4, <2>1
  <2>4. /\ IsFiniteSet(UnitsOf(S \cup {r}, g))
        /\ Cardinality(UnitsOf(S \cup {r}, g))
             = Cardinality(UnitsOf(S, f)) + (IF g[r] > 0 THEN g[r] ELSE 0)
    BY <2>2, <2>3, OneMoreUnits
  <2> QED
    BY <2>1, <2>2, <2>4
<1>8. /\ IsFiniteSet(UnitsOf(Unrecorded(s)', delta'))
      /\ IsFiniteSet(UnitsOf(Unrecorded(s)', Outgoing(delta')))
      /\ Gap(stock'[s]) = Cardinality(UnitsOf(Unrecorded(s)', delta'))
                            - Cardinality(UnitsOf(Unrecorded(s)', Outgoing(delta')))
  BY <1>1, <1>2, <1>4, <1>5, <1>6, <1>7
<1> QED
  BY <1>8, OtherAccounts, AccountedFromParts

\* Writing the movement takes it out of what is still to be written.
LEMMA MovementEnds ==
  ASSUME WellFormed, Accounted, NEW r \in Requests, NEW s \in Stocks,
         MovementChanges(r, s), pc[r] = "movement", call[r].stock = s, pc'[r] # "movement",
         Gap(stock'[s]) = Gap(stock[s]) - delta[r]
  PROVE  Accounted'
<1>1. Unrecorded(s)' = Unrecorded(s) \ {r} /\ r \in Unrecorded(s)
  BY DEF MovementChanges, Unrecorded
<1>2. delta[r] \in Int
  BY DEF WellFormed, TypeOK, SessionTyped
<1>3. /\ Outgoing(delta)[r] = -delta[r]
      /\ \A q \in Unrecorded(s) \ {r} : /\ delta'[q] = delta[q]
                                        /\ Outgoing(delta')[q] = Outgoing(delta)[q]
  BY <1>1 DEF Outgoing, MovementChanges, Unrecorded
<1>4. /\ IsFiniteSet(UnitsOf(Unrecorded(s), delta))
      /\ IsFiniteSet(UnitsOf(Unrecorded(s), Outgoing(delta)))
      /\ Gap(stock[s]) = Cardinality(UnitsOf(Unrecorded(s), delta))
                           - Cardinality(UnitsOf(Unrecorded(s), Outgoing(delta)))
  BY DEF Accounted
<1>5. /\ Cardinality(UnitsOf(Unrecorded(s), delta)) \in Int
      /\ Cardinality(UnitsOf(Unrecorded(s), Outgoing(delta))) \in Int
  BY <1>4, FS_CardinalityType
<1>6. /\ IsFiniteSet(UnitsOf(Unrecorded(s) \ {r}, delta'))
      /\ Cardinality(UnitsOf(Unrecorded(s) \ {r}, delta'))
           = Cardinality(UnitsOf(Unrecorded(s), delta)) - (IF delta[r] > 0 THEN delta[r] ELSE 0)
  BY <1>1, <1>2, <1>3, <1>4, OneLessUnits
<1>7. /\ IsFiniteSet(UnitsOf(Unrecorded(s) \ {r}, Outgoing(delta')))
      /\ Cardinality(UnitsOf(Unrecorded(s) \ {r}, Outgoing(delta')))
           = Cardinality(UnitsOf(Unrecorded(s), Outgoing(delta)))
               - (IF -delta[r] > 0 THEN -delta[r] ELSE 0)
  <2>1. PICK f : f = Outgoing(delta)
    OBVIOUS
  <2>2. f[r] \in Int /\ f[r] = -delta[r]
    BY <1>2, <1>3, <2>1
  <2>3. \A q \in Unrecorded(s) \ {r} : Outgoing(delta')[q] = f[q]
    BY <1>3, <2>1
  <2>4. /\ IsFiniteSet(UnitsOf(Unrecorded(s) \ {r}, Outgoing(delta')))
        /\ Cardinality(UnitsOf(Unrecorded(s) \ {r}, Outgoing(delta')))
             = Cardinality(UnitsOf(Unrecorded(s), f)) - (IF f[r] > 0 THEN f[r] ELSE 0)
    <3>1. IsFiniteSet(UnitsOf(Unrecorded(s), f)) /\ r \in Unrecorded(s)
      BY <1>1, <1>4, <2>1
    <3> QED
      BY <2>2, <2>3, <3>1, OneLessUnits
  <2> QED
    BY <2>1, <2>2, <2>4
<1>8. /\ IsFiniteSet(UnitsOf(Unrecorded(s)', delta'))
      /\ IsFiniteSet(UnitsOf(Unrecorded(s)', Outgoing(delta')))
      /\ Gap(stock'[s]) = Cardinality(UnitsOf(Unrecorded(s)', delta'))
                            - Cardinality(UnitsOf(Unrecorded(s)', Outgoing(delta')))
  BY <1>1, <1>2, <1>4, <1>5, <1>6, <1>7
<1> QED
  BY <1>8, OtherAccounts, AccountedFromParts

\* A request that finishes, with or without alerts to send, or goes on to another
\* step, begins and ends no movement unless it was at one.
LEMMA MovementsRestBy ==
  ASSUME WellFormed, NEW r \in Requests, pc[r] # "movement",
         \/ \E alerts : FlushThenEnd(r, alerts)
         \/ End(r)
         \/ /\ \E l \in PCs \ {"movement"} : pc' = [pc EXCEPT ![r] = l]
            /\ UNCHANGED delta
            /\ \A q \in Requests \ {r} : call'[q] = call[q]
  PROVE  MovementsRest
<1>1. /\ pc'[r] # "movement"
      /\ \A q \in Requests \ {r} : pc'[q] = pc[q] /\ call'[q] = call[q] /\ delta'[q] = delta[q]
  <2> USE DEF WellFormed, TypeOK, SessionTyped
  <2>1. CASE End(r)
    BY <2>1 DEF End
  <2>2. ASSUME NEW alerts, FlushThenEnd(r, alerts)
        PROVE  /\ pc'[r] # "movement"
               /\ \A q \in Requests \ {r} : /\ pc'[q] = pc[q] /\ call'[q] = call[q]
                                            /\ delta'[q] = delta[q]
    BY <2>1, <2>2 DEF FlushThenEnd, End
  <2>3. ASSUME NEW l \in PCs \ {"movement"}, pc' = [pc EXCEPT ![r] = l], UNCHANGED delta,
               \A q \in Requests \ {r} : call'[q] = call[q]
        PROVE  /\ pc'[r] # "movement"
               /\ \A q \in Requests \ {r} : /\ pc'[q] = pc[q] /\ call'[q] = call[q]
                                            /\ delta'[q] = delta[q]
    BY <2>3
  <2> QED
    BY <2>1, <2>2, <2>3
<1> QED
  BY <1>1 DEF MovementsRest

\* Steps that write no stock row and begin and end no movement.
LEMMA RowsRest ==
  ASSUME DraftsBooked, UNCHANGED <<stock, stockDraft>>
  PROVE  DraftsBooked' /\ BooksKept
  BY DEF DraftsBooked, BooksKept, Gap

\* COMMIT publishes versions that are as unaccounted for as those they replace.
LEMMA CommitBooked ==
  ASSUME DraftsBooked, NEW r \in Requests, Commit(r)
  PROVE  DraftsBooked' /\ BooksKept
<1>1. /\ stockDraft' = stockDraft
      /\ \A s \in Stocks : stock'[s] = (IF stockOwner[s] = r THEN stockDraft[s] ELSE stock[s])
  BY DEF Commit
<1> QED
  BY <1>1 DEF DraftsBooked, BooksKept

\* ROLLBACK makes the newest version the committed one again.
LEMMA RollbackBooked ==
  ASSUME DraftsBooked, NEW r \in Requests, Rollback(r)
  PROVE  DraftsBooked' /\ BooksKept
<1>1. /\ stock' = stock
      /\ \A s \in Stocks :
           stockDraft'[s] = (IF stockOwner[s] = r THEN stock[s] ELSE stockDraft[s])
  BY DEF Rollback, tables
<1> QED
  BY <1>1 DEF DraftsBooked, BooksKept

\* A one-statement write that adds nothing to the account of its row.
LEMMA WriteStockKeeps ==
  ASSUME WellFormed, DraftsBooked, NEW s \in Stocks, NEW row, WriteStock(s, row),
         Gap(row) = Gap(stock[s]), row.live \/ row.live = stock[s].live
  PROVE  DraftsBooked' /\ BooksKept
<1>1. \A t \in Stocks : /\ stock'[t] = (IF t = s THEN row ELSE stock[t])
                        /\ stockDraft'[t] = (IF t = s THEN row ELSE stockDraft[t])
  BY DEF WriteStock, WellFormed, TypeOK, TablesTyped, LocksTyped
<1> QED
  BY <1>1 DEF DraftsBooked, BooksKept

\* The steps of a call on an order: what it writes it accounts for.
LEMMA OrderStepBooked ==
  ASSUME WellFormed, DraftsBooked, NEW r \in Requests,
         \/ \E c \in OrderCalls : ReadOrder(r, c)
         \/ \E i \in Items : AddItem(r, i) \/ RemoveItem(r, i) \/ LockReservation(r, i)
         \/ ReadItems(r) \/ PickItem(r) \/ InsertReservation(r)
         \/ CommitConfirm(r) \/ CommitCancel(r) \/ CommitComplete(r)
  PROVE  DraftsBooked' /\ BooksKept /\ MovementsRest
<1>1. CASE \E c \in OrderCalls : ReadOrder(r, c)
  <2>1. /\ UNCHANGED <<stock, stockDraft, delta>> /\ pc[r] # "movement"
        /\ pc' = [pc EXCEPT ![r] = "read"]
        /\ \A q \in Requests \ {r} : call'[q] = call[q]
    BY <1>1 DEF ReadOrder, tables, locks, Goto, WellFormed, TypeOK, SessionTyped
  <2> QED
    BY <2>1, RowsRest, MovementsRestBy DEF PCs
<1>2. CASE \E i \in Items : AddItem(r, i) \/ RemoveItem(r, i)
  <2>1. UNCHANGED <<stock, stockDraft>> /\ pc[r] # "movement" /\ End(r)
    BY <1>2 DEF AddItem, RemoveItem, locks
  <2> QED
    BY <2>1, RowsRest, MovementsRestBy
<1>3. CASE \/ \E i \in Items : LockReservation(r, i)
           \/ ReadItems(r) \/ PickItem(r) \/ InsertReservation(r)
  <2>1. /\ UNCHANGED <<stock, stockDraft, delta, call>> /\ pc[r] # "movement"
        /\ \E l \in {"work", "settle"} : pc' = [pc EXCEPT ![r] = l]
    BY <1>3 DEF LockReservation, Settling, ReadItems, PickItem, InsertReservation, tables,
                locks, Goto
  <2> QED
    BY <2>1, RowsRest, MovementsRestBy DEF PCs
<1>4. CASE CommitConfirm(r) \/ CommitCancel(r) \/ CommitComplete(r)
  <2>1. Commit(r) /\ pc[r] # "movement" /\ (End(r) \/ FlushThenEnd(r, pending[r]))
    BY <1>4 DEF CommitConfirm, CommitCancel, CommitComplete
  <2> QED
    BY <2>1, CommitBooked, MovementsRestBy
<1> QED
  BY <1>1, <1>2, <1>3, <1>4

\* Reserving changes nothing that a movement has to account for.
LEMMA ReserveStockBooked ==
  ASSUME WellFormed, DraftsBooked, NEW r \in Requests, NEW i \in Items, ReserveStock(r, i)
  PROVE  DraftsBooked' /\ BooksKept /\ MovementsRest
<1>1. ItemStock(r, i) \in Stocks /\ item[i].quantity \in Int
  <2>1. call[r] \in Calls /\ call[r].op = "confirm" /\ item[i] # NoItem
    BY DEF ReserveStock, WellFormed, TypeOK, SessionTyped, SessionsMakeSense, StepFitsCall
  <2>2. call[r].location \in Locations
    BY <2>1, CallFields
  <2>3. item[i].product \in Products /\ item[i].quantity \in Nat
    BY <2>1, ItemFields DEF WellFormed, TypeOK, TablesTyped
  <2> QED
    BY <2>2, <2>3 DEF ItemStock, Stocks
<1>2. PICK s \in Stocks, q \in Int : s = ItemStock(r, i) /\ q = item[i].quantity
  BY <1>1
<1> DEFINE held == WithReserved(stockDraft[s], q)
           row == Synced(held, ReorderPoint[s])
<1>3. /\ stock' = stock /\ stockDraft' = [stockDraft EXCEPT ![s] = row]
      /\ pc[r] # "movement" /\ pc' = [pc EXCEPT ![r] = "reserve"]
      /\ UNCHANGED <<delta, call>>
  BY <1>2 DEF ReserveStock, tables, Goto
<1>4. stockDraft[s] \in Row /\ ReorderPoint[s] \in Nat
  BY RowNumbers
<1>5. held \in Row /\ held.live = stockDraft[s].live /\ Gap(held) = Gap(stockDraft[s])
  BY <1>4, ReservingRow, RowsBooked
<1> HIDE DEF held
<1>6. Gap(row) = Gap(held) /\ row.live = held.live
  BY <1>4, <1>5, RowsBooked
<1> HIDE DEF row
<1>7. DraftsBooked' /\ BooksKept
  BY <1>3, <1>5, <1>6, DraftBooked
<1> QED
  BY <1>3, <1>7, MovementsRestBy DEF PCs

\* fulfill_for_item writes the movement in the transaction that draws the units.
LEMMA SettleStockBooked ==
  ASSUME WellFormed, DraftsBooked, NEW r \in Requests, SettleStock(r)
  PROVE  DraftsBooked' /\ BooksKept /\ MovementsRest
<1>1. pc[r] = "settle"
  BY DEF SettleStock
<1>2. PICK s \in Stocks, q \in Int : s = resvDraft[cur[r]].stock /\ q = resvDraft[cur[r]].quantity
  <2>1. resvDraft[cur[r]].stock \in Stocks /\ resvDraft[cur[r]].quantity \in Int
    BY <1>1, SettlingItem
  <2> QED
    BY <2>1
<1>3. stockDraft[s] \in Row /\ ReorderPoint[s] \in Nat /\ SettledRow(r) \in Row
  BY <1>1, <1>2, RowNumbers, SettledRowTyped
<1>4. /\ Gap(SettledRow(r)) = Gap(stockDraft[s])
      /\ SettledRow(r).live = stockDraft[s].live
  <2>1. /\ Gap(WithFulfilled(stockDraft[s], q)) = Gap(stockDraft[s])
        /\ Gap(WithReleased(stockDraft[s], q)) = Gap(stockDraft[s])
    BY <1>3, RowsBooked
  <2>2. /\ WithFulfilled(stockDraft[s], q).live = stockDraft[s].live
        /\ WithReleased(stockDraft[s], q).live = stockDraft[s].live
    BY <1>3, FulfillingRow, ReleasingRow
  <2> QED
    BY <1>2, <2>1, <2>2 DEF SettledRow
<1>5. PICK row : row = Synced(SettledRow(r), ReorderPoint[s])
  OBVIOUS
<1>6. Gap(row) = Gap(stockDraft[s]) /\ row.live = stockDraft[s].live
  BY <1>3, <1>4, <1>5, RowsBooked
<1>7. /\ stock' = stock /\ stockDraft' = [stockDraft EXCEPT ![s] = row]
      /\ pc' = [pc EXCEPT ![r] = "work"] /\ UNCHANGED <<delta, call>>
  BY <1>2, <1>5, SettleStockEffect DEF tables
<1>8. DraftsBooked' /\ BooksKept
  BY <1>6, <1>7, DraftBooked
<1> QED
  BY <1>1, <1>7, <1>8, MovementsRestBy DEF PCs

\* A request that gives up, other than by a fault, was at no movement.
LEMMA GivesUpBooked ==
  ASSUME WellFormed, DraftsBooked, NEW r \in Requests, GivesUp(r), UNCHANGED faults
  PROVE  DraftsBooked' /\ BooksKept /\ MovementsRest
<1>1. Rollback(r) /\ End(r)
  BY GivesUpEffect
<1>2. faults' # faults + 1
  BY DEF WellFormed, TypeOK
<1>3. pc[r] # "movement"
  BY <1>2 DEF GivesUp, NoSuchItem, InsertRefused, LockWaitAborted, SecondCommitTimesOut, Crash,
              RemoveItemRefused, ReserveRefused, SettleRefused, Settling
<1> QED
  BY <1>1, <1>3, RollbackBooked, MovementsRestBy

\* The rest of the stock desk, and the alerts.
LEMMA DeskStepBooked ==
  ASSUME WellFormed, DraftsBooked, NEW r \in Requests,
         \/ \E c \in StockCalls : InitializeStock(r, c)
         \/ RefreshOpened(r) \/ MarkOpened(r) \/ \E s \in Stocks : DeferAlert(r, s)
  PROVE  DraftsBooked' /\ BooksKept /\ MovementsRest
<1>1. ASSUME NEW c \in StockCalls, InitializeStock(r, c)
      PROVE  DraftsBooked' /\ BooksKept /\ MovementsRest
  <2>1. /\ pc[r] # "movement" /\ c \in Calls /\ c.op = "initialize_stock" /\ ~stock[c.stock].live
        /\ WriteStock(c.stock, NewRow(c.quantity))
        /\ pc' = [pc EXCEPT ![r] = "opened"] /\ UNCHANGED delta
        /\ \A q \in Requests \ {r} : call'[q] = call[q]
    BY <1>1 DEF InitializeStock, Goto, Calls, WellFormed, TypeOK, SessionTyped
  <2>2. c.stock \in Stocks /\ c.quantity \in Nat
    BY <2>1, CallFields
  <2>3. NewRow(c.quantity).live /\ Gap(NewRow(c.quantity)) = 0 /\ Gap(stock[c.stock]) = 0
    BY <2>1, <2>2 DEF NewRow, Gap, DraftsBooked
  <2> QED
    BY <2>1, <2>2, <2>3, WriteStockKeeps, MovementsRestBy DEF PCs
<1>2. ASSUME RefreshOpened(r)
      PROVE  DraftsBooked' /\ BooksKept /\ MovementsRest
  <2>1. UNCHANGED <<stock, stockDraft>> /\ pc[r] # "movement"
    BY <1>2 DEF RefreshOpened, tables, locks
  <2>2. End(r) \/ (pc' = [pc EXCEPT ![r] = "mark"] /\ UNCHANGED <<call, delta>>)
    BY <1>2 DEF RefreshOpened, Goto
  <2> QED
    BY <2>1, <2>2, RowsRest, MovementsRestBy DEF PCs
<1>3. ASSUME MarkOpened(r)
      PROVE  DraftsBooked' /\ BooksKept /\ MovementsRest
  <2>1. PICK s \in Stocks : s = call[r].stock /\ stock[s] \in Row
    BY <1>3, OpenedStock DEF MarkOpened
  <2>2. PICK row : row = [stock[s] EXCEPT !.alerted = TRUE]
    OBVIOUS
  <2>3. Gap(row) = Gap(stock[s]) /\ row.live = stock[s].live
    BY <2>1, <2>2 DEF Gap, Row
  <2>4. WriteStock(s, row) /\ pc[r] # "movement" /\ FlushThenEnd(r, pending[r])
    BY <1>3, <2>1, <2>2 DEF MarkOpened
  <2> QED
    BY <2>3, <2>4, WriteStockKeeps, MovementsRestBy
<1>4. ASSUME NEW s \in Stocks, DeferAlert(r, s)
      PROVE  DraftsBooked' /\ BooksKept /\ MovementsRest
  <2>1. /\ UNCHANGED <<stock, stockDraft>> /\ pc[r] # "movement"
        /\ FlushThenEnd(r, pending[r] \ {s})
    BY <1>4 DEF DeferAlert, tables, locks
  <2> QED
    BY <2>1, RowsRest, MovementsRestBy
<1> QED
  BY <1>1, <1>2, <1>3, <1>4

\* The first commit of a stock change opens a gap of exactly `delta`.
LEMMA MoveStockAccounted ==
  ASSUME WellFormed, WellFormed', DraftsBooked, Accounted, NEW r \in Requests,
         NEW c \in StockCalls, MoveStock(r, c)
  PROVE  DraftsBooked' /\ Accounted'
<1>1. PICK s \in Stocks : s = c.stock
  BY MoveStockEffect
<1>2. PICK row : row = Synced(MovedRow(c), ReorderPoint[s])
  OBVIOUS
<1>3. /\ pc[r] = "idle" /\ stock[s] \in Row /\ stock[s].live /\ MovedRow(c) \in Row
      /\ ReorderPoint[s] \in Nat /\ WriteStock(s, row)
  BY <1>1, <1>2, MoveStockEffect
<1>4. /\ delta' = [delta EXCEPT ![r] = MovedRow(c).quantity - stock[s].quantity]
      /\ pc' = [pc EXCEPT ![r] = "movement"] /\ call' = [call EXCEPT ![r] = c]
  BY <1>1 DEF MoveStock, MovedRow, Goto
<1>5. row.live /\ Gap(row) = Gap(stock[s]) + (MovedRow(c).quantity - stock[s].quantity)
  <2>1. Gap(row) = Gap(MovedRow(c)) /\ row.live = MovedRow(c).live
    BY <1>2, <1>3, RowsBooked
  <2>2. MovedRow(c).audited = stock[s].audited /\ MovedRow(c).live = stock[s].live
    BY <1>1, <1>3 DEF MovedRow, Row
  <2>3. stock[s].quantity \in Int /\ stock[s].audited \in Int /\ MovedRow(c).quantity \in Int
    BY <1>3 DEF Row
  <2> QED
    BY <1>3, <2>1, <2>2, <2>3 DEF Gap
<1>6. /\ DraftsBooked' /\ Gap(stock'[s]) = Gap(row) /\ stock'[s].live
      /\ \A t \in Stocks \ {s} : stock'[t] = stock[t]
  BY <1>3, <1>5, WriteStockBooked
<1>7. /\ pc'[r] = "movement" /\ call'[r] = c
      /\ delta'[r] = MovedRow(c).quantity - stock[s].quantity
      /\ \A q \in Requests \ {r} : pc'[q] = pc[q] /\ call'[q] = call[q] /\ delta'[q] = delta[q]
  BY <1>4 DEF WellFormed, TypeOK, SessionTyped
<1>8. MovementChanges(r, s)
  BY <1>6, <1>7 DEF MovementChanges
<1>9. pc[r] # "movement" /\ call'[r].stock = s /\ Gap(stock'[s]) = Gap(stock[s]) + delta'[r]
  BY <1>1, <1>3, <1>5, <1>6, <1>7
<1> QED
  BY <1>6, <1>7, <1>8, <1>9, MovementBegins

\* The second commit closes it.
LEMMA RecordMovementAccounted ==
  ASSUME WellFormed, DraftsBooked, Accounted, NEW r \in Requests, RecordMovement(r)
  PROVE  DraftsBooked' /\ Accounted'
<1>1. PICK s \in Stocks : s = call[r].stock
  BY RecordMovementEffect
<1>2. PICK row : row = Recorded(stock[s], delta[r])
  OBVIOUS
<1>3. /\ pc[r] = "movement" /\ stock[s] \in Row /\ delta[r] \in Int /\ WriteStock(s, row)
      /\ FlushThenEnd(r, pending[r])
  BY <1>1, <1>2, RecordMovementEffect DEF RecordMovement
<1>4. row.live /\ Gap(row) = Gap(stock[s]) - delta[r]
  <2>1. stock[s].live
    BY <1>1, <1>3 DEF Accounted
  <2>2. row.live = stock[s].live
    BY <1>2, <1>3 DEF Recorded, Row
  <2> QED
    BY <1>2, <1>3, <2>1, <2>2, RowsBooked, RowNumbers
<1>5. /\ DraftsBooked' /\ Gap(stock'[s]) = Gap(row) /\ stock'[s].live
      /\ \A t \in Stocks \ {s} : stock'[t] = stock[t]
  <2>1. stock[s].live
    BY <1>1, <1>3 DEF Accounted
  <2> QED
    BY <1>3, <1>4, <2>1, WriteStockBooked
<1>6. /\ pc'[r] # "movement"
      /\ \A q \in Requests \ {r} : pc'[q] = pc[q] /\ call'[q] = call[q] /\ delta'[q] = delta[q]
  <2>1. pc'[r] \in {"idle", "flush"}
    BY <1>3, FlushStep
  <2> QED
    BY <1>3, <2>1 DEF FlushThenEnd, End, WellFormed, TypeOK, SessionTyped
<1>7. MovementChanges(r, s)
  BY <1>5, <1>6 DEF MovementChanges
<1>8. Gap(stock'[s]) = Gap(stock[s]) - delta[r]
  BY <1>4, <1>5
<1> QED
  BY <1>1, <1>3, <1>5, <1>6, <1>7, <1>8, MovementEnds

\* A fault is never forgotten.
LEMMA FaultsOnlyGrow ==
  ASSUME WellFormed, [Next]_vars
  PROVE  UNCHANGED faults \/ (faults' = faults + 1 /\ faults' > 0)
<1>1. faults \in Nat
  BY StockConstants DEF WellFormed, TypeOK
<1>2. UNCHANGED faults \/ faults' = faults + 1
  <2>1. CASE UNCHANGED vars \/ \E o \in Orders : CreateOrder(o)
    BY <2>1 DEF vars, CreateOrder
  <2>2. ASSUME NEW r \in Requests, Arrives(r)
        PROVE  UNCHANGED faults
    BY <2>2 DEF Arrives, ReadOrder, MoveStock, InitializeStock
  <2>3. ASSUME NEW r \in Requests, Advances(r)
        PROVE  UNCHANGED faults
    <3>1. ASSUME NEW i \in Items, ItemStep(r, i) PROVE UNCHANGED faults
      BY <3>1 DEF ItemStep, AddItem, RemoveItem, RemoveItemRefused, ReserveStock,
                  ReserveRefused, LockReservation, SettleRefused, Fail
    <3> QED
      BY <2>3, <3>1 DEF Advances, ReadItems, PickItem, NoSuchItem, InsertReservation,
           InsertRefused, CommitConfirm, SettleStock, CommitCancel, CommitComplete,
           RecordMovement, RefreshOpened, MarkOpened, DeferAlert, LockWaitAborted, Fail
  <2>4. ASSUME NEW r \in Requests, Fails(r)
        PROVE  faults' = faults + 1
    BY <2>4 DEF Fails, Crash, SecondCommitTimesOut, LoseAlert
  <2> QED
    BY <2>1, <2>2, <2>3, <2>4 DEF Next
<1> QED
  BY <1>1, <1>2

\* One step of the proof per kind of action: only a fault leaves a gap for good.
LEMMA NextAccounted ==
  ASSUME WellFormed, WellFormed', DraftsBooked, Accounted, [Next]_vars, UNCHANGED faults
  PROVE  DraftsBooked' /\ Accounted'
<1>1. CASE UNCHANGED vars \/ \E o \in Orders : CreateOrder(o)
  <2>1. UNCHANGED <<stock, stockDraft, pc, call, delta>>
    BY <1>1 DEF vars, tables, locks, session, CreateOrder
  <2>2. MovementsRest
    BY <2>1 DEF MovementsRest
  <2> QED
    BY <2>1, <2>2, RowsRest, AccountsRest
<1>2. ASSUME NEW r \in Requests, Arrives(r) \/ Advances(r) \/ Fails(r)
      PROVE  DraftsBooked' /\ Accounted'
  <2>1. \/ \E c \in OrderCalls : ReadOrder(r, c)
        \/ \E i \in Items : AddItem(r, i) \/ RemoveItem(r, i) \/ LockReservation(r, i)
        \/ ReadItems(r) \/ PickItem(r) \/ InsertReservation(r)
        \/ CommitConfirm(r) \/ CommitCancel(r) \/ CommitComplete(r)
        \/ SettleStock(r) \/ GivesUp(r) \/ RefreshOpened(r) \/ MarkOpened(r) \/ RecordMovement(r)
        \/ \E i \in Items : ReserveStock(r, i)
        \/ \E c \in StockCalls : MoveStock(r, c) \/ InitializeStock(r, c)
        \/ \E s \in Stocks : DeferAlert(r, s) \/ LoseAlert(r, s)
    BY <1>2 DEF Arrives, Advances, Fails, ItemStep, GivesUp
  <2>2. CASE DraftsBooked' /\ BooksKept /\ MovementsRest
    BY <2>2, AccountsRest
  <2>3. \A s \in Stocks : ~LoseAlert(r, s)
    BY DEF LoseAlert, WellFormed, TypeOK
  <2> QED
    BY <2>1, <2>2, <2>3, OrderStepBooked, SettleStockBooked, GivesUpBooked, DeskStepBooked,
       ReserveStockBooked, RecordMovementAccounted, MoveStockAccounted
<1> QED
  BY <1>1, <1>2 DEF Next

\* As long as no request dies between its two commits, every unit of every row is
\* explained by a movement that is written or about to be, whatever the number of
\* requests: add_stock, remove_stock, adjust_stock and fulfill_for_item lose none.
THEOREM LedgerAccountsForStock ==
  Spec => [](faults = 0 => LedgerBalances)
<1> DEFINE Inv == WellFormed /\ (faults = 0 => DraftsBooked /\ Accounted)
<1>1. Init => Inv
  <2> SUFFICES ASSUME Init PROVE DraftsBooked /\ Accounted
    BY InitTypeOK, InitSense DEF WellFormed
  <2>1. \A s \in Stocks : Gap(stock[s]) = 0 /\ stockDraft[s] = stock[s]
    BY StockConstants DEF Init, Gap, NoRow, NewRow, Synced
  <2>2. DraftsBooked
    BY <2>1 DEF DraftsBooked
  <2>3. \A s \in Stocks : Unrecorded(s) = {}
    BY DEF Unrecorded, Init
  <2>4. \A f : UnitsOf({}, f) = {}
    BY DEF UnitsOf
  <2>5. \A r \in Requests : pc[r] # "movement"
    BY DEF Init
  <2> QED
    BY <2>1, <2>2, <2>3, <2>4, <2>5, FS_EmptySet DEF Accounted
<1>2. Inv /\ [Next]_vars => Inv'
  <2> SUFFICES ASSUME Inv, [Next]_vars PROVE Inv'
    OBVIOUS
  <2>1. WellFormed'
    BY NextWF
  <2>2. faults' = 0 => UNCHANGED faults
    BY FaultsOnlyGrow
  <2> QED
    BY <2>1, <2>2, NextAccounted
<1>3. Inv => (faults = 0 => LedgerBalances)
  BY AccountOfRow DEF LedgerBalances
<1> QED
  BY <1>1, <1>2, <1>3, PTL DEF Spec

-----------------------------------------------------------------------------
(* NoOrphanHold, FlagsStrayAtOpening and RaisedAlertIsAnnounced *)
(*                                                                           *)
(* cancel_order never flushes, so an alert that it raised would be lost.  It    *)
(* raises none: what it releases is held on a row that was synced when the hold *)
(* was committed and ever since, and releasing only lifts the level.  That is   *)
(* AlertsInHand, which needs no assumption on the callers; AlertsInTime and     *)
(* RaisedInTime are what it gives as long as no fault strikes.                  *)

\* Only these sessions lock rows across steps.
AtWork(r) == /\ pc[r] \in {"work", "reserve", "settle"}
             /\ call[r].op \in {"confirm", "cancel", "complete"}

\* A row version not yet committed is synced, and a flag it raises is in the pending
\* alerts of its owner, which is not a cancel_order: that one would drop it.
RowInHand(s) ==
    /\ stockDraft[s].live = stock[s].live
    /\ stockOwner[s] = None => stockDraft[s] = stock[s]
    /\ stockOwner[s] # None =>
         /\ AtWork(stockOwner[s])
         /\ stockDraft[s].alerted = IsLow(stockDraft[s], ReorderPoint[s])
         /\ stockDraft[s].alerted /\ ~stock[s].alerted =>
              s \in pending[stockOwner[s]] /\ call[stockOwner[s]].op # "cancel"

\* A reservation is on a live row, which the request that inserts it has locked; once
\* it is committed, the row has been synced: it is not low without its flag.
ItemInHand(i) ==
    /\ resvOwner[i] # None => AtWork(resvOwner[i])
    /\ resvDraft[i] # NoResv =>
         /\ stock[resvDraft[i].stock].live
         /\ resv[i] # NoResv => resv[i].stock = resvDraft[i].stock
         /\ resv[i] = NoResv => /\ resvOwner[i] # None
                                /\ stockOwner[resvDraft[i].stock] = resvOwner[i]
    /\ resv[i] # NoResv =>
         LET s == resv[i].stock
         IN  IsLow(stock[s], ReorderPoint[s]) => stock[s].alerted

\* Between the two halves of reserve_for_item the row is locked, and initialize_stock
\* goes to its second commit with the alert in hand.
RequestInHand(r) ==
    /\ pc[r] = "reserve" => /\ stock[ItemStock(r, cur[r])].live
                            /\ stockOwner[ItemStock(r, cur[r])] = r
    /\ pc[r] = "mark" => call[r].stock \in pending[r]

AlertsInHand ==
    /\ \A s \in Stocks : RowInHand(s)
    /\ \A i \in Items : ItemInHand(i)
    /\ \A r \in Requests : RequestInHand(r)

\* A step of r leaves what the other requests owe and handle alone.
OthersStill(r) ==
    \A q \in Requests \ {r} : /\ pc'[q] = pc[q] /\ call'[q] = call[q]
                              /\ cur'[q] = cur[q] /\ pending'[q] = pending[q]

\* The row that a request handles between the halves of reserve_for_item.
LEMMA RowAtHand ==
  ASSUME WellFormed, NEW r \in Requests, pc[r] = "reserve"
  PROVE  /\ cur[r] \in Items /\ item[cur[r]] # NoItem /\ ItemStock(r, cur[r]) \in Stocks
         /\ item[cur[r]].quantity \in Nat
<1>1. /\ cur[r] \in Items /\ item[cur[r]] # NoItem /\ call[r].op = "confirm" /\ call[r] \in Calls
  BY DEF WellFormed, TypeOK, SessionTyped, SessionsMakeSense, StepFitsCall
<1>2. /\ item[cur[r]].product \in Products /\ item[cur[r]].quantity \in Nat
      /\ call[r].location \in Locations
  BY <1>1, CallFields, ItemFields DEF WellFormed, TypeOK, TablesTyped
<1> QED
  BY <1>1, <1>2 DEF ItemStock, Stocks

\* A step of r disturbs no other request, as long as it frees none of their rows and
\* takes no row out of stock.
LEMMA OthersInHand ==
  ASSUME WellFormed, AlertsInHand, NEW r \in Requests, OthersStill(r), ItemsStay,
         RequestInHand(r)',
         \A s \in Stocks : /\ stock[s].live => stock'[s].live
                           /\ \A q \in Requests \ {r} : stockOwner[s] = q => stockOwner'[s] = q
  PROVE  \A q \in Requests : RequestInHand(q)'
<1> SUFFICES ASSUME NEW q \in Requests, q # r PROVE RequestInHand(q)'
  OBVIOUS
<1>1. /\ pc'[q] = pc[q] /\ call'[q] = call[q] /\ cur'[q] = cur[q] /\ pending'[q] = pending[q]
      /\ RequestInHand(q)
  BY DEF OthersStill, AlertsInHand
<1>2. CASE pc[q] = "reserve"
  <2>1. PICK i \in Items, s \in Stocks : i = cur[q] /\ s = ItemStock(q, i) /\ item[i] # NoItem
    BY <1>2, RowAtHand
  <2>2. ItemStock(q, i)' = s
    BY <1>1, <2>1 DEF ItemsStay, ItemStock
  <2>3. stock'[s].live /\ stockOwner'[s] = q
    BY <1>1, <1>2, <2>1 DEF RequestInHand
  <2> QED
    BY <1>1, <1>2, <2>1, <2>2, <2>3 DEF RequestInHand
<1>3. CASE pc[q] # "reserve"
  BY <1>1, <1>3 DEF RequestInHand
<1> QED
  BY <1>2, <1>3

\* A request that is not at work owns no row.
LEMMA OwnsNothing ==
  ASSUME AlertsInHand, NEW r \in Requests, ~AtWork(r)
  PROVE  /\ \A s \in Stocks : stockOwner[s] # r
         /\ \A i \in Items : resvOwner[i] # r
  BY NoneIsFresh DEF AlertsInHand, RowInHand, ItemInHand

\* What is at work stays so when only other requests move.
LEMMA WorkGoesOn ==
  ASSUME NEW r \in Requests, OthersStill(r), NEW q \in Requests, AtWork(q),
         q # r \/ AtWork(r)'
  PROVE  AtWork(q)'
  BY DEF OthersStill, AtWork

\* A step of r that writes neither table and moves no lock.
LEMMA QuietInHand ==
  ASSUME WellFormed, AlertsInHand, NEW r \in Requests, OthersStill(r), ItemsStay,
         UNCHANGED <<stock, stockDraft, stockOwner, resv, resvDraft, resvOwner>>,
         RequestInHand(r)',
         ~AtWork(r) \/ (AtWork(r)' /\ call'[r] = call[r] /\ pending'[r] = pending[r])
  PROVE  AlertsInHand'
<1>1. ASSUME NEW s \in Stocks PROVE RowInHand(s)'
  <2>1. CASE stockOwner[s] = None
    BY <2>1 DEF RowInHand, AlertsInHand
  <2>2. CASE stockOwner[s] # None
    <3>1. PICK q \in Requests : q = stockOwner[s] /\ RowInHand(s) /\ AtWork(q)
      BY <2>2 DEF WellFormed, TypeOK, LocksTyped, AlertsInHand, RowInHand
    <3>2. /\ q # r \/ AtWork(r)'
          /\ call'[q] = call[q] /\ pending'[q] = pending[q]
      BY <3>1 DEF OthersStill
    <3>3. AtWork(q)'
      BY <3>1, <3>2, WorkGoesOn
    <3>4. PICK u : u = stockOwner' /\ u[s] = q
      BY <3>1
    <3>5. AtWork(stockOwner[s])'
      BY <3>3, <3>4
    <3> QED
      BY <2>2, <3>1, <3>2, <3>5 DEF RowInHand
  <2> QED
    BY <2>1, <2>2
<1>2. ASSUME NEW i \in Items PROVE ItemInHand(i)'
  <2>1. ItemInHand(i)
    BY DEF AlertsInHand
  <2>2. resvOwner[i] # None => AtWork(resvOwner[i])'
    <3> SUFFICES ASSUME resvOwner[i] # None PROVE AtWork(resvOwner[i])'
      OBVIOUS
    <3>1. PICK q \in Requests : q = resvOwner[i] /\ AtWork(q)
      BY <2>1 DEF WellFormed, TypeOK, LocksTyped, ItemInHand
    <3>2. AtWork(q)'
      BY <3>1, WorkGoesOn
    <3>3. PICK u : u = resvOwner' /\ u[i] = q
      BY <3>1
    <3> QED
      BY <3>2, <3>3
  <2> QED
    BY <2>1, <2>2 DEF ItemInHand
<1>3. \A q \in Requests : RequestInHand(q)'
  BY OthersInHand
<1> QED
  BY <1>1, <1>2, <1>3 DEF AlertsInHand

\* A one-statement write that syncs its row, or leaves its level and flag alone.
LEMMA WriteInHand ==
  ASSUME WellFormed, AlertsInHand, NEW r \in Requests, OthersStill(r), item' = item,
         NEW s \in Stocks, NEW row, WriteStock(s, row), ~AtWork(r), RequestInHand(r)',
         stock[s].live => row.live,
         stock[s].live /\ (IsLow(stock[s], ReorderPoint[s]) => stock[s].alerted)
           => (IsLow(row, ReorderPoint[s]) => row.alerted)
  PROVE  AlertsInHand'
<1>1. /\ \A t \in Stocks : /\ stock'[t] = (IF t = s THEN row ELSE stock[t])
                           /\ stockDraft'[t] = (IF t = s THEN row ELSE stockDraft[t])
      /\ UNCHANGED <<resv, resvDraft, resvOwner, stockOwner>> /\ stockOwner[s] = None
  BY DEF WriteStock, WellFormed, TypeOK, TablesTyped, LocksTyped
<1>2. ASSUME NEW t \in Stocks PROVE RowInHand(t)'
  <2>1. CASE stockOwner[t] = None
    BY <1>1, <2>1 DEF RowInHand, AlertsInHand
  <2>2. CASE stockOwner[t] # None
    <3>1. PICK q \in Requests : q = stockOwner[t] /\ RowInHand(t) /\ AtWork(q) /\ q # r
      BY <2>2 DEF WellFormed, TypeOK, LocksTyped, AlertsInHand, RowInHand
    <3>2. call'[q] = call[q] /\ pending'[q] = pending[q] /\ AtWork(q)'
      BY <3>1, WorkGoesOn DEF OthersStill
    <3>3. PICK u : u = stockOwner' /\ u[t] = q
      BY <1>1, <3>1
    <3>4. AtWork(stockOwner[t])' /\ t # s
      BY <1>1, <2>2, <3>2, <3>3
    <3> QED
      BY <1>1, <2>2, <3>1, <3>2, <3>4 DEF RowInHand
  <2> QED
    BY <2>1, <2>2
<1>3. ASSUME NEW i \in Items PROVE ItemInHand(i)'
  <2>1. ItemInHand(i) /\ (resv[i] # NoResv => resvDraft[i] # NoResv)
    BY DEF AlertsInHand, WellFormed, SessionsMakeSense
  <2>2. resvOwner[i] # None => AtWork(resvOwner[i])'
    <3> SUFFICES ASSUME resvOwner[i] # None PROVE AtWork(resvOwner[i])'
      OBVIOUS
    <3>1. PICK q \in Requests : q = resvOwner[i] /\ AtWork(q)
      BY <2>1 DEF WellFormed, TypeOK, LocksTyped, ItemInHand
    <3>2. AtWork(q)'
      BY <3>1, WorkGoesOn
    <3>3. PICK u : u = resvOwner' /\ u[i] = q
      BY <1>1, <3>1
    <3> QED
      BY <3>2, <3>3
  <2>3. /\ resvDraft[i] # NoResv => resvDraft[i].stock \in Stocks
        /\ resv[i] # NoResv => resv[i].stock \in Stocks
    BY ResvFields DEF WellFormed, TypeOK, TablesTyped, LocksTyped
  <2>4. resvDraft[i] # NoResv => stock'[resvDraft[i].stock].live
    BY <1>1, <2>1, <2>3 DEF ItemInHand
  <2>5. ASSUME resv[i] # NoResv, NEW t \in Stocks, t = resv[i].stock,
               IsLow(stock'[t], ReorderPoint[t])
        PROVE  stock'[t].alerted
    BY <1>1, <2>1, <2>5 DEF ItemInHand
  <2> QED
    BY <1>1, <2>1, <2>2, <2>3, <2>4, <2>5 DEF ItemInHand
<1>4. \A t \in Stocks : stock[t].live => stock'[t].live
  BY <1>1
<1>5. ItemsStay
  BY QuietItems
<1>6. \A q \in Requests : RequestInHand(q)'
  BY <1>1, <1>4, <1>5, OthersInHand
<1> QED
  BY <1>2, <1>3, <1>6 DEF AlertsInHand

\* The owner of a row that is not r is at work before and after a step of r.
LEMMA OwnersKeepOn ==
  ASSUME WellFormed, AlertsInHand, NEW r \in Requests, OthersStill(r)
  PROVE  /\ \A s \in Stocks : stockOwner[s] \notin {None, r} =>
              /\ AtWork(stockOwner[s])
              /\ \E q \in Requests \ {r} : q = stockOwner[s] /\ AtWork(q)'
         /\ \A i \in Items : resvOwner[i] \notin {None, r} =>
              \E q \in Requests \ {r} : q = resvOwner[i] /\ AtWork(q)'
<1>1. ASSUME NEW s \in Stocks, stockOwner[s] \notin {None, r}
      PROVE  \E q \in Requests \ {r} : q = stockOwner[s] /\ AtWork(q) /\ AtWork(q)'
  <2>1. PICK q \in Requests \ {r} : q = stockOwner[s] /\ AtWork(q)
    BY <1>1 DEF WellFormed, TypeOK, LocksTyped, AlertsInHand, RowInHand
  <2> QED
    BY <2>1, WorkGoesOn
<1>2. ASSUME NEW i \in Items, resvOwner[i] \notin {None, r}
      PROVE  \E q \in Requests \ {r} : q = resvOwner[i] /\ AtWork(q)'
  <2>1. PICK q \in Requests \ {r} : q = resvOwner[i] /\ AtWork(q)
    BY <1>2 DEF WellFormed, TypeOK, LocksTyped, AlertsInHand, ItemInHand
  <2> QED
    BY <2>1, WorkGoesOn
<1> QED
  BY <1>1, <1>2

\* COMMIT publishes synced versions and gives up every lock of r.
LEMMA CommitInHand ==
  ASSUME WellFormed, AlertsInHand, NEW r \in Requests, OthersStill(r), item' = item,
         Commit(r), pc'[r] \in {"idle", "flush"}
  PROVE  AlertsInHand'
<1>1. /\ \A s \in Stocks :
           /\ stock'[s] = (IF stockOwner[s] = r THEN stockDraft[s] ELSE stock[s])
           /\ stockDraft'[s] = stockDraft[s]
           /\ stockOwner'[s] = (IF stockOwner[s] = r THEN None ELSE stockOwner[s])
      /\ \A i \in Items :
           /\ resv'[i] = (IF resvOwner[i] = r THEN resvDraft[i] ELSE resv[i])
           /\ resvDraft'[i] = resvDraft[i]
           /\ resvOwner'[i] = (IF resvOwner[i] = r THEN None ELSE resvOwner[i])
  BY DEF Commit
<1>2. ASSUME NEW s \in Stocks PROVE RowInHand(s)'
  <2>1. RowInHand(s)
    BY DEF AlertsInHand
  <2>2. CASE stockOwner[s] \in {None, r}
    BY <1>1, <2>1, <2>2 DEF RowInHand
  <2>3. CASE stockOwner[s] \notin {None, r}
    <3>1. PICK q \in Requests \ {r} : q = stockOwner[s] /\ AtWork(q)'
      BY <2>3, OwnersKeepOn
    <3>2. PICK u : u = stockOwner' /\ u[s] = q
      BY <1>1, <3>1
    <3>3. AtWork(stockOwner[s])'
      BY <3>1, <3>2
    <3>4. call'[q] = call[q] /\ pending'[q] = pending[q]
      BY <3>1 DEF OthersStill
    <3> QED
      BY <1>1, <2>1, <2>3, <3>1, <3>3, <3>4 DEF RowInHand
  <2> QED
    BY <2>2, <2>3
<1>3. \A s \in Stocks : /\ stock[s].live => stock'[s].live
                        /\ \A q \in Requests \ {r} : stockOwner[s] = q => stockOwner'[s] = q
                        /\ \A q \in Requests \ {r} : stockOwner[s] = q => stock'[s] = stock[s]
                        /\ stockOwner[s] = r =>
                             (IsLow(stock'[s], ReorderPoint[s]) => stock'[s].alerted)
  BY <1>1, NoneIsFresh DEF AlertsInHand, RowInHand
<1>4. ASSUME NEW i \in Items PROVE ItemInHand(i)'
  <2>1. ItemInHand(i) /\ (resv[i] # NoResv => resvDraft[i] # NoResv)
    BY DEF AlertsInHand, WellFormed, SessionsMakeSense
  <2>2. /\ resvDraft[i] # NoResv => resvDraft[i].stock \in Stocks
        /\ resv[i] # NoResv => resv[i].stock \in Stocks
    BY ResvFields DEF WellFormed, TypeOK, TablesTyped, LocksTyped
  <2>3. resvOwner'[i] # None => AtWork(resvOwner[i])'
    <3> SUFFICES ASSUME resvOwner'[i] # None PROVE AtWork(resvOwner[i])'
      OBVIOUS
    <3>1. resvOwner[i] \notin {None, r} /\ resvOwner'[i] = resvOwner[i]
      BY <1>1
    <3>2. PICK q \in Requests \ {r} : q = resvOwner[i] /\ AtWork(q)'
      BY <3>1, OwnersKeepOn
    <3>3. PICK u : u = resvOwner' /\ u[i] = q
      BY <3>1, <3>2
    <3> QED
      BY <3>2, <3>3
  <2>4. CASE resvOwner[i] = r
    <3>1. /\ resv'[i] = resvDraft[i] /\ resvDraft'[i] = resvDraft[i] /\ resvOwner'[i] = None
      BY <1>1, <2>4
    <3>2. ASSUME NEW t \in Stocks, resvDraft[i] # NoResv, t = resvDraft[i].stock
          PROVE  /\ stock'[t].live
                 /\ IsLow(stock'[t], ReorderPoint[t]) => stock'[t].alerted
      <4>1. stock[t].live
        BY <2>1, <3>2 DEF ItemInHand
      <4>2. CASE stockOwner[t] = r
        BY <1>3, <4>1, <4>2
      <4>3. CASE stockOwner[t] # r
        <5>1. stock'[t] = stock[t] /\ resv[i] # NoResv /\ resv[i].stock = t
          BY <1>1, <2>1, <2>4, <3>2, <4>3 DEF ItemInHand
        <5> QED
          BY <2>1, <4>1, <5>1 DEF ItemInHand
      <4> QED
        BY <4>2, <4>3
    <3> QED
      BY <2>2, <2>3, <3>1, <3>2 DEF ItemInHand
  <2>5. CASE resvOwner[i] # r
    <3>1. /\ resv'[i] = resv[i] /\ resvDraft'[i] = resvDraft[i] /\ resvOwner'[i] = resvOwner[i]
      BY <1>1, <2>5
    <3>2. ASSUME NEW t \in Stocks, resv[i] # NoResv, t = resv[i].stock,
                 IsLow(stock'[t], ReorderPoint[t])
          PROVE  stock'[t].alerted
      BY <1>1, <1>3, <2>1, <3>2 DEF ItemInHand
    <3>3. ASSUME NEW t \in Stocks, resvDraft[i] # NoResv, t = resvDraft[i].stock
          PROVE  /\ stock'[t].live
                 /\ resv[i] = NoResv => stockOwner'[t] = resvOwner[i] /\ resvOwner[i] # None
      BY <1>1, <1>3, <2>1, <2>5, <3>3 DEF ItemInHand
    <3> QED
      BY <2>1, <2>2, <2>3, <3>1, <3>2, <3>3 DEF ItemInHand
  <2> QED
    BY <2>4, <2>5
<1>5. RequestInHand(r)'
  BY DEF RequestInHand
<1>6. \A q \in Requests : RequestInHand(q)'
  BY <1>3, <1>5, OthersInHand, QuietItems
<1> QED
  BY <1>2, <1>4, <1>6 DEF AlertsInHand

\* ROLLBACK restores the committed versions and gives up every lock of r.
LEMMA RollbackInHand ==
  ASSUME WellFormed, AlertsInHand, NEW r \in Requests, OthersStill(r),
         Rollback(r), pc'[r] = "idle"
  PROVE  AlertsInHand'
<1>1. /\ \A s \in Stocks :
           /\ stock'[s] = stock[s]
           /\ stockDraft'[s] = (IF stockOwner[s] = r THEN stock[s] ELSE stockDraft[s])
           /\ stockOwner'[s] = (IF stockOwner[s] = r THEN None ELSE stockOwner[s])
      /\ \A i \in Items :
           /\ resv'[i] = resv[i]
           /\ resvDraft'[i] = (IF resvOwner[i] = r THEN resv[i] ELSE resvDraft[i])
           /\ resvOwner'[i] = (IF resvOwner[i] = r THEN None ELSE resvOwner[i])
      /\ item' = item
  BY DEF Rollback, tables
<1>2. ASSUME NEW s \in Stocks PROVE RowInHand(s)'
  <2>1. RowInHand(s)
    BY DEF AlertsInHand
  <2>2. CASE stockOwner[s] \in {None, r}
    BY <1>1, <2>1, <2>2 DEF RowInHand
  <2>3. CASE stockOwner[s] \notin {None, r}
    <3>1. PICK q \in Requests \ {r} : q = stockOwner[s] /\ AtWork(q)'
      BY <2>3, OwnersKeepOn
    <3>2. PICK u : u = stockOwner' /\ u[s] = q
      BY <1>1, <3>1
    <3>3. AtWork(stockOwner[s])'
      BY <3>1, <3>2
    <3>4. call'[q] = call[q] /\ pending'[q] = pending[q]
      BY <3>1 DEF OthersStill
    <3> QED
      BY <1>1, <2>1, <2>3, <3>1, <3>3, <3>4 DEF RowInHand
  <2> QED
    BY <2>2, <2>3
<1>3. \A s \in Stocks : \A q \in Requests \ {r} : stockOwner[s] = q => stockOwner'[s] = q
  BY <1>1
<1>4. ASSUME NEW i \in Items PROVE ItemInHand(i)'
  <2>1. ItemInHand(i) /\ (resv[i] # NoResv => resvDraft[i] # NoResv)
    BY DEF AlertsInHand, WellFormed, SessionsMakeSense
  <2>2. /\ resvDraft[i] # NoResv => resvDraft[i].stock \in Stocks
        /\ resv[i] # NoResv => resv[i].stock \in Stocks
    BY ResvFields DEF WellFormed, TypeOK, TablesTyped, LocksTyped
  <2>3. resvOwner'[i] # None => AtWork(resvOwner[i])'
    <3> SUFFICES ASSUME resvOwner'[i] # None PROVE AtWork(resvOwner[i])'
      OBVIOUS
    <3>1. resvOwner[i] \notin {None, r} /\ resvOwner'[i] = resvOwner[i]
      BY <1>1
    <3>2. PICK q \in Requests \ {r} : q = resvOwner[i] /\ AtWork(q)'
      BY <3>1, OwnersKeepOn
    <3>3. PICK u : u = resvOwner' /\ u[i] = q
      BY <3>1, <3>2
    <3> QED
      BY <3>2, <3>3
  <2>4. CASE resvOwner[i] = r
    BY <1>1, <2>1, <2>2, <2>3, <2>4 DEF ItemInHand
  <2>5. CASE resvOwner[i] # r
    <3>1. /\ resv'[i] = resv[i] /\ resvDraft'[i] = resvDraft[i] /\ resvOwner'[i] = resvOwner[i]
      BY <1>1, <2>5
    <3>2. ASSUME NEW t \in Stocks, resvDraft[i] # NoResv, t = resvDraft[i].stock
          PROVE  resv[i] = NoResv => stockOwner'[t] = resvOwner[i] /\ resvOwner[i] # None
      BY <1>1, <2>1, <2>5, <3>2 DEF ItemInHand
    <3> QED
      BY <1>1, <2>1, <2>2, <2>3, <3>1, <3>2 DEF ItemInHand
  <2> QED
    BY <2>4, <2>5
<1>5. RequestInHand(r)'
  BY DEF RequestInHand
<1>6. \A q \in Requests : RequestInHand(q)'
  BY <1>1, <1>3, <1>5, OthersInHand, QuietItems
<1> QED
  BY <1>2, <1>4, <1>6 DEF AlertsInHand

\* r locks row s and writes a synced version of it, with the alert that it owes.
LEMMA DraftInHand ==
  ASSUME WellFormed, AlertsInHand, NEW r \in Requests, OthersStill(r), item' = item,
         NEW s \in Stocks, NEW row, Free(stockOwner[s], r),
         stockOwner' = [stockOwner EXCEPT ![s] = r],
         stockDraft' = [stockDraft EXCEPT ![s] = row],
         UNCHANGED <<stock, resv, resvOwner, call>>,
         \A i \in Items : \/ resvDraft'[i] = resvDraft[i]
                          \/ /\ resvDraft[i] # NoResv /\ resvDraft'[i] # NoResv
                             /\ resvDraft'[i].stock = resvDraft[i].stock,
         AtWork(r), AtWork(r)', RequestInHand(r)', pending[r] \subseteq pending'[r],
         row.live = stockDraft[s].live, row.alerted = IsLow(row, ReorderPoint[s]),
         row.alerted /\ ~stock[s].alerted => s \in pending'[r] /\ call[r].op # "cancel"
  PROVE  AlertsInHand'
<1>1. /\ \A t \in Stocks : /\ stockDraft'[t] = (IF t = s THEN row ELSE stockDraft[t])
                           /\ stockOwner'[t] = (IF t = s THEN r ELSE stockOwner[t])
      /\ stockOwner[s] \in {None, r} /\ r # None
  BY NoneIsFresh DEF WellFormed, TypeOK, LocksTyped, Free
<1>2. ASSUME NEW t \in Stocks PROVE RowInHand(t)'
  <2>1. RowInHand(t)
    BY DEF AlertsInHand
  <2>2. CASE stockOwner'[t] = r
    <3>1. PICK u : u = stockOwner' /\ u[t] = r
      BY <2>2
    <3>2. AtWork(stockOwner[t])'
      BY <3>1
    <3>3. t # s => /\ stockOwner[t] = r /\ stockDraft'[t] = stockDraft[t]
      BY <1>1, <2>2
    <3> QED
      BY <1>1, <2>1, <2>2, <3>2, <3>3 DEF RowInHand
  <2>3. CASE stockOwner'[t] # r
    <3>1. t # s /\ stockOwner'[t] = stockOwner[t] /\ stockDraft'[t] = stockDraft[t]
      BY <1>1, <2>3
    <3>2. CASE stockOwner[t] = None
      BY <2>1, <3>1, <3>2 DEF RowInHand
    <3>3. CASE stockOwner[t] # None
      <4>1. PICK q \in Requests \ {r} : q = stockOwner[t] /\ AtWork(q)'
        BY <2>3, <3>1, <3>3, OwnersKeepOn
      <4>2. PICK u : u = stockOwner' /\ u[t] = q
        BY <3>1, <4>1
      <4>3. AtWork(stockOwner[t])'
        BY <4>1, <4>2
      <4>4. call'[q] = call[q] /\ pending'[q] = pending[q]
        BY <4>1 DEF OthersStill
      <4> QED
        BY <2>1, <3>1, <3>3, <4>1, <4>3, <4>4 DEF RowInHand
    <3> QED
      BY <3>2, <3>3
  <2> QED
    BY <2>2, <2>3
<1>3. ASSUME NEW i \in Items PROVE ItemInHand(i)'
  <2>1. ItemInHand(i) /\ (resvDraft[i] # NoResv => resvDraft[i].stock \in Stocks)
    BY ResvFields DEF AlertsInHand, WellFormed, TypeOK, LocksTyped
  <2>2. /\ (resvDraft'[i] # NoResv) <=> (resvDraft[i] # NoResv)
        /\ resvDraft[i] # NoResv => resvDraft'[i].stock = resvDraft[i].stock
    OBVIOUS
  <2>3. resvOwner[i] # None => AtWork(resvOwner[i])'
    <3> SUFFICES ASSUME resvOwner[i] # None PROVE AtWork(resvOwner[i])'
      OBVIOUS
    <3>1. PICK q \in Requests : q = resvOwner[i] /\ AtWork(q)'
      BY OwnersKeepOn
    <3>2. PICK u : u = resvOwner' /\ u[i] = q
      BY <3>1
    <3> QED
      BY <3>1, <3>2
  <2>4. ASSUME NEW t \in Stocks, t = resvDraft[i].stock, resvDraft[i] # NoResv, resv[i] = NoResv
        PROVE  stockOwner'[t] = resvOwner[i]
    BY <1>1, <2>1, <2>4 DEF ItemInHand
  <2> QED
    BY <2>1, <2>2, <2>3, <2>4 DEF ItemInHand
<1>4. \A q \in Requests : RequestInHand(q)'
  <2>1. \A t \in Stocks :
          /\ stock[t].live => stock'[t].live
          /\ \A q \in Requests \ {r} : stockOwner[t] = q => stockOwner'[t] = q
    BY <1>1, NoneIsFresh
  <2>2. ItemsStay
    BY QuietItems
  <2> QED
    BY <2>1, <2>2, OthersInHand
<1> QED
  BY <1>2, <1>3, <1>4 DEF AlertsInHand

\* r locks the reservation of item i and writes version d of it, on a row it may use.
LEMMA LockInHand ==
  ASSUME WellFormed, AlertsInHand, NEW r \in Requests, OthersStill(r), item' = item,
         NEW i \in Items, NEW d, resvOwner[i] = None,
         resvOwner' = [resvOwner EXCEPT ![i] = r],
         resvDraft' = [resvDraft EXCEPT ![i] = d],
         UNCHANGED <<stock, resv, stockOwner, stockDraft, call, pending>>,
         AtWork(r), AtWork(r)', RequestInHand(r)',
         d # NoResv => /\ stock[d.stock].live
                       /\ resv[i] # NoResv => resv[i].stock = d.stock
                       /\ resv[i] = NoResv => stockOwner[d.stock] = r
  PROVE  AlertsInHand'
<1>1. /\ \A j \in Items : /\ resvDraft'[j] = (IF j = i THEN d ELSE resvDraft[j])
                          /\ resvOwner'[j] = (IF j = i THEN r ELSE resvOwner[j])
      /\ r # None
  BY NoneIsFresh DEF WellFormed, TypeOK, LocksTyped
<1>2. ASSUME NEW t \in Stocks PROVE RowInHand(t)'
  <2>1. RowInHand(t)
    BY DEF AlertsInHand
  <2>2. stockOwner[t] # None => AtWork(stockOwner[t])'
    <3> SUFFICES ASSUME stockOwner[t] # None PROVE AtWork(stockOwner[t])'
      OBVIOUS
    <3>1. PICK q \in Requests : q = stockOwner[t] /\ AtWork(q)'
      BY OwnersKeepOn
    <3>2. PICK u : u = stockOwner' /\ u[t] = q
      BY <3>1
    <3> QED
      BY <3>1, <3>2
  <2> QED
    BY <2>1, <2>2 DEF RowInHand
<1>3. ASSUME NEW j \in Items PROVE ItemInHand(j)'
  <2>1. ItemInHand(j)
    BY DEF AlertsInHand
  <2>2. resvOwner'[j] # None => AtWork(resvOwner[j])'
    <3> SUFFICES ASSUME resvOwner'[j] # None PROVE AtWork(resvOwner[j])'
      OBVIOUS
    <3>1. PICK q \in Requests : q = resvOwner'[j] /\ AtWork(q)'
      BY <1>1, OwnersKeepOn
    <3>2. PICK u : u = resvOwner' /\ u[j] = q
      BY <3>1
    <3> QED
      BY <3>1, <3>2
  <2>3. CASE j = i
    BY <1>1, <2>1, <2>2, <2>3 DEF ItemInHand
  <2>4. CASE j # i
    BY <1>1, <2>1, <2>2, <2>4 DEF ItemInHand
  <2> QED
    BY <2>3, <2>4
<1>4. \A q \in Requests : RequestInHand(q)'
  BY OthersInHand, QuietItems
<1> QED
  BY <1>2, <1>3, <1>4 DEF AlertsInHand

\* reserve_for_item, first half.
LEMMA ReserveStockInHand ==
  ASSUME WellFormed, AlertsInHand, NEW r \in Requests, NEW i \in Items, ReserveStock(r, i)
  PROVE  AlertsInHand'
<1>1. ItemStock(r, i) \in Stocks /\ item[i].quantity \in Int
  <2>1. call[r] \in Calls /\ call[r].op = "confirm" /\ item[i] # NoItem
    BY DEF ReserveStock, WellFormed, TypeOK, SessionTyped, SessionsMakeSense, StepFitsCall
  <2>2. call[r].location \in Locations
    BY <2>1, CallFields
  <2>3. item[i].product \in Products /\ item[i].quantity \in Nat
    BY <2>1, ItemFields DEF WellFormed, TypeOK, TablesTyped
  <2> QED
    BY <2>2, <2>3 DEF ItemStock, Stocks
<1>2. PICK s \in Stocks, q \in Int : s = ItemStock(r, i) /\ q = item[i].quantity
  BY <1>1
<1>3. PICK held : held = WithReserved(stockDraft[s], q)
  OBVIOUS
<1>4. PICK row : row = Synced(held, ReorderPoint[s])
  OBVIOUS
<1>5. stockDraft[s] \in Row /\ ReorderPoint[s] \in Nat /\ RowInHand(s)
  BY RowNumbers DEF AlertsInHand
<1>6. held \in Row /\ held.live = stockDraft[s].live /\ held.alerted = stockDraft[s].alerted
  BY <1>3, <1>5, ReservingRow DEF WithReserved, Row
<1>7. /\ row.live = held.live /\ row.alerted = IsLow(row, ReorderPoint[s])
      /\ row.alerted = IsLow(held, ReorderPoint[s])
  BY <1>4, <1>5, <1>6, SyncedRow DEF Synced, Row
<1>8. /\ pc[r] = "work" /\ call[r].op = "confirm" /\ i \in todo[r]
      /\ Free(stockOwner[s], r) /\ Covers(stockDraft[s], q)
      /\ stockOwner' = [stockOwner EXCEPT ![s] = r]
      /\ stockDraft' = [stockDraft EXCEPT ![s] = row]
      /\ pending' = [pending EXCEPT ![r] =
                       pending[r] \cup {t \in {s} : Raises(held, ReorderPoint[s])}]
      /\ cur' = [cur EXCEPT ![r] = i] /\ pc' = [pc EXCEPT ![r] = "reserve"]
      /\ UNCHANGED <<item, stock, resv, resvDraft, resvOwner, call>>
  BY <1>2, <1>3, <1>4 DEF ReserveStock, CanReserve, Goto, tables, WellFormed, TypeOK, SessionTyped
<1>9. /\ pc'[r] = "reserve" /\ cur'[r] = i /\ OthersStill(r) /\ AtWork(r) /\ AtWork(r)'
      /\ pending'[r] = pending[r] \cup {t \in {s} : Raises(held, ReorderPoint[s])}
      /\ stockOwner'[s] = r
  BY <1>8 DEF OthersStill, AtWork, WellFormed, TypeOK, SessionTyped, LocksTyped
<1>10. RequestInHand(r)'
  <2>1. stock'[s].live
    BY <1>5, <1>8 DEF Covers, RowInHand
  <2>2. ItemStock(r, cur[r])' = s
    BY <1>2, <1>8, <1>9 DEF ItemStock
  <2> QED
    BY <1>9, <2>1, <2>2 DEF RequestInHand
<1>11. row.alerted /\ ~stock[s].alerted => s \in pending'[r] /\ call[r].op # "cancel"
  <2> SUFFICES ASSUME row.alerted, ~stock[s].alerted PROVE s \in pending'[r]
    BY <1>8
  <2>1. CASE held.alerted
    BY <1>5, <1>6, <1>8, <1>9, <2>1 DEF RowInHand, Free
  <2>2. CASE ~held.alerted
    BY <1>7, <1>9, <2>2 DEF Raises
  <2> QED
    BY <2>1, <2>2
<1> QED
  BY <1>6, <1>7, <1>8, <1>9, <1>10, <1>11, DraftInHand

\* release_for_item and fulfill_for_item: what cancel_order releases was reserved on a
\* row that had been synced, so releasing it raises no flag.
LEMMA SettleStockInHand ==
  ASSUME WellFormed, AlertsInHand, NEW r \in Requests, SettleStock(r)
  PROVE  AlertsInHand'
<1>1. pc[r] = "settle"
  BY DEF SettleStock
<1>2. PICK i \in Items : /\ i = cur[r] /\ resv[i] # NoResv /\ resvDraft[i] # NoResv
                         /\ resvDraft[i] \in ResvRows
  BY <1>1, SettlingItem
<1>3. PICK s \in Stocks, q \in Nat : s = resvDraft[i].stock /\ q = resvDraft[i].quantity
  BY <1>1, <1>2, SettlingItem
<1>4. PICK left : left = SettledRow(r)
  OBVIOUS
<1>5. PICK row : row = Synced(left, ReorderPoint[s])
  OBVIOUS
<1>6. /\ stockDraft[s] \in Row /\ ReorderPoint[s] \in Nat /\ RowInHand(s) /\ ItemInHand(i)
      /\ left \in Row /\ call[r].op \in {"cancel", "complete"}
  BY <1>1, <1>2, <1>3, <1>4, RowNumbers, SettledRowTyped, SettlingItem DEF AlertsInHand
<1>7. /\ left.live = stockDraft[s].live /\ left.alerted = stockDraft[s].alerted
      /\ call[r].op = "cancel" =>
           (IsLow(left, ReorderPoint[s]) => IsLow(stockDraft[s], ReorderPoint[s]))
  <2>1. PICK d \in Row : d = stockDraft[s]
    BY <1>6
  <2>2. /\ WithReleased(d, q).live = d.live /\ WithReleased(d, q).alerted = d.alerted
        /\ WithReleased(d, q).quantity = d.quantity
        /\ WithReleased(d, q).reserved = d.reserved - q
        /\ WithFulfilled(d, q).live = d.live /\ WithFulfilled(d, q).alerted = d.alerted
    BY DEF WithReleased, WithFulfilled, Drawn, Recorded, Row
  <2>3. d.quantity \in Int /\ d.reserved \in Int
    BY DEF Row
  <2>4. IsLow(WithReleased(d, q), ReorderPoint[s]) => IsLow(d, ReorderPoint[s])
    BY <1>6, <2>2, <2>3 DEF IsLow, Available
  <2>5. left = IF call[r].op = "complete" THEN WithFulfilled(d, q) ELSE WithReleased(d, q)
    BY <1>2, <1>3, <1>4, <2>1 DEF SettledRow
  <2> QED
    BY <2>1, <2>2, <2>4, <2>5
<1>8. /\ row.live = left.live /\ row.alerted = IsLow(row, ReorderPoint[s])
      /\ row.alerted = IsLow(left, ReorderPoint[s])
  BY <1>5, <1>6, SyncedRow DEF Synced, Row
<1>9. /\ Free(stockOwner[s], r)
      /\ stockOwner' = [stockOwner EXCEPT ![s] = r]
      /\ stockDraft' = [stockDraft EXCEPT ![s] = row]
      /\ pending' = [pending EXCEPT ![r] =
                       pending[r] \cup {t \in {s} : Raises(left, ReorderPoint[s])}]
      /\ cur' = [cur EXCEPT ![r] = None] /\ pc' = [pc EXCEPT ![r] = "work"]
      /\ UNCHANGED <<item, stock, resv, resvOwner, call>>
  BY <1>2, <1>3, <1>4, <1>5, SettleStockEffect DEF tables
<1>10. \A j \in Items : \/ resvDraft'[j] = resvDraft[j]
                        \/ /\ resvDraft[j] # NoResv /\ resvDraft'[j] # NoResv
                           /\ resvDraft'[j].stock = resvDraft[j].stock
  <2>1. PICK to \in {"released", "fulfilled"} :
          resvDraft' = [resvDraft EXCEPT ![i] = [resvDraft[i] EXCEPT !.status = to]]
    BY <1>2, SettleStockEffect
  <2>2. PICK d : d = [resvDraft[i] EXCEPT !.status = to]
    OBVIOUS
  <2>3. d # NoResv /\ d.stock = resvDraft[i].stock
    BY <1>2, <2>2, SettledResvRow
  <2>4. resvDraft' = [resvDraft EXCEPT ![i] = d]
    BY <2>1, <2>2
  <2> QED
    BY <1>2, <2>3, <2>4 DEF WellFormed, TypeOK, LocksTyped
<1>11. /\ pc'[r] = "work" /\ OthersStill(r) /\ AtWork(r) /\ AtWork(r)'
       /\ pending'[r] = pending[r] \cup {t \in {s} : Raises(left, ReorderPoint[s])}
  BY <1>1, <1>6, <1>9 DEF OthersStill, AtWork, WellFormed, TypeOK, SessionTyped
<1>12. RequestInHand(r)'
  BY <1>11 DEF RequestInHand
<1>13. row.alerted /\ ~stock[s].alerted => s \in pending'[r] /\ call[r].op # "cancel"
  <2> SUFFICES ASSUME row.alerted, ~stock[s].alerted
               PROVE  s \in pending'[r] /\ call[r].op # "cancel"
    OBVIOUS
  <2>1. call[r].op # "cancel"
    <3> SUFFICES ASSUME call[r].op = "cancel" PROVE FALSE
      OBVIOUS
    <3>1. IsLow(stockDraft[s], ReorderPoint[s])
      BY <1>7, <1>8
    <3>2. CASE stockOwner[s] = None
      BY <1>2, <1>3, <1>6, <3>1, <3>2 DEF RowInHand, ItemInHand
    <3>3. CASE stockOwner[s] = r
      BY <1>6, <3>1, <3>3, NoneIsFresh DEF RowInHand
    <3> QED
      BY <1>9, <3>2, <3>3 DEF Free
  <2>2. CASE left.alerted
    BY <1>6, <1>7, <1>9, <1>11, <2>1, <2>2 DEF RowInHand, Free
  <2>3. CASE ~left.alerted
    BY <1>8, <1>11, <2>1, <2>3 DEF Raises
  <2> QED
    BY <2>1, <2>2, <2>3
<1> QED
  BY <1>7, <1>8, <1>9, <1>10, <1>11, <1>12, <1>13, DraftInHand

\* reserve_for_item, second half, and SELECT ... FOR UPDATE on a reservation.
LEMMA ReservationsInHand ==
  ASSUME WellFormed, AlertsInHand, NEW r \in Requests,
         InsertReservation(r) \/ \E i \in Items : LockReservation(r, i)
  PROVE  AlertsInHand'
<1>1. ASSUME InsertReservation(r) PROVE AlertsInHand'
  <2>1. pc[r] = "reserve"
    BY <1>1 DEF InsertReservation
  <2>2. PICK i \in Items, s \in Stocks : i = cur[r] /\ s = ItemStock(r, i)
    BY <2>1, RowAtHand
  <2>3. PICK d : d = [status |-> "reserved", stock |-> s, quantity |-> item[i].quantity]
    OBVIOUS
  <2>4. d.stock = s
    BY <2>3
  <2>5. /\ resvOwner[i] = None /\ resv[i] = NoResv
        /\ resvOwner' = [resvOwner EXCEPT ![i] = r] /\ resvDraft' = [resvDraft EXCEPT ![i] = d]
        /\ cur' = [cur EXCEPT ![r] = None] /\ pc' = [pc EXCEPT ![r] = "work"]
        /\ UNCHANGED <<item, stock, resv, stockDraft, stockOwner, call, pending>>
    BY <1>1, <2>2, <2>3 DEF InsertReservation, Goto, tables
  <2>6. call[r].op = "confirm" /\ stock[s].live /\ stockOwner[s] = r
    BY <2>1, <2>2 DEF AlertsInHand, RequestInHand, WellFormed, SessionsMakeSense, StepFitsCall
  <2>7. OthersStill(r) /\ AtWork(r) /\ AtWork(r)' /\ pc'[r] = "work"
    BY <2>1, <2>5, <2>6 DEF OthersStill, AtWork, WellFormed, TypeOK, SessionTyped
  <2>8. RequestInHand(r)'
    BY <2>7 DEF RequestInHand
  <2> QED
    BY <2>4, <2>5, <2>6, <2>7, <2>8, LockInHand
<1>2. ASSUME NEW i \in Items, LockReservation(r, i) PROVE AlertsInHand'
  <2>1. PICK d : d = resvDraft[i]
    OBVIOUS
  <2>2. /\ resvOwner[i] = None /\ pc[r] = "work" /\ call[r].op \in {"cancel", "complete"}
        /\ resvOwner' = [resvOwner EXCEPT ![i] = r] /\ resvDraft' = resvDraft
        /\ cur' = [cur EXCEPT ![r] = i] /\ pc' = [pc EXCEPT ![r] = "settle"]
        /\ UNCHANGED <<item, stock, resv, stockDraft, stockOwner, call, pending>>
    BY <1>2 DEF LockReservation, Settling, Goto, tables
  <2>3. resvDraft' = [resvDraft EXCEPT ![i] = d]
    BY <2>1, <2>2 DEF WellFormed, TypeOK, LocksTyped
  <2>4. d # NoResv => resv[i] # NoResv /\ stock[d.stock].live /\ resv[i].stock = d.stock
    BY <2>1, <2>2 DEF AlertsInHand, ItemInHand
  <2>5. OthersStill(r) /\ AtWork(r) /\ AtWork(r)' /\ pc'[r] = "settle"
    BY <2>2 DEF OthersStill, AtWork, WellFormed, TypeOK, SessionTyped
  <2>6. RequestInHand(r)'
    BY <2>5 DEF RequestInHand
  <2> QED
    BY <2>2, <2>3, <2>4, <2>5, <2>6, LockInHand
<1> QED
  BY <1>1, <1>2

\* Finishing, and going on to flush, leave the other requests alone; what is handed to
\* flush_low_stock_alerts is then pending there.
LEMMA EndStill ==
  ASSUME WellFormed, NEW r \in Requests, End(r) \/ \E alerts : FlushThenEnd(r, alerts)
  PROVE  /\ OthersStill(r) /\ pc'[r] \in {"idle", "flush"}
         /\ End(r) => pc'[r] = "idle"
         /\ \A alerts, s : FlushThenEnd(r, alerts) /\ s \in alerts =>
                             pc'[r] = "flush" /\ s \in pending'[r]
<1> USE DEF WellFormed, TypeOK, SessionTyped
<1>1. ASSUME End(r) PROVE OthersStill(r) /\ pc'[r] = "idle"
  BY <1>1 DEF End, OthersStill
<1>2. ASSUME NEW alerts, FlushThenEnd(r, alerts)
      PROVE  OthersStill(r) /\ pc'[r] \in {"idle", "flush"}
  BY <1>1, <1>2 DEF FlushThenEnd, OthersStill
<1>3. ASSUME NEW alerts, NEW s, FlushThenEnd(r, alerts), s \in alerts
      PROVE  pc'[r] = "flush" /\ s \in pending'[r]
  BY <1>3 DEF FlushThenEnd
<1> QED
  BY <1>1, <1>2, <1>3

\* The steps that write neither stock nor reservations.
SitsOut(r) ==
    \/ \E c \in OrderCalls : ReadOrder(r, c)
    \/ \E i \in Items : AddItem(r, i) \/ RemoveItem(r, i)
    \/ ReadItems(r) \/ PickItem(r) \/ RefreshOpened(r)

\* They come before a request owns a row, or after it has given all of them up.
LEMMA SitsOutEffect ==
  ASSUME WellFormed, NEW r \in Requests, SitsOut(r)
  PROVE  /\ OthersStill(r) /\ ItemsStay
         /\ UNCHANGED <<stock, stockDraft, stockOwner, resv, resvDraft, resvOwner, announced>>
         /\ pc[r] \in {"idle", "read", "work", "opened"} /\ ~AtWork(r) /\ RequestInHand(r)'
         /\ pc[r] = "opened" =>
              /\ RefreshOpened(r)
              /\ Raises(stock[call[r].stock], ReorderPoint[call[r].stock]) =>
                   pc'[r] = "mark" /\ call'[r] = call[r]
<1> USE DEF WellFormed, TypeOK, SessionTyped
<1>1. CASE \E c \in OrderCalls : ReadOrder(r, c)
  <2>1. /\ OthersStill(r) /\ pc[r] = "idle" /\ pc'[r] = "read"
        /\ UNCHANGED <<item, stock, stockDraft, stockOwner, resv, resvDraft, resvOwner, announced>>
    BY <1>1 DEF ReadOrder, Goto, OthersStill, tables, locks
  <2> QED
    BY <2>1, QuietItems DEF RequestInHand, AtWork
<1>2. ASSUME NEW i \in Items, AddItem(r, i)
      PROVE  /\ OthersStill(r) /\ ItemsStay /\ pc[r] = "read" /\ pc'[r] = "idle"
             /\ UNCHANGED <<stock, stockDraft, stockOwner, resv, resvDraft, resvOwner, announced>>
  <2>1. ItemsStay
    BY <1>2 DEF AddItem, ItemsStay, TablesTyped
  <2> QED
    BY <1>2, <2>1, EndStill DEF AddItem, locks
<1>3. ASSUME NEW i \in Items, RemoveItem(r, i)
      PROVE  /\ OthersStill(r) /\ ItemsStay /\ pc[r] = "work" /\ pc'[r] = "idle" /\ ~AtWork(r)
             /\ UNCHANGED <<stock, stockDraft, stockOwner, resv, resvDraft, resvOwner, announced>>
  <2>1. item[i] \in ItemRows /\ item' = [item EXCEPT ![i].state = "deleted"]
    BY <1>3 DEF RemoveItem, TablesTyped
  <2>2. PICK d : d = [item[i] EXCEPT !.state = "deleted"]
    OBVIOUS
  <2>3. item[i] # NoItem => /\ d # NoItem /\ d.order = item[i].order
                            /\ d.product = item[i].product /\ d.quantity = item[i].quantity
    BY <2>1, <2>2, DeletedItemRow DEF ItemRows
  <2>4. ItemsStay
    BY <2>1, <2>2, <2>3 DEF ItemsStay, TablesTyped
  <2> QED
    BY <1>3, <2>4, EndStill DEF RemoveItem, locks, AtWork
<1>4. CASE ReadItems(r) \/ PickItem(r)
  <2>1. /\ OthersStill(r) /\ pc[r] = "read" /\ pc'[r] = "work"
        /\ UNCHANGED <<item, stock, stockDraft, stockOwner, resv, resvDraft, resvOwner, announced>>
    BY <1>4 DEF ReadItems, PickItem, Goto, OthersStill, tables, locks
  <2> QED
    BY <2>1, QuietItems DEF RequestInHand, AtWork
<1>5. CASE RefreshOpened(r)
  <2>1. /\ pc[r] = "opened"
        /\ UNCHANGED <<item, stock, stockDraft, stockOwner, resv, resvDraft, resvOwner, announced>>
    BY <1>5 DEF RefreshOpened, tables, locks
  <2>2. CASE Raises(stock[call[r].stock], ReorderPoint[call[r].stock])
    <3>1. /\ OthersStill(r) /\ pc'[r] = "mark" /\ call'[r] = call[r]
          /\ pending'[r] = {call[r].stock}
      BY <1>5, <2>2 DEF RefreshOpened, Goto, OthersStill
    <3>2. RequestInHand(r)'
      BY <3>1 DEF RequestInHand
    <3> QED
      BY <1>5, <2>1, <3>1, <3>2, QuietItems DEF AtWork
  <2>3. CASE ~Raises(stock[call[r].stock], ReorderPoint[call[r].stock])
    <3>1. OthersStill(r) /\ pc'[r] = "idle"
      BY <1>5, <2>3, EndStill DEF RefreshOpened
    <3> QED
      BY <1>5, <2>1, <2>3, <3>1, QuietItems DEF RequestInHand, AtWork
  <2> QED
    BY <2>2, <2>3
<1> QED
  BY <1>1, <1>2, <1>3, <1>4, <1>5 DEF SitsOut, RequestInHand, AtWork

\* The flag and the level of the rows that the stock desk writes.
LEMMA DeskWrites ==
  ASSUME WellFormed, NEW r \in Requests, NEW s \in Stocks
  PROVE  /\ \A c \in StockCalls : MoveStock(r, c) /\ s = c.stock =>
              \E row \in Row :
                 /\ WriteStock(s, row) /\ row.live /\ row.alerted = IsLow(row, ReorderPoint[s])
                 /\ row.alerted /\ ~stock[s].alerted => pending'[r] = {s}
                 /\ pc[r] = "idle" /\ pc'[r] = "movement" /\ OthersStill(r)
         /\ \A c \in StockCalls : InitializeStock(r, c) /\ s = c.stock =>
              \E row \in Row :
                 /\ WriteStock(s, row) /\ row.live /\ ~row.alerted /\ ~stock[s].live
                 /\ call'[r].stock = s
                 /\ pc[r] = "idle" /\ pc'[r] = "opened" /\ OthersStill(r)
         /\ RecordMovement(r) /\ s = call[r].stock =>
              \E row \in Row :
                 /\ WriteStock(s, row) /\ row.live = stock[s].live
                 /\ row.alerted = stock[s].alerted
                 /\ IsLow(row, ReorderPoint[s]) = IsLow(stock[s], ReorderPoint[s])
                 /\ pc[r] = "movement" /\ FlushThenEnd(r, pending[r])
         /\ MarkOpened(r) /\ s = call[r].stock =>
              \E row \in Row :
                 /\ WriteStock(s, row) /\ row.live = stock[s].live /\ row.alerted
                 /\ pc[r] = "mark" /\ FlushThenEnd(r, pending[r])
<1>0. stock[s] \in Row /\ ReorderPoint[s] \in Nat
  BY RowNumbers
<1>1. ASSUME NEW c \in StockCalls, MoveStock(r, c), s = c.stock
      PROVE  \E row \in Row :
                 /\ WriteStock(s, row) /\ row.live /\ row.alerted = IsLow(row, ReorderPoint[s])
                 /\ row.alerted /\ ~stock[s].alerted => pending'[r] = {s}
                 /\ pc[r] = "idle" /\ pc'[r] = "movement" /\ OthersStill(r)
  <2>1. PICK moved \in Row : moved = MovedRow(c)
    BY <1>1, MoveStockEffect
  <2>2. PICK row \in Row : row = Synced(moved, ReorderPoint[s])
    BY <1>1, <2>1, MoveStockEffect
  <2>3. WriteStock(s, row) /\ stock[s].live /\ pc[r] = "idle"
    BY <1>1, <2>1, <2>2, MoveStockEffect
  <2>4. moved.live = stock[s].live /\ moved.alerted = stock[s].alerted
    BY <1>0, <1>1, <2>1 DEF MovedRow, Row
  <2>5. /\ row.live = moved.live /\ row.alerted = IsLow(row, ReorderPoint[s])
        /\ row.alerted = IsLow(moved, ReorderPoint[s])
    BY <1>0, <2>2, SyncedRow DEF Synced, Row
  <2>6. /\ pending' = [pending EXCEPT ![r] = {t \in {s} : Raises(moved, ReorderPoint[s])}]
        /\ pc' = [pc EXCEPT ![r] = "movement"] /\ call' = [call EXCEPT ![r] = c]
        /\ cur' = cur
    BY <1>1, <2>1 DEF MoveStock, MovedRow, Goto
  <2>7. /\ pending'[r] = {t \in {s} : Raises(moved, ReorderPoint[s])}
        /\ pc'[r] = "movement" /\ OthersStill(r)
    BY <2>6 DEF OthersStill, WellFormed, TypeOK, SessionTyped
  <2>8. row.alerted /\ ~stock[s].alerted => pending'[r] = {s}
    BY <2>4, <2>5, <2>7 DEF Raises
  <2> QED
    BY <2>3, <2>4, <2>5, <2>7, <2>8
<1>2. ASSUME NEW c \in StockCalls, InitializeStock(r, c), s = c.stock
      PROVE  \E row \in Row :
                 /\ WriteStock(s, row) /\ row.live /\ ~row.alerted /\ ~stock[s].live
                 /\ call'[r].stock = s
                 /\ pc[r] = "idle" /\ pc'[r] = "opened" /\ OthersStill(r)
  <2>1. /\ WriteStock(s, NewRow(c.quantity)) /\ ~stock[s].live /\ pc[r] = "idle"
        /\ pc' = [pc EXCEPT ![r] = "opened"] /\ call' = [call EXCEPT ![r] = c]
        /\ UNCHANGED <<cur, pending>> /\ c.op = "initialize_stock" /\ c \in Calls
    BY <1>2 DEF InitializeStock, Goto, Calls
  <2>2. PICK row \in Row : row = NewRow(c.quantity)
    BY <2>1, CallFields, NewRowTyped
  <2>3. row.live /\ ~row.alerted
    BY <2>2 DEF NewRow
  <2>4. pc'[r] = "opened" /\ call'[r] = c /\ OthersStill(r)
    BY <2>1 DEF OthersStill, WellFormed, TypeOK, SessionTyped
  <2> QED
    BY <1>2, <2>1, <2>2, <2>3, <2>4
<1>3. ASSUME RecordMovement(r), s = call[r].stock
      PROVE  \E row \in Row :
                 /\ WriteStock(s, row) /\ row.live = stock[s].live
                 /\ row.alerted = stock[s].alerted
                 /\ IsLow(row, ReorderPoint[s]) = IsLow(stock[s], ReorderPoint[s])
                 /\ pc[r] = "movement" /\ FlushThenEnd(r, pending[r])
  BY <1>0, <1>3, RecordMovementEffect, RecordedRow DEF RecordMovement
<1>4. ASSUME MarkOpened(r), s = call[r].stock
      PROVE  \E row \in Row :
                 /\ WriteStock(s, row) /\ row.live = stock[s].live /\ row.alerted
                 /\ pc[r] = "mark" /\ FlushThenEnd(r, pending[r])
  <2>1. PICK row : row = [stock[s] EXCEPT !.alerted = TRUE]
    OBVIOUS
  <2>2. row \in Row /\ row.live = stock[s].live /\ row.alerted
    BY <1>0, <2>1 DEF Row
  <2> QED
    BY <1>4, <2>1, <2>2 DEF MarkOpened
<1> QED
  BY <1>1, <1>2, <1>3, <1>4

\* The steps of the stock desk that write a row.
DeskStep(r) ==
    \/ \E c \in StockCalls : MoveStock(r, c) \/ InitializeStock(r, c)
    \/ RecordMovement(r) \/ MarkOpened(r)

\* What a request can do, by what it does to rows and alerts.
LEMMA KindsOfStep ==
  ASSUME NEW r \in Requests, Arrives(r) \/ Advances(r) \/ Fails(r)
  PROVE  \/ SitsOut(r) \/ DeskStep(r) \/ GivesUp(r)
         \/ CommitConfirm(r) \/ CommitCancel(r) \/ CommitComplete(r)
         \/ InsertReservation(r) \/ SettleStock(r)
         \/ \E i \in Items : ReserveStock(r, i) \/ LockReservation(r, i)
         \/ \E s \in Stocks : DeferAlert(r, s) \/ LoseAlert(r, s)
  BY DEF Arrives, Advances, Fails, ItemStep, SitsOut, DeskStep, GivesUp

\* The stock desk writes rows that nobody has locked, and syncs them or leaves their
\* level alone.
LEMMA DeskStepInHand ==
  ASSUME WellFormed, AlertsInHand, NEW r \in Requests, DeskStep(r)
  PROVE  AlertsInHand'
<1>0. ASSUME NEW s \in Stocks, NEW row, WriteStock(s, row) PROVE item' = item
  BY <1>0 DEF WriteStock
<1>1. ASSUME NEW c \in StockCalls, MoveStock(r, c) PROVE AlertsInHand'
  <2>1. PICK s \in Stocks : s = c.stock
    BY <1>1, MoveStockEffect
  <2>2. PICK row \in Row :
          /\ WriteStock(s, row) /\ row.live /\ row.alerted = IsLow(row, ReorderPoint[s])
          /\ pc[r] = "idle" /\ pc'[r] = "movement" /\ OthersStill(r)
    BY <1>1, <2>1, DeskWrites
  <2>3. ~AtWork(r) /\ RequestInHand(r)'
    BY <2>2 DEF AtWork, RequestInHand
  <2> QED
    BY <1>0, <2>2, <2>3, WriteInHand
<1>2. ASSUME NEW c \in StockCalls, InitializeStock(r, c) PROVE AlertsInHand'
  <2>1. PICK s \in Stocks : s = c.stock
    BY <1>2, CallFields DEF InitializeStock, Calls
  <2>2. PICK row \in Row :
          /\ WriteStock(s, row) /\ row.live /\ ~stock[s].live
          /\ pc[r] = "idle" /\ pc'[r] = "opened" /\ OthersStill(r)
    BY <1>2, <2>1, DeskWrites
  <2>3. ~AtWork(r) /\ RequestInHand(r)'
    BY <2>2 DEF AtWork, RequestInHand
  <2> QED
    BY <1>0, <2>2, <2>3, WriteInHand
<1>3. CASE RecordMovement(r)
  <2>1. PICK s \in Stocks : s = call[r].stock
    BY <1>3, RecordMovementEffect
  <2>2. PICK row \in Row :
          /\ WriteStock(s, row) /\ row.live = stock[s].live /\ row.alerted = stock[s].alerted
          /\ IsLow(row, ReorderPoint[s]) = IsLow(stock[s], ReorderPoint[s])
          /\ pc[r] = "movement" /\ FlushThenEnd(r, pending[r])
    BY <1>3, <2>1, DeskWrites
  <2>3. OthersStill(r) /\ ~AtWork(r) /\ RequestInHand(r)'
    BY <2>2, EndStill DEF AtWork, RequestInHand
  <2> QED
    BY <1>0, <2>2, <2>3, WriteInHand
<1>4. CASE MarkOpened(r)
  <2>1. PICK s \in Stocks : s = call[r].stock
    BY <1>4, OpenedStock DEF MarkOpened
  <2>2. PICK row \in Row :
          /\ WriteStock(s, row) /\ row.live = stock[s].live /\ row.alerted
          /\ pc[r] = "mark" /\ FlushThenEnd(r, pending[r])
    BY <1>4, <2>1, DeskWrites
  <2>3. OthersStill(r) /\ ~AtWork(r) /\ RequestInHand(r)'
    BY <2>2, EndStill DEF AtWork, RequestInHand
  <2> QED
    BY <1>0, <2>2, <2>3, WriteInHand
<1> QED
  BY <1>1, <1>2, <1>3, <1>4 DEF DeskStep

\* The commits of an order call end at work and leave it finished or flushing.
LEMMA CommitEffect ==
  ASSUME WellFormed, NEW r \in Requests, CommitConfirm(r) \/ CommitCancel(r) \/ CommitComplete(r)
  PROVE  /\ Commit(r) /\ item' = item /\ OthersStill(r) /\ pc[r] = "work"
         /\ pc'[r] \in {"idle", "flush"}
         /\ call[r].op # "cancel" => FlushThenEnd(r, pending[r])
  BY EndStill DEF CommitConfirm, CommitCancel, CommitComplete

\* One step of the proof per kind of action.
LEMMA NextInHand ==
  ASSUME WellFormed, AlertsInHand, [Next]_vars
  PROVE  AlertsInHand'
<1>1. CASE UNCHANGED vars \/ \E o \in Orders : CreateOrder(o)
  <2>1. UNCHANGED <<item, resv, stock, resvDraft, resvOwner, stockDraft, stockOwner, pc, call,
                    cur, pending>>
    BY <1>1 DEF vars, tables, locks, session, CreateOrder
  <2> QED
    BY <2>1 DEF AlertsInHand, RowInHand, ItemInHand, RequestInHand, AtWork, ItemStock
<1>2. ASSUME NEW r \in Requests, Arrives(r) \/ Advances(r) \/ Fails(r) PROVE AlertsInHand'
  <2>1. CASE SitsOut(r)
    BY <2>1, SitsOutEffect, QuietInHand
  <2>2. CASE GivesUp(r)
    BY <2>2, GivesUpEffect, EndStill, RollbackInHand
  <2>3. CASE CommitConfirm(r) \/ CommitCancel(r) \/ CommitComplete(r)
    BY <2>3, CommitEffect, CommitInHand
  <2>4. ASSUME NEW s \in Stocks, DeferAlert(r, s) \/ LoseAlert(r, s) PROVE AlertsInHand'
    <3>1. /\ UNCHANGED <<item, stock, stockDraft, stockOwner, resv, resvDraft, resvOwner>>
          /\ pc[r] = "flush" /\ FlushThenEnd(r, pending[r] \ {s})
      BY <2>4 DEF DeferAlert, LoseAlert, tables, locks
    <3>2. OthersStill(r) /\ ~AtWork(r) /\ RequestInHand(r)' /\ ItemsStay
      BY <3>1, EndStill, QuietItems DEF AtWork, RequestInHand
    <3> QED
      BY <3>1, <3>2, QuietInHand
  <2> QED
    BY <1>2, <2>1, <2>2, <2>3, <2>4, KindsOfStep, DeskStepInHand, ReservationsInHand,
       SettleStockInHand, ReserveStockInHand
<1> QED
  BY <1>1, <1>2 DEF Next

\* A reservation comes in with its item and never outlives it.
LEMMA NextKeepsItem ==
  ASSUME WellFormed, AlertsInHand, NoOrphanHold, [Next]_vars
  PROVE  NoOrphanHold'
<1>1. ASSUME UNCHANGED <<item, resv, resvDraft>> PROVE NoOrphanHold'
  BY <1>1 DEF NoOrphanHold
<1>2. CASE UNCHANGED vars \/ \E o \in Orders : CreateOrder(o)
  BY <1>1, <1>2 DEF vars, tables, locks, CreateOrder
<1>3. ASSUME NEW r \in Requests, Arrives(r) \/ Advances(r) \/ Fails(r) PROVE NoOrphanHold'
  <2>1. CASE SitsOut(r)
    <3>1. UNCHANGED <<resv, resvDraft>>
      BY <2>1, SitsOutEffect
    <3>2. ASSUME NEW i \in Items, AddItem(r, i) \/ RemoveItem(r, i) PROVE NoOrphanHold'
      <4>1. /\ \A j \in Items \ {i} : item'[j] = item[j]
            /\ AddItem(r, i) => item'[i].state = "live"
        BY <3>2 DEF AddItem, RemoveItem, WellFormed, TypeOK, TablesTyped
      <4>2. RemoveItem(r, i) => resv[i] = NoResv /\ resvDraft[i] = NoResv
        BY DEF RemoveItem, Unreserved, AlertsInHand, ItemInHand
      <4> QED
        BY <3>1, <3>2, <4>1, <4>2 DEF NoOrphanHold
    <3>3. CASE \A i \in Items : ~AddItem(r, i) /\ ~RemoveItem(r, i)
      <4>1. item' = item
        BY <2>1, <3>3 DEF SitsOut, ReadOrder, ReadItems, PickItem, RefreshOpened, tables
      <4> QED
        BY <1>1, <3>1, <4>1
    <3> QED
      BY <3>2, <3>3
  <2>2. CASE DeskStep(r)
    BY <1>1, <2>2 DEF DeskStep, MoveStock, InitializeStock, RecordMovement, MarkOpened, WriteStock
  <2>3. CASE GivesUp(r)
    <3>1. /\ UNCHANGED <<item, resv>>
          /\ \A i \in Items : resvDraft'[i] \in {resv[i], resvDraft[i]}
      BY <2>3, GivesUpEffect DEF Rollback, tables
    <3> QED
      BY <3>1 DEF NoOrphanHold
  <2>4. CASE CommitConfirm(r) \/ CommitCancel(r) \/ CommitComplete(r)
    <3>1. /\ UNCHANGED <<item, resvDraft>>
          /\ \A i \in Items : resv'[i] \in {resv[i], resvDraft[i]}
      BY <2>4, CommitEffect DEF Commit
    <3> QED
      BY <3>1 DEF NoOrphanHold
  <2>5. CASE InsertReservation(r)
    <3>1. PICK i \in Items : i = cur[r] /\ item[i].state = "live"
      BY <2>5, RowAtHand DEF InsertReservation
    <3>2. UNCHANGED <<item, resv>> /\ \A j \in Items \ {i} : resvDraft'[j] = resvDraft[j]
      BY <2>5, <3>1 DEF InsertReservation, tables, WellFormed, TypeOK, LocksTyped
    <3> QED
      BY <3>1, <3>2 DEF NoOrphanHold
  <2>6. CASE SettleStock(r)
    <3>1. PICK i \in Items, s \in Stocks :
            i = cur[r] /\ s = resvDraft[i].stock /\ resvDraft[i] # NoResv
      BY <2>6, SettlingItem DEF SettleStock
    <3>2. UNCHANGED <<item, resv>> /\ \A j \in Items \ {i} : resvDraft'[j] = resvDraft[j]
      BY <2>6, <3>1 DEF SettleStock, tables, WellFormed, TypeOK, LocksTyped
    <3> QED
      BY <3>1, <3>2 DEF NoOrphanHold
  <2>7. CASE \E i \in Items : ReserveStock(r, i) \/ LockReservation(r, i)
    BY <1>1, <2>7 DEF ReserveStock, LockReservation, tables
  <2>8. CASE \E s \in Stocks : DeferAlert(r, s) \/ LoseAlert(r, s)
    BY <1>1, <2>8 DEF DeferAlert, LoseAlert, tables, locks
  <2> QED
    BY <1>3, <2>1, <2>2, <2>3, <2>4, <2>5, <2>6, <2>7, <2>8, KindsOfStep
<1> QED
  BY <1>2, <1>3 DEF Next

\* Request r is about to announce row s, and about to flag it.
Owes(r, s) == s \in pending[r] /\ pc[r] \in {"movement", "flush"}
Flags(r, s) == pc[r] \in {"opened", "mark"} /\ call[r].stock = s

\* What is announced is low, and a low row without its flag is being flagged.
AlertsInTime ==
    \A s \in Stocks :
        /\ s \in announced => Low(s)
        /\ Low(s) /\ ~stock[s].alerted => \E r \in Requests : Flags(r, s)

\* A raised flag is announced or is about to be.
RaisedInTime ==
    \A s \in Stocks : stock[s].alerted => s \in announced \/ \E r \in Requests : Owes(r, s)

\* No flag is up on a row that is not low.
HonestFlags == \A s \in Stocks : stock[s].alerted => Low(s)

InTimeStep == AlertsInTime' /\ (HonestFlags /\ RaisedInTime => RaisedInTime')

\* A step of r has to care for the rows that it writes and for those it owes.
LEMMA InTimeBy ==
  ASSUME AlertsInTime, NEW r \in Requests, OthersStill(r),
         \A s \in Stocks : s \in announced' => Low(s)',
         HonestFlags => \A s \in Stocks : stock'[s].alerted =>
            \/ /\ stock[s].alerted /\ (s \in announced => s \in announced')
               /\ Owes(r, s) => Owes(r, s)' \/ s \in announced'
            \/ Owes(r, s)',
         \A s \in Stocks : Low(s)' /\ ~stock'[s].alerted
           => \/ /\ Low(s) /\ ~stock[s].alerted
                 /\ Flags(r, s) => Flags(r, s)'
              \/ Flags(r, s)'
  PROVE  InTimeStep
<1>1. \A q \in Requests \ {r}, s \in Stocks : /\ Owes(q, s) => Owes(q, s)'
                                              /\ Flags(q, s) => Flags(q, s)'
  BY DEF OthersStill, Owes, Flags
<1>2. AlertsInTime'
  BY <1>1 DEF AlertsInTime
<1>3. HonestFlags /\ RaisedInTime => RaisedInTime'
  BY <1>1 DEF RaisedInTime
<1> QED
  BY <1>2, <1>3 DEF InTimeStep

\* A step that writes no committed row, of a request that owes and flags nothing.
LEMMA InTimeQuiet ==
  ASSUME AlertsInTime, NEW r \in Requests, OthersStill(r), UNCHANGED <<stock, announced>>,
         pc[r] \notin {"movement", "flush", "opened", "mark"}
  PROVE  InTimeStep
<1>1. \A s \in Stocks : ~Owes(r, s) /\ ~Flags(r, s)
  BY DEF Owes, Flags
<1>2. \A s \in Stocks : /\ Low(s)' <=> Low(s)
                        /\ s \in announced => Low(s)
  BY DEF AlertsInTime, Low
<1> QED
  BY <1>1, <1>2, InTimeBy

\* COMMIT raises only flags that are then pending, and leaves no written row unflagged.
LEMMA CommitInTime ==
  ASSUME WellFormed, AlertsInHand, AlertsInTime, NEW r \in Requests,
         CommitConfirm(r) \/ CommitCancel(r) \/ CommitComplete(r)
  PROVE  InTimeStep
<1>1. /\ Commit(r) /\ OthersStill(r) /\ pc[r] = "work"
      /\ call[r].op # "cancel" => FlushThenEnd(r, pending[r])
  BY CommitEffect
<1>2. /\ \A s \in Stocks : stock'[s] = (IF stockOwner[s] = r THEN stockDraft[s] ELSE stock[s])
      /\ announced' = {s \in announced : Low(s)'}
  BY <1>1 DEF Commit
<1>3. \A s \in Stocks : ~Owes(r, s) /\ ~Flags(r, s)
  BY <1>1 DEF Owes, Flags
<1>4. ASSUME NEW s \in Stocks, stockOwner[s] = r, stock'[s].alerted, ~stock[s].alerted
      PROVE  Owes(r, s)'
  <2>1. RowInHand(s) /\ r # None
    BY NoneIsFresh DEF AlertsInHand
  <2>2. s \in pending[r] /\ call[r].op # "cancel"
    BY <1>2, <1>4, <2>1 DEF RowInHand
  <2> QED
    BY <1>1, <2>2, EndStill DEF Owes
<1>5. ASSUME NEW s \in Stocks, stockOwner[s] = r
      PROVE  stock'[s].live = stock[s].live /\ stock'[s].alerted = IsLow(stock'[s], ReorderPoint[s])
  BY <1>2, <1>5, NoneIsFresh DEF AlertsInHand, RowInHand
<1>6. ASSUME NEW s \in Stocks, stockOwner[s] # r
      PROVE  stock'[s] = stock[s] /\ (Low(s)' <=> Low(s))
  BY <1>2, <1>6 DEF Low
<1>7. ASSUME NEW s \in Stocks, s \in announced, stock'[s].alerted PROVE s \in announced'
  <2>1. Low(s)
    BY <1>7 DEF AlertsInTime
  <2>2. CASE stockOwner[s] = r
    BY <1>2, <1>5, <1>7, <2>1, <2>2 DEF Low
  <2>3. CASE stockOwner[s] # r
    BY <1>2, <1>6, <1>7, <2>1, <2>3
  <2> QED
    BY <2>2, <2>3
<1>8. ASSUME NEW s \in Stocks, stock'[s].alerted
      PROVE  \/ stock[s].alerted /\ (s \in announced => s \in announced')
             \/ Owes(r, s)'
  BY <1>4, <1>6, <1>7, <1>8
<1>9. ASSUME NEW s \in Stocks, Low(s)', ~stock'[s].alerted PROVE Low(s) /\ ~stock[s].alerted
  BY <1>5, <1>6, <1>9 DEF Low
<1>10. \A s \in Stocks : s \in announced' => Low(s)'
  BY <1>2
<1> QED
  BY <1>1, <1>3, <1>8, <1>9, <1>10, InTimeBy

\* The stock desk announces what it flags, and flags what it opens.
LEMMA DeskInTime ==
  ASSUME WellFormed, AlertsInHand, AlertsInTime, NEW r \in Requests, DeskStep(r)
  PROVE  InTimeStep
<1>0. ASSUME NEW s \in Stocks, NEW row, WriteStock(s, row)
      PROVE  /\ \A t \in Stocks : stock'[t] = (IF t = s THEN row ELSE stock[t])
             /\ \A t \in Stocks : Low(t)' <=> (IF t = s THEN row.live /\ IsLow(row, ReorderPoint[s])
                                                        ELSE Low(t))
             /\ announced' = {t \in announced : Low(t)'}
             /\ \A t \in Stocks : t \in announced => Low(t)
  <2>1. /\ \A t \in Stocks : stock'[t] = (IF t = s THEN row ELSE stock[t])
        /\ announced' = {t \in announced : Low(t)'}
    BY <1>0 DEF WriteStock, WellFormed, TypeOK, TablesTyped
  <2>2. \A t \in Stocks : Low(t)' <=> (stock'[t].live /\ IsLow(stock'[t], ReorderPoint[t]))
    BY DEF Low
  <2>3. \A t \in Stocks : t # s => (Low(t)' <=> Low(t))
    BY <2>1, <2>2 DEF Low
  <2> QED
    BY <2>1, <2>2, <2>3 DEF AlertsInTime
<1>1. ASSUME NEW c \in StockCalls, MoveStock(r, c) PROVE InTimeStep
  <2>1. PICK s \in Stocks : s = c.stock
    BY <1>1, MoveStockEffect
  <2>2. PICK row \in Row :
          /\ WriteStock(s, row) /\ row.live /\ row.alerted = IsLow(row, ReorderPoint[s])
          /\ row.alerted /\ ~stock[s].alerted => pending'[r] = {s}
          /\ pc[r] = "idle" /\ pc'[r] = "movement" /\ OthersStill(r)
    BY <1>1, <2>1, DeskWrites
  <2>3. \A t \in Stocks : ~Owes(r, t) /\ ~Flags(r, t)
    BY <2>2 DEF Owes, Flags
  <2>4. row.alerted /\ ~stock[s].alerted => Owes(r, s)'
    BY <2>2 DEF Owes
  <2>5. ASSUME NEW t \in Stocks, stock'[t].alerted
        PROVE  \/ stock[t].alerted /\ (t \in announced => t \in announced')
               \/ Owes(r, t)'
    BY <1>0, <2>2, <2>4, <2>5
  <2>6. ASSUME NEW t \in Stocks, Low(t)', ~stock'[t].alerted PROVE Low(t) /\ ~stock[t].alerted
    BY <1>0, <2>2, <2>6
  <2>7. \A t \in Stocks : t \in announced' => Low(t)'
    BY <1>0, <2>2
  <2> QED
    BY <2>2, <2>3, <2>5, <2>6, <2>7, InTimeBy
<1>2. ASSUME NEW c \in StockCalls, InitializeStock(r, c) PROVE InTimeStep
  <2>1. PICK s \in Stocks : s = c.stock
    BY <1>2, CallFields DEF InitializeStock, Calls
  <2>2. PICK row \in Row :
          /\ WriteStock(s, row) /\ ~row.alerted /\ call'[r].stock = s
          /\ pc[r] = "idle" /\ pc'[r] = "opened" /\ OthersStill(r)
    BY <1>2, <2>1, DeskWrites
  <2>3. \A t \in Stocks : ~Owes(r, t) /\ ~Flags(r, t)
    BY <2>2 DEF Owes, Flags
  <2>4. Flags(r, s)'
    BY <2>2 DEF Flags
  <2>5. ASSUME NEW t \in Stocks, stock'[t].alerted
        PROVE  stock[t].alerted /\ (t \in announced => t \in announced')
    BY <1>0, <2>2, <2>5
  <2>6. ASSUME NEW t \in Stocks, Low(t)', ~stock'[t].alerted
        PROVE  (Low(t) /\ ~stock[t].alerted) \/ Flags(r, t)'
    BY <1>0, <2>2, <2>4, <2>6
  <2>7. \A t \in Stocks : t \in announced' => Low(t)'
    BY <1>0, <2>2
  <2> QED
    BY <2>2, <2>3, <2>5, <2>6, <2>7, InTimeBy
<1>3. CASE RecordMovement(r)
  <2>1. PICK s \in Stocks : s = call[r].stock
    BY <1>3, RecordMovementEffect
  <2>2. PICK row \in Row :
          /\ WriteStock(s, row) /\ row.live = stock[s].live /\ row.alerted = stock[s].alerted
          /\ IsLow(row, ReorderPoint[s]) = IsLow(stock[s], ReorderPoint[s])
          /\ pc[r] = "movement" /\ FlushThenEnd(r, pending[r])
    BY <1>3, <2>1, DeskWrites
  <2>3. OthersStill(r)
    BY <2>2, EndStill
  <2>4. \A t \in Stocks : ~Flags(r, t) /\ (Owes(r, t) => Owes(r, t)')
    BY <2>2, EndStill DEF Owes, Flags
  <2>5. \A t \in Stocks : (Low(t)' <=> Low(t)) /\ stock'[t].alerted = stock[t].alerted
    BY <1>0, <2>2 DEF Low
  <2>6. \A t \in Stocks : /\ t \in announced => t \in announced'
                          /\ t \in announced' => Low(t)'
    BY <1>0, <2>2, <2>5
  <2> QED
    BY <2>3, <2>4, <2>5, <2>6, InTimeBy
<1>4. CASE MarkOpened(r)
  <2>1. PICK s \in Stocks : s = call[r].stock
    BY <1>4, OpenedStock DEF MarkOpened
  <2>2. PICK row \in Row :
          /\ WriteStock(s, row) /\ row.live = stock[s].live /\ row.alerted
          /\ pc[r] = "mark" /\ FlushThenEnd(r, pending[r])
    BY <1>4, <2>1, DeskWrites
  <2>3. OthersStill(r) /\ s \in pending[r]
    BY <2>1, <2>2, EndStill DEF AlertsInHand, RequestInHand
  <2>4. \A t \in Stocks : ~Owes(r, t) /\ (Flags(r, t) => t = s)
    BY <2>1, <2>2 DEF Owes, Flags
  <2>5. Owes(r, s)'
    BY <2>2, <2>3, EndStill DEF Owes
  <2>6. ASSUME NEW t \in Stocks, stock'[t].alerted
        PROVE  \/ stock[t].alerted /\ (t \in announced => t \in announced')
               \/ Owes(r, t)'
    BY <1>0, <2>2, <2>5, <2>6
  <2>7. ASSUME NEW t \in Stocks, Low(t)', ~stock'[t].alerted
        PROVE  Low(t) /\ ~stock[t].alerted /\ t # s
    BY <1>0, <2>2, <2>7
  <2>8. \A t \in Stocks : t \in announced' => Low(t)'
    BY <1>0, <2>2
  <2> QED
    BY <2>3, <2>4, <2>6, <2>7, <2>8, InTimeBy
<1> QED
  BY <1>1, <1>2, <1>3, <1>4 DEF DeskStep

\* One step of the proof per kind of action: only a fault loses an alert or a flag, and
\* only an alert that comes too late to a row flagged for nothing announces no drop.
LEMMA NextInTime ==
  ASSUME WellFormed, AlertsInHand, AlertsInTime, [Next]_vars, UNCHANGED faults
  PROVE  InTimeStep
<1>1. CASE UNCHANGED vars \/ \E o \in Orders : CreateOrder(o)
  <2>1. UNCHANGED <<stock, announced, pc, call, pending>>
    BY <1>1 DEF vars, tables, locks, session, CreateOrder
  <2>2. AlertsInTime' /\ (RaisedInTime => RaisedInTime')
    BY <2>1 DEF AlertsInTime, RaisedInTime, Owes, Flags, Low
  <2> QED
    BY <2>2 DEF InTimeStep
<1>2. ASSUME NEW r \in Requests, Arrives(r) \/ Advances(r) \/ Fails(r) PROVE InTimeStep
  <2>0. ASSUME UNCHANGED stock PROVE \A s \in Stocks : /\ Low(s)' <=> Low(s)
                                                       /\ s \in announced => Low(s)
    BY <2>0 DEF Low, AlertsInTime
  <2>1. CASE SitsOut(r)
    <3>1. OthersStill(r) /\ UNCHANGED <<stock, announced>>
      BY <2>1, SitsOutEffect
    <3>2. CASE pc[r] = "opened"
      <4>1. \A s \in Stocks : ~Owes(r, s)
        BY <3>2 DEF Owes
      <4>2. ASSUME NEW s \in Stocks, Flags(r, s), Low(s), ~stock[s].alerted
            PROVE  Flags(r, s)'
        BY <2>1, <3>2, <4>2, SitsOutEffect DEF Flags, Raises, Low
      <4> QED
        BY <2>0, <3>1, <4>1, <4>2, InTimeBy
    <3>3. CASE pc[r] # "opened"
      <4>1. pc[r] \in {"idle", "read", "work"}
        BY <2>1, <3>3, SitsOutEffect
      <4> QED
        BY <3>1, <4>1, InTimeQuiet
    <3> QED
      BY <3>2, <3>3
  <2>2. CASE GivesUp(r)
    <3>1. Rollback(r) /\ End(r) /\ faults' # faults + 1
      BY <2>2, GivesUpEffect DEF WellFormed, TypeOK
    <3>2. OthersStill(r) /\ UNCHANGED <<stock, announced>>
      BY <3>1, EndStill DEF Rollback, tables
    <3>3. pc[r] \in {"read", "work", "reserve", "settle"}
      BY <2>2, <3>1 DEF GivesUp, NoSuchItem, InsertRefused, LockWaitAborted, Crash,
           SecondCommitTimesOut, RemoveItemRefused, ReserveRefused, SettleRefused, Settling
    <3> QED
      BY <3>2, <3>3, InTimeQuiet
  <2>3. CASE InsertReservation(r) \/ SettleStock(r)
             \/ \E i \in Items : ReserveStock(r, i) \/ LockReservation(r, i)
    <3>1. UNCHANGED <<stock, announced>> /\ pc[r] \in {"work", "reserve", "settle"}
      BY <2>3 DEF InsertReservation, SettleStock, ReserveStock, LockReservation, Settling, tables
    <3>2. OthersStill(r)
      BY <2>3 DEF InsertReservation, SettleStock, ReserveStock, LockReservation, Goto,
                  OthersStill, WellFormed, TypeOK, SessionTyped
    <3> QED
      BY <3>1, <3>2, InTimeQuiet
  <2>4. ASSUME NEW s \in Stocks, DeferAlert(r, s) PROVE InTimeStep
    <3>1. /\ stock' = stock /\ announced' = announced \cup {t \in {s} : Low(t)}
          /\ pc[r] = "flush" /\ FlushThenEnd(r, pending[r] \ {s})
      BY <2>4 DEF DeferAlert, tables
    <3>2. OthersStill(r) /\ \A t \in Stocks : ~Flags(r, t)
      BY <3>1, EndStill DEF Flags
    <3>3. ASSUME HonestFlags, NEW t \in Stocks, stock[t].alerted, Owes(r, t)
          PROVE  Owes(r, t)' \/ t \in announced'
      <4>1. CASE t = s
        BY <3>1, <3>3, <4>1 DEF HonestFlags
      <4>2. CASE t # s
        BY <3>1, <3>3, <4>2, EndStill DEF Owes
      <4> QED
        BY <4>1, <4>2
    <3>4. \A t \in Stocks : t \in announced' => Low(t)'
      BY <2>0, <3>1
    <3> QED
      BY <2>0, <3>1, <3>2, <3>3, <3>4, InTimeBy
  <2>5. \A s \in Stocks : ~LoseAlert(r, s)
    BY DEF LoseAlert, WellFormed, TypeOK
  <2> QED
    BY <1>2, <2>1, <2>2, <2>3, <2>4, <2>5, KindsOfStep, DeskInTime, CommitInTime
<1> QED
  BY <1>1, <1>2 DEF Next

\* A row that is there before the run starts is synced, and announced if it is low;
\* nobody is at work.
LEMMA InitAlerts == Init => AlertsInHand /\ AlertsInTime /\ RaisedInTime /\ NoOrphanHold
<1> SUFFICES ASSUME Init PROVE AlertsInHand /\ AlertsInTime /\ RaisedInTime /\ NoOrphanHold
  OBVIOUS
<1>1. /\ \A s \in Stocks : stockDraft[s] = stock[s] /\ stockOwner[s] = None
      /\ \A i \in Items : resv[i] = NoResv /\ resvDraft[i] = NoResv /\ resvOwner[i] = None
      /\ \A r \in Requests : pc[r] = "idle"
      /\ announced = {s \in Stocks : Low(s)}
  BY DEF Init
<1>2. AlertsInHand /\ NoOrphanHold
  BY <1>1 DEF AlertsInHand, RowInHand, ItemInHand, RequestInHand, NoOrphanHold
<1>3. ASSUME NEW s \in Stocks
      PROVE  stock[s].alerted <=> Low(s)
  <2>1. CASE s \in Opened
    <3>1. stock[s] \in Row /\ stock[s].live
      <4>1. NewRow(OpeningQuantity) \in Row /\ NewRow(OpeningQuantity).live
            /\ ReorderPoint[s] \in Nat
        BY StockConstants, NewRowTyped DEF NewRow
      <4> QED
        BY <2>1, <4>1, SyncedRow DEF Init
    <3> QED
      BY <3>1, InitFollows DEF FlagsFollow, Follows, Low
  <2>2. CASE s \notin Opened
    BY <2>2 DEF Init, NoRow, Low
  <2> QED
    BY <2>1, <2>2
<1> QED
  BY <1>1, <1>2, <1>3 DEF AlertsInTime, RaisedInTime

\* The invariant behind the next theorems, which holds under every race; AlertsInTime
\* as long as no fault has struck.
LEMMA AlertsInvariant ==
  Spec => [](WellFormed /\ AlertsInHand /\ NoOrphanHold /\ (faults = 0 => AlertsInTime))
<1> DEFINE Inv == WellFormed /\ AlertsInHand /\ NoOrphanHold /\ (faults = 0 => AlertsInTime)
<1>1. Init => Inv
  BY InitTypeOK, InitSense, InitAlerts DEF WellFormed
<1>2. Inv /\ [Next]_vars => Inv'
  <2> SUFFICES ASSUME Inv, [Next]_vars PROVE Inv'
    OBVIOUS
  <2>1. WellFormed' /\ AlertsInHand' /\ NoOrphanHold'
    BY NextWF, NextInHand, NextKeepsItem
  <2>2. faults' = 0 => UNCHANGED faults
    BY FaultsOnlyGrow
  <2>3. faults' = 0 => AlertsInTime'
    BY <2>2, NextInTime DEF InTimeStep
  <2> QED
    BY <2>1, <2>3
<1> QED
  BY <1>1, <1>2, PTL DEF Spec

\* remove_item and reserve_for_item never leave a reservation without its item: the
\* row lock of the DELETE and the foreign key of the INSERT keep them apart, whatever
\* the requests do to each other, give up or die.
THEOREM ReservationsKeepTheirItem == Spec => []NoOrphanHold
  BY AlertsInvariant, PTL

\* flush_low_stock_alerts loses nothing: under every race, a raised flag has been
\* announced or its request is still there to announce it, although cancel_order drops
\* what it has pending.  The exception is the flag that initialize_stock puts up on a
\* row that has recovered: the alert it sends is no alert of the next drop, and that
\* drop raises none.
THEOREM RaisedFlagsAreAnnounced == Spec => ([]HonestFlags => []RaisedAlertIsAnnounced)
<1> DEFINE Inv == WellFormed /\ AlertsInHand /\ NoOrphanHold /\ (faults = 0 => AlertsInTime)
           Raised == faults = 0 => RaisedInTime
<1>1. Init => Raised
  BY InitAlerts
<1>2. Inv /\ Raised /\ HonestFlags /\ [Next]_vars => Raised'
  <2> SUFFICES ASSUME Inv, Raised, HonestFlags, [Next]_vars, faults' = 0 PROVE RaisedInTime'
    OBVIOUS
  <2>1. UNCHANGED faults
    BY FaultsOnlyGrow
  <2> QED
    BY <2>1, NextInTime DEF InTimeStep
<1>3. Raised => RaisedAlertIsAnnounced
  BY DEF RaisedInTime, Owes, RaisedAlertIsAnnounced
<1>4. Spec => []Inv
  BY AlertsInvariant
<1> HIDE DEF Inv, Raised
<1> QED
  BY <1>1, <1>2, <1>3, <1>4, PTL DEF Spec

\* A flag is up only on a row that is there, in both versions of it.
FlagsOnRows ==
    \A s \in Stocks : /\ stock[s].alerted => stock[s].live
                      /\ stockDraft[s].alerted => stockDraft[s].live

\* Whatever is written is a row that is there.
LEMMA NextFlagsOnRows ==
  ASSUME "initialize_stock" \notin Ops, WellFormed, OnlyKnownOps, AlertsInHand, FlagsOnRows,
         [Next]_vars
  PROVE  FlagsOnRows'
<1>1. CASE UNCHANGED <<stock, stockDraft>>
  BY <1>1 DEF FlagsOnRows
<1>2. ASSUME NEW r \in Requests, StockWrite(r) PROVE FlagsOnRows'
  <2>1. CASE Commit(r)
    <3>1. /\ stockDraft' = stockDraft
          /\ \A s \in Stocks : stock'[s] \in {stock[s], stockDraft[s]}
      BY <2>1 DEF Commit
    <3> QED
      BY <3>1 DEF FlagsOnRows
  <2>2. CASE Rollback(r)
    <3>1. /\ stock' = stock
          /\ \A s \in Stocks : stockDraft'[s] \in {stock[s], stockDraft[s]}
      BY <2>2 DEF Rollback, tables
    <3> QED
      BY <3>1 DEF FlagsOnRows
  <2>3. ASSUME NEW s \in Stocks, NEW row, row.live, stock' = stock,
               stockDraft' = [stockDraft EXCEPT ![s] = row]
        PROVE  FlagsOnRows'
    BY <2>3 DEF FlagsOnRows, WellFormed, TypeOK, LocksTyped
  <2>4. ASSUME NEW s \in Stocks, NEW row, WriteStock(s, row), row.alerted => row.live
        PROVE  FlagsOnRows'
    <3>1. \A t \in Stocks : /\ stock'[t] = (IF t = s THEN row ELSE stock[t])
                            /\ stockDraft'[t] = (IF t = s THEN row ELSE stockDraft[t])
      BY <2>4 DEF WriteStock, WellFormed, TypeOK, TablesTyped, LocksTyped
    <3> QED
      BY <2>4, <3>1 DEF FlagsOnRows
  <2>5. CASE SettleStock(r)
    <3>1. pc[r] = "settle"
      BY <2>5 DEF SettleStock
    <3>2. PICK i \in Items, s \in Stocks :
            /\ i = cur[r] /\ s = resvDraft[i].stock /\ resvDraft[i] # NoResv
            /\ resvDraft[i].quantity \in Int
      BY <3>1, SettlingItem
    <3>3. stockDraft[s] \in Row /\ stockDraft[s].live
      BY <3>2 DEF AlertsInHand, ItemInHand, RowInHand, WellFormed, TypeOK, LocksTyped
    <3>4. SettledRow(r) \in Row /\ SettledRow(r).live
      BY <3>2, <3>3, ReleasingRow, FulfillingRow DEF SettledRow
    <3>5. Synced(SettledRow(r), ReorderPoint[s]).live
      BY <3>2, <3>4, SyncedRow, RowNumbers
    <3> QED
      BY <2>3, <2>5, <3>2, <3>5, SettleStockEffect DEF tables
  <2>6. ASSUME NEW i \in Items, ReserveStock(r, i) PROVE FlagsOnRows'
    <3>1. PICK s \in Stocks : s = ItemStock(r, i) /\ item[i].quantity \in Int
      <4>1. call[r] \in Calls /\ call[r].op = "confirm" /\ item[i] # NoItem
        BY <2>6 DEF ReserveStock, WellFormed, TypeOK, SessionTyped, SessionsMakeSense,
                    StepFitsCall
      <4>2. call[r].location \in Locations
        BY <4>1, CallFields
      <4>3. item[i].product \in Products /\ item[i].quantity \in Nat
        BY <4>1, ItemFields DEF WellFormed, TypeOK, TablesTyped
      <4>4. ItemStock(r, i) \in Stocks
        BY <4>2, <4>3 DEF ItemStock, Stocks
      <4> QED
        BY <4>3, <4>4
    <3>2. PICK held \in Row : held = WithReserved(stockDraft[s], item[i].quantity) /\ held.live
      BY <2>6, <3>1, ReservingRow, RowNumbers DEF ReserveStock, CanReserve, Covers
    <3>3. Synced(held, ReorderPoint[s]).live
      BY <3>1, <3>2, SyncedRow, RowNumbers
    <3>4. stock' = stock /\ stockDraft' = [stockDraft EXCEPT ![s] = Synced(held, ReorderPoint[s])]
      BY <2>6, <3>1, <3>2 DEF ReserveStock, tables
    <3> QED
      BY <2>3, <3>3, <3>4
  <2>7. ASSUME NEW c \in StockCalls, MoveStock(r, c) PROVE FlagsOnRows'
    <3>1. PICK s \in Stocks : s = c.stock
      BY <2>7, MoveStockEffect
    <3> QED
      BY <2>4, <2>7, <3>1, DeskWrites
  <2>8. CASE RecordMovement(r)
    <3>1. PICK s \in Stocks : s = call[r].stock
      BY <2>8, RecordMovementEffect
    <3> QED
      BY <2>4, <2>8, <3>1, DeskWrites DEF FlagsOnRows
  <2>9. ~MarkOpened(r)
    BY DEF MarkOpened, OnlyKnownOps, WellFormed, SessionsMakeSense, StepFitsCall
  <2>10. ASSUME NEW c \in StockCalls PROVE ~InitializeStock(r, c)
    BY DEF InitializeStock
  <2> QED
    BY <1>2, <2>1, <2>2, <2>5, <2>6, <2>7, <2>8, <2>9, <2>10 DEF StockWrite
<1> QED
  BY <1>1, <1>2, StockSteps

\* With no row opened while the system runs the exception never arises.
THEOREM RaisedFlagsAreAnnouncedUnlessOpening ==
  ASSUME "initialize_stock" \notin Ops
  PROVE  Spec => []RaisedAlertIsAnnounced
<1> DEFINE Inv == WellFormed /\ AlertsInHand /\ NoOrphanHold /\ (faults = 0 => AlertsInTime)
           Rows == OnlyKnownOps /\ FlagsOnRows
<1>1. Init => Rows
  <2> SUFFICES ASSUME Init PROVE FlagsOnRows
    BY InitFollows
  <2>1. NewRow(OpeningQuantity) \in Row /\ NewRow(OpeningQuantity).live
    BY StockConstants, NewRowTyped DEF NewRow
  <2>2. \A s \in Stocks : Synced(NewRow(OpeningQuantity), ReorderPoint[s]).live
    BY <2>1, SyncedRow, StockConstants
  <2> QED
    BY <2>2 DEF Init, FlagsOnRows, NoRow
<1>2. Inv /\ Rows /\ [Next]_vars => Rows'
  BY CallSteps, NextFlagsOnRows
<1>3. Rows /\ AlertFlagFollowsLevel => HonestFlags
  BY DEF FlagsOnRows, AlertFlagFollowsLevel, HonestFlags, Low
<1>4. Spec => []Inv
  BY AlertsInvariant
<1>5. Spec => []AlertFlagFollowsLevel
  BY FlagFollowsLevel
<1> HIDE DEF Inv, Rows
<1> QED
  BY <1>1, <1>2, <1>3, <1>4, <1>5, RaisedFlagsAreAnnounced, PTL DEF Spec

\* No step but those of initialize_stock leaves a flag that disagrees with the level,
\* unless it was there before and the step touched neither.
FlagsStray ==
    \A s \in Stocks : Misflagged(s)' => Opening(s) \/ (Misflagged(s) /\ SameLevelAndFlag(s))

\* One step of the proof per kind of action that writes rows.
LEMMA NextFlagsStray ==
  ASSUME WellFormed, AlertsInHand, [Next]_vars
  PROVE  FlagsStray
<1>1. CASE stock' = stock
  BY <1>1 DEF FlagsStray, Misflagged, SameLevelAndFlag
<1>2. ASSUME NEW r \in Requests, CommitConfirm(r) \/ CommitCancel(r) \/ CommitComplete(r)
      PROVE  FlagsStray
  <2>1. \A s \in Stocks : stock'[s] = (IF stockOwner[s] = r THEN stockDraft[s] ELSE stock[s])
    BY <1>2, CommitEffect DEF Commit
  <2>2. ASSUME NEW s \in Stocks, stockOwner[s] = r
        PROVE  stock'[s].alerted = IsLow(stock'[s], ReorderPoint[s])
    BY <2>1, <2>2, NoneIsFresh DEF AlertsInHand, RowInHand
  <2> QED
    BY <2>1, <2>2 DEF FlagsStray, Misflagged, SameLevelAndFlag
<1>3. ASSUME NEW r \in Requests, DeskStep(r) PROVE FlagsStray
  <2>0. ASSUME NEW s \in Stocks, NEW row, WriteStock(s, row),
               \/ Opening(s)
               \/ row.alerted = IsLow(row, ReorderPoint[s])
               \/ /\ row.live = stock[s].live /\ row.alerted = stock[s].alerted
                  /\ IsLow(row, ReorderPoint[s]) = IsLow(stock[s], ReorderPoint[s])
                  /\ Available(row) = Available(stock[s])
        PROVE  FlagsStray
    <3>1. \A t \in Stocks : stock'[t] = (IF t = s THEN row ELSE stock[t])
      BY <2>0 DEF WriteStock, WellFormed, TypeOK, TablesTyped
    <3>2. Misflagged(s)' <=> (stock'[s].live /\ stock'[s].alerted # IsLow(stock'[s], ReorderPoint[s]))
      BY DEF Misflagged
    <3> QED
      BY <2>0, <3>1, <3>2 DEF FlagsStray, Misflagged, SameLevelAndFlag
  <2>1. ASSUME NEW c \in StockCalls, MoveStock(r, c) PROVE FlagsStray
    <3>1. PICK s \in Stocks : s = c.stock
      BY <2>1, MoveStockEffect
    <3> QED
      BY <2>0, <2>1, <3>1, DeskWrites
  <2>2. ASSUME NEW c \in StockCalls, InitializeStock(r, c) PROVE FlagsStray
    <3>1. PICK s \in Stocks : s = c.stock
      BY <2>2, CallFields DEF InitializeStock, Calls
    <3>2. PICK row \in Row : /\ WriteStock(s, row)
                             /\ call'[r].stock = s /\ pc'[r] = "opened"
      BY <2>2, <3>1, DeskWrites
    <3> QED
      BY <2>0, <3>2 DEF Opening
  <2>3. CASE RecordMovement(r)
    <3>1. PICK s \in Stocks : /\ s = call[r].stock /\ stock[s] \in Row /\ delta[r] \in Int
                              /\ ReorderPoint[s] \in Nat
      BY <2>3, RecordMovementEffect, RowNumbers
    <3>2. PICK row \in Row : row = Recorded(stock[s], delta[r])
      BY <3>1, RecordedRow
    <3>3. /\ row.live = stock[s].live /\ row.alerted = stock[s].alerted
          /\ IsLow(row, ReorderPoint[s]) = IsLow(stock[s], ReorderPoint[s])
          /\ Available(row) = Available(stock[s])
      BY <3>1, <3>2, RecordedRow DEF Available
    <3>4. WriteStock(s, row)
      BY <2>3, <3>1, <3>2 DEF RecordMovement
    <3> QED
      BY <2>0, <3>3, <3>4
  <2>4. CASE MarkOpened(r)
    <3>1. PICK s \in Stocks : s = call[r].stock
      BY <2>4, OpenedStock DEF MarkOpened
    <3>2. PICK row \in Row : WriteStock(s, row)
      BY <2>4, <3>1, DeskWrites
    <3>3. /\ pc[r] = "mark" /\ pending[r] # {} /\ FlushThenEnd(r, pending[r])
      BY <2>4 DEF MarkOpened, AlertsInHand, RequestInHand
    <3>4. pc'[r] = "flush" /\ call'[r] = call[r]
      BY <3>3 DEF FlushThenEnd, WellFormed, TypeOK, SessionTyped
    <3>5. Opening(s)
      BY <3>1, <3>3, <3>4 DEF Opening
    <3> QED
      BY <2>0, <3>2, <3>5
  <2> QED
    BY <1>3, <2>1, <2>2, <2>3, <2>4 DEF DeskStep
<1>4. ASSUME NEW r \in Requests, Arrives(r) \/ Advances(r) \/ Fails(r),
             ~DeskStep(r), ~(CommitConfirm(r) \/ CommitCancel(r) \/ CommitComplete(r))
      PROVE  stock' = stock
  <2>1. SitsOut(r) => stock' = stock
    BY SitsOutEffect
  <2>2. GivesUp(r) => stock' = stock
    BY GivesUpEffect DEF Rollback, tables
  <2>3. InsertReservation(r) \/ SettleStock(r) => stock' = stock
    BY DEF InsertReservation, SettleStock, tables
  <2>4. \A i \in Items : ReserveStock(r, i) \/ LockReservation(r, i) => stock' = stock
    BY DEF ReserveStock, LockReservation, tables
  <2>5. \A s \in Stocks : DeferAlert(r, s) \/ LoseAlert(r, s) => stock' = stock
    BY DEF DeferAlert, LoseAlert, tables
  <2> QED
    BY <1>4, <2>1, <2>2, <2>3, <2>4, <2>5, KindsOfStep
<1>5. CASE UNCHANGED vars \/ \E o \in Orders : CreateOrder(o)
  BY <1>1, <1>5 DEF vars, tables, CreateOrder
<1> QED
  BY <1>1, <1>2, <1>3, <1>4, <1>5 DEF Next

\* initialize_stock commits the row before its flag, and flags it from a level that it
\* read before: nothing else ever leaves a flag that disagrees with the level.
\* Without a fault the request that opened a low row is still there to flag it, and a
\* flag put up for nothing lasts until the level or the flag is next written.
THEOREM FlagsStrayOnlyAtOpening == Spec => FlagsStrayAtOpening
<1> DEFINE Inv == WellFormed /\ AlertsInHand /\ NoOrphanHold /\ (faults = 0 => AlertsInTime)
           Flagged == faults = 0 => LowRowIsBeingFlagged
           Step == FlagsStray
<1>1. Inv => Flagged
  BY DEF AlertsInTime, Flags, LowRowIsBeingFlagged
<1>2. Inv /\ [Next]_vars => [Step]_vars
  BY NextFlagsStray
<1>3. Spec => []Inv
  BY AlertsInvariant
<1>4. Spec => []Flagged /\ [][Step]_vars
  <2> HIDE DEF Inv, Flagged, Step
  <2> QED
    BY <1>1, <1>2, <1>3, PTL DEF Spec
<1> QED
  BY <1>4 DEF FlagsStrayAtOpening, OnlyOpeningMisflags, FlagsStray
=============================================================================
