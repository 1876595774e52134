-------------------------- MODULE OrderFulfillment --------------------------
(***************************************************************************)
(* The orders service and the inventory service over one PostgreSQL        *)
(* database at READ COMMITTED, reached by concurrent HTTP requests.  Each   *)
(* request is one SQLAlchemy session.  A statement is a step; what a        *)
(* transaction has written is visible to others only once it commits.       *)
(*                                                                         *)
(* stock and resv are the committed tables.  stockDraft and resvDraft are   *)
(* the newest row versions, which only the owner of the row lock sees.      *)
(* Orders are read without a lock and written blindly at COMMIT.            *)
(***************************************************************************)
EXTENDS StockRow, FiniteSets

CONSTANTS
    Orders, Items, Products, Locations,
    Requests,        \* sessions that may be open at the same time
    Quantities,      \* what a caller may ask for
    Ops,             \* the endpoints the workload uses
    SerialOrders,    \* TRUE: callers never overlap two calls on one order
    Opened,          \* stock rows that exist when the run starts
    OpeningQuantity,
    ReorderPoint,
    MaxQuantity,     \* bound on what add_stock and adjust_stock may reach
    MaxFaults,       \* bound on crashes and failed deferrals
    None

Stocks == Products \X Locations

ASSUME QuantitiesPositive == Quantities \subseteq Nat \ {0}
ASSUME StockConstants ==
    /\ Opened \subseteq Stocks
    /\ OpeningQuantity \in Nat
    /\ ReorderPoint \in [Stocks -> Nat]
    /\ MaxQuantity \in Nat /\ MaxFaults \in Nat
    /\ SerialOrders \in BOOLEAN
ASSUME NoneIsFresh == None \notin Requests \cup Items \cup Orders \cup Products \cup Stocks

OrderOps == {"add_item", "remove_item", "confirm", "cancel", "complete"}
MoveOps  == {"add_stock", "remove_stock", "adjust_stock"}

VARIABLES
    order,       \* order[o]: status of o, "none" until it is created
    item,        \* item[i]: the order_items row
    resv,        \* resv[i]: the committed reservation of item i
    stock,       \* stock[s]: the committed stock row
    resvDraft, resvOwner,
    stockDraft, stockOwner,
    pc, call,    \* where each request is, and its arguments
    todo,        \* items the request's loop has still to handle
    seen,        \* items whose reservation its identity map shows RESERVED
    cur,         \* the item being handled
    pending,     \* _pending_low_stock of the request's service
    delta,       \* the quantity change whose movement is still to be written
    announced,   \* low rows for which an alert job was deferred since they fell
    faults

tables   == <<order, item, resv, stock>>
locks    == <<resvDraft, resvOwner, stockDraft, stockOwner>>
session  == <<pc, call, todo, seen, cur, pending, delta>>
vars     == <<tables, locks, session, announced, faults>>

OrderStatuses == {"none", "created", "confirmed", "cancelled", "completed"}

NoItem   == [state |-> "unused", order |-> None, product |-> None, quantity |-> 0]
ItemRows == [state: {"live", "deleted"}, order: Orders, product: Products,
             quantity: Quantities] \cup {NoItem}

NoResv   == [status |-> "none", stock |-> None, quantity |-> 0]
ResvRows == [status: {"reserved", "released", "fulfilled"}, stock: Stocks,
             quantity: Quantities] \cup {NoResv}

NoCall == [op |-> "none"]
OrderCalls ==
    [op: {"add_item"}, order: Orders, product: Products, quantity: Quantities]
      \cup [op: {"remove_item"}, order: Orders, product: Products]
      \cup [op: {"confirm"}, order: Orders, location: Locations]
      \cup [op: {"cancel", "complete"}, order: Orders]
StockCalls ==
    [op: MoveOps, stock: Stocks, quantity: Quantities]
      \cup [op: {"adjust_stock"}, stock: Stocks, quantity: {0}]
      \cup [op: {"initialize_stock"}, stock: Stocks, quantity: Quantities]
Calls == OrderCalls \cup StockCalls \cup {NoCall}

\* The committed row s is at or below its reorder point.
Low(s) == stock[s].live /\ IsLow(stock[s], ReorderPoint[s])

PCs == {"idle", "read", "work", "reserve", "settle", "movement", "opened", "mark", "flush"}

Init ==
    /\ order = [o \in Orders |-> "none"]
    /\ item = [i \in Items |-> NoItem]
    /\ resv = [i \in Items |-> NoResv]
    /\ stock = [s \in Stocks |->
                  IF s \in Opened
                  THEN Synced(NewRow(OpeningQuantity), ReorderPoint[s])
                  ELSE NoRow]
    /\ resvDraft = resv /\ resvOwner = [i \in Items |-> None]
    /\ stockDraft = stock /\ stockOwner = [s \in Stocks |-> None]
    /\ pc = [r \in Requests |-> "idle"]
    /\ call = [r \in Requests |-> NoCall]
    /\ todo = [r \in Requests |-> {}]
    /\ seen = [r \in Requests |-> {}]
    /\ cur = [r \in Requests |-> None]
    /\ pending = [r \in Requests |-> {}]
    /\ delta = [r \in Requests |-> 0]
    /\ announced = {s \in Stocks : Low(s)}
    /\ faults = 0

-----------------------------------------------------------------------------
(* Sessions and transactions *)

\* COMMIT publishes every row version r owns and frees its locks.
Commit(r) ==
    /\ resv' = [i \in Items |-> IF resvOwner[i] = r THEN resvDraft[i] ELSE resv[i]]
    /\ stock' = [s \in Stocks |-> IF stockOwner[s] = r THEN stockDraft[s] ELSE stock[s]]
    /\ resvOwner' = [i \in Items |-> IF resvOwner[i] = r THEN None ELSE resvOwner[i]]
    /\ stockOwner' = [s \in Stocks |-> IF stockOwner[s] = r THEN None ELSE stockOwner[s]]
    /\ announced' = {s \in announced : Low(s)'}
    /\ UNCHANGED <<resvDraft, stockDraft>>

\* Slip: the session dependency commits on its way out, error or not.
CommitOnError(r) == Commit(r) /\ UNCHANGED <<order, item>>

\* Slip: the connection goes back to the pool with its transaction open.
RollbackWithoutEnd(r) == UNCHANGED <<tables, locks, announced>>

\* ROLLBACK throws them away.
Rollback(r) ==
    /\ resvDraft' = [i \in Items |-> IF resvOwner[i] = r THEN resv[i] ELSE resvDraft[i]]
    /\ stockDraft' = [s \in Stocks |-> IF stockOwner[s] = r THEN stock[s] ELSE stockDraft[s]]
    /\ resvOwner' = [i \in Items |-> IF resvOwner[i] = r THEN None ELSE resvOwner[i]]
    /\ stockOwner' = [s \in Stocks |-> IF stockOwner[s] = r THEN None ELSE stockOwner[s]]
    /\ UNCHANGED <<tables, announced>>

\* A one-statement transaction on row s: lock, write, commit.
WriteStock(s, row) ==
    /\ stockOwner[s] = None
    /\ stock' = [stock EXCEPT ![s] = row]
    /\ stockDraft' = [stockDraft EXCEPT ![s] = row]
    /\ announced' = {t \in announced : Low(t)'}
    /\ UNCHANGED <<order, item, resv, resvDraft, resvOwner, stockOwner>>

\* The request is over: its response is on the way, its session closed.
End(r) ==
    /\ pc' = [pc EXCEPT ![r] = "idle"]
    /\ call' = [call EXCEPT ![r] = NoCall]
    /\ todo' = [todo EXCEPT ![r] = {}]
    /\ seen' = [seen EXCEPT ![r] = {}]
    /\ cur' = [cur EXCEPT ![r] = None]
    /\ pending' = [pending EXCEPT ![r] = {}]
    /\ delta' = [delta EXCEPT ![r] = 0]

\* flush_low_stock_alerts runs after the commit, if it has anything to send.
FlushThenEnd(r, alerts) ==
    IF alerts = {} THEN End(r)
    ELSE /\ pc' = [pc EXCEPT ![r] = "flush"]
         /\ pending' = [pending EXCEPT ![r] = alerts]
         /\ todo' = [todo EXCEPT ![r] = {}]
         /\ seen' = [seen EXCEPT ![r] = {}]
         /\ cur' = [cur EXCEPT ![r] = None]
         /\ delta' = [delta EXCEPT ![r] = 0]
         /\ UNCHANGED call

Goto(r, l) == pc' = [pc EXCEPT ![r] = l]

\* An exception: the session dependency rolls back and the caller gets an error.
Fail(r) == Rollback(r) /\ End(r) /\ UNCHANGED faults

-----------------------------------------------------------------------------
(* Calls on an order: read the order row, check its status, read the items *)

CreateOrder(o) ==
    /\ order[o] = "none"
    /\ order' = [order EXCEPT ![o] = "created"]
    /\ UNCHANGED <<item, resv, stock, locks, session, announced, faults>>

CallsOn(o) == {r \in Requests : pc[r] # "idle" /\ call[r].op \in OrderOps /\ call[r].order = o}

UnusedItems == {i \in Items : item[i] = NoItem}

Adding == {r \in Requests : pc[r] = "read" /\ call[r].op = "add_item"}

AllowedStatuses(op) == IF op \in {"cancel", "complete"} THEN {"confirmed"} ELSE {"created"}

\* The status is checked here and never again; a call it rejects changes nothing.
\* Item identities run out only in the model: a call that adds one needs a spare.
ReadOrder(r, c) ==
    /\ pc[r] = "idle"
    /\ c.op \in Ops
    /\ SerialOrders => CallsOn(c.order) = {}
    /\ c.op = "add_item" => Cardinality(UnusedItems) > Cardinality(Adding)
    /\ order[c.order] \in AllowedStatuses(c.op)
    /\ call' = [call EXCEPT ![r] = c]
    /\ Goto(r, "read")
    /\ UNCHANGED <<tables, locks, todo, seen, cur, pending, delta, announced, faults>>

ItemsOf(o) == {i \in Items : item[i].state = "live" /\ item[i].order = o}

\* confirm takes every item; cancel and complete those that have a reservation.
ItemsToHandle(op, o) ==
    IF op = "confirm" THEN ItemsOf(o) ELSE {i \in ItemsOf(o) : resv[i] # NoResv}

\* The reservations loaded here stay in the session's identity map.
ReadItems(r) ==
    /\ pc[r] = "read"
    /\ call[r].op \in {"confirm", "cancel", "complete"}
    /\ todo' = [todo EXCEPT ![r] = ItemsToHandle(call[r].op, call[r].order)]
    /\ seen' = [seen EXCEPT ![r] =
                  IF call[r].op = "confirm" THEN {}
                  ELSE {i \in ItemsOf(call[r].order) : resv[i].status = "reserved"}]
    /\ Goto(r, "work")
    /\ UNCHANGED <<tables, locks, call, cur, pending, delta, announced, faults>>

AddItem(r, i) ==
    /\ pc[r] = "read"
    /\ call[r].op = "add_item"
    /\ item[i] = NoItem
    /\ item' = [item EXCEPT ![i] =
                  [state |-> "live", order |-> call[r].order,
                   product |-> call[r].product, quantity |-> call[r].quantity]]
    /\ End(r)
    /\ UNCHANGED <<order, resv, stock, locks, announced, faults>>

\* remove_item refreshes the items and deletes the first one of the product.
PickItem(r) ==
    /\ pc[r] = "read"
    /\ call[r].op = "remove_item"
    /\ \E i \in ItemsOf(call[r].order) :
         /\ item[i].product = call[r].product
         /\ todo' = [todo EXCEPT ![r] = {i}]
    /\ Goto(r, "work")
    /\ UNCHANGED <<tables, locks, call, seen, cur, pending, delta, announced, faults>>

NoSuchItem(r) ==
    /\ pc[r] = "read"
    /\ call[r].op = "remove_item"
    /\ \A i \in ItemsOf(call[r].order) : item[i].product # call[r].product
    /\ Fail(r)

\* Slip: no foreign key, and a look-up that sees committed reservations only.
UnreservedSoFar(i) == resv[i] = NoResv

\* The foreign key makes the DELETE wait for an uncommitted reservation of the
\* item, and refuses it once there is one.
Unreserved(i) == resvOwner[i] = None /\ resv[i] = NoResv

RemoveItem(r, i) ==
    /\ pc[r] = "work"
    /\ call[r].op = "remove_item"
    /\ i \in todo[r]
    /\ Unreserved(i)
    /\ item' = [item EXCEPT ![i].state = "deleted"]
    /\ End(r)
    /\ UNCHANGED <<order, resv, stock, locks, announced, faults>>

RemoveItemRefused(r, i) ==
    /\ pc[r] = "work"
    /\ call[r].op = "remove_item"
    /\ i \in todo[r]
    /\ resvOwner[i] = None
    /\ resv[i] # NoResv
    /\ Fail(r)

-----------------------------------------------------------------------------
(* confirm_order: reserve_for_item for each item, then one commit *)

ItemStock(r, i) == <<item[i].product, call[r].location>>

Free(owner, r) == owner \in {None, r}

CanReserve(r, i) == Covers(stockDraft[ItemStock(r, i)], item[i].quantity)

\* The row lock is taken before the level is checked and held to the commit.
ReserveStock(r, i) ==
    LET s == ItemStock(r, i)
        row == WithReserved(stockDraft[s], item[i].quantity)
    IN  /\ pc[r] = "work" /\ call[r].op = "confirm"
        /\ i \in todo[r]
        /\ Free(stockOwner[s], r)
        /\ CanReserve(r, i)
        /\ stockOwner' = [stockOwner EXCEPT ![s] = r]
        /\ stockDraft' = [stockDraft EXCEPT ![s] = Synced(row, ReorderPoint[s])]
        /\ pending' = [pending EXCEPT ![r] =
                         @ \cup {t \in {s} : Raises(row, ReorderPoint[s])}]
        /\ cur' = [cur EXCEPT ![r] = i]
        /\ Goto(r, "reserve")
        /\ UNCHANGED <<tables, resvDraft, resvOwner, call, todo, seen, delta,
                       announced, faults>>

ReserveRefused(r, i) ==
    /\ pc[r] = "work" /\ call[r].op = "confirm"
    /\ i \in todo[r]
    /\ Free(stockOwner[ItemStock(r, i)], r)
    /\ ~CanReserve(r, i)
    /\ Fail(r)

\* order_item_id is unique and refers to order_items: the INSERT waits for an
\* uncommitted one of the same item.
InsertReservation(r) ==
    LET i == cur[r]
    IN  /\ pc[r] = "reserve"
        /\ resvOwner[i] = None
        /\ resv[i] = NoResv /\ item[i].state = "live"
        /\ resvOwner' = [resvOwner EXCEPT ![i] = r]
        /\ resvDraft' = [resvDraft EXCEPT ![i] =
                           [status |-> "reserved", stock |-> ItemStock(r, i),
                            quantity |-> item[i].quantity]]
        /\ todo' = [todo EXCEPT ![r] = @ \ {i}]
        /\ cur' = [cur EXCEPT ![r] = None]
        /\ Goto(r, "work")
        /\ UNCHANGED <<tables, stockDraft, stockOwner, call, seen, pending, delta,
                       announced, faults>>

InsertRefused(r) ==
    /\ pc[r] = "reserve"
    /\ resvOwner[cur[r]] = None
    /\ resv[cur[r]] # NoResv \/ item[cur[r]].state # "live"
    /\ Fail(r)

CommitConfirm(r) ==
    /\ pc[r] = "work" /\ call[r].op = "confirm" /\ todo[r] = {}
    /\ order' = [order EXCEPT ![call[r].order] = "confirmed"]
    /\ Commit(r)
    /\ FlushThenEnd(r, pending[r])
    /\ UNCHANGED <<item, faults>>

-----------------------------------------------------------------------------
(* cancel_order and complete_order: release_for_item or fulfill_for_item for *)
(* each reservation, then one commit                                         *)

Settling(r) == pc[r] = "work" /\ call[r].op \in {"cancel", "complete"}

\* SELECT ... FOR UPDATE takes the row lock, but a reservation that is already
\* in the identity map keeps the status it was first loaded with.
LockReservation(r, i) ==
    /\ Settling(r)
    /\ i \in todo[r]
    /\ resvOwner[i] = None
    /\ i \in seen[r]
    /\ resvOwner' = [resvOwner EXCEPT ![i] = r]
    /\ cur' = [cur EXCEPT ![r] = i]
    /\ Goto(r, "settle")
    /\ UNCHANGED <<tables, resvDraft, stockDraft, stockOwner, call, todo, seen,
                   pending, delta, announced, faults>>

SettleRefused(r, i) ==
    /\ Settling(r)
    /\ i \in todo[r]
    /\ resvOwner[i] = None
    /\ i \notin seen[r]
    /\ Fail(r)

\* Slip: the reservation is given the status of its order.
SettledAsOrder(op) == IF op = "complete" THEN "completed" ELSE "cancelled"

SettledStatus(op) == IF op = "complete" THEN "fulfilled" ELSE "released"

\* The stock row is first loaded here, under its lock, so it is current.
SettleStock(r) ==
    LET i == cur[r]
        s == resvDraft[i].stock
        q == resvDraft[i].quantity
        row == IF call[r].op = "complete" THEN WithFulfilled(stockDraft[s], q)
                                          ELSE WithReleased(stockDraft[s], q)
    IN  /\ pc[r] = "settle"
        /\ Free(stockOwner[s], r)
        /\ stockOwner' = [stockOwner EXCEPT ![s] = r]
        /\ stockDraft' = [stockDraft EXCEPT ![s] = Synced(row, ReorderPoint[s])]
        /\ resvDraft' = [resvDraft EXCEPT ![i].status = SettledStatus(call[r].op)]
        /\ pending' = [pending EXCEPT ![r] =
                         @ \cup {t \in {s} : Raises(row, ReorderPoint[s])}]
        /\ todo' = [todo EXCEPT ![r] = @ \ {i}]
        /\ cur' = [cur EXCEPT ![r] = None]
        /\ Goto(r, "work")
        /\ UNCHANGED <<tables, resvOwner, call, seen, delta, announced, faults>>

\* cancel_order never flushes: what it may have put in pending is dropped.
CommitCancel(r) ==
    /\ pc[r] = "work" /\ call[r].op = "cancel" /\ todo[r] = {}
    /\ order' = [order EXCEPT ![call[r].order] = "cancelled"]
    /\ Commit(r)
    /\ End(r)
    /\ UNCHANGED <<item, faults>>

CommitComplete(r) ==
    /\ pc[r] = "work" /\ call[r].op = "complete" /\ todo[r] = {}
    /\ order' = [order EXCEPT ![call[r].order] = "completed"]
    /\ Commit(r)
    /\ FlushThenEnd(r, pending[r])
    /\ UNCHANGED <<item, faults>>

-----------------------------------------------------------------------------
(* The stock desk *)

\* add_stock, remove_stock, adjust_stock: lock, change, and the first commit.
MoveStock(r, c) ==
    LET s == c.stock
        row == [stock[s] EXCEPT !.quantity = MovedQuantity(stock[s], c.op, c.quantity)]
    IN  /\ pc[r] = "idle"
        /\ c.op \in Ops \cap MoveOps
        /\ MoveAllowed(stock[s], c.op, c.quantity)
        /\ row.quantity <= MaxQuantity
        /\ WriteStock(s, Synced(row, ReorderPoint[s]))
        /\ call' = [call EXCEPT ![r] = c]
        /\ pending' = [pending EXCEPT ![r] = {t \in {s} : Raises(row, ReorderPoint[s])}]
        /\ delta' = [delta EXCEPT ![r] = row.quantity - stock[s].quantity]
        /\ Goto(r, "movement")
        /\ UNCHANGED <<todo, seen, cur, faults>>

\* The movement has a transaction of its own.  Its foreign key needs a share
\* lock on the stock row, which an open FOR UPDATE denies.
RecordMovement(r) ==
    LET s == call[r].stock
    IN  /\ pc[r] = "movement"
        /\ WriteStock(s, Recorded(stock[s], delta[r]))
        /\ FlushThenEnd(r, pending[r])
        /\ UNCHANGED faults

\* initialize_stock commits the row, reads it back, and only then syncs the flag.
InitializeStock(r, c) ==
    /\ pc[r] = "idle"
    /\ c.op \in Ops \cap {"initialize_stock"}
    /\ ~stock[c.stock].live
    /\ WriteStock(c.stock, NewRow(c.quantity))
    /\ call' = [call EXCEPT ![r] = c]
    /\ Goto(r, "opened")
    /\ UNCHANGED <<todo, seen, cur, pending, delta, faults>>

\* The check is made on the copy the refresh returned.
RefreshOpened(r) ==
    LET s == call[r].stock
    IN  /\ pc[r] = "opened"
        /\ IF Raises(stock[s], ReorderPoint[s])
           THEN /\ pending' = [pending EXCEPT ![r] = {s}]
                /\ Goto(r, "mark")
                /\ UNCHANGED <<call, todo, seen, cur, delta>>
           ELSE End(r)
        /\ UNCHANGED <<tables, locks, announced, faults>>

MarkOpened(r) ==
    LET s == call[r].stock
    IN  /\ pc[r] = "mark"
        /\ WriteStock(s, [stock[s] EXCEPT !.alerted = TRUE])
        /\ FlushThenEnd(r, pending[r])
        /\ UNCHANGED faults

-----------------------------------------------------------------------------
(* Alerts, faults and waits *)

\* low_stock_notifier, outside every transaction.  The alert of a row that has
\* recovered meanwhile is no alert of its next drop.
DeferAlert(r, s) ==
    /\ pc[r] = "flush"
    /\ s \in pending[r]
    /\ announced' = announced \cup {t \in {s} : Low(t)}
    /\ FlushThenEnd(r, pending[r] \ {s})
    /\ UNCHANGED <<tables, locks, faults>>

\* Deferring failed; the service logs it and goes on.
LoseAlert(r, s) ==
    /\ pc[r] = "flush"
    /\ s \in pending[r]
    /\ faults < MaxFaults /\ faults' = faults + 1
    /\ FlushThenEnd(r, pending[r] \ {s})
    /\ UNCHANGED <<tables, locks, announced>>

\* The process or its connection dies: PostgreSQL rolls the transaction back.
Crash(r) ==
    /\ pc[r] # "idle"
    /\ faults < MaxFaults /\ faults' = faults + 1
    /\ Rollback(r)
    /\ End(r)

\* r waits for a row lock that another request holds.  The loops visit their
\* items in no fixed order, so any held row among those left may be the next.
Blocked(r) ==
    CASE pc[r] = "work" /\ call[r].op = "confirm" ->
            \E i \in todo[r] : ~Free(stockOwner[ItemStock(r, i)], r)
      [] pc[r] = "work" /\ call[r].op # "confirm" ->
            \E i \in todo[r] : resvOwner[i] # None
      [] pc[r] = "reserve" -> resvOwner[cur[r]] # None
      [] pc[r] = "settle" -> ~Free(stockOwner[resvDraft[cur[r]].stock], r)
      [] pc[r] \in {"movement", "mark"} -> stockOwner[call[r].stock] # None
      [] OTHER -> FALSE

\* statement_timeout or the deadlock detector ends the wait of a transaction.
LockWaitAborted(r) ==
    /\ pc[r] \in {"work", "reserve", "settle"}
    /\ Blocked(r)
    /\ Fail(r)

\* A wait after the first commit ends the same way, but the stock change stays:
\* its movement and its alert are lost.  The holder of the lock moves on by
\* itself, so this is a fault and not a way out of a deadlock.
SecondCommitTimesOut(r) ==
    /\ pc[r] \in {"movement", "mark"}
    /\ Blocked(r)
    /\ faults < MaxFaults /\ faults' = faults + 1
    /\ Rollback(r)
    /\ End(r)

-----------------------------------------------------------------------------
Arrives(r) ==
    \/ \E c \in OrderCalls : ReadOrder(r, c)
    \/ \E c \in StockCalls : MoveStock(r, c) \/ InitializeStock(r, c)

ItemStep(r, i) ==
    \/ AddItem(r, i) \/ RemoveItem(r, i) \/ RemoveItemRefused(r, i)
    \/ ReserveStock(r, i) \/ ReserveRefused(r, i)
    \/ LockReservation(r, i) \/ SettleRefused(r, i)

Advances(r) ==
    \/ \E i \in Items : ItemStep(r, i)
    \/ ReadItems(r) \/ PickItem(r) \/ NoSuchItem(r)
    \/ InsertReservation(r) \/ InsertRefused(r) \/ CommitConfirm(r)
    \/ SettleStock(r) \/ CommitCancel(r) \/ CommitComplete(r)
    \/ RecordMovement(r) \/ RefreshOpened(r) \/ MarkOpened(r)
    \/ \E s \in Stocks : DeferAlert(r, s)
    \/ LockWaitAborted(r)

Fails(r) == Crash(r) \/ SecondCommitTimesOut(r) \/ \E s \in Stocks : LoseAlert(r, s)

Next ==
    \/ \E o \in Orders : CreateOrder(o)
    \/ \E r \in Requests : Arrives(r) \/ Advances(r) \/ Fails(r)

Spec == Init /\ [][Next]_vars

\* The event loop keeps running every request it has accepted, and PostgreSQL
\* queues those that wait for a row, so none is passed over for ever.
FairSpec ==
    /\ Spec
    /\ \A r \in Requests :
         /\ WF_vars(Advances(r))
         /\ SF_vars(RecordMovement(r)) /\ SF_vars(MarkOpened(r))

-----------------------------------------------------------------------------
(* Properties *)

TablesTyped ==
    /\ order \in [Orders -> OrderStatuses]
    /\ item \in [Items -> ItemRows]
    /\ resv \in [Items -> ResvRows]
    /\ stock \in [Stocks -> Row]

LocksTyped ==
    /\ resvDraft \in [Items -> ResvRows] /\ resvOwner \in [Items -> Requests \cup {None}]
    /\ stockDraft \in [Stocks -> Row] /\ stockOwner \in [Stocks -> Requests \cup {None}]

SessionTyped ==
    /\ pc \in [Requests -> PCs]
    /\ call \in [Requests -> Calls]
    /\ todo \in [Requests -> SUBSET Items] /\ seen \in [Requests -> SUBSET Items]
    /\ cur \in [Requests -> Items \cup {None}]
    /\ pending \in [Requests -> SUBSET Stocks]
    /\ delta \in [Requests -> Int]

\* Every column, lock and session field stays within its type: an order or a
\* reservation never has a status its enum does not list.
TypeOK ==
    /\ TablesTyped /\ LocksTyped /\ SessionTyped
    /\ announced \in SUBSET Stocks
    /\ faults \in 0..MaxFaults

\* The reservation of an item, committed or still under way, is never left without
\* the item, whatever remove_item, confirm_order and their rollbacks do to each
\* other: the units of a deleted item would stay promised for ever.
NoOrphanHold ==
    \A i \in Items : resv[i] # NoResv \/ resvDraft[i] # NoResv => item[i].state = "live"

\* The units that RESERVED reservations in `table` hold on row s.
HeldItems(table, s) == {i \in Items : table[i].status = "reserved" /\ table[i].stock = s}
HeldUnits(table, s) == UNION {{i} \X (1 .. table[i].quantity) : i \in HeldItems(table, s)}

\* reserved_quantity is exactly what the open reservations of the row add up to:
\* no hold is lost, none is counted twice, none outlives its reservation.
ReservedMatchesReservations ==
    \A s \in Stocks : stock[s].reserved = Cardinality(HeldUnits(resv, s))

\* r has passed the status check of o and has neither committed nor given up.
OnOrder(r, o) == pc[r] \in {"read", "work", "reserve", "settle"} /\ call[r].order = o

Settles(r, o) == OnOrder(r, o) /\ call[r].op \in {"cancel", "complete"}

SettlementsApart ==
    \A o \in Orders, q, r \in Requests : Settles(q, o) /\ Settles(r, o) => q = r

\* Two calls that settle one order at the same time are the only way to a wrong
\* reserved_quantity: confirm_order, add_item and remove_item may overlap each
\* other, and a settlement, in any way.
OnlySettlementsMiscount == []SettlementsApart => []ReservedMatchesReservations

\* r may change the status of o.
Changes(r, o) == OnOrder(r, o) /\ call[r].op \in {"confirm", "cancel", "complete"}

ChangesApart(o) == \A q, r \in Requests : Changes(q, o) /\ Changes(r, o) => q = r

\* The statuses that the reservation of an item may have beside the order's, "none"
\* being that of an item which add_item put there while confirm_order ran.
HoldsOf(status) ==
    CASE status = "confirmed" -> {"none", "reserved"}
      [] status = "cancelled" -> {"none", "released"}
      [] status = "completed" -> {"none", "fulfilled"}
      [] OTHER                -> {"none"}

HoldsFit(o) == \A i \in ItemsOf(o) : resv[i].status \in HoldsOf(order[o])

\* Nothing is promised to an order before it is confirmed or after it is settled, and
\* what a confirmed order was promised is not given back: add_item and remove_item
\* may overlap the calls that change the order's status in any way, as long as those
\* do not overlap each other.
HoldsFollowStatus == \A o \in Orders : []ChangesApart(o) => []HoldsFit(o)

\* A commit that promises more units of a row never promises more than are there,
\* whatever else runs at the same time.
NeverOversold ==
    [][\A s \in Stocks : stock'[s].reserved > stock[s].reserved
                          => stock'[s].reserved <= stock'[s].quantity]_vars

Uncovers(s) ==
    LET Covered(row) == 0 <= row.reserved /\ row.reserved <= row.quantity
    IN  Covered(stock[s]) /\ ~Covered(stock'[s])

\* Goods on the shelf cover every promise, and promises are never negative, until
\* remove_stock or adjust_stock takes units that are promised: no order call,
\* receipt or rollback ever uncovers a row.
OnlyTheDeskUncovers ==
    [][\A s \in Stocks : Uncovers(s) =>
         \E r \in Requests : /\ pc[r] = "idle" /\ pc'[r] = "movement"
                            /\ call'[r].stock = s
                            /\ call'[r].op \in {"remove_stock", "adjust_stock"}]_vars

\* Outside a transaction the alert flag of a row says whether the row is low.
AlertFlagFollowsLevel ==
    \A s \in Stocks : stock[s].live => stock[s].alerted = IsLow(stock[s], ReorderPoint[s])

\* A raised flag has been announced, or a request that has committed still owes
\* the announcement: cancel_order, which never flushes, has none to lose.
RaisedAlertIsAnnounced ==
    \A s \in Stocks :
        stock[s].alerted /\ faults = 0 =>
            \/ s \in announced
            \/ \E r \in Requests : s \in pending[r] /\ pc[r] \in {"movement", "flush"}

Unrecorded(s) == {r \in Requests : pc[r] = "movement" /\ call[r].stock = s}

\* The units that came in and went out without a movement yet.
UnitsIn(s)  == UNION {{r} \X (1 .. delta[r]) : r \in Unrecorded(s)}
UnitsOut(s) == UNION {{r} \X (1 .. -delta[r]) : r \in Unrecorded(s)}

\* Every unit of a row is accounted for by a movement that add_stock, remove_stock,
\* adjust_stock or fulfill_for_item has written, or that its request is about to
\* write.
LedgerBalances ==
    \A s \in Stocks :
        stock[s].quantity + Cardinality(UnitsOut(s)) = stock[s].audited + Cardinality(UnitsIn(s))

\* An accepted request comes to an end: no lock cycle and no lost wake-up holds
\* it for ever.
RequestsEnd == \A r \in Requests : pc[r] # "idle" ~> pc[r] = "idle"

\* A low row is announced, unless it recovers first or a fault strikes.  The flag of
\* a row that is not low, which initialize_stock may put up from a level it read
\* earlier, takes the alert of the next drop away, so such a row is left out.
LowRowIsAnnounced ==
    \A s \in Stocks :
        [](stock[s].alerted => Low(s)) => (Low(s) ~> s \in announced \/ faults > 0 \/ ~Low(s))

Book == INSTANCE ReservationBook WITH
            status <- order, line <- item, hold <- resv, NoHold <- NoResv,
            onHand <- [s \in Stocks |-> stock[s].quantity]

\* Every order is confirmed whole and settled whole: to callers who do not overlap
\* calls on one order, the locks, sessions and counters of confirm_order,
\* cancel_order and complete_order amount to ReservationBook.
ImplementsBook == Book!Spec

\* A row that is low without its flag has just been opened, and the request that
\* opened it is still there to set the flag.
LowRowIsBeingFlagged ==
    \A s \in Stocks :
        Low(s) /\ ~stock[s].alerted =>
            \E r \in Requests : pc[r] \in {"opened", "mark"} /\ call[r].stock = s

\* The flag of s does not say whether s is low.
Misflagged(s) == stock[s].live /\ stock[s].alerted # IsLow(stock[s], ReorderPoint[s])

SameLevelAndFlag(s) ==
    /\ stock'[s].alerted = stock[s].alerted
    /\ Available(stock'[s]) = Available(stock[s])

\* initialize_stock inserts row s, or flags it.
Opening(s) ==
    \E r \in Requests : /\ pc'[r] = "opened" \/ (pc[r] = "mark" /\ pc'[r] = "flush")
                        /\ call'[r].stock = s

OnlyOpeningMisflags ==
    [][\A s \in Stocks : Misflagged(s)' => Opening(s) \/ (Misflagged(s) /\ SameLevelAndFlag(s))]_vars

\* initialize_stock alone can leave a flag that disagrees with the level, because it
\* commits the row before the flag and flags it from a level read before: a row
\* without its flag only until it flags it, a flag too many only until the level
\* changes next.
FlagsStrayAtOpening == [](faults = 0 => LowRowIsBeingFlagged) /\ OnlyOpeningMisflags
=============================================================================
