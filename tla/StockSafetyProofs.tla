-------------------------- MODULE StockSafetyProofs --------------------------
(***************************************************************************)
(* What holds of the stock rows, the reservations and the orders, and on   *)
(* what condition on the callers.                                          *)
(*                                                                         *)
(* Nothing is assumed of the callers for SessionsFit: a session handles    *)
(* and locks items of its own order.  While no two settlements of an order *)
(* overlap (SettlementsApart), a reservation that a loop is about to       *)
(* settle is still RESERVED (MapsAreCurrent), so `reserved` balances in    *)
(* both versions of every row (TablesBalance): OnlySettlementsMiscount and *)
(* OnlyTheDeskUncovers.  While the calls that change the status of order o *)
(* do not overlap (ChangesApart), its reservations have a status that fits *)
(* (HoldsFollowStatus).  While one call at a time is on order o            *)
(* (OnItsOwn), the order moves with all its reservations (MirroredOn),     *)
(* whatever happens to the others.  While that is so of every order        *)
(* (Serial), each call has done to its items exactly what its commit will  *)
(* publish (OnCourse), and so a commit is one step of ReservationBook and  *)
(* everything else is none. SerialOrders, the workload of                  *)
(* serial_orders.cfg, is one way to Serial.                                *)
(*                                                                         *)
(* Nothing is assumed either for what RequestsEnd needs besides fairness:  *)
(* a call never goes in circles (CallsOnlyGetNearer), and whoever waits    *)
(* for a row waits for another call, one still at work                     *)
(* (WaitersHaveHolders).                                                   *)
(***************************************************************************)
EXTENDS OrderFulfillmentProofs

-----------------------------------------------------------------------------
(* Sums of reservations *)

\* Row `row` holds units of stock row s.
HoldsAt(row, s) == row.status = "reserved" /\ row.stock = s

\* The open reservations of `table` on s add up to n.
Totals(table, s, n) ==
    IsFiniteSet(HeldUnits(table, s)) /\ Cardinality(HeldUnits(table, s)) = n

\* Two tables that hold the same on a row add up to the same.
LEMMA SameHolds ==
  ASSUME NEW t, NEW u, NEW s, NEW n, Totals(t, s, n),
         \A i \in Items : u[i] = t[i] \/ (~HoldsAt(t[i], s) /\ ~HoldsAt(u[i], s))
  PROVE  Totals(u, s, n)
<1>1. HeldItems(u, s) = HeldItems(t, s)
  BY DEF HeldItems, HoldsAt
<1>2. \A i \in HeldItems(t, s) : u[i] = t[i]
  BY DEF HeldItems, HoldsAt
<1>3. HeldUnits(u, s) = HeldUnits(t, s)
  BY <1>1, <1>2 DEF HeldUnits
<1> QED
  BY <1>3 DEF Totals

\* One reservation adds exactly its quantity.
LEMMA OneHoldMore ==
  ASSUME NEW t, NEW u, NEW s, NEW n \in Int, Totals(t, s, n), NEW i \in Items,
         ~HoldsAt(t[i], s), HoldsAt(u[i], s), u[i].quantity \in Nat,
         \A j \in Items \ {i} : u[j] = t[j]
  PROVE  Totals(u, s, n + u[i].quantity)
<1> DEFINE old == HeldUnits(t, s)
           new == {i} \X (1 .. u[i].quantity)
<1>1. HeldItems(u, s) = HeldItems(t, s) \cup {i} /\ i \notin HeldItems(t, s)
  BY DEF HeldItems, HoldsAt
<1>2. \A j \in HeldItems(t, s) : u[j] = t[j]
  BY <1>1 DEF HeldItems
<1>3. HeldUnits(u, s) = old \cup new
  BY <1>1, <1>2 DEF HeldUnits
<1>4. old \cap new = {}
  BY <1>1 DEF HeldUnits
<1>5. IsFiniteSet(new) /\ Cardinality(new) = u[i].quantity
  <2> SUFFICES ASSUME NEW q \in Nat
               PROVE  IsFiniteSet({i} \X (1 .. q)) /\ Cardinality({i} \X (1 .. q)) = q
    OBVIOUS
  <2>1. IsFiniteSet({i}) /\ Cardinality({i}) = 1
    BY FS_Singleton
  <2>2. IsFiniteSet(1 .. q) /\ Cardinality(1 .. q) = IF 1 > q THEN 0 ELSE q - 1 + 1
    BY FS_Interval
  <2>3. /\ IsFiniteSet({i} \X (1 .. q))
        /\ Cardinality({i} \X (1 .. q)) = Cardinality({i}) * Cardinality(1 .. q)
    BY <2>1, <2>2, FS_Product
  <2> QED
    BY <2>1, <2>2, <2>3
<1>6. IsFiniteSet(old) /\ Cardinality(old) = n
  BY DEF Totals
<1> HIDE DEF old, new
<1>7. IsFiniteSet(old \cup new) /\ Cardinality(old \cup new) = n + u[i].quantity
  <2>1. /\ IsFiniteSet(old \cup new)
        /\ Cardinality(old \cup new)
             = Cardinality(old) + Cardinality(new) - Cardinality(old \cap new)
    BY <1>5, <1>6, FS_Union
  <2>2. Cardinality(old \cap new) = 0
    BY <1>4, FS_EmptySet
  <2> QED
    BY <1>5, <1>6, <2>1, <2>2
<1> QED
  BY <1>3, <1>7 DEF Totals

\* A reservation that ends takes exactly its quantity away.
LEMMA OneHoldLess ==
  ASSUME NEW t, NEW u, NEW s, NEW n \in Int, Totals(t, s, n), NEW i \in Items,
         HoldsAt(t[i], s), ~HoldsAt(u[i], s), t[i].quantity \in Nat,
         \A j \in Items \ {i} : u[j] = t[j]
  PROVE  Totals(u, s, n - t[i].quantity)
<1>1. HeldUnits(u, s) \subseteq HeldUnits(t, s)
  BY DEF HeldUnits, HeldItems, HoldsAt
<1>2. IsFiniteSet(HeldUnits(u, s)) /\ Cardinality(HeldUnits(u, s)) \in Int
  BY <1>1, FS_Subset, FS_CardinalityType DEF Totals
<1> DEFINE m == Cardinality(HeldUnits(u, s))
<1>3. Totals(u, s, m) /\ m \in Int
  BY <1>2 DEF Totals
<1> HIDE DEF m
<1>4. Totals(t, s, m + t[i].quantity)
  BY <1>3, OneHoldMore
<1>5. n = m + t[i].quantity
  BY <1>4 DEF Totals
<1>6. m = n - t[i].quantity
  BY <1>3, <1>5
<1> QED
  BY <1>3, <1>6

\* A row that holds something has units.
LEMMA HeldIsPositive ==
  ASSUME NEW t, NEW s, NEW n \in Int, Totals(t, s, n), NEW i \in Items,
         HoldsAt(t[i], s), t[i].quantity \in Nat \ {0}
  PROVE  n # 0
<1>1. <<i, 1>> \in HeldUnits(t, s)
  BY DEF HeldUnits, HeldItems, HoldsAt
<1> QED
  BY <1>1, FS_EmptySet DEF Totals

\* The reservations r holds FOR UPDATE.
Locks(r) == {i \in Items : resvOwner[i] = r}

\* The session of r is about its own order only: it holds locks inside its loops, and
\* the items it handles are of its order.
SessionFits(r) ==
    /\ pc[r] = "idle" => call[r].op = "none"
    /\ seen[r] # {} => /\ pc[r] \in {"work", "reserve", "settle"}
                       /\ call[r].op \in {"cancel", "complete"}
    /\ Locks(r) # {} \/ (\E s \in Stocks : stockOwner[s] = r)
         => /\ pc[r] \in {"work", "reserve", "settle"}
            /\ call[r].op \in {"confirm", "cancel", "complete"}
    /\ \A i \in todo[r] \cup Locks(r) : item[i] # NoItem /\ item[i].order = call[r].order
    /\ pc[r] = "settle" => cur[r] \in seen[r] \cap Locks(r)

\* One call at a time is on order o.
OnItsOwn(o) == \A q, r \in Requests : OnOrder(q, o) /\ OnOrder(r, o) => q = r

\* One call at a time is on every order.
Serial == \A o \in Orders : OnItsOwn(o)

\* r has reserved units on row s and not yet inserted the reservation.
InHand(r, s) == pc[r] = "reserve" /\ ItemStock(r, cur[r]) = s

\* Nobody has.
Loose(s) == \A r \in Requests : ~InHand(r, s)

\* An unlocked stock row has one version.
DraftsAgree == \A s \in Stocks : stockOwner[s] = None => stockDraft[s] = stock[s]

\* A reservation with a version of its own is locked with its stock row.
ChangedIsOwned ==
    \A i \in Items : resvDraft[i] # resv[i] =>
        /\ resvOwner[i] \in Requests
        /\ resvDraft[i] # NoResv
        /\ stockOwner[resvDraft[i].stock] = resvOwner[i]
        /\ resv[i] # NoResv => resv[i].stock = resvDraft[i].stock

\* A row that is not open holds nothing.
ClosedIsEmpty ==
    \A s \in Stocks : /\ ~stock[s].live => stock[s].reserved = 0
                      /\ ~stockDraft[s].live => stockDraft[s].reserved = 0

\* The committed counter of a row is the sum of the committed reservations.
Balanced == \A s \in Stocks : Totals(resv, s, stock[s].reserved)

\* So is the newest one, but for the units in hand.
DraftsBalance ==
    \A s \in Stocks :
        /\ Loose(s) => Totals(resvDraft, s, stockDraft[s].reserved)
        /\ \A r \in Requests : InHand(r, s) =>
             /\ stockOwner[s] = r
             /\ Totals(resvDraft, s, stockDraft[s].reserved - item[cur[r]].quantity)

\* The sessions fit however the calls overlap; the balance of the tables needs more.
SessionsFit == \A r \in Requests : SessionFits(r)

TablesBalance == DraftsAgree /\ ChangedIsOwned /\ ClosedIsEmpty /\ Balanced /\ DraftsBalance

-----------------------------------------------------------------------------
(* SessionsFit *)

\* A step of r leaves the sessions of the others alone.
OthersRest(r) ==
    \A q \in Requests \ {r} :
        /\ pc'[q] = pc[q] /\ call'[q] = call[q] /\ todo'[q] = todo[q]
        /\ seen'[q] = seen[q] /\ cur'[q] = cur[q]

\* A step of r takes and frees locks for r only.
LocksStay(r) ==
    \A q \in Requests \ {r} :
        /\ Locks(q)' = Locks(q)
        /\ \A s \in Stocks : (stockOwner'[s] = q) <=> (stockOwner[s] = q)

\* A call that has read its order is on an order.
LEMMA OnAnOrder ==
  ASSUME WellFormed, NEW r \in Requests, pc[r] \in {"read", "work", "reserve", "settle"}
  PROVE  call[r].op \in OrderOps /\ call[r].order \in Orders
<1>1. call[r].op \in OrderOps /\ call[r] \in Calls
  BY DEF WellFormed, SessionsMakeSense, StepFitsCall, OrderOps, TypeOK, SessionTyped
<1> QED
  BY <1>1, CallFields

\* Finishing, and going on to flush, leave the other sessions alone.
LEMMA EndRest ==
  ASSUME WellFormed, NEW r \in Requests, End(r) \/ \E alerts : FlushThenEnd(r, alerts)
  PROVE  OthersRest(r) /\ pc'[r] \in {"idle", "flush"}
<1>1. ASSUME End(r) PROVE OthersRest(r) /\ pc'[r] \in {"idle", "flush"}
  BY <1>1 DEF End, OthersRest, WellFormed, TypeOK, SessionTyped
<1>2. ASSUME NEW alerts, FlushThenEnd(r, alerts)
      PROVE  OthersRest(r) /\ pc'[r] \in {"idle", "flush"}
  BY <1>1, <1>2 DEF FlushThenEnd, OthersRest, WellFormed, TypeOK, SessionTyped
<1> QED
  BY <1>1, <1>2

\* Whoever handles or locks an item is on its order.
LEMMA HandlerIsOnOrder ==
  ASSUME WellFormed, SessionsFit, NEW r \in Requests, NEW i \in Items,
         i \in todo[r] \/ i \in Locks(r)
  PROVE  /\ OnOrder(r, item[i].order) /\ item[i].order \in Orders
         /\ pc[r] \in {"work", "reserve", "settle"}
<1>1. pc[r] \in {"work", "reserve", "settle"}
  BY DEF SessionsFit, SessionFits, WellFormed, SessionsMakeSense, StepFitsCall
<1>2. item[i] # NoItem /\ item[i].order = call[r].order
  BY DEF SessionsFit, SessionFits
<1>3. item[i].order \in Orders
  BY <1>2, ItemFields DEF WellFormed, TypeOK, TablesTyped
<1> QED
  BY <1>1, <1>2, <1>3 DEF OnOrder

\* While one call at a time is on the order of an item, one request handles the item.
LEMMA OneHandlerPerItem ==
  ASSUME WellFormed, SessionsFit, NEW q \in Requests, NEW r \in Requests, NEW i \in Items,
         i \in todo[q] \/ i \in Locks(q), i \in todo[r] \/ i \in Locks(r),
         OnItsOwn(item[i].order)
  PROVE  q = r
  BY HandlerIsOnOrder DEF OnItsOwn

\* What a step of r must respect for the sessions of the others to keep fitting.
LEMMA OthersFit ==
  ASSUME WellFormed, SessionsFit, NEW r \in Requests, OthersRest(r), ItemsStay, LocksStay(r)
  PROVE  \A q \in Requests \ {r} : SessionFits(q)'
<1> SUFFICES ASSUME NEW q \in Requests, q # r PROVE SessionFits(q)'
  OBVIOUS
<1>1. SessionFits(q) /\ todo[q] \subseteq Items
  BY DEF SessionsFit, WellFormed, TypeOK, SessionTyped
<1>2. /\ pc'[q] = pc[q] /\ call'[q] = call[q] /\ todo'[q] = todo[q]
      /\ seen'[q] = seen[q] /\ cur'[q] = cur[q]
  BY DEF OthersRest
<1>3. /\ Locks(q)' = Locks(q)
      /\ \A s \in Stocks : stockOwner'[s] = q => stockOwner[s] = q
  BY <1>1 DEF LocksStay
<1>4. /\ pc'[q] = "idle" => call'[q].op = "none"
      /\ seen'[q] # {} => /\ pc'[q] \in {"work", "reserve", "settle"}
                          /\ call'[q].op \in {"cancel", "complete"}
  BY <1>1, <1>2 DEF SessionFits
<1>5. Locks(q)' # {} \/ (\E s \in Stocks : stockOwner'[s] = q)
        => /\ pc'[q] \in {"work", "reserve", "settle"}
           /\ call'[q].op \in {"confirm", "cancel", "complete"}
  BY <1>1, <1>2, <1>3 DEF SessionFits
<1>6. \A i \in todo'[q] \cup Locks(q)' : item'[i] # NoItem /\ item'[i].order = call'[q].order
  BY <1>1, <1>2, <1>3 DEF SessionFits, ItemsStay, Locks
<1>7. pc'[q] = "settle" => cur'[q] \in seen'[q] \cap Locks(q)'
  BY <1>1, <1>2, <1>3 DEF SessionFits
<1> QED
  BY <1>4, <1>5, <1>6, <1>7 DEF SessionFits

\* r holds no row lock.
Unlocked(r) == Locks(r) = {} /\ \A s \in Stocks : stockOwner[s] # r

\* A step that respects the others and leaves its own session fitting.
LEMMA StepFits ==
  ASSUME WellFormed, SessionsFit, NEW r \in Requests, OthersRest(r), ItemsStay, LocksStay(r),
         SessionFits(r)'
  PROVE  SessionsFit'
  BY OthersFit DEF SessionsFit

\* A finished request fits, if it has let go of its locks.
LEMMA EndFits ==
  ASSUME WellFormed, NEW r \in Requests, End(r), Unlocked(r)'
  PROVE  SessionFits(r)' /\ OthersRest(r) /\ call'[r].op \notin OrderOps
<1>1. /\ pc'[r] = "idle" /\ call'[r] = NoCall /\ todo'[r] = {} /\ seen'[r] = {}
      /\ OthersRest(r)
  BY DEF WellFormed, TypeOK, SessionTyped, End, OthersRest
<1> QED
  BY <1>1 DEF SessionFits, Unlocked, NoCall, OrderOps

\* So does one that goes on to flush its alerts.
LEMMA FlushFits ==
  ASSUME WellFormed, NEW r \in Requests, NEW alerts, FlushThenEnd(r, alerts), Unlocked(r)'
  PROVE  /\ SessionFits(r)' /\ OthersRest(r)
         /\ call'[r] = call[r] \/ call'[r].op \notin OrderOps
<1>1. CASE alerts = {}
  BY <1>1, EndFits DEF FlushThenEnd
<1>2. CASE alerts # {}
  <2>1. /\ pc'[r] = "flush" /\ call'[r] = call[r] /\ todo'[r] = {} /\ seen'[r] = {}
        /\ OthersRest(r)
    BY <1>2 DEF WellFormed, TypeOK, SessionTyped, FlushThenEnd, OthersRest
  <2> QED
    BY <2>1 DEF SessionFits, Unlocked
<1> QED
  BY <1>1, <1>2

\* Only the loops of confirm_order, cancel_order and complete_order hold locks.
LEMMA HoldsNoLock ==
  ASSUME SessionsFit, NEW r \in Requests,
         \/ pc[r] \notin {"work", "reserve", "settle"}
         \/ call[r].op \notin {"confirm", "cancel", "complete"}
  PROVE  Unlocked(r)
  BY DEF SessionsFit, SessionFits, Unlocked

\* A step that touches no lock and no newest version.
LEMMA QuietLocks ==
  ASSUME UNCHANGED locks, NEW r \in Requests
  PROVE  /\ LocksStay(r) /\ Unlocked(r)' = Unlocked(r) /\ Locks(r)' = Locks(r)
         /\ resvDraft' = resvDraft /\ resvOwner' = resvOwner /\ stockOwner' = stockOwner
  BY DEF locks, LocksStay, Locks, Unlocked

\* A call that is let in holds nothing yet.
LEMMA ReadOrderFits ==
  ASSUME WellFormed, SessionsFit, NEW r \in Requests, NEW c \in OrderCalls,
         ReadOrder(r, c)
  PROVE  SessionsFit'
<1>1. /\ pc[r] = "idle" /\ pc' = [pc EXCEPT ![r] = "read"] /\ call' = [call EXCEPT ![r] = c]
      /\ UNCHANGED <<tables, locks, todo, seen, cur>>
  BY DEF ReadOrder, Goto
<1>2. OthersRest(r) /\ call'[r] = c /\ pc'[r] = "read"
  BY <1>1 DEF WellFormed, TypeOK, SessionTyped, OthersRest
<1>3. Unlocked(r) /\ todo[r] = {} /\ seen[r] = {}
  BY <1>1, HoldsNoLock DEF WellFormed, SessionsMakeSense, StepFitsCall, SessionsFit, SessionFits
<1>4. SessionFits(r)'
  BY <1>1, <1>2, <1>3, QuietLocks DEF SessionFits, Unlocked
<1> QED
  BY <1>1, <1>2, <1>4, StepFits, QuietLocks, QuietItems DEF tables

\* The loops of a call are over items of its order.
LEMMA ReadItemsFits ==
  ASSUME WellFormed, SessionsFit, NEW r \in Requests, ReadItems(r)
  PROVE  SessionsFit'
<1> DEFINE o == call[r].order
           loop == ItemsToHandle(call[r].op, o)
           known == IF call[r].op = "confirm" THEN {}
                    ELSE {i \in ItemsOf(o) : resv[i].status = "reserved"}
<1>1. /\ pc[r] = "read" /\ call[r].op \in {"confirm", "cancel", "complete"}
      /\ pc' = [pc EXCEPT ![r] = "work"]
      /\ todo' = [todo EXCEPT ![r] = loop] /\ seen' = [seen EXCEPT ![r] = known]
      /\ UNCHANGED <<tables, locks, call, cur>>
  BY DEF ReadItems, Goto
<1>2. /\ OthersRest(r) /\ pc'[r] = "work" /\ call'[r] = call[r] /\ todo'[r] = loop
      /\ seen'[r] = known
  BY <1>1 DEF WellFormed, TypeOK, SessionTyped, OthersRest
<1>3. loop \subseteq ItemsOf(o)
  BY DEF ItemsToHandle
<1>4. \A i \in ItemsOf(o) : i \in Items /\ item[i] # NoItem /\ item[i].order = o
  BY LiveItems DEF ItemsOf
<1>5. Unlocked(r) /\ (known # {} => call[r].op \in {"cancel", "complete"})
  BY <1>1, HoldsNoLock
<1> HIDE DEF o, loop, known
<1>6. item' = item
  BY <1>1 DEF tables
<1>7. SessionFits(r)'
  <2>1. Locks(r)' = {} /\ \A s \in Stocks : stockOwner'[s] # r
    BY <1>1, <1>5, QuietLocks DEF Unlocked
  <2> QED
    BY <1>1, <1>2, <1>3, <1>4, <1>5, <1>6, <2>1 DEF SessionFits, o
<1> QED
  BY <1>1, <1>2, <1>6, <1>7, StepFits, QuietLocks, QuietItems

\* add_item and remove_item leave the other items as they were, and theirs on its order.
LEMMA ItemStepItems ==
  ASSUME WellFormed, NEW r \in Requests, NEW i \in Items, AddItem(r, i) \/ RemoveItem(r, i)
  PROVE  ItemsStay
<1>1. CASE AddItem(r, i)
  <2>1. item[i] = NoItem /\ \A j \in Items \ {i} : item'[j] = item[j]
    BY <1>1 DEF AddItem, WellFormed, TypeOK, TablesTyped
  <2> QED
    BY <2>1 DEF ItemsStay
<1>2. CASE RemoveItem(r, i)
  <2>1. /\ call[r].op = "remove_item" /\ i \in todo[r]
        /\ item' = [item EXCEPT ![i] = [item[i] EXCEPT !.state = "deleted"]]
    BY <1>2 DEF RemoveItem
  <2>2. item[i] # NoItem /\ item[i] \in ItemRows
    BY <2>1 DEF WellFormed, SessionsMakeSense, StepFitsCall, TypeOK, TablesTyped
  <2> DEFINE row == [item[i] EXCEPT !.state = "deleted"]
  <2>3. /\ row # NoItem /\ row.order = item[i].order /\ row.product = item[i].product
        /\ row.quantity = item[i].quantity
    BY <2>2, DeletedItemRow DEF ItemRows
  <2> HIDE DEF row
  <2>4. item' = [item EXCEPT ![i] = row]
    BY <2>1 DEF row
  <2> QED
    BY <2>3, <2>4 DEF ItemsStay, WellFormed, TypeOK, TablesTyped
<1> QED
  BY <1>1, <1>2

\* A request without a lock that ends, or goes on to its alerts.
LEMMA LeavingFits ==
  ASSUME WellFormed, SessionsFit, NEW r \in Requests, Unlocked(r), ItemsStay,
         UNCHANGED <<resvOwner, stockOwner>>, End(r) \/ \E alerts : FlushThenEnd(r, alerts)
  PROVE  SessionsFit'
<1>1. Unlocked(r)' /\ LocksStay(r)
  BY DEF Unlocked, LocksStay, Locks
<1>2. SessionFits(r)' /\ OthersRest(r)
  BY <1>1, EndFits, FlushFits
<1> QED
  BY <1>1, <1>2, StepFits

\* So does one that moves between steps outside the loops.
LEMMA OutsideFits ==
  ASSUME WellFormed, SessionsFit, NEW r \in Requests, Unlocked(r), ItemsStay, OthersRest(r),
         UNCHANGED <<resvOwner, stockOwner>>,
         pc[r] \in {"idle", "opened"}, pc'[r] \in {"movement", "opened", "mark"},
         UNCHANGED <<todo, seen>>
  PROVE  SessionsFit'
<1>1. Unlocked(r)' /\ LocksStay(r)
  BY DEF Unlocked, LocksStay, Locks
<1>2. todo[r] = {} /\ seen[r] = {}
  BY DEF WellFormed, SessionsMakeSense, StepFitsCall, SessionsFit, SessionFits
<1>3. SessionFits(r)'
  BY <1>1, <1>2 DEF SessionFits, Unlocked
<1> QED
  BY <1>1, <1>3, StepFits

\* remove_item picks an item of its own order.
LEMMA PickItemFits ==
  ASSUME WellFormed, SessionsFit, NEW r \in Requests, PickItem(r)
  PROVE  SessionsFit' /\ OthersRest(r) /\ pc'[r] = "work"
<1>1. PICK i \in ItemsOf(call[r].order) : todo' = [todo EXCEPT ![r] = {i}]
  BY DEF PickItem
<1>2. i \in Items /\ item[i] # NoItem /\ item[i].order = call[r].order
  BY LiveItems DEF ItemsOf
<1>3. /\ pc[r] = "read" /\ call[r].op = "remove_item"
      /\ UNCHANGED <<item, resv, stock, locks, call, seen, cur>>
      /\ pc'[r] = "work" /\ todo'[r] = {i} /\ call'[r] = call[r]
      /\ OthersRest(r)
  BY <1>1 DEF PickItem, Goto, tables, WellFormed, TypeOK, SessionTyped, OthersRest
<1>4. Unlocked(r)'
  BY <1>3, HoldsNoLock, QuietLocks
<1>5. seen[r] = {}
  BY <1>3 DEF SessionsFit, SessionFits
<1>6. SessionFits(r)'
  BY <1>2, <1>3, <1>4, <1>5 DEF SessionFits, Unlocked
<1> QED
  BY <1>3, <1>6, StepFits, QuietLocks, QuietItems

\* COMMIT and ROLLBACK free the locks of their session and no other.
LEMMA TransactionEndFits ==
  ASSUME WellFormed, SessionsFit, NEW r \in Requests, item' = item, Commit(r) \/ Rollback(r),
         End(r) \/ \E alerts : FlushThenEnd(r, alerts)
  PROVE  SessionsFit' /\ Unlocked(r)' /\ LocksStay(r)
<1>1. /\ r # None
      /\ \A i \in Items : resvOwner'[i] = (IF resvOwner[i] = r THEN None ELSE resvOwner[i])
      /\ \A s \in Stocks : stockOwner'[s] = (IF stockOwner[s] = r THEN None ELSE stockOwner[s])
  BY NoneIsFresh DEF Commit, Rollback
<1>2. Unlocked(r)' /\ LocksStay(r)
  BY <1>1, NoneIsFresh DEF Unlocked, LocksStay, Locks
<1>3. SessionFits(r)' /\ OthersRest(r)
  BY <1>2, EndFits, FlushFits
<1> QED
  BY <1>2, <1>3, StepFits, QuietItems

\* cancel_order and complete_order lock what they have loaded.
LEMMA LockReservationFits ==
  ASSUME WellFormed, SessionsFit, NEW r \in Requests, NEW i \in Items, LockReservation(r, i)
  PROVE  SessionsFit'
<1>1. /\ pc[r] = "work" /\ call[r].op \in {"cancel", "complete"}
      /\ i \in todo[r] /\ i \in seen[r] /\ resvOwner[i] = None
      /\ pc' = [pc EXCEPT ![r] = "settle"] /\ cur' = [cur EXCEPT ![r] = i]
      /\ resvOwner' = [resvOwner EXCEPT ![i] = r]
      /\ UNCHANGED <<item, stockOwner, call, todo, seen>>
  BY DEF LockReservation, Settling, Goto, tables
<1>2. /\ OthersRest(r) /\ pc'[r] = "settle" /\ cur'[r] = i
      /\ \A j \in Items : resvOwner'[j] = (IF j = i THEN r ELSE resvOwner[j])
  BY <1>1 DEF WellFormed, TypeOK, SessionTyped, LocksTyped, OthersRest
<1>3. LocksStay(r) /\ Locks(r)' = Locks(r) \cup {i}
  BY <1>1, <1>2, NoneIsFresh DEF LocksStay, Locks
<1>4. SessionFits(r)'
  BY <1>1, <1>2, <1>3 DEF SessionFits, SessionsFit
<1> QED
  BY <1>1, <1>2, <1>3, <1>4, StepFits, QuietItems

\* reserve_for_item takes the lock of a stock row that is free, or its own.
LEMMA ReserveStockFits ==
  ASSUME WellFormed, SessionsFit, NEW r \in Requests, NEW i \in Items, ReserveStock(r, i)
  PROVE  SessionsFit'
<1>1. /\ pc[r] = "work" /\ call[r].op = "confirm" /\ i \in todo[r]
      /\ Free(stockOwner[ItemStock(r, i)], r)
      /\ stockOwner' = [stockOwner EXCEPT ![ItemStock(r, i)] = r]
      /\ cur' = [cur EXCEPT ![r] = i] /\ pc' = [pc EXCEPT ![r] = "reserve"]
      /\ UNCHANGED <<item, resvOwner, call, todo, seen>>
  BY DEF ReserveStock, Goto, tables
<1>2. /\ OthersRest(r) /\ pc'[r] = "reserve" /\ cur'[r] = i
      /\ \A t \in Stocks : \/ stockOwner'[t] = stockOwner[t]
                           \/ t = ItemStock(r, i) /\ stockOwner'[t] = r
  BY <1>1 DEF WellFormed, TypeOK, SessionTyped, LocksTyped, OthersRest
<1>3. LocksStay(r) /\ Locks(r)' = Locks(r)
  BY <1>1, <1>2, NoneIsFresh DEF LocksStay, Locks, Free
<1>4. SessionFits(r)'
  BY <1>1, <1>2, <1>3 DEF SessionFits, SessionsFit
<1> QED
  BY <1>1, <1>2, <1>3, <1>4, StepFits, QuietItems

\* The INSERT locks the reservation it makes, and the item leaves the loop.
LEMMA InsertReservationFits ==
  ASSUME WellFormed, SessionsFit, NEW r \in Requests, InsertReservation(r)
  PROVE  SessionsFit'
<1>1. PICK i \in Items : i = cur[r] /\ i \in todo[r]
  BY DEF InsertReservation, WellFormed, TypeOK, SessionTyped, SessionsMakeSense, StepFitsCall
<1>2. /\ pc[r] = "reserve" /\ call[r].op = "confirm" /\ resvOwner[i] = None
      /\ resvOwner' = [resvOwner EXCEPT ![i] = r]
      /\ todo' = [todo EXCEPT ![r] = todo[r] \ {i}] /\ cur' = [cur EXCEPT ![r] = None]
      /\ pc' = [pc EXCEPT ![r] = "work"]
      /\ UNCHANGED <<item, stockOwner, call, seen>>
  BY <1>1 DEF InsertReservation, Goto, tables, WellFormed, TypeOK, SessionTyped,
              SessionsMakeSense, StepFitsCall
<1>3. /\ OthersRest(r) /\ pc'[r] = "work" /\ todo'[r] = todo[r] \ {i}
      /\ \A j \in Items : resvOwner'[j] = (IF j = i THEN r ELSE resvOwner[j])
  BY <1>2 DEF WellFormed, TypeOK, SessionTyped, LocksTyped, OthersRest
<1>4. LocksStay(r) /\ Locks(r)' = Locks(r) \cup {i}
  BY <1>2, <1>3, NoneIsFresh DEF LocksStay, Locks
<1>5. SessionFits(r)'
  BY <1>1, <1>2, <1>3, <1>4 DEF SessionFits, SessionsFit
<1> QED
  BY <1>2, <1>3, <1>4, <1>5, StepFits, QuietItems

\* release_for_item and fulfill_for_item then take the lock of the stock row.
LEMMA SettleStockFits ==
  ASSUME WellFormed, SessionsFit, NEW r \in Requests, SettleStock(r)
  PROVE  SessionsFit'
<1>1. PICK i \in Items, s \in Stocks : i = cur[r] /\ s = resvDraft[i].stock
  BY SettlingItem DEF SettleStock
<1>2. /\ pc[r] = "settle" /\ Free(stockOwner[s], r)
      /\ stockOwner' = [stockOwner EXCEPT ![s] = r]
      /\ todo' = [todo EXCEPT ![r] = todo[r] \ {i}] /\ cur' = [cur EXCEPT ![r] = None]
      /\ pc' = [pc EXCEPT ![r] = "work"]
      /\ UNCHANGED <<item, resvOwner, call, seen>>
  BY <1>1, SettleStockEffect DEF tables
<1>3. /\ OthersRest(r) /\ pc'[r] = "work" /\ todo'[r] = todo[r] \ {i}
      /\ \A t \in Stocks : stockOwner'[t] = (IF t = s THEN r ELSE stockOwner[t])
  BY <1>2 DEF WellFormed, TypeOK, SessionTyped, LocksTyped, OthersRest
<1>4. LocksStay(r) /\ Locks(r)' = Locks(r)
  BY <1>2, <1>3, NoneIsFresh DEF LocksStay, Locks, Free
<1>5. SessionFits(r)'
  <2>1. call[r].op \in {"cancel", "complete"} /\ todo[r] \subseteq Items
    BY <1>2, SettlingItem DEF WellFormed, TypeOK, SessionTyped
  <2> QED
    BY <1>2, <1>3, <1>4, <2>1 DEF SessionFits, SessionsFit
<1> QED
  BY <1>2, <1>3, <1>4, <1>5, StepFits, QuietItems

\* The stock desk, and a request with alerts to send, are not on an order.
LEMMA DeskFits ==
  ASSUME WellFormed, SessionsFit, NEW r \in Requests,
         \/ \E c \in StockCalls : MoveStock(r, c) \/ InitializeStock(r, c)
         \/ RecordMovement(r) \/ RefreshOpened(r) \/ MarkOpened(r)
         \/ \E s \in Stocks : DeferAlert(r, s) \/ LoseAlert(r, s)
  PROVE  SessionsFit' /\ OthersRest(r) /\ pc'[r] # "reserve"
<1>1. /\ pc[r] \in {"idle", "movement", "opened", "mark", "flush"} /\ ItemsStay
      /\ UNCHANGED <<resvOwner, stockOwner>>
  BY QuietItems DEF MoveStock, InitializeStock, RecordMovement, RefreshOpened, MarkOpened,
                    DeferAlert, LoseAlert, WriteStock, tables, locks
<1>2. Unlocked(r)
  BY <1>1, HoldsNoLock
<1>3. CASE End(r) \/ \E alerts : FlushThenEnd(r, alerts)
  BY <1>1, <1>2, <1>3, LeavingFits, EndRest
<1>4. CASE /\ UNCHANGED <<todo, seen, cur>> /\ pc[r] \in {"idle", "opened"}
           /\ \E l \in {"movement", "opened", "mark"} : pc' = [pc EXCEPT ![r] = l]
           /\ UNCHANGED call \/ \E c : call' = [call EXCEPT ![r] = c]
  <2>1. OthersRest(r) /\ pc'[r] \in {"movement", "opened", "mark"}
    BY <1>4 DEF WellFormed, TypeOK, SessionTyped, OthersRest
  <2> QED
    BY <1>1, <1>2, <1>4, <2>1, OutsideFits
<1> QED
  BY <1>3, <1>4 DEF MoveStock, InitializeStock, RecordMovement, RefreshOpened, MarkOpened,
                    DeferAlert, LoseAlert, Goto

\* One step of the proof per action: the sessions fit however the calls overlap.
LEMMA NextSessionsFit ==
  ASSUME WellFormed, SessionsFit, [Next]_vars PROVE SessionsFit'
<1>1. CASE UNCHANGED vars \/ \E o \in Orders : CreateOrder(o)
  <2>1. UNCHANGED <<item, resvOwner, stockOwner, pc, call, todo, seen, cur>>
    BY <1>1 DEF vars, tables, locks, session, CreateOrder
  <2> QED
    BY <2>1 DEF SessionsFit, SessionFits, Locks
<1>2. ASSUME NEW r \in Requests, Arrives(r) PROVE SessionsFit'
  BY <1>2, ReadOrderFits, DeskFits DEF Arrives
<1>3. ASSUME NEW r \in Requests, GivesUp(r) PROVE SessionsFit'
  BY <1>3, GivesUpEffect, TransactionEndFits DEF Rollback, tables
<1>4. ASSUME NEW r \in Requests, NEW i \in Items, AddItem(r, i) \/ RemoveItem(r, i)
      PROVE  SessionsFit'
  <2>1. /\ call[r].op \in {"add_item", "remove_item"} /\ End(r)
        /\ UNCHANGED <<resvOwner, stockOwner>>
    BY <1>4 DEF AddItem, RemoveItem, locks
  <2> QED
    BY <1>4, <2>1, ItemStepItems, HoldsNoLock, LeavingFits
<1>5. ASSUME NEW r \in Requests, NEW i \in Items, ItemStep(r, i) PROVE SessionsFit'
  BY <1>3, <1>4, <1>5, ReserveStockFits, LockReservationFits DEF ItemStep, GivesUp
<1>6. ASSUME NEW r \in Requests, CommitConfirm(r) \/ CommitCancel(r) \/ CommitComplete(r)
      PROVE  SessionsFit'
  BY <1>6, TransactionEndFits DEF CommitConfirm, CommitCancel, CommitComplete
<1>7. ASSUME NEW r \in Requests, Advances(r) PROVE SessionsFit'
  BY <1>3, <1>5, <1>6, <1>7, ReadItemsFits, PickItemFits, InsertReservationFits,
     SettleStockFits, DeskFits
     DEF Advances, GivesUp
<1>8. ASSUME NEW r \in Requests, Fails(r) PROVE SessionsFit'
  BY <1>3, <1>8, DeskFits DEF Fails, GivesUp
<1> QED
  BY <1>1, <1>2, <1>7, <1>8 DEF Next

-----------------------------------------------------------------------------
(* ReservedMatchesReservations *)

\* What the steps preserve while no settled reservation is settled again.
Consistent == SessionsFit /\ TablesBalance

\* What another request has in hand stays in its hand.
LEMMA HandsStay ==
  ASSUME WellFormed, SessionsFit, NEW r \in Requests, OthersRest(r), ItemsStay,
         NEW q \in Requests \ {r}, NEW s
  PROVE  /\ (InHand(q, s)' <=> InHand(q, s))
         /\ InHand(q, s) => item'[cur'[q]].quantity = item[cur[q]].quantity
<1>1. pc'[q] = pc[q] /\ call'[q] = call[q] /\ cur'[q] = cur[q]
  BY DEF OthersRest
<1>2. CASE pc[q] = "reserve"
  <2>1. cur[q] \in Items /\ item[cur[q]] # NoItem
    BY <1>2 DEF WellFormed, SessionsMakeSense, StepFitsCall, TypeOK, SessionTyped
  <2>2. /\ item'[cur[q]].product = item[cur[q]].product
        /\ item'[cur[q]].quantity = item[cur[q]].quantity
    BY <2>1 DEF ItemsStay
  <2> QED
    BY <1>1, <2>2 DEF InHand, ItemStock
<1>3. CASE pc[q] # "reserve"
  BY <1>1, <1>3 DEF InHand
<1> QED
  BY <1>2, <1>3

\* A step that writes no row version keeps the balance; it may lock reservations.
LEMMA QuietTables ==
  ASSUME WellFormed, Consistent, NEW r \in Requests, OthersRest(r), ItemsStay,
         pc[r] # "reserve", pc'[r] # "reserve",
         UNCHANGED <<resv, stock, resvDraft, stockDraft, stockOwner>>,
         \A i \in Items : resvOwner'[i] = resvOwner[i] \/ resvOwner[i] = None
  PROVE  TablesBalance'
<1> USE DEF Consistent, TablesBalance
<1>1. DraftsAgree' /\ ClosedIsEmpty' /\ Balanced'
  BY DEF DraftsAgree, ClosedIsEmpty, Balanced, Totals, HeldUnits, HeldItems
<1>2. ChangedIsOwned'
  BY NoneIsFresh DEF ChangedIsOwned
<1>3. DraftsBalance'
  <2> SUFFICES ASSUME NEW s \in Stocks
               PROVE  /\ Loose(s)' => Totals(resvDraft, s, stockDraft[s].reserved)
                      /\ \A q \in Requests : InHand(q, s)' =>
                           /\ stockOwner[s] = q
                           /\ Totals(resvDraft, s,
                                     stockDraft[s].reserved - item'[cur'[q]].quantity)
    BY DEF DraftsBalance, Totals, HeldUnits, HeldItems
  <2>1. ~InHand(r, s) /\ ~InHand(r, s)'
    BY DEF InHand
  <2>2. \A q \in Requests : /\ (InHand(q, s)' <=> InHand(q, s))
                            /\ InHand(q, s) => item'[cur'[q]].quantity = item[cur[q]].quantity
    BY <2>1, HandsStay
  <2>3. Loose(s)' <=> Loose(s)
    BY <2>2 DEF Loose
  <2> QED
    BY <2>2, <2>3 DEF DraftsBalance
<1> QED
  BY <1>1, <1>2, <1>3

\* Both halves, for a step that touches no lock and writes no row version.
LEMMA QuietStep ==
  ASSUME WellFormed, Consistent, NEW r \in Requests, OthersRest(r), ItemsStay,
         pc[r] # "reserve", pc'[r] # "reserve", UNCHANGED <<resv, stock, locks>>,
         SessionsFit'
  PROVE  Consistent'
<1>1. TablesBalance'
  BY QuietTables, QuietLocks DEF locks
<1> QED
  BY <1>1 DEF Consistent

\* Reading the order writes nothing.
LEMMA ReadOrderConsistent ==
  ASSUME WellFormed, Consistent, NEW r \in Requests, NEW c \in OrderCalls, ReadOrder(r, c)
  PROVE  Consistent'
<1>1. SessionsFit'
  BY ReadOrderFits DEF Consistent
<1>2. /\ pc[r] = "idle" /\ pc'[r] = "read" /\ OthersRest(r)
      /\ UNCHANGED <<item, resv, stock, resvDraft, stockDraft, stockOwner, resvOwner>>
  BY DEF ReadOrder, Goto, tables, locks, OthersRest, WellFormed, TypeOK, SessionTyped
<1> QED
  BY <1>1, <1>2, QuietTables, QuietItems DEF Consistent

\* Reading its items writes nothing; the loops are over items of that order.
LEMMA ReadItemsConsistent ==
  ASSUME WellFormed, Consistent, NEW r \in Requests, ReadItems(r) PROVE Consistent'
<1>1. SessionsFit'
  BY ReadItemsFits DEF Consistent, TablesBalance
<1>2. /\ pc[r] = "read" /\ pc'[r] = "work" /\ OthersRest(r)
      /\ UNCHANGED <<item, resv, stock, resvDraft, stockDraft, stockOwner, resvOwner>>
  BY DEF ReadItems, Goto, tables, locks, OthersRest, WellFormed, TypeOK, SessionTyped
<1> QED
  BY <1>1, <1>2, QuietTables, QuietItems DEF Consistent

\* A step that changes neither items, row versions, locks nor sessions.
LEMMA SameConsistent ==
  ASSUME Consistent,
         UNCHANGED <<item, resv, stock, resvDraft, resvOwner, stockDraft, stockOwner,
                     pc, call, todo, seen, cur>>
  PROVE  Consistent'
<1> USE DEF Consistent, TablesBalance
<1>1. SessionsFit'
  BY DEF SessionsFit, SessionFits, Locks
<1>2. DraftsAgree' /\ ChangedIsOwned' /\ ClosedIsEmpty'
  BY DEF DraftsAgree, ChangedIsOwned, ClosedIsEmpty
<1>3. Balanced'
  BY DEF Balanced, Totals, HeldUnits, HeldItems
<1>4. DraftsBalance'
  <2>1. \A s \in Stocks, r \in Requests : InHand(r, s)' <=> InHand(r, s)
    BY DEF InHand, ItemStock
  <2>2. \A s \in Stocks : Loose(s)' <=> Loose(s)
    BY <2>1 DEF Loose
  <2> QED
    BY <2>1, <2>2 DEF DraftsBalance, Totals, HeldUnits, HeldItems
<1> QED
  BY <1>1, <1>2, <1>3, <1>4

\* add_item and remove_item touch no reservation and no stock row.
LEMMA ItemsConsistent ==
  ASSUME WellFormed, Consistent, NEW r \in Requests, [Next]_vars,
         PickItem(r) \/ \E i \in Items : AddItem(r, i) \/ RemoveItem(r, i)
  PROVE  Consistent'
<1>1. /\ pc[r] \in {"read", "work"} /\ UNCHANGED <<resv, stock, locks>>
      /\ PickItem(r) \/ End(r)
  BY DEF PickItem, AddItem, RemoveItem, tables
<1>2. OthersRest(r) /\ pc'[r] # "reserve" /\ ItemsStay
  BY <1>1, PickItemFits, EndRest, ItemStepItems, QuietItems DEF PickItem, tables, Consistent
<1>3. SessionsFit'
  BY NextSessionsFit DEF Consistent
<1> QED
  BY <1>1, <1>2, <1>3, QuietStep

\* initialize_stock reads its row back, and alerts are sent, outside every transaction.
LEMMA OutsideConsistent ==
  ASSUME WellFormed, Consistent, NEW r \in Requests,
         RefreshOpened(r) \/ \E s \in Stocks : DeferAlert(r, s) \/ LoseAlert(r, s)
  PROVE  Consistent'
<1>1. pc[r] \in {"opened", "flush"} /\ UNCHANGED <<item, resv, stock, locks>>
  BY DEF RefreshOpened, DeferAlert, LoseAlert, tables
<1>2. SessionsFit' /\ OthersRest(r) /\ pc'[r] # "reserve"
  BY DeskFits DEF Consistent
<1> QED
  BY <1>1, <1>2, QuietStep, QuietItems

\* A one-statement transaction keeps the balance if it leaves `reserved` alone.
LEMMA WriteStockTables ==
  ASSUME WellFormed, Consistent, NEW r \in Requests, OthersRest(r),
         pc[r] # "reserve", pc'[r] # "reserve",
         NEW s \in Stocks, NEW row \in Row, WriteStock(s, row),
         row.reserved = stock[s].reserved, row.live \/ row.reserved = 0
  PROVE  TablesBalance'
<1> USE DEF Consistent, TablesBalance
<1>1. /\ UNCHANGED <<item, resv, resvDraft, resvOwner, stockOwner>> /\ stockOwner[s] = None
      /\ \A t \in Stocks : /\ stock'[t] = (IF t = s THEN row ELSE stock[t])
                           /\ stockDraft'[t] = (IF t = s THEN row ELSE stockDraft[t])
  BY DEF WriteStock, WellFormed, TypeOK, TablesTyped, LocksTyped
<1>2. stockDraft[s] = stock[s]
  BY <1>1 DEF DraftsAgree
<1>3. \A t \in Stocks : /\ stock'[t].reserved = stock[t].reserved
                        /\ stockDraft'[t].reserved = stockDraft[t].reserved
  BY <1>1, <1>2
<1>4. DraftsAgree' /\ ClosedIsEmpty' /\ ChangedIsOwned'
  BY <1>1, <1>2 DEF DraftsAgree, ClosedIsEmpty, ChangedIsOwned
<1>5. Balanced'
  BY <1>1, <1>3 DEF Balanced, Totals, HeldUnits, HeldItems
<1>6. DraftsBalance'
  <2> SUFFICES ASSUME NEW t \in Stocks
               PROVE  /\ Loose(t)' => Totals(resvDraft', t, stockDraft'[t].reserved)
                      /\ \A q \in Requests : InHand(q, t)' =>
                           /\ stockOwner'[t] = q
                           /\ Totals(resvDraft', t,
                                     stockDraft'[t].reserved - item'[cur'[q]].quantity)
    BY DEF DraftsBalance, Totals, HeldUnits, HeldItems
  <2>1. ~InHand(r, t) /\ ~InHand(r, t)' /\ ItemsStay
    BY <1>1, QuietItems DEF InHand
  <2>2. \A q \in Requests : /\ (InHand(q, t)' <=> InHand(q, t))
                            /\ InHand(q, t) => item'[cur'[q]].quantity = item[cur[q]].quantity
    BY <2>1, HandsStay
  <2>3. Loose(t)' <=> Loose(t)
    BY <2>2 DEF Loose
  <2> QED
    BY <1>1, <1>3, <2>2, <2>3 DEF DraftsBalance
<1> QED
  BY <1>4, <1>5, <1>6

\* Both halves.
LEMMA WriteStockStep ==
  ASSUME WellFormed, Consistent, NEW r \in Requests, OthersRest(r),
         pc[r] # "reserve", pc'[r] # "reserve",
         SessionsFit',
         NEW s \in Stocks, NEW row \in Row, WriteStock(s, row),
         row.reserved = stock[s].reserved, row.live \/ row.reserved = 0
  PROVE  Consistent'
  BY WriteStockTables DEF Consistent

\* The stock desk never touches `reserved`: first commit.
LEMMA MoveStockConsistent ==
  ASSUME WellFormed, Consistent, NEW r \in Requests, NEW c \in StockCalls, MoveStock(r, c)
  PROVE  Consistent'
<1> DEFINE s == c.stock
           row == Synced(MovedRow(c), ReorderPoint[s])
<1>1. /\ s \in Stocks /\ c.op \in MoveOps /\ pc[r] = "idle" /\ stock[s] \in Row
      /\ stock[s].live /\ MovedRow(c) \in Row /\ ReorderPoint[s] \in Nat
      /\ row \in Row /\ WriteStock(s, row)
  BY MoveStockEffect
<1>2. row.reserved = stock[s].reserved /\ row.live
  <2>1. row.reserved = MovedRow(c).reserved /\ row.live = MovedRow(c).live
    BY <1>1, SyncedRow
  <2>2. MovedRow(c).reserved = stock[s].reserved /\ MovedRow(c).live = stock[s].live
    BY <1>1 DEF MovedRow, Row
  <2> QED
    BY <1>1, <2>1, <2>2
<1> HIDE DEF s, row
<1>3. SessionsFit' /\ OthersRest(r) /\ pc'[r] # "reserve"
  BY DeskFits DEF Consistent
<1> QED
  BY <1>1, <1>2, <1>3, WriteStockStep

\* initialize_stock opens a row that no reservation holds.
LEMMA InitializeStockConsistent ==
  ASSUME WellFormed, Consistent, NEW r \in Requests, NEW c \in StockCalls, InitializeStock(r, c)
  PROVE  Consistent'
<1> DEFINE s == c.stock
           row == NewRow(c.quantity)
<1>1. /\ pc[r] = "idle" /\ c \in Calls /\ c.op = "initialize_stock" /\ ~stock[s].live
      /\ WriteStock(s, row)
  BY DEF InitializeStock, Calls
<1>2. s \in Stocks /\ row \in Row /\ row.reserved = 0
  <2>1. c.stock \in Stocks /\ c.quantity \in Nat
    BY <1>1, CallFields
  <2> QED
    BY <2>1, NewRowTyped DEF NewRow
<1>3. stock[s].reserved = 0
  BY <1>1, <1>2 DEF Consistent, TablesBalance, ClosedIsEmpty
<1> HIDE DEF s, row
<1>4. SessionsFit' /\ OthersRest(r) /\ pc'[r] # "reserve"
  BY DeskFits DEF Consistent
<1> QED
  BY <1>1, <1>2, <1>3, <1>4, WriteStockStep

\* Its second commits write the movement or the flag.
LEMMA SecondCommitConsistent ==
  ASSUME WellFormed, Consistent, NEW r \in Requests, RecordMovement(r) \/ MarkOpened(r)
  PROVE  Consistent'
<1> DEFINE s == call[r].stock
<1>0. SessionsFit' /\ OthersRest(r) /\ pc'[r] # "reserve"
  BY DeskFits DEF Consistent
<1>1. ASSUME NEW row \in Row, WriteStock(s, row), s \in Stocks,
             pc[r] \in {"movement", "mark"}, stock[s] \in Row,
             row.reserved = stock[s].reserved, row.live = stock[s].live
      PROVE  Consistent'
  <2>1. row.live \/ row.reserved = 0
    BY <1>1 DEF Consistent, TablesBalance, ClosedIsEmpty
  <2> QED
    BY <1>0, <1>1, <2>1, WriteStockStep
<1>2. CASE RecordMovement(r)
  <2>1. /\ s \in Stocks /\ stock[s] \in Row /\ delta[r] \in Int
        /\ Recorded(stock[s], delta[r]) \in Row /\ ReorderPoint[s] \in Nat
    BY <1>2, RecordMovementEffect, StockConstants
  <2>2. /\ Recorded(stock[s], delta[r]).reserved = stock[s].reserved
        /\ Recorded(stock[s], delta[r]).live = stock[s].live
    BY <2>1, RecordedRow
  <2>3. /\ pc[r] = "movement" /\ WriteStock(s, Recorded(stock[s], delta[r]))
    BY <1>2 DEF RecordMovement
  <2> QED
    BY <1>1, <2>1, <2>2, <2>3
<1>3. CASE MarkOpened(r)
  <2> DEFINE row == [stock[s] EXCEPT !.alerted = TRUE]
  <2>1. /\ pc[r] = "mark" /\ WriteStock(s, row)
    BY <1>3 DEF MarkOpened
  <2>2. s \in Stocks /\ stock[s] \in Row
    BY <2>1, OpenedStock
  <2>3. row \in Row /\ row.reserved = stock[s].reserved /\ row.live = stock[s].live
    BY <2>2 DEF Row
  <2> QED
    BY <1>1, <2>1, <2>2, <2>3
<1> QED
  BY <1>2, <1>3

\* Whoever changes a reservation owns the stock row it is, or was, held on.
LEMMA ChangedHolds ==
  ASSUME ChangedIsOwned, NEW i \in Items, NEW s, resvDraft[i] # resv[i],
         HoldsAt(resvDraft[i], s) \/ HoldsAt(resv[i], s)
  PROVE  resvOwner[i] \in Requests /\ stockOwner[s] = resvOwner[i]
  BY DEF ChangedIsOwned, HoldsAt, NoResv

\* ROLLBACK gives back what the request had reserved, on its own rows only.
LEMMA GivesUpConsistent ==
  ASSUME WellFormed, Consistent, NEW r \in Requests, Rollback(r), End(r)
  PROVE  Consistent'
<1> USE DEF Consistent, TablesBalance
<1>1. /\ UNCHANGED <<item, resv, stock>> /\ r # None
      /\ \A i \in Items :
           /\ resvDraft'[i] = (IF resvOwner[i] = r THEN resv[i] ELSE resvDraft[i])
           /\ resvOwner'[i] = (IF resvOwner[i] = r THEN None ELSE resvOwner[i])
      /\ \A s \in Stocks :
           /\ stockDraft'[s] = (IF stockOwner[s] = r THEN stock[s] ELSE stockDraft[s])
           /\ stockOwner'[s] = (IF stockOwner[s] = r THEN None ELSE stockOwner[s])
  BY NoneIsFresh DEF Rollback, tables
<1>3. OthersRest(r) /\ pc'[r] = "idle"
  BY EndRest DEF End, WellFormed, TypeOK, SessionTyped
<1>4. ItemsStay
  BY <1>1, QuietItems
<1>5. SessionsFit'
  BY <1>1, TransactionEndFits
<1>6. DraftsAgree' /\ ClosedIsEmpty'
  BY <1>1 DEF DraftsAgree, ClosedIsEmpty
<1>7. ChangedIsOwned'
  <2> SUFFICES ASSUME NEW i \in Items, resvDraft'[i] # resv[i]
               PROVE  /\ resvOwner'[i] \in Requests
                      /\ resvDraft'[i] # NoResv
                      /\ stockOwner'[resvDraft'[i].stock] = resvOwner'[i]
                      /\ resv[i] # NoResv => resv[i].stock = resvDraft'[i].stock
    BY <1>1 DEF ChangedIsOwned
  <2>1. resvOwner[i] # r /\ resvDraft'[i] = resvDraft[i] /\ resvOwner'[i] = resvOwner[i]
    BY <1>1
  <2>2. resvDraft[i].stock \in Stocks
    BY <2>1, ResvFields DEF ChangedIsOwned, WellFormed, TypeOK, LocksTyped
  <2> QED
    BY <1>1, <2>1, <2>2 DEF ChangedIsOwned
<1>8. Balanced'
  BY <1>1 DEF Balanced, Totals, HeldUnits, HeldItems
<1>9. ASSUME NEW s \in Stocks, stockOwner[s] = r
      PROVE  /\ Totals(resvDraft', s, stockDraft'[s].reserved)
             /\ \A q \in Requests : ~InHand(q, s)'
  <2>1. Totals(resv, s, stock[s].reserved)
    BY DEF Balanced
  <2>2. \A i \in Items : \/ resvDraft'[i] = resv[i]
                         \/ ~HoldsAt(resv[i], s) /\ ~HoldsAt(resvDraft'[i], s)
    BY <1>1, <1>9, ChangedHolds
  <2>3. Totals(resvDraft', s, stock[s].reserved)
    BY <2>1, <2>2, SameHolds
  <2>4. \A q \in Requests : ~InHand(q, s)'
    BY <1>3, <1>4, <1>9, HandsStay DEF DraftsBalance, InHand
  <2> QED
    BY <1>1, <1>9, <2>3, <2>4
<1>10. ASSUME NEW s \in Stocks, stockOwner[s] # r
       PROVE  /\ Loose(s)' => Totals(resvDraft', s, stockDraft'[s].reserved)
              /\ \A q \in Requests : InHand(q, s)' =>
                   /\ stockOwner'[s] = q
                   /\ Totals(resvDraft', s,
                             stockDraft'[s].reserved - item'[cur'[q]].quantity)
  <2>1. \A i \in Items : \/ resvDraft'[i] = resvDraft[i]
                         \/ ~HoldsAt(resvDraft[i], s) /\ ~HoldsAt(resvDraft'[i], s)
    BY <1>1, <1>10, ChangedHolds
  <2>2. ~InHand(r, s) /\ ~InHand(r, s)'
    BY <1>3, <1>10 DEF InHand, DraftsBalance
  <2>3. \A q \in Requests : /\ (InHand(q, s)' <=> InHand(q, s))
                            /\ InHand(q, s) => item'[cur'[q]].quantity = item[cur[q]].quantity
    BY <1>3, <1>4, <2>2, HandsStay
  <2>4. Loose(s)' <=> Loose(s)
    BY <2>3 DEF Loose
  <2>5. stockOwner'[s] = stockOwner[s] /\ stockDraft'[s] = stockDraft[s]
    BY <1>1, <1>10
  <2>6. Loose(s)' => Totals(resvDraft', s, stockDraft'[s].reserved)
    BY <2>1, <2>4, <2>5, SameHolds DEF DraftsBalance
  <2>7. ASSUME NEW q \in Requests, InHand(q, s)'
        PROVE  /\ stockOwner'[s] = q
               /\ Totals(resvDraft', s, stockDraft'[s].reserved - item'[cur'[q]].quantity)
    BY <2>1, <2>3, <2>5, <2>7, SameHolds DEF DraftsBalance
  <2> QED
    BY <2>6, <2>7
<1>11. DraftsBalance'
  BY <1>9, <1>10 DEF DraftsBalance, Totals, HeldUnits, HeldItems
<1> QED
  BY <1>5, <1>6, <1>7, <1>8, <1>11

\* COMMIT publishes the reservations of the request together with the counters of
\* the rows they are held on.
LEMMA CommitConsistent ==
  ASSUME WellFormed, Consistent, NEW r \in Requests, Commit(r), item' = item,
         pc[r] = "work", NEW alerts, FlushThenEnd(r, alerts) \/ End(r)
  PROVE  Consistent'
<1> USE DEF Consistent, TablesBalance
<1>1. /\ UNCHANGED <<resvDraft, stockDraft>> /\ r # None
      /\ \A i \in Items :
           /\ resv'[i] = (IF resvOwner[i] = r THEN resvDraft[i] ELSE resv[i])
           /\ resvOwner'[i] = (IF resvOwner[i] = r THEN None ELSE resvOwner[i])
      /\ \A s \in Stocks :
           /\ stock'[s] = (IF stockOwner[s] = r THEN stockDraft[s] ELSE stock[s])
           /\ stockOwner'[s] = (IF stockOwner[s] = r THEN None ELSE stockOwner[s])
  BY NoneIsFresh DEF Commit
<1>3. OthersRest(r) /\ pc'[r] \in {"idle", "flush"}
  BY EndRest
<1>4. ItemsStay
  BY QuietItems
<1>5. SessionsFit'
  BY TransactionEndFits
<1>6. DraftsAgree' /\ ClosedIsEmpty'
  BY <1>1 DEF DraftsAgree, ClosedIsEmpty
<1>7. ChangedIsOwned'
  <2> SUFFICES ASSUME NEW i \in Items, resvDraft[i] # resv'[i]
               PROVE  /\ resvOwner'[i] \in Requests
                      /\ resvDraft[i] # NoResv
                      /\ stockOwner'[resvDraft[i].stock] = resvOwner'[i]
                      /\ resv'[i] # NoResv => resv'[i].stock = resvDraft[i].stock
    BY <1>1 DEF ChangedIsOwned
  <2>1. resvOwner[i] # r /\ resv'[i] = resv[i] /\ resvOwner'[i] = resvOwner[i]
    BY <1>1
  <2>2. resvDraft[i].stock \in Stocks
    BY <2>1, ResvFields DEF ChangedIsOwned, WellFormed, TypeOK, LocksTyped
  <2> QED
    BY <1>1, <2>1, <2>2 DEF ChangedIsOwned
<1>8. \A s : ~InHand(r, s) /\ ~InHand(r, s)'
  BY <1>3 DEF InHand
<1>9. ASSUME NEW s \in Stocks PROVE Totals(resv', s, stock'[s].reserved)
  <2>1. CASE stockOwner[s] = r
    <3>1. Loose(s)
      BY <1>8, <2>1 DEF Loose, DraftsBalance
    <3>2. Totals(resvDraft, s, stockDraft[s].reserved)
      BY <3>1 DEF DraftsBalance
    <3>3. \A i \in Items : \/ resv'[i] = resvDraft[i]
                           \/ ~HoldsAt(resvDraft[i], s) /\ ~HoldsAt(resv'[i], s)
      BY <1>1, <2>1, ChangedHolds
    <3> QED
      BY <1>1, <2>1, <3>2, <3>3, SameHolds
  <2>2. CASE stockOwner[s] # r
    <3>1. Totals(resv, s, stock[s].reserved)
      BY DEF Balanced
    <3>2. \A i \in Items : \/ resv'[i] = resv[i]
                           \/ ~HoldsAt(resv[i], s) /\ ~HoldsAt(resv'[i], s)
      BY <1>1, <2>2, ChangedHolds
    <3> QED
      BY <1>1, <2>2, <3>1, <3>2, SameHolds
  <2> QED
    BY <2>1, <2>2
<1>10. Balanced'
  BY <1>9 DEF Balanced, Totals, HeldUnits, HeldItems
<1>11. DraftsBalance'
  <2> SUFFICES ASSUME NEW s \in Stocks
               PROVE  /\ Loose(s)' => Totals(resvDraft', s, stockDraft'[s].reserved)
                      /\ \A q \in Requests : InHand(q, s)' =>
                           /\ stockOwner'[s] = q
                           /\ Totals(resvDraft', s,
                                     stockDraft'[s].reserved - item'[cur'[q]].quantity)
    BY DEF DraftsBalance, Totals, HeldUnits, HeldItems
  <2>1. \A q \in Requests : /\ (InHand(q, s)' <=> InHand(q, s))
                            /\ InHand(q, s) => item'[cur'[q]].quantity = item[cur[q]].quantity
    BY <1>3, <1>4, <1>8, HandsStay
  <2>2. Loose(s)' <=> Loose(s)
    BY <2>1 DEF Loose
  <2>3. \A q \in Requests : InHand(q, s) => stockOwner'[s] = q
    BY <1>1, <1>8 DEF DraftsBalance
  <2> QED
    BY <1>1, <2>1, <2>2, <2>3 DEF DraftsBalance
<1> QED
  BY <1>5, <1>6, <1>7, <1>10, <1>11

\* The FOR UPDATE of a reservation locks it and writes nothing.
LEMMA LockReservationConsistent ==
  ASSUME WellFormed, Consistent, NEW r \in Requests, NEW i \in Items, LockReservation(r, i)
  PROVE  Consistent'
<1>1. /\ pc[r] = "work" /\ call[r].op \in {"cancel", "complete"}
      /\ i \in todo[r] /\ i \in seen[r] /\ resvOwner[i] = None
      /\ pc' = [pc EXCEPT ![r] = "settle"] /\ cur' = [cur EXCEPT ![r] = i]
      /\ resvOwner' = [resvOwner EXCEPT ![i] = r]
      /\ UNCHANGED <<item, resv, stock, resvDraft, stockDraft, stockOwner, call, todo, seen>>
  BY DEF LockReservation, Settling, Goto, tables
<1>2. /\ OthersRest(r) /\ pc'[r] = "settle" /\ cur'[r] = i
      /\ \A j \in Items : resvOwner'[j] = (IF j = i THEN r ELSE resvOwner[j])
  BY <1>1 DEF WellFormed, TypeOK, SessionTyped, LocksTyped, OthersRest
<1>3. SessionsFit'
  BY LockReservationFits DEF Consistent
<1>4. TablesBalance'
  BY <1>1, <1>2, QuietTables, QuietItems
<1> QED
  BY <1>3, <1>4 DEF Consistent

\* A write of the newest version of one stock row, by a request at work.
LEMMA OtherRowsBalance ==
  ASSUME WellFormed, Consistent, NEW r \in Requests, OthersRest(r), ItemsStay,
         NEW s \in Stocks, NEW t \in Stocks, t # s,
         ~InHand(r, t), ~InHand(r, t)', stockDraft'[t] = stockDraft[t],
         stockOwner'[t] = stockOwner[t],
         \A i \in Items : \/ resvDraft'[i] = resvDraft[i]
                          \/ ~HoldsAt(resvDraft[i], t) /\ ~HoldsAt(resvDraft'[i], t)
  PROVE  /\ Loose(t)' => Totals(resvDraft', t, stockDraft'[t].reserved)
         /\ \A q \in Requests : InHand(q, t)' =>
              /\ stockOwner'[t] = q
              /\ Totals(resvDraft', t, stockDraft'[t].reserved - item'[cur'[q]].quantity)
<1>1. \A q \in Requests : /\ (InHand(q, t)' <=> InHand(q, t))
                          /\ InHand(q, t) => item'[cur'[q]].quantity = item[cur[q]].quantity
  BY HandsStay DEF Consistent
<1>2. Loose(t)' <=> Loose(t)
  BY <1>1 DEF Loose
<1>3. Loose(t)' => Totals(resvDraft', t, stockDraft'[t].reserved)
  BY <1>2, SameHolds DEF Consistent, TablesBalance, DraftsBalance
<1>4. ASSUME NEW q \in Requests, InHand(q, t)'
      PROVE  /\ stockOwner'[t] = q
             /\ Totals(resvDraft', t, stockDraft'[t].reserved - item'[cur'[q]].quantity)
  BY <1>1, <1>4, SameHolds DEF Consistent, TablesBalance, DraftsBalance
<1> QED
  BY <1>3, <1>4

\* A row that r may write is in nobody else's hand.
LEMMA FreeRowIsLoose ==
  ASSUME WellFormed, Consistent, NEW r \in Requests, pc[r] # "reserve",
         NEW s \in Stocks, Free(stockOwner[s], r)
  PROVE  Loose(s) /\ Totals(resvDraft, s, stockDraft[s].reserved)
<1>1. Loose(s)
  BY NoneIsFresh DEF Loose, InHand, Free, Consistent, TablesBalance, DraftsBalance
<1> QED
  BY <1>1 DEF Consistent, TablesBalance, DraftsBalance

\* reserve_for_item raises the counter first; the units are in hand until the INSERT.
LEMMA ReserveStockConsistent ==
  ASSUME WellFormed, Consistent, NEW r \in Requests, NEW i \in Items, ReserveStock(r, i)
  PROVE  Consistent'
<1>0. ItemStock(r, i) \in Stocks /\ item[i].quantity \in Nat
  <2>1. call[r] \in Calls /\ call[r].op = "confirm" /\ item[i] # NoItem
    BY DEF ReserveStock, WellFormed, TypeOK, SessionTyped, SessionsMakeSense, StepFitsCall
  <2>2. call[r].location \in Locations
    BY <2>1, CallFields
  <2>3. item[i].product \in Products /\ item[i].quantity \in Nat
    BY <2>1, ItemFields DEF WellFormed, TypeOK, TablesTyped
  <2> QED
    BY <2>2, <2>3 DEF ItemStock, Stocks
<1>2. PICK s \in Stocks, q \in Nat : s = ItemStock(r, i) /\ q = item[i].quantity
  BY <1>0
<1> DEFINE row == Synced(WithReserved(stockDraft[s], q), ReorderPoint[s])
<1>1. /\ pc[r] = "work" /\ call[r].op = "confirm" /\ i \in todo[r]
      /\ Free(stockOwner[s], r) /\ Covers(stockDraft[s], q)
      /\ stockOwner' = [stockOwner EXCEPT ![s] = r]
      /\ stockDraft' = [stockDraft EXCEPT ![s] = row]
      /\ cur' = [cur EXCEPT ![r] = i] /\ pc' = [pc EXCEPT ![r] = "reserve"]
      /\ UNCHANGED <<item, resv, stock, resvDraft, resvOwner, call, todo, seen>>
  BY <1>2 DEF ReserveStock, CanReserve, Goto, tables
<1>3. row.reserved = stockDraft[s].reserved + q /\ row.live
  <2>1. /\ stockDraft[s] \in Row /\ ReorderPoint[s] \in Nat /\ q \in Int
        /\ stockDraft[s].live
    BY <1>1, <1>2, RowNumbers DEF Covers
  <2>2. /\ WithReserved(stockDraft[s], q) \in Row
        /\ WithReserved(stockDraft[s], q).reserved = stockDraft[s].reserved + q
        /\ WithReserved(stockDraft[s], q).live
    BY <2>1, ReservingRow
  <2> QED
    BY <2>1, <2>2, SyncedRow
<1>4. /\ OthersRest(r) /\ pc'[r] = "reserve" /\ cur'[r] = i
      /\ \A t \in Stocks : /\ stockOwner'[t] = (IF t = s THEN r ELSE stockOwner[t])
                           /\ stockDraft'[t] = (IF t = s THEN row ELSE stockDraft[t])
  BY <1>1, <1>2 DEF WellFormed, TypeOK, SessionTyped, LocksTyped, OthersRest
<1>5. ItemsStay
  BY <1>1, QuietItems
<1>6. s = ItemStock(r, i)' /\ q = item'[i].quantity
  BY <1>1, <1>2 DEF ItemStock
<1>7. InHand(r, s)' /\ \A t : t # s => ~InHand(r, t)'
  BY <1>4, <1>6 DEF InHand, ItemStock
<1> HIDE DEF row
<1>9. SessionsFit'
  BY ReserveStockFits DEF Consistent
<1>10. DraftsAgree' /\ ClosedIsEmpty' /\ Balanced'
  <2>1. DraftsAgree'
    BY <1>1, <1>4, NoneIsFresh DEF Consistent, TablesBalance, DraftsAgree
  <2>2. ClosedIsEmpty'
    BY <1>1, <1>3, <1>4 DEF Consistent, TablesBalance, ClosedIsEmpty
  <2>3. Balanced'
    BY <1>1 DEF Consistent, TablesBalance, Balanced, Totals, HeldUnits, HeldItems
  <2> QED
    BY <2>1, <2>2, <2>3
<1>11. ChangedIsOwned'
  <2> SUFFICES ASSUME NEW j \in Items, resvDraft[j] # resv[j]
               PROVE  /\ resvOwner[j] \in Requests
                      /\ resvDraft[j] # NoResv
                      /\ stockOwner'[resvDraft[j].stock] = resvOwner[j]
                      /\ resv[j] # NoResv => resv[j].stock = resvDraft[j].stock
    BY <1>1 DEF ChangedIsOwned
  <2>1. /\ resvOwner[j] \in Requests /\ resvDraft[j] # NoResv
        /\ stockOwner[resvDraft[j].stock] = resvOwner[j]
        /\ resv[j] # NoResv => resv[j].stock = resvDraft[j].stock
    BY DEF Consistent, TablesBalance, ChangedIsOwned
  <2>2. resvDraft[j].stock \in Stocks
    BY <2>1, ResvFields DEF WellFormed, TypeOK, LocksTyped
  <2> QED
    BY <1>1, <1>4, <2>1, <2>2, NoneIsFresh DEF Free
<1>12. DraftsBalance'
  <2> SUFFICES ASSUME NEW t \in Stocks
               PROVE  /\ Loose(t)' => Totals(resvDraft', t, stockDraft'[t].reserved)
                      /\ \A p \in Requests : InHand(p, t)' =>
                           /\ stockOwner'[t] = p
                           /\ Totals(resvDraft', t,
                                     stockDraft'[t].reserved - item'[cur'[p]].quantity)
    BY DEF DraftsBalance, Totals, HeldUnits, HeldItems
  <2>1. CASE t # s
    <3>1. ~InHand(r, t) /\ ~InHand(r, t)'
      BY <1>1, <1>7, <2>1 DEF InHand
    <3>2. /\ stockDraft'[t] = stockDraft[t] /\ stockOwner'[t] = stockOwner[t]
          /\ resvDraft' = resvDraft
      BY <1>1, <1>4, <2>1
    <3> QED
      BY <1>2, <1>4, <1>5, <2>1, <3>1, <3>2, OtherRowsBalance
  <2>2. CASE t = s
    <3>1. Loose(s) /\ Totals(resvDraft, s, stockDraft[s].reserved)
      BY <1>1, <1>2, FreeRowIsLoose
    <3>2. \A p \in Requests \ {r} : InHand(p, s)' <=> InHand(p, s)
      BY <1>4, <1>5, HandsStay DEF Consistent
    <3>2a. \A p \in Requests : InHand(p, s)' => p = r
      BY <3>1, <3>2 DEF Loose
    <3>3. stockDraft'[s].reserved - item'[cur'[r]].quantity = stockDraft[s].reserved
      BY <1>2, <1>3, <1>4, <1>6, RowNumbers
    <3>4. ~Loose(s)'
      BY <1>7 DEF Loose
    <3> QED
      BY <1>1, <1>2, <1>4, <2>2, <3>1, <3>2a, <3>3, <3>4
  <2> QED
    BY <2>1, <2>2
<1> QED
  BY <1>9, <1>10, <1>11, <1>12 DEF Consistent, TablesBalance

\* The INSERT turns the units in hand into a reservation that holds them.
LEMMA InsertReservationConsistent ==
  ASSUME WellFormed, Consistent, NEW r \in Requests, InsertReservation(r)
  PROVE  Consistent'
<1>1. /\ pc[r] = "reserve" /\ cur[r] \in todo[r] /\ cur[r] \in Items
      /\ item[cur[r]] # NoItem /\ call[r].op = "confirm" /\ call[r] \in Calls
  BY DEF InsertReservation, WellFormed, TypeOK, SessionTyped, SessionsMakeSense, StepFitsCall
<1>2. PICK i \in Items : i = cur[r]
  BY <1>1
<1>3. ItemStock(r, i) \in Stocks /\ item[i].quantity \in Nat
  <2>1. call[r].location \in Locations
    BY <1>1, CallFields
  <2>2. item[i].product \in Products /\ item[i].quantity \in Nat
    BY <1>1, <1>2, ItemFields DEF WellFormed, TypeOK, TablesTyped
  <2> QED
    BY <2>1, <2>2 DEF ItemStock, Stocks
<1>4. PICK s \in Stocks, q \in Nat : s = ItemStock(r, i) /\ q = item[i].quantity
  BY <1>3
<1> DEFINE row == [status |-> "reserved", stock |-> s, quantity |-> q]
<1>5. /\ resvOwner[i] = None /\ resv[i] = NoResv
      /\ resvOwner' = [resvOwner EXCEPT ![i] = r]
      /\ resvDraft' = [resvDraft EXCEPT ![i] = row]
      /\ todo' = [todo EXCEPT ![r] = todo[r] \ {i}] /\ cur' = [cur EXCEPT ![r] = None]
      /\ pc' = [pc EXCEPT ![r] = "work"]
      /\ UNCHANGED <<item, resv, stock, stockDraft, stockOwner, call, seen>>
  BY <1>2, <1>4 DEF InsertReservation, Goto, tables, WellFormed, TypeOK, SessionTyped
<1>6. /\ OthersRest(r) /\ pc'[r] = "work" /\ todo'[r] = todo[r] \ {i}
      /\ \A j \in Items : /\ resvOwner'[j] = (IF j = i THEN r ELSE resvOwner[j])
                          /\ resvDraft'[j] = (IF j = i THEN row ELSE resvDraft[j])
  BY <1>5 DEF WellFormed, TypeOK, SessionTyped, LocksTyped, OthersRest
<1>7. row.status = "reserved" /\ row.stock = s /\ row.quantity = q /\ row # NoResv
  BY DEF NoResv
<1> HIDE DEF row
<1>8. resvDraft[i] = NoResv /\ \A t : ~HoldsAt(resvDraft[i], t)
  BY <1>5, NoneIsFresh DEF Consistent, TablesBalance, ChangedIsOwned, HoldsAt, NoResv
<1>9. InHand(r, s) /\ \A t : t # s => ~InHand(r, t)
  BY <1>1, <1>2, <1>4 DEF InHand
<1>10. /\ stockOwner[s] = r /\ Totals(resvDraft, s, stockDraft[s].reserved - q)
       /\ stockDraft[s].reserved \in Int
  BY <1>2, <1>4, <1>9, RowNumbers DEF Consistent, TablesBalance, DraftsBalance
<1>11. ItemsStay
  BY <1>5, QuietItems
<1>12. SessionsFit'
  BY InsertReservationFits DEF Consistent
<1>13. DraftsAgree' /\ ClosedIsEmpty' /\ Balanced'
  BY <1>5 DEF Consistent, TablesBalance, DraftsAgree, ClosedIsEmpty, Balanced, Totals,
              HeldUnits, HeldItems
<1>14. ChangedIsOwned'
  BY <1>5, <1>6, <1>7, <1>10 DEF Consistent, TablesBalance, ChangedIsOwned
<1>15. DraftsBalance'
  <2> SUFFICES ASSUME NEW t \in Stocks
               PROVE  /\ Loose(t)' => Totals(resvDraft', t, stockDraft'[t].reserved)
                      /\ \A p \in Requests : InHand(p, t)' =>
                           /\ stockOwner'[t] = p
                           /\ Totals(resvDraft', t,
                                     stockDraft'[t].reserved - item'[cur'[p]].quantity)
    BY DEF DraftsBalance, Totals, HeldUnits, HeldItems
  <2>1. ~InHand(r, t)'
    BY <1>6 DEF InHand
  <2>2. CASE t # s
    <3>1. \A j \in Items : \/ resvDraft'[j] = resvDraft[j]
                           \/ ~HoldsAt(resvDraft[j], t) /\ ~HoldsAt(resvDraft'[j], t)
      BY <1>6, <1>7, <1>8, <2>2 DEF HoldsAt
    <3>2. ~InHand(r, t) /\ stockDraft'[t] = stockDraft[t] /\ stockOwner'[t] = stockOwner[t]
      BY <1>5, <1>9, <2>2
    <3> QED
      BY <1>6, <1>11, <2>1, <2>2, <3>1, <3>2, OtherRowsBalance
  <2>3. CASE t = s
    <3>1. \A p \in Requests \ {r} : ~InHand(p, s)
      BY <1>10 DEF Consistent, TablesBalance, DraftsBalance
    <3>2. \A p \in Requests \ {r} : ~InHand(p, s)'
      BY <1>6, <1>11, <3>1, HandsStay DEF Consistent
    <3>3. Totals(resvDraft', s, (stockDraft[s].reserved - q) + q)
      <4>1. /\ HoldsAt(resvDraft'[i], s) /\ ~HoldsAt(resvDraft[i], s)
            /\ resvDraft'[i].quantity = q
            /\ \A j \in Items \ {i} : resvDraft'[j] = resvDraft[j]
        BY <1>6, <1>7, <1>8 DEF HoldsAt
      <4>2. stockDraft[s].reserved - q \in Int
        BY <1>10
      <4> QED
        BY <1>10, <4>1, <4>2, OneHoldMore
    <3>4. (stockDraft[s].reserved - q) + q = stockDraft'[s].reserved
      BY <1>5, <1>10
    <3> QED
      BY <2>1, <2>3, <3>2, <3>3, <3>4
  <2> QED
    BY <2>2, <2>3
<1> QED
  BY <1>12, <1>13, <1>14, <1>15 DEF Consistent, TablesBalance

\* A reservation that a loop found RESERVED and has still to settle is still
\* RESERVED, whatever the identity map may have missed.
SeenHolds ==
    \A r \in Requests : \A i \in todo[r] \cap seen[r] :
        resv[i].status = "reserved" /\ resvDraft[i].status = "reserved"

\* release_for_item and fulfill_for_item lower the counter by what the reservation
\* held: it was still RESERVED when its row lock was taken.
LEMMA SettleStockConsistent ==
  ASSUME WellFormed, Consistent, SeenHolds, NEW r \in Requests, SettleStock(r)
  PROVE  Consistent'
<1>1. pc[r] = "settle"
  BY DEF SettleStock
<1>2. /\ cur[r] \in Items /\ cur[r] \in todo[r] /\ resv[cur[r]] # NoResv
      /\ resvDraft[cur[r]] # NoResv /\ resvDraft[cur[r]] \in ResvRows
      /\ resvDraft[cur[r]].stock \in Stocks /\ resvDraft[cur[r]].quantity \in Nat \ {0}
  <2>1. /\ cur[r] \in Items /\ cur[r] \in todo[r] /\ resv[cur[r]] # NoResv
        /\ resvDraft[cur[r]] # NoResv /\ resvDraft[cur[r]] \in ResvRows
        /\ resvDraft[cur[r]].stock \in Stocks
    BY <1>1, SettlingItem
  <2>2. resvDraft[cur[r]].quantity \in Quantities
    BY <2>1, ResvFields
  <2> QED
    BY <2>1, <2>2, QuantitiesPositive
<1>3. PICK i \in Items, s \in Stocks, q \in Nat \ {0} :
        i = cur[r] /\ s = resvDraft[i].stock /\ q = resvDraft[i].quantity
  BY <1>2
<1>4. /\ Free(stockOwner[s], r)
      /\ stockOwner' = [stockOwner EXCEPT ![s] = r]
      /\ stockDraft' = [stockDraft EXCEPT ![s] = Synced(SettledRow(r), ReorderPoint[s])]
      /\ todo' = [todo EXCEPT ![r] = todo[r] \ {i}] /\ cur' = [cur EXCEPT ![r] = None]
      /\ pc' = [pc EXCEPT ![r] = "work"]
      /\ UNCHANGED <<item, resv, stock, resvOwner, call, seen>>
  BY <1>3, SettleStockEffect DEF tables
<1>5. PICK to \in {"released", "fulfilled"} :
        resvDraft' = [resvDraft EXCEPT ![i] = [resvDraft[i] EXCEPT !.status = to]]
  BY <1>3, SettleStockEffect
<1> DEFINE settled == [resvDraft[i] EXCEPT !.status = to]
           row == Synced(SettledRow(r), ReorderPoint[s])
<1>6. settled.status = to /\ settled.stock = s /\ settled # NoResv
  BY <1>2, <1>3, SettledResvRow
<1>7. /\ row.reserved = stockDraft[s].reserved - q /\ row.live = stockDraft[s].live
      /\ stockDraft[s].reserved \in Int
  <2>1. SettledRow(r) \in Row /\ stockDraft[s] \in Row
    BY <1>1, <1>3, SettledRowTyped
  <2>2. row.reserved = SettledRow(r).reserved /\ row.live = SettledRow(r).live
    BY <2>1, RowNumbers, SyncedRow
  <2>3. q \in Int
    OBVIOUS
  <2>4. /\ SettledRow(r).reserved = stockDraft[s].reserved - q
        /\ SettledRow(r).live = stockDraft[s].live
    BY <1>3, <2>1, <2>3, FulfillingRow, ReleasingRow DEF SettledRow
  <2> QED
    BY <2>1, <2>2, <2>4, RowNumbers
<1>8. stockDraft' = [stockDraft EXCEPT ![s] = row] /\ resvDraft' = [resvDraft EXCEPT ![i] = settled]
  BY <1>4, <1>5
<1> HIDE DEF settled, row
<1>9. /\ OthersRest(r) /\ pc'[r] = "work" /\ todo'[r] = todo[r] \ {i}
      /\ \A j \in Items : resvDraft'[j] = (IF j = i THEN settled ELSE resvDraft[j])
      /\ \A t \in Stocks : /\ stockOwner'[t] = (IF t = s THEN r ELSE stockOwner[t])
                           /\ stockDraft'[t] = (IF t = s THEN row ELSE stockDraft[t])
  BY <1>4, <1>8 DEF WellFormed, TypeOK, SessionTyped, LocksTyped, OthersRest
<1>10. SessionFits(r) /\ i \in todo[r] /\ i \in seen[r] /\ resvOwner[i] = r
  BY <1>1, <1>2, <1>3 DEF Consistent, SessionsFit, SessionFits, Locks
<1>11. HoldsAt(resvDraft[i], s)
  BY <1>3, <1>10 DEF SeenHolds, HoldsAt
<1>12. Loose(s) /\ Totals(resvDraft, s, stockDraft[s].reserved)
  BY <1>1, <1>4, FreeRowIsLoose
<1>13. ItemsStay
  BY <1>4, QuietItems
<1>14. SessionsFit'
  BY SettleStockFits DEF Consistent
<1>15. row.live
  <2>1. stockDraft[s].reserved # 0
    BY <1>3, <1>7, <1>11, <1>12, HeldIsPositive
  <2>2. stockDraft[s].live
    BY <2>1 DEF Consistent, TablesBalance, ClosedIsEmpty
  <2> QED
    BY <1>7, <2>2
<1>16. DraftsAgree' /\ ClosedIsEmpty' /\ Balanced'
  <2>1. DraftsAgree'
    BY <1>4, <1>9, NoneIsFresh DEF Consistent, TablesBalance, DraftsAgree
  <2>2. ClosedIsEmpty'
    BY <1>4, <1>9, <1>15 DEF Consistent, TablesBalance, ClosedIsEmpty
  <2>3. Balanced'
    BY <1>4 DEF Consistent, TablesBalance, Balanced, Totals, HeldUnits, HeldItems
  <2> QED
    BY <2>1, <2>2, <2>3
<1>17. ChangedIsOwned'
  <2> SUFFICES ASSUME NEW j \in Items, resvDraft'[j] # resv[j]
               PROVE  /\ resvOwner[j] \in Requests
                      /\ resvDraft'[j] # NoResv
                      /\ stockOwner'[resvDraft'[j].stock] = resvOwner[j]
                      /\ resv[j] # NoResv => resv[j].stock = resvDraft'[j].stock
    BY <1>4 DEF ChangedIsOwned
  <2>1. CASE j = i
    <3>1. resv[i].stock = s
      BY <1>2, <1>3 DEF Consistent, TablesBalance, ChangedIsOwned
    <3> QED
      BY <1>6, <1>9, <1>10, <2>1, <3>1
  <2>2. CASE j # i
    <3>1. /\ resvDraft'[j] = resvDraft[j] /\ resvOwner[j] \in Requests
          /\ resvDraft[j] # NoResv
          /\ stockOwner[resvDraft[j].stock] = resvOwner[j]
          /\ resv[j] # NoResv => resv[j].stock = resvDraft[j].stock
      BY <1>9, <2>2 DEF Consistent, TablesBalance, ChangedIsOwned
    <3>2. resvDraft[j].stock \in Stocks
      BY <3>1, ResvFields DEF WellFormed, TypeOK, LocksTyped
    <3> QED
      BY <1>4, <1>9, <3>1, <3>2, NoneIsFresh DEF Free
  <2> QED
    BY <2>1, <2>2
<1>18. DraftsBalance'
  <2> SUFFICES ASSUME NEW t \in Stocks
               PROVE  /\ Loose(t)' => Totals(resvDraft', t, stockDraft'[t].reserved)
                      /\ \A p \in Requests : InHand(p, t)' =>
                           /\ stockOwner'[t] = p
                           /\ Totals(resvDraft', t,
                                     stockDraft'[t].reserved - item'[cur'[p]].quantity)
    BY DEF DraftsBalance, Totals, HeldUnits, HeldItems
  <2>1. ~InHand(r, t)' /\ ~InHand(r, t)
    BY <1>1, <1>9 DEF InHand
  <2>2. CASE t # s
    <3>1. \A j \in Items : \/ resvDraft'[j] = resvDraft[j]
                           \/ ~HoldsAt(resvDraft[j], t) /\ ~HoldsAt(resvDraft'[j], t)
      BY <1>3, <1>6, <1>9, <2>2 DEF HoldsAt
    <3>2. stockDraft'[t] = stockDraft[t] /\ stockOwner'[t] = stockOwner[t]
      BY <1>9, <2>2
    <3> QED
      BY <1>9, <1>13, <2>1, <2>2, <3>1, <3>2, OtherRowsBalance
  <2>3. CASE t = s
    <3>1. \A p \in Requests \ {r} : ~InHand(p, s)'
      BY <1>9, <1>12, <1>13, HandsStay DEF Consistent, Loose
    <3>2. Totals(resvDraft', s, stockDraft[s].reserved - q)
      <4>1. /\ ~HoldsAt(resvDraft'[i], s) /\ resvDraft[i].quantity = q
            /\ \A j \in Items \ {i} : resvDraft'[j] = resvDraft[j]
        BY <1>3, <1>6, <1>9 DEF HoldsAt
      <4> QED
        BY <1>7, <1>11, <1>12, <4>1, OneHoldLess
    <3> QED
      BY <1>7, <1>9, <2>1, <2>3, <3>1, <3>2
  <2> QED
    BY <2>2, <2>3
<1> QED
  BY <1>14, <1>16, <1>17, <1>18 DEF Consistent, TablesBalance

\* Nothing is held at the start.
LEMMA InitConsistent == Init => Consistent
<1> SUFFICES ASSUME Init PROVE Consistent
  OBVIOUS
<1>1. SessionsFit
  BY NoneIsFresh DEF Init, SessionsFit, SessionFits, Locks, NoCall
<1>2. \A s \in Stocks : stock[s].reserved = 0
  <2>1. ASSUME NEW s \in Stocks
        PROVE  Synced(NewRow(OpeningQuantity), ReorderPoint[s]).reserved = 0
    <3>1. NewRow(OpeningQuantity) \in Row /\ ReorderPoint[s] \in Nat
      BY StockConstants, NewRowTyped
    <3> QED
      BY <3>1, SyncedRow DEF NewRow
  <2>2. NoRow.reserved = 0
    BY DEF NoRow
  <2> QED
    BY <2>1, <2>2 DEF Init
<1>3. \A s : Totals(resv, s, 0) /\ Totals(resvDraft, s, 0)
  <2>1. \A s : HeldUnits(resv, s) = {}
    BY DEF Init, HeldUnits, HeldItems, NoResv
  <2> QED
    BY <2>1, FS_EmptySet DEF Totals, Init
<1>4. resvDraft = resv /\ stockDraft = stock /\ \A r \in Requests : pc[r] = "idle"
  BY DEF Init
<1>5. TablesBalance
  BY <1>2, <1>3, <1>4 DEF TablesBalance, DraftsAgree, ChangedIsOwned, ClosedIsEmpty, Balanced,
                          DraftsBalance, InHand
<1> QED
  BY <1>1, <1>5 DEF Consistent

\* One step of the proof per action.
LEMMA NextConsistent ==
  ASSUME WellFormed, Consistent, SeenHolds, [Next]_vars PROVE Consistent'
<1>1. ASSUME NEW o \in Orders, CreateOrder(o) PROVE Consistent'
  BY <1>1, SameConsistent DEF CreateOrder, locks, session
<1>2. ASSUME NEW r \in Requests, Arrives(r) PROVE Consistent'
  BY <1>2, ReadOrderConsistent, MoveStockConsistent, InitializeStockConsistent DEF Arrives
<1>3. ASSUME NEW r \in Requests, GivesUp(r) PROVE Consistent'
  BY <1>3, GivesUpEffect, GivesUpConsistent
<1>4. ASSUME NEW r \in Requests, NEW i \in Items, ItemStep(r, i) PROVE Consistent'
  BY <1>3, <1>4, ItemsConsistent, ReserveStockConsistent, LockReservationConsistent
     DEF ItemStep, GivesUp
<1>5. ASSUME NEW r \in Requests, CommitConfirm(r) \/ CommitCancel(r) \/ CommitComplete(r)
      PROVE  Consistent'
  BY <1>5, CommitConsistent DEF CommitConfirm, CommitCancel, CommitComplete
<1>6. ASSUME NEW r \in Requests, Advances(r) PROVE Consistent'
  BY <1>3, <1>4, <1>5, <1>6, ReadItemsConsistent, ItemsConsistent,
     InsertReservationConsistent, SettleStockConsistent, SecondCommitConsistent,
     OutsideConsistent
     DEF Advances, GivesUp
<1>7. ASSUME NEW r \in Requests, Fails(r) PROVE Consistent'
  BY <1>3, <1>7, OutsideConsistent DEF Fails, GivesUp
<1>8. CASE UNCHANGED vars
  BY <1>8, SameConsistent DEF vars, tables, locks, session
<1> QED
  BY <1>1, <1>2, <1>6, <1>7, <1>8 DEF Next

-----------------------------------------------------------------------------
(* OnlySettlementsMiscount *)

\* Only a settlement writes a new version of a committed reservation.
ReplacedBySettling ==
    \A i \in Items : resvDraft[i] # resv[i] /\ resv[i] # NoResv =>
        call[resvOwner[i]].op \in {"cancel", "complete"}

MapsAreCurrent == SeenHolds /\ ReplacedBySettling

\* A step that writes no reservation, and puts none in the loop of r.
LEMMA QuietMaps ==
  ASSUME WellFormed, Consistent, MapsAreCurrent, NEW r \in Requests, OthersRest(r),
         UNCHANGED <<resv, resvDraft>>,
         \A i \in Items : resvOwner'[i] = resvOwner[i] \/ resvOwner[i] = None,
         call'[r] = call[r] \/ Locks(r) = {},
         todo'[r] \cap seen'[r] \subseteq todo[r] \cap seen[r]
  PROVE  MapsAreCurrent'
<1>1. SeenHolds'
  BY DEF MapsAreCurrent, SeenHolds, OthersRest
<1>2. ASSUME NEW i \in Items, resvDraft[i] # resv[i], resv[i] # NoResv
      PROVE  call'[resvOwner'[i]].op \in {"cancel", "complete"}
  <2>1. /\ resvOwner[i] \in Requests /\ call[resvOwner[i]].op \in {"cancel", "complete"}
    BY <1>2 DEF Consistent, TablesBalance, ChangedIsOwned, MapsAreCurrent, ReplacedBySettling
  <2>2. resvOwner'[i] = resvOwner[i]
    BY <2>1, NoneIsFresh
  <2>3. call'[resvOwner[i]] = call[resvOwner[i]]
    BY <2>1 DEF OthersRest, Locks
  <2> QED
    BY <2>1, <2>2, <2>3
<1>3. ReplacedBySettling'
  BY <1>2 DEF ReplacedBySettling
<1> QED
  BY <1>1, <1>3 DEF MapsAreCurrent

\* Calls that settle nothing, and the stock desk, load no reservation.
LEMMA OthersMaps ==
  ASSUME WellFormed, Consistent, MapsAreCurrent, NEW r \in Requests,
         \/ \E c \in OrderCalls : ReadOrder(r, c)
         \/ \E i \in Items : AddItem(r, i) \/ RemoveItem(r, i)
         \/ PickItem(r) \/ RefreshOpened(r) \/ DeskStep(r)
         \/ \E s \in Stocks : DeferAlert(r, s) \/ LoseAlert(r, s)
  PROVE  MapsAreCurrent'
<1>1. /\ UNCHANGED <<resv, resvDraft, resvOwner>>
      /\ pc[r] \in {"idle", "read", "movement", "opened", "mark", "flush"}
         \/ call[r].op = "remove_item"
  BY DEF ReadOrder, AddItem, RemoveItem, PickItem, RefreshOpened, DeskStep, MoveStock,
         InitializeStock, RecordMovement, MarkOpened, DeferAlert, LoseAlert, WriteStock, tables,
         locks
<1>2. Locks(r) = {} /\ seen[r] = {}
  <2>1. SessionFits(r)
    BY DEF Consistent, SessionsFit
  <2> QED
    BY <1>1, <2>1 DEF SessionFits
<1>3. OthersRest(r) /\ seen'[r] = {}
  <2>1. ASSUME UNCHANGED seen \/ seen' = [seen EXCEPT ![r] = {}] PROVE seen'[r] = {}
    BY <1>2, <2>1 DEF WellFormed, TypeOK, SessionTyped
  <2>2. ASSUME End(r) \/ \E alerts : FlushThenEnd(r, alerts)
        PROVE  OthersRest(r) /\ seen'[r] = {}
    <3>1. seen' = [seen EXCEPT ![r] = {}]
      BY <2>2 DEF End, FlushThenEnd
    <3> QED
      BY <2>1, <2>2, <3>1, EndRest
  <2>3. CASE \/ \E c \in OrderCalls : ReadOrder(r, c)
             \/ \E c \in StockCalls : MoveStock(r, c) \/ InitializeStock(r, c)
    BY <2>1, <2>3 DEF ReadOrder, MoveStock, InitializeStock, Goto, OthersRest, WellFormed,
                      TypeOK, SessionTyped
  <2>4. CASE PickItem(r)
    BY <2>1, <2>4 DEF PickItem, Goto, OthersRest, WellFormed, TypeOK, SessionTyped
  <2>5. CASE \E i \in Items : AddItem(r, i) \/ RemoveItem(r, i)
    BY <2>2, <2>5 DEF AddItem, RemoveItem
  <2>6. CASE RefreshOpened(r)
    <3>1. End(r) \/ (pc' = [pc EXCEPT ![r] = "mark"] /\ UNCHANGED <<call, todo, seen, cur>>)
      BY <2>6 DEF RefreshOpened, Goto
    <3> QED
      BY <2>1, <2>2, <3>1 DEF OthersRest, WellFormed, TypeOK, SessionTyped
  <2>7. CASE \/ RecordMovement(r) \/ MarkOpened(r)
             \/ \E s \in Stocks : DeferAlert(r, s) \/ LoseAlert(r, s)
    BY <2>2, <2>7 DEF RecordMovement, MarkOpened, DeferAlert, LoseAlert
  <2> QED
    BY <2>3, <2>4, <2>5, <2>6, <2>7 DEF DeskStep
<1> QED
  BY <1>1, <1>2, <1>3, QuietMaps

\* A lock is not a write.
LEMMA LockingMaps ==
  ASSUME WellFormed, Consistent, MapsAreCurrent, NEW r \in Requests, NEW i \in Items,
         LockReservation(r, i) \/ ReserveStock(r, i)
  PROVE  MapsAreCurrent'
<1>1. /\ OthersRest(r) /\ UNCHANGED <<resv, resvDraft, call, todo, seen>>
      /\ \A j \in Items : resvOwner'[j] = resvOwner[j] \/ resvOwner[j] = None
  BY DEF LockReservation, ReserveStock, Goto, tables, OthersRest, WellFormed, TypeOK,
         SessionTyped, LocksTyped
<1> QED
  BY <1>1, QuietMaps

\* What a settlement finds RESERVED, no other settlement has in hand: nobody else
\* writes a reservation that is committed.
LEMMA ReadItemsMaps ==
  ASSUME WellFormed, Consistent, MapsAreCurrent, SettlementsApart, NEW r \in Requests,
         ReadItems(r)
  PROVE  MapsAreCurrent'
<1> DEFINE known == IF call[r].op = "confirm" THEN {}
                    ELSE {i \in ItemsOf(call[r].order) : resv[i].status = "reserved"}
<1>1. /\ pc[r] = "read" /\ call[r].op \in {"confirm", "cancel", "complete"}
      /\ UNCHANGED <<resv, resvDraft, resvOwner, call>>
      /\ seen' = [seen EXCEPT ![r] = known]
  BY DEF ReadItems, tables, locks
<1>2. OthersRest(r) /\ seen'[r] = known
  BY <1>1 DEF ReadItems, Goto, OthersRest, WellFormed, TypeOK, SessionTyped
<1>3. Locks(r) = {} /\ call[r].order \in Orders
  BY <1>1, HoldsNoLock, OnAnOrder DEF Unlocked, Consistent
<1>4. ASSUME NEW i \in known PROVE resv[i].status = "reserved" /\ resvDraft[i] = resv[i]
  <2>1. /\ i \in Items /\ item[i].order = call[r].order /\ resv[i].status = "reserved"
        /\ call[r].op \in {"cancel", "complete"}
    BY <1>1, <1>4 DEF ItemsOf
  <2> SUFFICES ASSUME resvDraft[i] # resv[i] PROVE FALSE
    BY <2>1
  <2>2. PICK q \in Requests : resvOwner[i] = q
    BY <2>1 DEF Consistent, TablesBalance, ChangedIsOwned
  <2>3. call[q].op \in {"cancel", "complete"}
    BY <2>1, <2>2 DEF MapsAreCurrent, ReplacedBySettling, NoResv
  <2>4. OnOrder(q, item[i].order) /\ item[i].order \in Orders
    BY <2>1, <2>2, HandlerIsOnOrder DEF Locks, Consistent
  <2>5. Settles(q, call[r].order) /\ Settles(r, call[r].order)
    BY <1>1, <2>1, <2>3, <2>4 DEF Settles, OnOrder
  <2>6. q = r
    BY <1>3, <2>5 DEF SettlementsApart
  <2> QED
    BY <1>3, <2>1, <2>2, <2>6 DEF Locks
<1> HIDE DEF known
<1>5. SeenHolds'
  BY <1>1, <1>2, <1>4 DEF MapsAreCurrent, SeenHolds, OthersRest
<1>6. ReplacedBySettling'
  BY <1>1 DEF MapsAreCurrent, ReplacedBySettling
<1> QED
  BY <1>5, <1>6 DEF MapsAreCurrent

\* The INSERT is of a reservation that nobody can have loaded.
LEMMA InsertReservationMaps ==
  ASSUME WellFormed, Consistent, MapsAreCurrent, NEW r \in Requests, InsertReservation(r)
  PROVE  MapsAreCurrent'
<1>1. PICK i \in Items : i = cur[r]
  BY DEF InsertReservation, WellFormed, TypeOK, SessionTyped, SessionsMakeSense, StepFitsCall
<1>2. /\ resv[i] = NoResv /\ UNCHANGED <<resv, call, seen>> /\ OthersRest(r)
      /\ todo'[r] \subseteq todo[r]
      /\ \A j \in Items \ {i} : resvDraft'[j] = resvDraft[j] /\ resvOwner'[j] = resvOwner[j]
  BY <1>1 DEF InsertReservation, Goto, tables, OthersRest, WellFormed, TypeOK, SessionTyped,
              LocksTyped
<1>3. \A q \in Requests : /\ todo'[q] \cap seen'[q] \subseteq todo[q] \cap seen[q]
                          /\ todo[q] \cap seen[q] \subseteq Items \ {i}
  BY <1>2 DEF OthersRest, MapsAreCurrent, SeenHolds, NoResv, WellFormed, TypeOK, SessionTyped
<1>4. SeenHolds'
  BY <1>2, <1>3 DEF MapsAreCurrent, SeenHolds
<1>5. ReplacedBySettling'
  BY <1>2 DEF MapsAreCurrent, ReplacedBySettling
<1> QED
  BY <1>4, <1>5 DEF MapsAreCurrent

\* A settlement changes a reservation that no other settlement has loaded: whoever
\* has it in its loop is on the same order.
LEMMA SettleStockMaps ==
  ASSUME WellFormed, Consistent, MapsAreCurrent, SettlementsApart, NEW r \in Requests,
         SettleStock(r)
  PROVE  MapsAreCurrent'
<1>1. PICK i \in Items : i = cur[r] /\ i \in todo[r]
  BY DEF SettleStock, WellFormed, TypeOK, SessionTyped, SessionsMakeSense, StepFitsCall
<1>2. /\ call[r].op \in {"cancel", "complete"} /\ UNCHANGED <<resv, resvOwner, call, seen>>
      /\ OthersRest(r) /\ todo'[r] = todo[r] \ {i}
      /\ \A j \in Items \ {i} : resvDraft'[j] = resvDraft[j]
  BY <1>1 DEF SettleStock, Goto, tables, OthersRest, WellFormed, TypeOK, SessionTyped,
              LocksTyped, SessionsMakeSense, StepFitsCall
<1>3. resvOwner[i] = r
  BY <1>1 DEF SettleStock, Consistent, SessionsFit, SessionFits, Locks
<1>4. ASSUME NEW q \in Requests, i \in todo[q] \cap seen[q] PROVE q = r
  <2>1. OnOrder(q, item[i].order) /\ OnOrder(r, item[i].order) /\ item[i].order \in Orders
    BY <1>1, <1>4, HandlerIsOnOrder DEF Consistent
  <2>2. call[q].op \in {"cancel", "complete"}
    BY <1>4 DEF Consistent, SessionsFit, SessionFits
  <2> QED
    BY <1>2, <2>1, <2>2 DEF SettlementsApart, Settles
<1>5. \A q \in Requests : /\ todo'[q] \cap seen'[q] \subseteq todo[q] \cap seen[q]
                          /\ todo'[q] \cap seen'[q] \subseteq Items \ {i}
  BY <1>2, <1>4 DEF OthersRest, WellFormed, TypeOK, SessionTyped
<1>6. SeenHolds'
  BY <1>2, <1>5 DEF MapsAreCurrent, SeenHolds
<1>7. ReplacedBySettling'
  BY <1>2, <1>3 DEF MapsAreCurrent, ReplacedBySettling
<1> QED
  BY <1>6, <1>7 DEF MapsAreCurrent

\* COMMIT and ROLLBACK choose between two versions that are both RESERVED.
LEMMA TransactionMaps ==
  ASSUME WellFormed, Consistent, MapsAreCurrent, NEW r \in Requests,
         Commit(r) \/ Rollback(r), End(r) \/ \E alerts : FlushThenEnd(r, alerts)
  PROVE  MapsAreCurrent'
<1>1. /\ OthersRest(r) /\ seen'[r] = {}
  <2>1. seen' = [seen EXCEPT ![r] = {}]
    BY DEF End, FlushThenEnd
  <2> QED
    BY <2>1, EndRest DEF WellFormed, TypeOK, SessionTyped
<1>2. \A i \in Items :
        /\ resv'[i] \in {resv[i], resvDraft[i]} /\ resvDraft'[i] \in {resv[i], resvDraft[i]}
        /\ resvDraft'[i] # resv'[i] =>
             /\ resvOwner[i] # r /\ resvOwner'[i] = resvOwner[i]
             /\ resv'[i] = resv[i] /\ resvDraft'[i] = resvDraft[i]
  BY DEF Commit, Rollback, tables
<1>3. SeenHolds'
  <2>1. \A q \in Requests : /\ todo'[q] \cap seen'[q] \subseteq todo[q] \cap seen[q]
                            /\ todo[q] \cap seen[q] \subseteq Items
    BY <1>1 DEF OthersRest, WellFormed, TypeOK, SessionTyped
  <2> QED
    BY <1>2, <2>1 DEF MapsAreCurrent, SeenHolds
<1>4. ReplacedBySettling'
  <2> SUFFICES ASSUME NEW i \in Items, resvDraft'[i] # resv'[i], resv'[i] # NoResv
               PROVE  call'[resvOwner'[i]].op \in {"cancel", "complete"}
    BY DEF ReplacedBySettling
  <2>1. /\ resvOwner[i] # r /\ resvOwner'[i] = resvOwner[i]
        /\ resvDraft[i] # resv[i] /\ resv[i] # NoResv
    BY <1>2
  <2>2. resvOwner[i] \in Requests
    BY <2>1 DEF Consistent, TablesBalance, ChangedIsOwned
  <2> QED
    BY <1>1, <2>1, <2>2 DEF OthersRest, MapsAreCurrent, ReplacedBySettling
<1> QED
  BY <1>3, <1>4 DEF MapsAreCurrent

\* One step of the proof per kind of action.
LEMMA NextMaps ==
  ASSUME WellFormed, Consistent, MapsAreCurrent, SettlementsApart, [Next]_vars
  PROVE  MapsAreCurrent'
<1>1. CASE UNCHANGED vars \/ \E o \in Orders : CreateOrder(o)
  <2>1. UNCHANGED <<resv, resvDraft, resvOwner, call, todo, seen>>
    BY <1>1 DEF vars, tables, locks, session, CreateOrder
  <2> QED
    BY <2>1 DEF MapsAreCurrent, SeenHolds, ReplacedBySettling
<1>2. ASSUME NEW r \in Requests, GivesUp(r) PROVE MapsAreCurrent'
  BY <1>2, GivesUpEffect, TransactionMaps
<1>3. ASSUME NEW r \in Requests, CommitConfirm(r) \/ CommitCancel(r) \/ CommitComplete(r)
      PROVE  MapsAreCurrent'
  BY <1>3, TransactionMaps DEF CommitConfirm, CommitCancel, CommitComplete
<1>4. ASSUME NEW r \in Requests, Arrives(r) \/ Advances(r) \/ Fails(r) PROVE MapsAreCurrent'
  BY <1>2, <1>3, <1>4, KindsOfStep, OthersMaps, ReadItemsMaps, LockingMaps,
     InsertReservationMaps, SettleStockMaps DEF SitsOut
<1> QED
  BY <1>1, <1>4 DEF Next

\* What holds while no two settlements of an order overlap.
Counted == WellFormed /\ Consistent /\ MapsAreCurrent

\* Nothing is loaded at the start.
LEMMA InitCounted == Init => Counted
<1>1. Init => MapsAreCurrent
  BY DEF Init, MapsAreCurrent, SeenHolds, ReplacedBySettling
<1> QED
  BY <1>1, InitTypeOK, InitSense, InitConsistent DEF Counted, WellFormed

\* It is inductive under that condition.
LEMMA NextCounted == Counted /\ SettlementsApart /\ [Next]_vars => Counted'
<1> SUFFICES ASSUME Counted, SettlementsApart, [Next]_vars PROVE Counted'
  OBVIOUS
<1>1. WellFormed /\ Consistent /\ MapsAreCurrent
  BY DEF Counted
<1>2. WellFormed' /\ Consistent'
  BY <1>1, NextWF, NextConsistent DEF MapsAreCurrent
<1>3. MapsAreCurrent'
  BY <1>1, NextMaps
<1> QED
  BY <1>2, <1>3 DEF Counted

\* Whatever else overlaps, reserved_quantity of every row is what its open reservations
\* add up to, as long as no two of cancel_order and complete_order are at work on the
\* same order at once: only a settlement that trusts what its identity map kept of a
\* reservation another settlement has just ended can miscount.
THEOREM OnlySettlementsCanMiscount == Spec => OnlySettlementsMiscount
<1>1. Counted => ReservedMatchesReservations
  BY DEF Counted, Consistent, TablesBalance, Balanced, Totals, ReservedMatchesReservations
<1> QED
  BY <1>1, InitCounted, NextCounted, PTL DEF Spec, OnlySettlementsMiscount

-----------------------------------------------------------------------------
(* One call at a time on each order *)

\* Between its first read and its commit a call stays on its order; a finished one is
\* on none.
LEMMA OnOrderSteps ==
  ASSUME WellFormed, [Next]_vars, NEW q \in Requests, NEW o, OnOrder(q, o)'
  PROVE  OnOrder(q, o) \/ \E c \in OrderCalls : c.order = o /\ ReadOrder(q, c)
<1> USE DEF OnOrder
<1>1. CASE UNCHANGED <<pc, call>>
  BY <1>1
<1>2. ASSUME NEW r \in Requests, OthersRest(r),
             \/ pc'[r] \notin {"read", "work", "reserve", "settle"}
             \/ pc[r] \in {"read", "work", "reserve", "settle"} /\ call' = call
      PROVE  OnOrder(q, o)
  BY <1>2 DEF OthersRest
<1>3. ASSUME NEW r \in Requests, GivesUp(r) PROVE OnOrder(q, o)
  BY <1>2, <1>3, GivesUpEffect, EndRest
<1>4. ASSUME NEW r \in Requests,
             \/ CommitConfirm(r) \/ CommitCancel(r) \/ CommitComplete(r)
             \/ RecordMovement(r) \/ MarkOpened(r)
             \/ \E s \in Stocks : DeferAlert(r, s) \/ LoseAlert(r, s)
             \/ \E i \in Items : AddItem(r, i) \/ RemoveItem(r, i)
      PROVE  OnOrder(q, o)
  <2>1. End(r) \/ \E alerts : FlushThenEnd(r, alerts)
    BY <1>4 DEF CommitConfirm, CommitCancel, CommitComplete, RecordMovement, MarkOpened,
                DeferAlert, LoseAlert, AddItem, RemoveItem
  <2> QED
    BY <1>2, <2>1, EndRest
<1>5. ASSUME NEW r \in Requests, RefreshOpened(r) PROVE OnOrder(q, o)
  <2>1. OthersRest(r) /\ pc'[r] \in {"idle", "flush", "mark"}
    BY <1>5, EndRest DEF RefreshOpened, Goto, OthersRest, WellFormed, TypeOK, SessionTyped
  <2> QED
    BY <1>2, <2>1
<1>6. ASSUME NEW r \in Requests, NEW c \in StockCalls, MoveStock(r, c) \/ InitializeStock(r, c)
      PROVE  OnOrder(q, o)
  <2>1. OthersRest(r) /\ pc'[r] \in {"movement", "opened"}
    BY <1>6 DEF MoveStock, InitializeStock, Goto, OthersRest, WellFormed, TypeOK, SessionTyped
  <2> QED
    BY <1>2, <2>1
<1>7. ASSUME NEW r \in Requests,
             \/ ReadItems(r) \/ PickItem(r) \/ InsertReservation(r) \/ SettleStock(r)
             \/ \E i \in Items : ReserveStock(r, i) \/ LockReservation(r, i)
      PROVE  OnOrder(q, o)
  <2>1. /\ OthersRest(r) /\ call' = call /\ pc[r] \in {"read", "work", "reserve", "settle"}
    BY <1>7 DEF ReadItems, PickItem, InsertReservation, SettleStock, ReserveStock,
                LockReservation, Settling, Goto, OthersRest, WellFormed, TypeOK, SessionTyped
  <2> QED
    BY <1>2, <2>1
<1>8. ASSUME NEW r \in Requests, NEW c \in OrderCalls, ReadOrder(r, c)
      PROVE  OnOrder(q, o) \/ (q = r /\ c.order = o)
  <2>1. OthersRest(r) /\ call'[r] = c
    BY <1>8 DEF ReadOrder, Goto, OthersRest, WellFormed, TypeOK, SessionTyped
  <2> QED
    BY <2>1 DEF OthersRest
<1>9. CASE UNCHANGED vars \/ \E p \in Orders : CreateOrder(p)
  BY <1>1, <1>9 DEF vars, session, CreateOrder
<1> QED
  BY <1>3, <1>4, <1>5, <1>6, <1>7, <1>8, <1>9, KindsOfStep DEF Next, SitsOut, DeskStep

\* Callers who never overlap two calls on one order have every order to themselves.
LEMMA SerialCallers ==
  ASSUME SerialOrders
  PROVE  Spec => [](WellFormed /\ Serial)
<1>1. Init => WellFormed /\ Serial
  BY InitTypeOK, InitSense DEF WellFormed, Init, Serial, OnItsOwn, OnOrder
<1>2. ASSUME WellFormed, Serial, [Next]_vars PROVE Serial'
  <2> SUFFICES ASSUME NEW o \in Orders, NEW q \in Requests, NEW r \in Requests,
                      OnOrder(q, o)', OnOrder(r, o)'
               PROVE  q = r
    BY DEF Serial, OnItsOwn
  <2>1. \A p \in Requests : OnOrder(p, o) => p \in CallsOn(o)
    BY <1>2, OnAnOrder DEF OnOrder, CallsOn
  <2>2. ASSUME NEW p \in Requests, NEW c \in OrderCalls, c.order = o, ReadOrder(p, c)
        PROVE  /\ \A x \in Requests : ~OnOrder(x, o)
               /\ \A x \in Requests \ {p} : ~OnOrder(x, o)'
    <3>1. \A x \in Requests : ~OnOrder(x, o)
      BY <2>1, <2>2 DEF ReadOrder
    <3>2. \A x \in Requests \ {p} : pc'[x] = pc[x] /\ call'[x] = call[x]
      BY <1>2, <2>2 DEF ReadOrder, Goto, WellFormed, TypeOK, SessionTyped
    <3> QED
      BY <3>1, <3>2 DEF OnOrder
  <2>3. CASE OnOrder(q, o) /\ OnOrder(r, o)
    BY <1>2, <2>3 DEF Serial, OnItsOwn
  <2>4. CASE ~(OnOrder(q, o) /\ OnOrder(r, o))
    <3>1. PICK p \in {q, r}, c \in OrderCalls : c.order = o /\ ReadOrder(p, c)
      BY <1>2, <2>4, OnOrderSteps
    <3> QED
      BY <2>2, <3>1
  <2> QED
    BY <2>3, <2>4
<1>3. (WellFormed /\ Serial) /\ [Next]_vars => (WellFormed /\ Serial)'
  BY <1>2, NextWF
<1> QED
  BY <1>1, <1>3, PTL DEF Spec

\* Then no settlement meets another.
LEMMA SerialIsApart == ASSUME WellFormed, Serial PROVE SettlementsApart
  BY DEF Serial, OnItsOwn, SettlementsApart, Settles

\* With one call at a time on each order, reserved_quantity of every row is what its
\* open reservations add up to.
THEOREM CountersMatchReservations ==
  ASSUME SerialOrders
  PROVE  Spec => []ReservedMatchesReservations
<1>1. Spec => [](WellFormed /\ Serial)
  BY SerialCallers
<1>2. WellFormed /\ Serial => SettlementsApart
  BY SerialIsApart
<1>3. Spec => ([]SettlementsApart => []ReservedMatchesReservations)
  BY OnlySettlementsCanMiscount DEF OnlySettlementsMiscount
<1> QED
  BY <1>1, <1>2, <1>3, PTL

-----------------------------------------------------------------------------
(* OnlyTheDeskUncovers *)

\* The goods of the row cover its promises.
Fits(row) == row.reserved <= row.quantity

\* A row whose goods cover its promises does so in its newest version too.
DraftsFit == \A s \in Stocks : Fits(stock[s]) => Fits(stockDraft[s])

\* The right-hand side of OnlyTheDeskUncovers.
DeskTakes(s) ==
    \E r \in Requests : /\ pc[r] = "idle" /\ pc'[r] = "movement"
                       /\ call'[r].stock = s
                       /\ call'[r].op \in {"remove_stock", "adjust_stock"}

\* A write of one row version that fits if the committed one does.
LEMMA DraftFits ==
  ASSUME WellFormed, DraftsFit, NEW s \in Stocks, NEW row, Fits(row),
         stock' = stock, stockDraft' = [stockDraft EXCEPT ![s] = row]
  PROVE  DraftsFit' /\ \A t \in Stocks : Fits(stock[t]) => Fits(stock[t])'
<1>1. \A t \in Stocks : stockDraft'[t] = (IF t = s THEN row ELSE stockDraft[t])
  BY DEF WellFormed, TypeOK, LocksTyped
<1> QED
  BY <1>1 DEF DraftsFit, Fits

\* A one-statement transaction writes both versions of its row.
LEMMA WriteStockFits ==
  ASSUME WellFormed, DraftsFit, NEW s \in Stocks, NEW row, WriteStock(s, row)
  PROVE  /\ DraftsFit'
         /\ \A t \in Stocks : (t = s => Fits(row)) /\ Fits(stock[t]) => Fits(stock[t])'
<1>1. \A t \in Stocks : /\ stock'[t] = (IF t = s THEN row ELSE stock[t])
                        /\ stockDraft'[t] = (IF t = s THEN row ELSE stockDraft[t])
  BY DEF WriteStock, WellFormed, TypeOK, TablesTyped, LocksTyped
<1> QED
  BY <1>1 DEF DraftsFit, Fits

\* Only remove_stock and adjust_stock leave a covered row uncovered.
LEMMA NextFits ==
  ASSUME WellFormed, DraftsFit, [Next]_vars
  PROVE  /\ DraftsFit'
         /\ \A s \in Stocks : Fits(stock[s]) => Fits(stock[s])' \/ DeskTakes(s)
<1>1. CASE UNCHANGED <<stock, stockDraft>>
  BY <1>1 DEF DraftsFit, Fits
<1>2. ASSUME NEW r \in Requests, Commit(r) \/ Rollback(r)
      PROVE  DraftsFit' /\ \A s \in Stocks : Fits(stock[s]) => Fits(stock[s])'
  <2>1. CASE Commit(r)
    <3>1. /\ stockDraft' = stockDraft
          /\ \A s \in Stocks : stock'[s] = (IF stockOwner[s] = r THEN stockDraft[s] ELSE stock[s])
      BY <2>1 DEF Commit
    <3> QED
      BY <3>1 DEF DraftsFit, Fits
  <2>2. CASE Rollback(r)
    <3>1. /\ stock' = stock
          /\ \A s \in Stocks :
               stockDraft'[s] = (IF stockOwner[s] = r THEN stock[s] ELSE stockDraft[s])
      BY <2>2 DEF Rollback, tables
    <3> QED
      BY <3>1 DEF DraftsFit, Fits
  <2> QED
    BY <1>2, <2>1, <2>2
<1>3. ASSUME NEW r \in Requests, SettleStock(r)
      PROVE  DraftsFit' /\ \A s \in Stocks : Fits(stock[s]) => Fits(stock[s])'
  <2> DEFINE s == resvDraft[cur[r]].stock
             q == resvDraft[cur[r]].quantity
             row == Synced(SettledRow(r), ReorderPoint[s])
  <2>1. pc[r] = "settle"
    BY <1>3 DEF SettleStock
  <2>2. s \in Stocks /\ q \in Nat /\ stockDraft[s] \in Row /\ SettledRow(r) \in Row
    BY <2>1, SettlingItem, SettledRowTyped
  <2>3. row.reserved = SettledRow(r).reserved /\ row.quantity = SettledRow(r).quantity
    BY <2>2, RowNumbers, SyncedRow
  <2>4. /\ SettledRow(r).reserved = stockDraft[s].reserved - q
        /\ SettledRow(r).quantity \in {stockDraft[s].quantity, stockDraft[s].quantity - q}
    <3>1. q \in Int
      BY <2>2
    <3> QED
      BY <2>2, <3>1, FulfillingRow, ReleasingRow DEF SettledRow
  <2>5. stock' = stock /\ stockDraft' = [stockDraft EXCEPT ![s] = row]
    BY <1>3, SettleStockEffect DEF tables
  <2>6. \A t \in Stocks : stockDraft'[t] = (IF t = s THEN row ELSE stockDraft[t])
    BY <2>2, <2>5 DEF WellFormed, TypeOK, LocksTyped
  <2>7. Fits(stockDraft[s]) => Fits(row)
    BY <2>2, <2>3, <2>4, RowNumbers DEF Fits
  <2> QED
    BY <2>5, <2>6, <2>7 DEF DraftsFit, Fits
<1>4. ASSUME NEW r \in Requests, NEW i \in Items, ReserveStock(r, i)
      PROVE  DraftsFit' /\ \A s \in Stocks : Fits(stock[s]) => Fits(stock[s])'
  <2>1. ItemStock(r, i) \in Stocks /\ item[i].quantity \in Int
    <3>1. call[r] \in Calls /\ call[r].op = "confirm" /\ item[i] # NoItem
      BY <1>4 DEF ReserveStock, WellFormed, TypeOK, SessionTyped, SessionsMakeSense,
                  StepFitsCall
    <3>2. call[r].location \in Locations
      BY <3>1, CallFields
    <3>3. item[i].product \in Products /\ item[i].quantity \in Nat
      BY <3>1, ItemFields DEF WellFormed, TypeOK, TablesTyped
    <3> QED
      BY <3>2, <3>3 DEF ItemStock, Stocks
  <2>2. PICK s \in Stocks, q \in Int : s = ItemStock(r, i) /\ q = item[i].quantity
    BY <2>1
  <2> DEFINE row == Synced(WithReserved(stockDraft[s], q), ReorderPoint[s])
  <2>3. /\ Covers(stockDraft[s], q) /\ stock' = stock
        /\ stockDraft' = [stockDraft EXCEPT ![s] = row]
    BY <1>4, <2>2 DEF ReserveStock, CanReserve, tables
  <2>4. stockDraft[s] \in Row /\ ReorderPoint[s] \in Nat
    BY RowNumbers
  <2>5. row.reserved = stockDraft[s].reserved + q /\ row.quantity = stockDraft[s].quantity
    <3> DEFINE held == WithReserved(stockDraft[s], q)
    <3>1. /\ held \in Row /\ held.reserved = stockDraft[s].reserved + q
          /\ held.quantity = stockDraft[s].quantity
      BY <2>4, ReservingRow
    <3> HIDE DEF held
    <3>2. /\ Synced(held, ReorderPoint[s]).reserved = held.reserved
          /\ Synced(held, ReorderPoint[s]).quantity = held.quantity
      BY <2>4, <3>1, SyncedRow
    <3> QED
      BY <3>1, <3>2 DEF held
  <2>6. Fits(row)
    BY <2>3, <2>5, RowNumbers DEF Fits, Covers, Available
  <2> HIDE DEF row
  <2> QED
    BY <2>3, <2>6, DraftFits
<1>5. ASSUME NEW r \in Requests, RecordMovement(r) \/ MarkOpened(r)
      PROVE  DraftsFit' /\ \A s \in Stocks : Fits(stock[s]) => Fits(stock[s])'
  <2> DEFINE s == call[r].stock
             moved == Recorded(stock[s], delta[r])
             marked == [stock[s] EXCEPT !.alerted = TRUE]
  <2>1. CASE RecordMovement(r)
    <3>1. s \in Stocks /\ stock[s] \in Row /\ delta[r] \in Int /\ ReorderPoint[s] \in Nat
      BY <2>1, RecordMovementEffect, StockConstants
    <3>2. moved.reserved = stock[s].reserved /\ moved.quantity = stock[s].quantity
      BY <3>1, RecordedRow
    <3>3. WriteStock(s, moved)
      BY <2>1 DEF RecordMovement
    <3> HIDE DEF moved
    <3> QED
      BY <3>1, <3>2, <3>3, WriteStockFits DEF Fits
  <2>2. CASE MarkOpened(r)
    <3>1. s \in Stocks /\ stock[s] \in Row
      BY <2>2, OpenedStock DEF MarkOpened
    <3>2. marked.reserved = stock[s].reserved /\ marked.quantity = stock[s].quantity
      BY <3>1 DEF Row
    <3>3. WriteStock(s, marked)
      BY <2>2 DEF MarkOpened
    <3> HIDE DEF marked
    <3> QED
      BY <3>1, <3>2, <3>3, WriteStockFits DEF Fits
  <2> QED
    BY <1>5, <2>1, <2>2
<1>6. ASSUME NEW r \in Requests, NEW c \in StockCalls, InitializeStock(r, c)
      PROVE  DraftsFit' /\ \A s \in Stocks : Fits(stock[s]) => Fits(stock[s])'
  <2>1. c \in Calls /\ c.op = "initialize_stock"
    BY <1>6 DEF InitializeStock, Calls
  <2>2. c.stock \in Stocks /\ c.quantity \in Nat
    BY <2>1, CallFields
  <2>3. Fits(NewRow(c.quantity))
    BY <2>2 DEF Fits, NewRow
  <2>4. WriteStock(c.stock, NewRow(c.quantity))
    BY <1>6 DEF InitializeStock
  <2> QED
    BY <2>2, <2>3, <2>4, WriteStockFits
<1>7. ASSUME NEW r \in Requests, NEW c \in StockCalls, MoveStock(r, c)
      PROVE  DraftsFit' /\ \A s \in Stocks : Fits(stock[s]) => Fits(stock[s])' \/ DeskTakes(s)
  <2> DEFINE row == Synced(MovedRow(c), ReorderPoint[c.stock])
  <2>1. /\ c.stock \in Stocks /\ stock[c.stock] \in Row /\ MovedRow(c) \in Row
        /\ ReorderPoint[c.stock] \in Nat /\ WriteStock(c.stock, row)
        /\ c.op \in MoveOps /\ pc[r] = "idle"
    BY <1>7, MoveStockEffect
  <2>2. row.reserved = MovedRow(c).reserved /\ row.quantity = MovedRow(c).quantity
    BY <2>1, SyncedRow
  <2>3. pc'[r] = "movement" /\ call'[r] = c
    BY <1>7 DEF MoveStock, Goto, WellFormed, TypeOK, SessionTyped
  <2>4. CASE c.op = "add_stock"
    <3>1. /\ MovedRow(c).reserved = stock[c.stock].reserved
          /\ MovedRow(c).quantity = stock[c.stock].quantity + c.quantity
      BY <2>1, <2>4 DEF MovedRow, MovedQuantity, Row
    <3>2. c.quantity \in Nat
      BY <2>1, CallFields DEF Calls
    <3>3. Fits(stock[c.stock]) => Fits(row)
      BY <2>2, <3>1, <3>2, <2>1, RowNumbers DEF Fits
    <3> HIDE DEF row
    <3> QED
      BY <2>1, <3>3, WriteStockFits
  <2>5. CASE c.op # "add_stock"
    <3>1. DeskTakes(c.stock)
      BY <2>1, <2>3, <2>5 DEF DeskTakes, MoveOps
    <3> HIDE DEF row
    <3> QED
      BY <2>1, <3>1, WriteStockFits
  <2> QED
    BY <2>4, <2>5
<1>8. ASSUME NEW r \in Requests, StockWrite(r)
      PROVE  DraftsFit' /\ \A s \in Stocks : Fits(stock[s]) => Fits(stock[s])' \/ DeskTakes(s)
  BY <1>2, <1>3, <1>4, <1>5, <1>6, <1>7, <1>8 DEF StockWrite
<1> QED
  BY <1>1, <1>8, StockSteps

\* While no two settlements of an order overlap, goods on the shelf cover every promise
\* until remove_stock or adjust_stock takes promised units: no confirm, cancel, complete,
\* receipt, rollback or crash ever uncovers a row.
THEOREM OnlySettlementsCanUncover == Spec => ([]SettlementsApart => OnlyTheDeskUncovers)
<1> DEFINE Inv == Counted /\ DraftsFit
           Step == \A s \in Stocks : Uncovers(s) => DeskTakes(s)
<1>1. Init => Inv
  <2>1. Init => DraftsFit
    BY DEF Init, DraftsFit
  <2> QED
    BY <2>1, InitCounted
<1>2. Inv /\ SettlementsApart /\ [Next]_vars => Inv'
  BY NextCounted, NextFits DEF Counted
<1>3. Inv /\ SettlementsApart /\ [Next]_vars => [Step]_vars
  <2> SUFFICES ASSUME Inv, SettlementsApart, [Next]_vars, NEW s \in Stocks, Uncovers(s)
               PROVE  DeskTakes(s)
    OBVIOUS
  <2>1. Consistent' /\ WellFormed /\ DraftsFit
    BY NextCounted DEF Counted
  <2>2. stock'[s].reserved >= 0
    <3>1. \E held : IsFiniteSet(held) /\ Cardinality(held) = stock'[s].reserved
      BY <2>1 DEF Consistent, TablesBalance, Balanced, Totals
    <3> QED
      BY <3>1, FS_CardinalityType
  <2>3. Fits(stock[s]) /\ ~Fits(stock[s])'
    BY <2>2 DEF Uncovers, Fits
  <2> QED
    BY <2>1, <2>3, NextFits
<1>4. [Step]_vars <=> [\A s \in Stocks : Uncovers(s) =>
         \E r \in Requests : /\ pc[r] = "idle" /\ pc'[r] = "movement"
                            /\ call'[r].stock = s
                            /\ call'[r].op \in {"remove_stock", "adjust_stock"}]_vars
  BY DEF DeskTakes
<1> QED
  BY <1>1, <1>2, <1>3, <1>4, PTL DEF Spec, OnlyTheDeskUncovers

\* With one call at a time on each order, no order endpoint ever uncovers a row.
THEOREM OrdersNeverUncover ==
  ASSUME SerialOrders
  PROVE  Spec => OnlyTheDeskUncovers
<1>1. Spec => [](WellFormed /\ Serial)
  BY SerialCallers
<1>2. WellFormed /\ Serial => SettlementsApart
  BY SerialIsApart
<1> QED
  BY <1>1, <1>2, OnlySettlementsCanUncover, PTL

-----------------------------------------------------------------------------
(* An order and its reservations *)

\* The status a call gives the reservations it is done with.
TargetStatus(op) == IF op = "confirm" THEN "reserved" ELSE SettledStatus(op)

\* The status check of a call stays true until its commit, and every item of the
\* order is still in its loop or has been handled and is locked.
OrderProgress(r) ==
    /\ pc[r] \in {"read", "work", "reserve", "settle"}
         => order[call[r].order] \in AllowedStatuses(call[r].op)
    /\ pc[r] \in {"work", "reserve", "settle"} /\ call[r].op # "remove_item" =>
         \A i \in ItemsOf(call[r].order) :
            \/ i \in todo[r]
            \/ i \in Locks(r) /\ resvDraft[i].status = TargetStatus(call[r].op)

\* The status of the reservation of an item of an order.
StatusFor(o) ==
    CASE order[o] = "created"   -> "none"
      [] order[o] = "confirmed" -> "reserved"
      [] order[o] = "cancelled" -> "released"
      [] order[o] = "completed" -> "fulfilled"
      [] OTHER -> "no such order"

\* Items and reservations agree with order o, and the calls on it are on course.
MirroredOn(o) ==
    /\ \A i \in Items : item[i] = NoItem => resv[i] = NoResv
    /\ \A r \in Requests : OnOrder(r, o) => OrderProgress(r)
    /\ \A i \in Items : item[i].state = "live" /\ item[i].order = o =>
                         resv[i].status = StatusFor(o)

\* What a step of r must respect for the progress of the others on o.
LEMMA OthersProgress ==
  ASSUME WellFormed, SessionsFit, NEW o \in Orders, OnItsOwn(o), MirroredOn(o),
         NEW r \in Requests, OthersRest(r), LocksStay(r),
         \A i \in Items : resvDraft'[i] = resvDraft[i] \/ i \in todo[r] \/ i \in Locks(r),
         order'[o] = order[o] \/ OnOrder(r, o),
         \A i \in Items : item'[i].state = "live" /\ item'[i].order = o =>
            (item[i].state = "live" /\ item[i].order = o) \/ OnOrder(r, o)
  PROVE  \A q \in Requests \ {r} : OnOrder(q, o)' => OrderProgress(q)'
<1> SUFFICES ASSUME NEW q \in Requests, q # r, OnOrder(q, o)'
             PROVE  OrderProgress(q)'
  OBVIOUS
<1>1. /\ pc'[q] = pc[q] /\ call'[q] = call[q] /\ todo'[q] = todo[q]
      /\ Locks(q)' = Locks(q)
  BY DEF OthersRest, LocksStay
<1>2. OnOrder(q, o) /\ call[q].order = o
  BY <1>1 DEF OnOrder
<1>3. ~OnOrder(r, o) /\ OrderProgress(q)
  BY <1>2 DEF OnItsOwn, MirroredOn
<1>4. order'[o] = order[o] /\ ItemsOf(o)' \subseteq ItemsOf(o)
  BY <1>3 DEF ItemsOf
<1>5. \A i \in Locks(q) \cap ItemsOf(o) : resvDraft'[i] = resvDraft[i]
  BY <1>3, HandlerIsOnOrder DEF Locks, ItemsOf
<1> QED
  BY <1>1, <1>2, <1>3, <1>4, <1>5 DEF OrderProgress

\* A step after which r is not in the middle of a call on an order.
LEMMA IdleProgress ==
  ASSUME NEW r \in Requests, pc'[r] \notin {"read", "work", "reserve", "settle"}
  PROVE  OrderProgress(r)'
  BY DEF OrderProgress

\* A step that leaves the tables alone.
LEMMA ProgressStep ==
  ASSUME WellFormed, SessionsFit, NEW o \in Orders, OnItsOwn(o), MirroredOn(o),
         NEW r \in Requests, OthersRest(r), LocksStay(r),
         UNCHANGED <<order, item, resv>>,
         \A i \in Items : resvDraft'[i] = resvDraft[i] \/ i \in todo[r] \/ i \in Locks(r),
         OnOrder(r, o)' => OrderProgress(r)'
  PROVE  MirroredOn(o)'
<1>1. \A q \in Requests : OnOrder(q, o)' => OrderProgress(q)'
  BY OthersProgress
<1> QED
  BY <1>1 DEF MirroredOn, StatusFor

\* Nothing that the property reads changes.
LEMMA SameMirrored ==
  ASSUME NEW o \in Orders, MirroredOn(o),
         UNCHANGED <<order, item, resv, resvDraft, resvOwner, pc, call, todo>>
  PROVE  MirroredOn(o)'
  BY DEF MirroredOn, OnOrder, OrderProgress, StatusFor, ItemsOf, Locks

\* A new order has no items and no calls.
LEMMA CreateOrderMirrors ==
  ASSUME WellFormed, NEW o \in Orders, MirroredOn(o), NEW p \in Orders, CreateOrder(p)
  PROVE  MirroredOn(o)'
<1>1. /\ order[p] = "none" /\ order' = [order EXCEPT ![p] = "created"]
      /\ UNCHANGED <<item, resv, resvDraft, resvOwner, pc, call, todo>>
  BY DEF CreateOrder, locks, session
<1>2. \A x \in Orders \ {p} : order'[x] = order[x]
  BY <1>1 DEF WellFormed, TypeOK, TablesTyped
<1>3. ASSUME NEW r \in Requests, OnOrder(r, o) PROVE OrderProgress(r)'
  <2>1. call[r].order = o /\ OrderProgress(r)
    BY <1>3 DEF MirroredOn, OnOrder
  <2>2. o # p
    BY <1>1, <1>3, <2>1 DEF OrderProgress, AllowedStatuses, OnOrder
  <2> QED
    BY <1>1, <1>2, <2>1, <2>2 DEF OrderProgress, ItemsOf, Locks
<1>4. ASSUME NEW i \in Items, item[i].state = "live", item[i].order = o PROVE o # p
  <2>1. resv[i].status # "no such order"
    BY ResvFields DEF WellFormed, TypeOK, TablesTyped, NoResv
  <2>2. resv[i].status = StatusFor(o)
    BY <1>4 DEF MirroredOn
  <2>3. StatusFor(p) = "no such order"
    BY <1>1 DEF StatusFor
  <2> QED
    BY <2>1, <2>2, <2>3
<1>5. o # p => StatusFor(o)' = StatusFor(o)
  BY <1>2 DEF StatusFor
<1>6. \A r \in Requests : OnOrder(r, o)' => OnOrder(r, o)
  BY <1>1 DEF OnOrder
<1> QED
  BY <1>1, <1>3, <1>4, <1>5, <1>6 DEF MirroredOn


\* A step of a request that is not on an order.
LEMMA DeskMirrors ==
  ASSUME WellFormed, SessionsFit, NEW o \in Orders, OnItsOwn(o), MirroredOn(o),
         NEW r \in Requests,
         \/ \E c \in StockCalls : MoveStock(r, c) \/ InitializeStock(r, c)
         \/ RecordMovement(r) \/ RefreshOpened(r) \/ MarkOpened(r)
         \/ \E s \in Stocks : DeferAlert(r, s) \/ LoseAlert(r, s)
  PROVE  MirroredOn(o)'
<1>1. ASSUME UNCHANGED <<order, item, resv, resvDraft, resvOwner, stockOwner>>, OthersRest(r),
             pc'[r] \notin {"read", "work", "reserve", "settle"}
      PROVE  MirroredOn(o)'
  <2>1. LocksStay(r)
    BY <1>1 DEF LocksStay, Locks
  <2> QED
    BY <1>1, <2>1, IdleProgress, ProgressStep
<1>2. ASSUME End(r)
      PROVE  OthersRest(r) /\ pc'[r] \notin {"read", "work", "reserve", "settle"}
  BY <1>2 DEF End, OthersRest, WellFormed, TypeOK, SessionTyped
<1>3. ASSUME NEW alerts, FlushThenEnd(r, alerts)
      PROVE  OthersRest(r) /\ pc'[r] \notin {"read", "work", "reserve", "settle"}
  BY <1>2, <1>3 DEF FlushThenEnd, OthersRest, WellFormed, TypeOK, SessionTyped
<1>4. ASSUME NEW c \in StockCalls, MoveStock(r, c) \/ InitializeStock(r, c) PROVE MirroredOn(o)'
  <2>1. OthersRest(r) /\ pc'[r] \in {"movement", "opened"}
    BY <1>4 DEF MoveStock, InitializeStock, Goto, OthersRest, WellFormed, TypeOK, SessionTyped
  <2> QED
    BY <1>1, <1>4, <2>1 DEF MoveStock, InitializeStock, WriteStock
<1>5. CASE RecordMovement(r) \/ MarkOpened(r)
  BY <1>1, <1>3, <1>5 DEF RecordMovement, MarkOpened, WriteStock
<1>6. CASE RefreshOpened(r)
  <2>1. OthersRest(r) /\ pc'[r] \notin {"read", "work", "reserve", "settle"}
    BY <1>2, <1>6 DEF RefreshOpened, Goto, OthersRest, WellFormed, TypeOK, SessionTyped
  <2> QED
    BY <1>1, <1>6, <2>1 DEF RefreshOpened, tables, locks
<1>7. ASSUME NEW s \in Stocks, DeferAlert(r, s) \/ LoseAlert(r, s) PROVE MirroredOn(o)'
  BY <1>1, <1>3, <1>7 DEF DeferAlert, LoseAlert, tables, locks
<1> QED
  BY <1>4, <1>5, <1>6, <1>7

\* The status check is the first thing a call on an order does.
LEMMA ReadOrderMirrors ==
  ASSUME WellFormed, SessionsFit, NEW o \in Orders, OnItsOwn(o), MirroredOn(o),
         NEW r \in Requests, NEW c \in OrderCalls,
         ReadOrder(r, c)
  PROVE  MirroredOn(o)'
<1>1. /\ order[c.order] \in AllowedStatuses(c.op)
      /\ pc' = [pc EXCEPT ![r] = "read"] /\ call' = [call EXCEPT ![r] = c]
      /\ UNCHANGED <<order, item, resv, locks, todo, seen, cur>>
  BY DEF ReadOrder, Goto, tables
<1>2. OthersRest(r) /\ pc'[r] = "read" /\ call'[r] = c
  BY <1>1 DEF OthersRest, WellFormed, TypeOK, SessionTyped
<1>3. OrderProgress(r)'
  BY <1>1, <1>2 DEF OrderProgress
<1> QED
  BY <1>1, <1>2, <1>3, QuietLocks, ProgressStep

\* Every item of a confirmed order has its reservation, so cancel_order and
\* complete_order skip none; every item of a created order is taken by confirm_order.
LEMMA ReadItemsMirrors ==
  ASSUME WellFormed, SessionsFit, NEW o \in Orders, OnItsOwn(o), MirroredOn(o),
         NEW r \in Requests, ReadItems(r)
  PROVE  MirroredOn(o)'
<1>1. /\ pc[r] = "read" /\ call[r].op \in {"confirm", "cancel", "complete"}
      /\ pc' = [pc EXCEPT ![r] = "work"]
      /\ todo' = [todo EXCEPT ![r] = ItemsToHandle(call[r].op, call[r].order)]
      /\ UNCHANGED <<order, item, resv, locks, call, cur>>
      /\ \A q \in Requests \ {r} : seen'[q] = seen[q]
  BY DEF ReadItems, Goto, tables, WellFormed, TypeOK, SessionTyped
<1>2. /\ OthersRest(r) /\ pc'[r] = "work" /\ call'[r] = call[r]
      /\ todo'[r] = ItemsToHandle(call[r].op, call[r].order)
  BY <1>1 DEF OthersRest, WellFormed, TypeOK, SessionTyped
<1>3. ASSUME call[r].order = o PROVE OrderProgress(r)'
  <2>1. order[o] \in AllowedStatuses(call[r].op)
    BY <1>1, <1>3 DEF MirroredOn, OrderProgress, OnOrder
  <2>2. ItemsOf(o) \subseteq ItemsToHandle(call[r].op, o)
    <3>1. CASE call[r].op = "confirm"
      BY <3>1 DEF ItemsToHandle
    <3>2. CASE call[r].op # "confirm"
      <4>1. order[o] = "confirmed"
        BY <1>1, <2>1, <3>2 DEF AllowedStatuses
      <4>2. \A i \in ItemsOf(o) : resv[i].status = "reserved"
        BY <4>1 DEF ItemsOf, MirroredOn, StatusFor
      <4> QED
        BY <3>2, <4>2 DEF ItemsToHandle, NoResv
    <3> QED
      BY <3>1, <3>2
  <2> QED
    BY <1>1, <1>2, <1>3, <2>1, <2>2 DEF OrderProgress, ItemsOf
<1>4. OnOrder(r, o)' => OrderProgress(r)'
  BY <1>2, <1>3 DEF OnOrder
<1> QED
  BY <1>1, <1>2, <1>4, QuietLocks, ProgressStep

\* remove_item does not change the order.
LEMMA PickItemMirrors ==
  ASSUME WellFormed, SessionsFit, NEW o \in Orders, OnItsOwn(o), MirroredOn(o),
         NEW r \in Requests, PickItem(r)
  PROVE  MirroredOn(o)'
<1>1. /\ pc[r] = "read" /\ call[r].op = "remove_item"
      /\ pc' = [pc EXCEPT ![r] = "work"]
      /\ UNCHANGED <<order, item, resv, locks, call, seen, cur>>
      /\ \A q \in Requests \ {r} : todo'[q] = todo[q]
  BY DEF PickItem, Goto, tables, WellFormed, TypeOK, SessionTyped
<1>2. OthersRest(r) /\ pc'[r] = "work" /\ call'[r] = call[r]
  BY <1>1 DEF OthersRest, WellFormed, TypeOK, SessionTyped
<1>3. OnOrder(r, o)' => OrderProgress(r)'
  BY <1>1, <1>2 DEF OnOrder, OrderProgress, MirroredOn
<1> QED
  BY <1>1, <1>2, <1>3, QuietLocks, ProgressStep

\* A new item joins a created order and has no reservation.
LEMMA AddItemMirrors ==
  ASSUME WellFormed, SessionsFit, NEW o \in Orders, OnItsOwn(o), MirroredOn(o),
         NEW r \in Requests, NEW i \in Items, AddItem(r, i)
  PROVE  MirroredOn(o)'
<1> DEFINE row == [state |-> "live", order |-> call[r].order,
                   product |-> call[r].product, quantity |-> call[r].quantity]
<1>1. /\ pc[r] = "read" /\ call[r].op = "add_item" /\ item[i] = NoItem /\ End(r)
      /\ item' = [item EXCEPT ![i] = row]
      /\ UNCHANGED <<order, resv, stock, locks>>
  BY DEF AddItem
<1>2. row.order = call[r].order /\ row.state = "live" /\ row # NoItem
  BY DEF NoItem
<1> HIDE DEF row
<1>3. \A j \in Items : item'[j] = (IF j = i THEN row ELSE item[j])
  BY <1>1 DEF WellFormed, TypeOK, TablesTyped
<1>4. call[r].order = o => OnOrder(r, o) /\ order[o] = "created"
  BY <1>1 DEF OnOrder, MirroredOn, OrderProgress, AllowedStatuses
<1>5. OthersRest(r) /\ pc'[r] = "idle"
  BY <1>1 DEF End, OthersRest, WellFormed, TypeOK, SessionTyped
<1>6. \A q \in Requests : OnOrder(q, o)' => OrderProgress(q)'
  <2>1. \A q \in Requests \ {r} : OnOrder(q, o)' => OrderProgress(q)'
    BY <1>1, <1>2, <1>3, <1>4, <1>5, QuietLocks, OthersProgress
  <2> QED
    BY <1>5, <2>1, IdleProgress
<1>7. ASSUME NEW j \in Items, item'[j].state = "live", item'[j].order = o
      PROVE  resv'[j].status = StatusFor(o)'
  <2>1. CASE j = i
    <3>1. resv[i] = NoResv
      BY <1>1 DEF MirroredOn
    <3> QED
      BY <1>1, <1>2, <1>3, <1>4, <1>7, <2>1, <3>1 DEF StatusFor, NoResv
  <2>2. CASE j # i
    BY <1>1, <1>3, <1>7, <2>2 DEF MirroredOn, StatusFor
  <2> QED
    BY <2>1, <2>2
<1>8. \A j \in Items : item'[j] = NoItem => resv'[j] = NoResv
  BY <1>1, <1>2, <1>3 DEF MirroredOn
<1> QED
  BY <1>6, <1>7, <1>8 DEF MirroredOn

\* A deleted item is no longer an item of its order.
LEMMA RemoveItemMirrors ==
  ASSUME WellFormed, SessionsFit, NEW o \in Orders, OnItsOwn(o), MirroredOn(o),
         NEW r \in Requests, NEW i \in Items,
         RemoveItem(r, i)
  PROVE  MirroredOn(o)'
<1> DEFINE row == [item[i] EXCEPT !.state = "deleted"]
<1>1. /\ i \in todo[r] /\ call[r].op = "remove_item" /\ End(r)
      /\ item' = [item EXCEPT ![i] = row]
      /\ UNCHANGED <<order, resv, stock, locks>>
  BY DEF RemoveItem
<1>2. row.state = "deleted" /\ row # NoItem
  <2>1. item[i] # NoItem /\ item[i] \in ItemRows
    BY <1>1 DEF WellFormed, SessionsMakeSense, StepFitsCall, TypeOK, TablesTyped
  <2> QED
    BY <2>1, DeletedItemRow DEF ItemRows, NoItem
<1> HIDE DEF row
<1>3. \A j \in Items : item'[j] = (IF j = i THEN row ELSE item[j])
  BY <1>1 DEF WellFormed, TypeOK, TablesTyped
<1>4. OthersRest(r) /\ pc'[r] = "idle"
  BY <1>1 DEF End, OthersRest, WellFormed, TypeOK, SessionTyped
<1>5. \A q \in Requests : OnOrder(q, o)' => OrderProgress(q)'
  <2>1. \A q \in Requests \ {r} : OnOrder(q, o)' => OrderProgress(q)'
    BY <1>1, <1>2, <1>3, <1>4, QuietLocks, OthersProgress
  <2> QED
    BY <1>4, <2>1, IdleProgress
<1>6. \A j \in Items : item'[j].state = "live" /\ item'[j].order = o =>
                       resv'[j].status = StatusFor(o)'
  BY <1>1, <1>2, <1>3 DEF MirroredOn, StatusFor
<1> QED
  BY <1>1, <1>2, <1>3, <1>5, <1>6 DEF MirroredOn

\* A rolled back call leaves the order and its reservations as they were.
LEMMA GivesUpMirrors ==
  ASSUME WellFormed, SessionsFit, NEW o \in Orders, OnItsOwn(o), MirroredOn(o),
         NEW r \in Requests, Rollback(r), End(r)
  PROVE  MirroredOn(o)'
<1>1. /\ UNCHANGED <<order, item, resv>> /\ r # None
      /\ \A i \in Items :
           /\ resvDraft'[i] = (IF resvOwner[i] = r THEN resv[i] ELSE resvDraft[i])
           /\ resvOwner'[i] = (IF resvOwner[i] = r THEN None ELSE resvOwner[i])
      /\ \A s \in Stocks : stockOwner'[s] = (IF stockOwner[s] = r THEN None ELSE stockOwner[s])
  BY NoneIsFresh DEF Rollback, tables
<1>2. OthersRest(r) /\ pc'[r] = "idle"
  BY DEF End, OthersRest, WellFormed, TypeOK, SessionTyped
<1>3. LocksStay(r)
  BY <1>1, NoneIsFresh DEF LocksStay, Locks
<1>4. \A i \in Items : resvDraft'[i] = resvDraft[i] \/ i \in Locks(r)
  BY <1>1 DEF Locks
<1>5. OrderProgress(r)'
  BY <1>2, IdleProgress
<1> QED
  BY <1>1, <1>2, <1>3, <1>4, <1>5, ProgressStep

\* COMMIT gives the order and the reservations of all its items their status at once.
LEMMA CommitMirrors ==
  ASSUME WellFormed, SessionsFit, NEW o \in Orders, OnItsOwn(o), MirroredOn(o),
         NEW r \in Requests, CommitConfirm(r) \/ CommitCancel(r) \/ CommitComplete(r)
  PROVE  MirroredOn(o)'
<1>1. PICK status :
        /\ \/ call[r].op = "confirm" /\ status = "confirmed"
           \/ call[r].op = "cancel" /\ status = "cancelled"
           \/ call[r].op = "complete" /\ status = "completed"
        /\ pc[r] = "work" /\ todo[r] = {} /\ Commit(r) /\ item' = item
        /\ order' = [order EXCEPT ![call[r].order] = status]
  BY DEF CommitConfirm, CommitCancel, CommitComplete
<1>2. OthersRest(r) /\ pc'[r] \in {"idle", "flush"}
  BY DEF CommitConfirm, CommitCancel, CommitComplete, FlushThenEnd, End, OthersRest,
         WellFormed, TypeOK, SessionTyped
<1>3. /\ resvDraft' = resvDraft /\ r # None
      /\ \A i \in Items :
           /\ resv'[i] = (IF resvOwner[i] = r THEN resvDraft[i] ELSE resv[i])
           /\ resvOwner'[i] = (IF resvOwner[i] = r THEN None ELSE resvOwner[i])
      /\ \A s \in Stocks : stockOwner'[s] = (IF stockOwner[s] = r THEN None ELSE stockOwner[s])
  BY <1>1, NoneIsFresh DEF Commit
<1>4. LocksStay(r)
  BY <1>3, NoneIsFresh DEF LocksStay, Locks
<1>5. /\ order'[o] = (IF call[r].order = o THEN status ELSE order[o])
      /\ call[r].order = o <=> OnOrder(r, o)
  BY <1>1 DEF OnOrder, WellFormed, TypeOK, TablesTyped
<1>6. \A q \in Requests : OnOrder(q, o)' => OrderProgress(q)'
  <2>1. \A q \in Requests \ {r} : OnOrder(q, o)' => OrderProgress(q)'
    BY <1>1, <1>2, <1>3, <1>4, <1>5, OthersProgress
  <2> QED
    BY <1>2, <2>1, IdleProgress
<1>7. \A i \in Locks(r) : item[i] # NoItem /\ item[i].order = call[r].order
  BY DEF SessionsFit, SessionFits
<1>8. \A i \in Items : item'[i] = NoItem => resv'[i] = NoResv
  BY <1>1, <1>3, <1>7 DEF MirroredOn, Locks
<1>9. ASSUME NEW i \in Items, item[i].state = "live", item[i].order = o
      PROVE  resv'[i].status = StatusFor(o)'
  <2>1. CASE call[r].order = o
    <3>1. i \in Locks(r) /\ resvDraft[i].status = TargetStatus(call[r].op)
      BY <1>1, <1>5, <1>9, <2>1 DEF MirroredOn, OrderProgress, ItemsOf
    <3>2. StatusFor(o)' = TargetStatus(call[r].op)
      <4>1. order'[o] = status
        BY <1>5, <2>1
      <4> QED
        BY <1>1, <4>1 DEF StatusFor, TargetStatus, SettledStatus
    <3> QED
      BY <1>3, <3>1, <3>2 DEF Locks
  <2>2. CASE call[r].order # o
    <3>1. resv'[i] = resv[i] /\ order'[o] = order[o]
      BY <1>3, <1>5, <1>7, <1>9, <2>2 DEF Locks
    <3> QED
      BY <1>9, <3>1 DEF MirroredOn, StatusFor
  <2> QED
    BY <2>1, <2>2
<1> QED
  BY <1>1, <1>6, <1>8, <1>9 DEF MirroredOn

\* Locking a reservation, and a stock row, leaves every item where it was.
LEMMA LockMirrors ==
  ASSUME WellFormed, SessionsFit, NEW o \in Orders, OnItsOwn(o), MirroredOn(o),
         NEW r \in Requests, NEW i \in Items,
         LockReservation(r, i) \/ ReserveStock(r, i)
  PROVE  MirroredOn(o)'
<1>1. /\ pc[r] = "work" /\ pc'[r] \in {"settle", "reserve"} /\ OthersRest(r)
      /\ UNCHANGED <<order, item, resv, resvDraft, call, todo>>
  BY DEF LockReservation, ReserveStock, Settling, Goto, tables, OthersRest, WellFormed, TypeOK,
         SessionTyped
<1>2. LocksStay(r) /\ Locks(r) \subseteq Locks(r)'
  <2>1. CASE LockReservation(r, i)
    <3>1. /\ resvOwner[i] = None /\ stockOwner' = stockOwner
          /\ \A j \in Items : resvOwner'[j] = (IF j = i THEN r ELSE resvOwner[j])
      BY <2>1 DEF LockReservation, WellFormed, TypeOK, LocksTyped
    <3> QED
      BY <3>1, NoneIsFresh DEF LocksStay, Locks
  <2>2. CASE ReserveStock(r, i)
    <3>1. /\ Free(stockOwner[ItemStock(r, i)], r) /\ resvOwner' = resvOwner
          /\ \A s \in Stocks :
               stockOwner'[s] = (IF s = ItemStock(r, i) THEN r ELSE stockOwner[s])
      BY <2>2 DEF ReserveStock, WellFormed, TypeOK, LocksTyped
    <3> QED
      BY <3>1, NoneIsFresh DEF LocksStay, Locks, Free
  <2> QED
    BY <2>1, <2>2
<1>3. OnOrder(r, o)' => OrderProgress(r)'
  BY <1>1, <1>2 DEF OnOrder, MirroredOn, OrderProgress, ItemsOf
<1> QED
  BY <1>1, <1>2, <1>3, ProgressStep

\* An item leaves the loop of confirm_order with its reservation RESERVED.
LEMMA InsertReservationMirrors ==
  ASSUME WellFormed, SessionsFit, NEW o \in Orders, OnItsOwn(o), MirroredOn(o),
         NEW r \in Requests, InsertReservation(r)
  PROVE  MirroredOn(o)'
<1>1. PICK i \in Items : i = cur[r] /\ i \in todo[r]
  BY DEF InsertReservation, WellFormed, TypeOK, SessionTyped, SessionsMakeSense, StepFitsCall
<1>2. /\ pc[r] = "reserve" /\ resvOwner[i] = None /\ call[r].op = "confirm"
      /\ resvOwner' = [resvOwner EXCEPT ![i] = r]
      /\ todo' = [todo EXCEPT ![r] = todo[r] \ {i}] /\ cur' = [cur EXCEPT ![r] = None]
      /\ pc' = [pc EXCEPT ![r] = "work"]
      /\ UNCHANGED <<order, item, resv, stockOwner, call, seen>>
  BY <1>1 DEF InsertReservation, Goto, tables, WellFormed, TypeOK, SessionTyped,
              SessionsMakeSense, StepFitsCall
<1>3. /\ resvDraft'[i].status = "reserved"
      /\ \A j \in Items \ {i} : resvDraft'[j] = resvDraft[j]
  BY <1>1 DEF InsertReservation, WellFormed, TypeOK, LocksTyped
<1>4. /\ OthersRest(r) /\ pc'[r] = "work" /\ todo'[r] = todo[r] \ {i}
      /\ \A j \in Items : resvOwner'[j] = (IF j = i THEN r ELSE resvOwner[j])
  BY <1>2 DEF OthersRest, WellFormed, TypeOK, SessionTyped, LocksTyped
<1>5. LocksStay(r) /\ Locks(r)' = Locks(r) \cup {i}
  BY <1>2, <1>4, NoneIsFresh DEF LocksStay, Locks
<1>6. OnOrder(r, o)' => OrderProgress(r)'
  <2> SUFFICES ASSUME OnOrder(r, o)' PROVE OrderProgress(r)'
    OBVIOUS
  <2>1. ItemsOf(call[r].order)' = ItemsOf(call[r].order) /\ ItemsOf(call[r].order) \subseteq Items
    BY <1>2 DEF ItemsOf
  <2>2. OrderProgress(r)
    BY <1>2 DEF OnOrder, MirroredOn
  <2> QED
    BY <1>2, <1>3, <1>4, <1>5, <2>1, <2>2 DEF OrderProgress, TargetStatus
<1> QED
  BY <1>1, <1>2, <1>3, <1>4, <1>5, <1>6, ProgressStep

\* An item leaves the loop of cancel_order RELEASED, and that of complete_order
\* FULFILLED.
LEMMA SettleStockMirrors ==
  ASSUME WellFormed, SessionsFit, NEW o \in Orders, OnItsOwn(o), MirroredOn(o),
         NEW r \in Requests, SettleStock(r)
  PROVE  MirroredOn(o)'
<1>1. PICK i \in Items : i = cur[r] /\ i \in todo[r]
  BY DEF SettleStock, WellFormed, TypeOK, SessionTyped, SessionsMakeSense, StepFitsCall
<1>2. PICK s \in Stocks : s = resvDraft[i].stock
  BY <1>1, SettlingItem DEF SettleStock
<1>3. /\ pc[r] = "settle" /\ Free(stockOwner[s], r)
      /\ call[r].op \in {"cancel", "complete"}
      /\ stockOwner' = [stockOwner EXCEPT ![s] = r]
      /\ resvDraft' = [resvDraft EXCEPT ![i] =
                         [resvDraft[i] EXCEPT !.status = SettledStatus(call[r].op)]]
      /\ todo' = [todo EXCEPT ![r] = todo[r] \ {i}] /\ cur' = [cur EXCEPT ![r] = None]
      /\ pc' = [pc EXCEPT ![r] = "work"]
      /\ UNCHANGED <<order, item, resv, resvOwner, call, seen>>
  BY <1>1, <1>2, SettlingItem, SettleStockEffect
     DEF SettleStock, Goto, tables, WellFormed, TypeOK, LocksTyped
<1>4. /\ resvDraft'[i].status = TargetStatus(call[r].op)
      /\ \A j \in Items \ {i} : resvDraft'[j] = resvDraft[j]
  <2>1. resvDraft[i] \in ResvRows /\ resvDraft[i] # NoResv
    BY <1>1, <1>3, SettlingItem
  <2>2. SettledStatus(call[r].op) \in {"released", "fulfilled"}
    BY DEF SettledStatus
  <2> DEFINE row == [resvDraft[i] EXCEPT !.status = SettledStatus(call[r].op)]
  <2>3. row.status = SettledStatus(call[r].op)
    BY <2>1, <2>2, SettledResvRow
  <2>4. resvDraft' = [resvDraft EXCEPT ![i] = row]
    BY <1>3
  <2> HIDE DEF row
  <2>5. resvDraft'[i] = row /\ \A j \in Items \ {i} : resvDraft'[j] = resvDraft[j]
    BY <2>4 DEF WellFormed, TypeOK, LocksTyped
  <2> QED
    BY <1>3, <2>3, <2>5 DEF TargetStatus
<1>5. /\ OthersRest(r) /\ pc'[r] = "work" /\ todo'[r] = todo[r] \ {i}
      /\ \A t \in Stocks : stockOwner'[t] = (IF t = s THEN r ELSE stockOwner[t])
  BY <1>3 DEF OthersRest, WellFormed, TypeOK, SessionTyped, LocksTyped
<1>6. LocksStay(r) /\ Locks(r)' = Locks(r) /\ i \in Locks(r)
  BY <1>1, <1>3, <1>5, NoneIsFresh DEF LocksStay, Locks, Free, SessionsFit, SessionFits
<1>7. OnOrder(r, o)' => OrderProgress(r)'
  <2> SUFFICES ASSUME OnOrder(r, o)' PROVE OrderProgress(r)'
    OBVIOUS
  <2>1. ItemsOf(call[r].order)' = ItemsOf(call[r].order) /\ ItemsOf(call[r].order) \subseteq Items
    BY <1>3 DEF ItemsOf
  <2>2. OrderProgress(r)
    BY <1>3 DEF OnOrder, MirroredOn
  <2> QED
    BY <1>3, <1>4, <1>5, <1>6, <2>1, <2>2 DEF OrderProgress
<1> QED
  BY <1>1, <1>3, <1>4, <1>5, <1>6, <1>7, ProgressStep


\* One step of the proof per action: only its own calls touch what is said of an order.
LEMMA NextMirrorsOn ==
  ASSUME WellFormed, SessionsFit, NEW o \in Orders, OnItsOwn(o), MirroredOn(o), [Next]_vars
  PROVE  MirroredOn(o)'
<1>1. ASSUME NEW p \in Orders, CreateOrder(p) PROVE MirroredOn(o)'
  BY <1>1, CreateOrderMirrors
<1>2. ASSUME NEW r \in Requests, Arrives(r) PROVE MirroredOn(o)'
  BY <1>2, ReadOrderMirrors, DeskMirrors DEF Arrives
<1>3. ASSUME NEW r \in Requests, GivesUp(r) PROVE MirroredOn(o)'
  BY <1>3, GivesUpEffect, GivesUpMirrors
<1>4. ASSUME NEW r \in Requests, NEW i \in Items, ItemStep(r, i) PROVE MirroredOn(o)'
  BY <1>3, <1>4, AddItemMirrors, RemoveItemMirrors, LockMirrors DEF ItemStep, GivesUp
<1>5. ASSUME NEW r \in Requests, Advances(r) PROVE MirroredOn(o)'
  BY <1>3, <1>4, <1>5, ReadItemsMirrors, PickItemMirrors, InsertReservationMirrors,
     CommitMirrors, SettleStockMirrors, DeskMirrors
     DEF Advances, GivesUp
<1>6. ASSUME NEW r \in Requests, Fails(r) PROVE MirroredOn(o)'
  BY <1>3, <1>6, DeskMirrors DEF Fails, GivesUp
<1>7. CASE UNCHANGED vars
  BY <1>7, SameMirrored DEF vars, tables, locks, session
<1> QED
  BY <1>1, <1>2, <1>5, <1>6, <1>7 DEF Next

\* The life of an order, one step of it: completed and cancelled are its ends, and once
\* it is confirmed its lines stay what they are.
Lives(o) ==
    /\ \/ order'[o] = order[o]
       \/ order[o] = "none" /\ order'[o] = "created"
       \/ order[o] = "created" /\ order'[o] = "confirmed"
       \/ order[o] = "confirmed" /\ order'[o] \in {"cancelled", "completed"}
    /\ order[o] # "created" => ItemsOf(o)' = ItemsOf(o)

\* The status an endpoint has checked is the status its commit replaces.
LEMMA NextLives ==
  ASSUME WellFormed, SessionsFit, NEW o \in Orders, MirroredOn(o), [Next]_vars
  PROVE  Lives(o)
<1>1. ASSUME UNCHANGED <<order, item>> PROVE Lives(o)
  BY <1>1 DEF Lives, ItemsOf
<1>2. ASSUME NEW p \in Orders, CreateOrder(p) PROVE Lives(o)
  BY <1>2 DEF CreateOrder, Lives, ItemsOf, WellFormed, TypeOK, TablesTyped
<1>3. ASSUME NEW r \in Requests, CommitConfirm(r) \/ CommitCancel(r) \/ CommitComplete(r)
      PROVE  Lives(o)
  <2>1. call[r].order = o => order[o] \in AllowedStatuses(call[r].op)
    BY <1>3 DEF CommitConfirm, CommitCancel, CommitComplete, OnOrder, MirroredOn, OrderProgress
  <2>2. ItemsOf(o)' = ItemsOf(o)
    BY <1>3 DEF CommitConfirm, CommitCancel, CommitComplete, ItemsOf
  <2> QED
    BY <1>3, <2>1, <2>2 DEF CommitConfirm, CommitCancel, CommitComplete, Lives, AllowedStatuses,
                            WellFormed, TypeOK, TablesTyped
<1>4. ASSUME NEW r \in Requests, NEW i \in Items, AddItem(r, i) \/ RemoveItem(r, i)
      PROVE  Lives(o)
  <2>1. /\ pc[r] \in {"read", "work"} /\ call[r].op \in {"add_item", "remove_item"}
        /\ order' = order /\ \A j \in Items \ {i} : item'[j] = item[j]
    BY <1>4 DEF AddItem, RemoveItem, WellFormed, TypeOK, TablesTyped
  <2>2. call[r].order = o => order[o] = "created"
    BY <2>1 DEF OnOrder, MirroredOn, OrderProgress, AllowedStatuses
  <2>3. call[r].order # o => (i \in ItemsOf(o)' <=> i \in ItemsOf(o))
    <3>1. CASE AddItem(r, i)
      <4>1. item[i] = NoItem /\ item'[i].order = call[r].order
        BY <3>1 DEF AddItem, WellFormed, TypeOK, TablesTyped
      <4> QED
        BY <4>1 DEF ItemsOf, NoItem
    <3>2. CASE RemoveItem(r, i)
      <4>1. i \in todo[r] /\ item'[i].order = item[i].order
        BY <3>2, ItemStepItems DEF RemoveItem, ItemsStay, WellFormed, SessionsMakeSense,
                                   StepFitsCall
      <4>2. item[i].order = call[r].order
        BY <4>1 DEF SessionsFit, SessionFits
      <4> QED
        BY <4>1, <4>2 DEF ItemsOf
    <3> QED
      BY <1>4, <3>1, <3>2
  <2> QED
    BY <2>1, <2>2, <2>3 DEF Lives, ItemsOf
<1>5. ASSUME NEW r \in Requests, GivesUp(r) PROVE Lives(o)
  BY <1>1, <1>5, GivesUpEffect DEF Rollback, tables
<1>6. ASSUME NEW r \in Requests,
             \/ DeskStep(r) \/ InsertReservation(r) \/ SettleStock(r)
             \/ ReadItems(r) \/ PickItem(r) \/ RefreshOpened(r)
             \/ \E c \in OrderCalls : ReadOrder(r, c)
             \/ \E i \in Items : ReserveStock(r, i) \/ LockReservation(r, i)
             \/ \E s \in Stocks : DeferAlert(r, s) \/ LoseAlert(r, s)
      PROVE  Lives(o)
  BY <1>1, <1>6 DEF DeskStep, MoveStock, InitializeStock, RecordMovement, MarkOpened, WriteStock,
                    InsertReservation, SettleStock, ReadItems, PickItem, RefreshOpened, ReadOrder,
                    ReserveStock, LockReservation, DeferAlert, LoseAlert, tables
<1>7. ASSUME NEW r \in Requests, Arrives(r) \/ Advances(r) \/ Fails(r) PROVE Lives(o)
  BY <1>3, <1>4, <1>5, <1>6, <1>7, KindsOfStep DEF SitsOut
<1>8. CASE UNCHANGED vars
  BY <1>1, <1>8 DEF vars, tables
<1> QED
  BY <1>2, <1>7, <1>8 DEF Next

\* At the start every order mirrors its reservations and every session fits.
LEMMA InitMirrors ==
  ASSUME Init PROVE WellFormed /\ SessionsFit /\ \A o \in Orders : MirroredOn(o)
<1>1. WellFormed /\ SessionsFit
  BY InitTypeOK, InitSense, InitConsistent DEF WellFormed, Consistent
<1>2. \A o \in Orders : MirroredOn(o)
  BY DEF Init, MirroredOn, OnOrder, NoItem
<1> QED
  BY <1>1, <1>2

\* While one call at a time is on order o, every item of o has the reservation that the
\* status of o promises, however the calls on the other orders overlap: the row locks
\* of the stock it shares with them are all the isolation it needs.
THEOREM OrdersAreIsolated ==
  ASSUME NEW o \in Orders
  PROVE  Spec => ([]OnItsOwn(o) => [](\A i \in Items : i \in ItemsOf(o) =>
                                                       resv[i].status = StatusFor(o)))
<1> DEFINE Inv == WellFormed /\ SessionsFit /\ MirroredOn(o)
           Mirrors == \A i \in Items : i \in ItemsOf(o) => resv[i].status = StatusFor(o)
<1>1. Init => Inv
  BY InitMirrors
<1>2. Inv /\ OnItsOwn(o) /\ [Next]_vars => Inv'
  BY NextWF, NextSessionsFit, NextMirrorsOn
<1>3. Inv => Mirrors
  BY DEF MirroredOn, ItemsOf
<1> QED
  BY <1>1, <1>2, <1>3, PTL DEF Spec

\* And it goes from created to confirmed to cancelled or completed, and no further: no
\* stale status check of another request brings a settled order back, confirms it twice
\* or edits a confirmed one.
THEOREM OrdersMoveForward ==
  ASSUME NEW o \in Orders
  PROVE  Spec => ([]OnItsOwn(o) => [][Lives(o)]_vars)
<1> DEFINE Inv == WellFormed /\ SessionsFit /\ MirroredOn(o)
<1>1. Init => Inv
  BY InitMirrors
<1>2. Inv /\ OnItsOwn(o) /\ [Next]_vars => Inv'
  BY NextWF, NextSessionsFit, NextMirrorsOn
<1>3. Inv /\ [Next]_vars => [Lives(o)]_vars
  BY NextLives
<1> QED
  BY <1>1, <1>2, <1>3, PTL DEF Spec

\* Items and reservations agree with every order.
Mirrored == \A o \in Orders : MirroredOn(o)

\* Every call on an order is on course with the status of its order.
LEMMA ProgressOfAll ==
  ASSUME WellFormed, Mirrored, NEW r \in Requests PROVE OrderProgress(r)
<1>1. CASE pc[r] \in {"read", "work", "reserve", "settle"}
  BY <1>1, OnAnOrder DEF Mirrored, MirroredOn, OnOrder
<1>2. CASE pc[r] \notin {"read", "work", "reserve", "settle"}
  BY <1>2 DEF OrderProgress
<1> QED
  BY <1>1, <1>2

\* Every item that is not deleted has the reservation its order promises.
LEMMA ItemsMirrored ==
  ASSUME WellFormed, Mirrored, NEW i \in Items, item[i].state = "live"
  PROVE  item[i].order \in Orders /\ resv[i].status = StatusFor(item[i].order)
<1>1. item[i] # NoItem /\ item[i] \in ItemRows
  BY DEF NoItem, WellFormed, TypeOK, TablesTyped
<1> QED
  BY <1>1, ItemFields DEF Mirrored, MirroredOn

-----------------------------------------------------------------------------
(* HoldsFollowStatus *)

\* The status check of a call that changes the status stays true until its commit, and
\* every item of the order is still in its loop, or has been handled and is locked, or
\* has no reservation and gets none from it.
ChangeProgress(r) ==
    /\ order[call[r].order] \in AllowedStatuses(call[r].op)
    /\ pc[r] # "read" =>
         \A i \in ItemsOf(call[r].order) :
            \/ i \in todo[r]
            \/ i \in Locks(r) /\ resvDraft[i].status = TargetStatus(call[r].op)
            \/ i \notin Locks(r) /\ resv[i] = NoResv

\* The holds of order o fit its status, and the calls that change it are on course.
HoldsOn(o) ==
    /\ \A r \in Requests : Changes(r, o) => ChangeProgress(r)
    /\ HoldsFit(o)

\* No status rules out an item without a reservation.
LEMMA HoldsOfStatus ==
  /\ \A status : "none" \in HoldsOf(status)
  /\ HoldsOf("none") = {"none"} /\ HoldsOf("created") = {"none"}
  /\ "reserved" \in HoldsOf("confirmed") /\ "released" \in HoldsOf("cancelled")
  /\ "fulfilled" \in HoldsOf("completed") /\ NoResv.status = "none"
  BY DEF HoldsOf, NoResv

\* Whoever settles or reserves items of an order is changing it.
LEMMA HandlerChanges ==
  ASSUME WellFormed, SessionsFit, NEW r \in Requests, NEW o \in Orders, NEW i \in ItemsOf(o),
         i \in Locks(r) \/ (i \in todo[r] /\ call[r].op # "remove_item")
  PROVE  Changes(r, o)
<1>1. i \in Items /\ item[i].order = o
  BY DEF ItemsOf
<1>2. OnOrder(r, o) /\ pc[r] \in {"work", "reserve", "settle"}
  BY <1>1, HandlerIsOnOrder
<1>3. i \in Locks(r) => call[r].op \in {"confirm", "cancel", "complete"}
  BY DEF SessionsFit, SessionFits
<1>4. call[r].op \in {"remove_item", "confirm", "cancel", "complete"}
  BY <1>2 DEF WellFormed, SessionsMakeSense, StepFitsCall
<1> QED
  BY <1>2, <1>3, <1>4 DEF Changes

\* What a step of r must respect for the others that change o.
LEMMA OthersChange ==
  ASSUME WellFormed, SessionsFit, NEW o \in Orders, ChangesApart(o), HoldsOn(o),
         NEW r \in Requests, OthersRest(r), LocksStay(r),
         order'[o] = order[o] \/ Changes(r, o),
         \A i \in ItemsOf(o)' :
            \/ i \in ItemsOf(o) /\ resvDraft'[i] = resvDraft[i] /\ resv'[i] = resv[i]
            \/ item[i] = NoItem /\ resv'[i] = NoResv
            \/ Changes(r, o)
  PROVE  \A q \in Requests \ {r} : Changes(q, o)' => ChangeProgress(q)'
<1> SUFFICES ASSUME NEW q \in Requests, q # r, Changes(q, o)'
             PROVE  ChangeProgress(q)'
  OBVIOUS
<1>1. /\ pc'[q] = pc[q] /\ call'[q] = call[q] /\ todo'[q] = todo[q]
      /\ Locks(q)' = Locks(q)
  BY DEF OthersRest, LocksStay
<1>2. Changes(q, o) /\ call[q].order = o
  BY <1>1 DEF Changes, OnOrder
<1>3. ~Changes(r, o) /\ ChangeProgress(q)
  BY <1>2 DEF ChangesApart, HoldsOn
<1>4. \A i \in Locks(q) : item[i] # NoItem
  BY DEF SessionsFit, SessionFits
<1>5. ASSUME NEW i \in ItemsOf(o)', pc[q] # "read"
      PROVE  \/ i \in todo[q]
             \/ i \in Locks(q) /\ resvDraft'[i].status = TargetStatus(call[q].op)
             \/ i \notin Locks(q) /\ resv'[i] = NoResv
  <2>1. CASE item[i] = NoItem /\ resv'[i] = NoResv
    BY <1>4, <2>1
  <2>2. CASE i \in ItemsOf(o) /\ resvDraft'[i] = resvDraft[i] /\ resv'[i] = resv[i]
    BY <1>2, <1>3, <1>5, <2>2 DEF ChangeProgress
  <2> QED
    BY <1>3, <2>1, <2>2
<1>6. order'[o] \in AllowedStatuses(call[q].op)
  BY <1>2, <1>3 DEF ChangeProgress
<1> QED
  BY <1>1, <1>2, <1>5, <1>6 DEF ChangeProgress

\* A step that leaves the tables alone.
LEMMA ChangeStep ==
  ASSUME WellFormed, SessionsFit, NEW o \in Orders, ChangesApart(o), HoldsOn(o),
         NEW r \in Requests, OthersRest(r), LocksStay(r),
         UNCHANGED <<order, item, resv>>,
         \A i \in ItemsOf(o) : resvDraft'[i] = resvDraft[i] \/ Changes(r, o),
         Changes(r, o)' => ChangeProgress(r)'
  PROVE  HoldsOn(o)'
<1>1. ItemsOf(o)' = ItemsOf(o)
  BY DEF ItemsOf
<1>2. \A q \in Requests \ {r} : Changes(q, o)' => ChangeProgress(q)'
  BY <1>1, OthersChange
<1>3. HoldsFit(o)'
  BY <1>1 DEF HoldsOn, HoldsFit
<1> QED
  BY <1>2, <1>3 DEF HoldsOn

\* A new order has no reservations and no calls.
LEMMA CreateOrderHolds ==
  ASSUME WellFormed, NEW o \in Orders, HoldsOn(o), NEW p \in Orders, CreateOrder(p)
  PROVE  HoldsOn(o)'
<1>1. /\ order[p] = "none" /\ order' = [order EXCEPT ![p] = "created"]
      /\ UNCHANGED <<item, resv, resvDraft, resvOwner, pc, call, todo>>
  BY DEF CreateOrder, locks, session
<1>2. \A x \in Orders : order'[x] = (IF x = p THEN "created" ELSE order[x])
  BY <1>1 DEF WellFormed, TypeOK, TablesTyped
<1>3. ItemsOf(o)' = ItemsOf(o)
  BY <1>1 DEF ItemsOf
<1>4. ASSUME NEW r \in Requests, Changes(r, o)' PROVE ChangeProgress(r)'
  <2>1. Changes(r, o) /\ call[r].order = o /\ ChangeProgress(r)
    BY <1>1, <1>4 DEF Changes, OnOrder, HoldsOn
  <2>2. o # p
    BY <1>1, <2>1 DEF ChangeProgress, AllowedStatuses
  <2> QED
    BY <1>1, <1>2, <1>3, <2>1, <2>2 DEF ChangeProgress, Locks
<1>5. HoldsOf(order[o])' = HoldsOf(order[o])
  <2>1. o # p => order'[o] = order[o]
    BY <1>2
  <2>2. o = p => order[o] = "none" /\ order'[o] = "created"
    BY <1>1, <1>2
  <2> QED
    BY <2>1, <2>2, HoldsOfStatus DEF HoldsOf
<1>6. HoldsFit(o)'
  BY <1>1, <1>3, <1>5 DEF HoldsOn, HoldsFit
<1> QED
  BY <1>4, <1>6 DEF HoldsOn

\* A step of a request that is not on an order.
LEMMA DeskHolds ==
  ASSUME WellFormed, SessionsFit, NEW o \in Orders, ChangesApart(o), HoldsOn(o),
         NEW r \in Requests,
         \/ \E c \in StockCalls : MoveStock(r, c) \/ InitializeStock(r, c)
         \/ RecordMovement(r) \/ RefreshOpened(r) \/ MarkOpened(r)
         \/ \E s \in Stocks : DeferAlert(r, s) \/ LoseAlert(r, s)
  PROVE  HoldsOn(o)'
<1>1. ASSUME UNCHANGED <<order, item, resv, resvDraft, resvOwner, stockOwner>>, OthersRest(r),
             pc'[r] \notin {"read", "work", "reserve", "settle"}
      PROVE  HoldsOn(o)'
  <2>1. LocksStay(r) /\ ~Changes(r, o)'
    BY <1>1 DEF LocksStay, Locks, Changes, OnOrder
  <2> QED
    BY <1>1, <2>1, ChangeStep
<1>2. ASSUME End(r) \/ \E alerts : FlushThenEnd(r, alerts)
      PROVE  OthersRest(r) /\ pc'[r] \notin {"read", "work", "reserve", "settle"}
  BY <1>2, EndRest
<1>3. ASSUME NEW c \in StockCalls, MoveStock(r, c) \/ InitializeStock(r, c) PROVE HoldsOn(o)'
  <2>1. OthersRest(r) /\ pc'[r] \in {"movement", "opened"}
    BY <1>3 DEF MoveStock, InitializeStock, Goto, OthersRest, WellFormed, TypeOK, SessionTyped
  <2> QED
    BY <1>1, <1>3, <2>1 DEF MoveStock, InitializeStock, WriteStock
<1>4. CASE RecordMovement(r) \/ MarkOpened(r)
  BY <1>1, <1>2, <1>4 DEF RecordMovement, MarkOpened, WriteStock
<1>5. CASE RefreshOpened(r)
  <2>1. OthersRest(r) /\ pc'[r] \notin {"read", "work", "reserve", "settle"}
    BY <1>2, <1>5 DEF RefreshOpened, Goto, OthersRest, WellFormed, TypeOK, SessionTyped
  <2> QED
    BY <1>1, <1>5, <2>1 DEF RefreshOpened, tables, locks
<1>6. ASSUME NEW s \in Stocks, DeferAlert(r, s) \/ LoseAlert(r, s) PROVE HoldsOn(o)'
  BY <1>1, <1>2, <1>6 DEF DeferAlert, LoseAlert, tables, locks
<1> QED
  BY <1>3, <1>4, <1>5, <1>6

\* The status check is the first thing a call does; what cancel_order and complete_order
\* then skip has no reservation, and confirm_order skips nothing.
LEMMA ReadingHolds ==
  ASSUME WellFormed, SessionsFit, NEW o \in Orders, ChangesApart(o), HoldsOn(o),
         NEW r \in Requests,
         ReadItems(r) \/ PickItem(r) \/ \E c \in OrderCalls : ReadOrder(r, c)
  PROVE  HoldsOn(o)'
<1>1. /\ UNCHANGED <<order, item, resv, locks, cur>>
      /\ \A q \in Requests \ {r} : /\ pc'[q] = pc[q] /\ call'[q] = call[q] /\ todo'[q] = todo[q]
                                   /\ seen'[q] = seen[q]
  BY DEF ReadOrder, ReadItems, PickItem, Goto, tables, WellFormed, TypeOK, SessionTyped
<1>2. OthersRest(r) /\ LocksStay(r) /\ Locks(r)' = Locks(r) /\ resvDraft' = resvDraft
  BY <1>1, QuietLocks DEF OthersRest
<1>3. ItemsOf(o)' = ItemsOf(o)
  BY <1>1 DEF ItemsOf
<1>4. ASSUME Changes(r, o)' PROVE ChangeProgress(r)'
  <2>1. ASSUME NEW c \in OrderCalls, ReadOrder(r, c) PROVE ChangeProgress(r)'
    <3>1. pc'[r] = "read" /\ call'[r] = c /\ order[c.order] \in AllowedStatuses(c.op)
      BY <2>1 DEF ReadOrder, Goto, WellFormed, TypeOK, SessionTyped
    <3> QED
      BY <1>1, <3>1 DEF ChangeProgress
  <2>2. CASE ReadItems(r)
    <3>1. /\ pc[r] = "read" /\ call'[r] = call[r] /\ pc'[r] = "work"
          /\ call[r].op \in {"confirm", "cancel", "complete"}
          /\ todo'[r] = ItemsToHandle(call[r].op, call[r].order)
      BY <2>2 DEF ReadItems, Goto, WellFormed, TypeOK, SessionTyped
    <3>2. Changes(r, o) /\ call[r].order = o /\ ChangeProgress(r)
      BY <1>4, <3>1 DEF Changes, OnOrder, HoldsOn
    <3>3. \A i \in ItemsOf(o) : i \in todo'[r] \/ (i \notin Locks(r) /\ resv[i] = NoResv)
      BY <3>1, <3>2, HoldsNoLock DEF ItemsToHandle, Unlocked
    <3> QED
      BY <1>1, <1>2, <1>3, <3>1, <3>2, <3>3 DEF ChangeProgress
  <2>3. ~PickItem(r)
    BY <1>4 DEF PickItem, Changes
  <2> QED
    BY <2>1, <2>2, <2>3
<1> QED
  BY <1>1, <1>2, <1>4, ChangeStep

\* A new item has no reservation, and a deleted one is no longer an item of its order.
LEMMA EditingHolds ==
  ASSUME WellFormed, SessionsFit, NoOrphanHold, NEW o \in Orders, ChangesApart(o), HoldsOn(o),
         NEW r \in Requests, NEW i \in Items, AddItem(r, i) \/ RemoveItem(r, i)
  PROVE  HoldsOn(o)'
<1>1. /\ UNCHANGED <<order, resv, locks>> /\ End(r)
      /\ \A j \in Items \ {i} : item'[j] = item[j]
  BY DEF AddItem, RemoveItem, WellFormed, TypeOK, TablesTyped
<1>2. OthersRest(r) /\ LocksStay(r) /\ resvDraft' = resvDraft /\ ~Changes(r, o)'
  BY <1>1, QuietLocks, EndRest DEF Changes, OnOrder
<1>3. AddItem(r, i) => item[i] = NoItem /\ resv[i] = NoResv
  BY DEF AddItem, NoOrphanHold, NoItem
<1>4. RemoveItem(r, i) => item'[i].state # "live"
  <2>1. ASSUME RemoveItem(r, i) PROVE item'[i].state # "live"
    <3>1. item' = [item EXCEPT ![i] = [item[i] EXCEPT !.state = "deleted"]] /\ item[i] # NoItem
      BY <2>1 DEF RemoveItem, WellFormed, SessionsMakeSense, StepFitsCall
    <3>2. PICK row : row = [item[i] EXCEPT !.state = "deleted"]
      OBVIOUS
    <3>3. item[i] \in ItemRows
      BY DEF WellFormed, TypeOK, TablesTyped
    <3>4. row.state = "deleted"
      BY <3>1, <3>2, <3>3 DEF ItemRows
    <3> QED
      BY <3>1, <3>2, <3>4 DEF WellFormed, TypeOK, TablesTyped
  <2> QED
    BY <2>1
<1>5. \A j \in ItemsOf(o)' : j \in ItemsOf(o) \/ (item[j] = NoItem /\ resv[j] = NoResv)
  BY <1>1, <1>3, <1>4 DEF ItemsOf
<1>6. \A q \in Requests \ {r} : Changes(q, o)' => ChangeProgress(q)'
  BY <1>1, <1>2, <1>5, OthersChange
<1>7. HoldsFit(o)'
  BY <1>1, <1>5, HoldsOfStatus DEF HoldsOn, HoldsFit
<1> QED
  BY <1>2, <1>6, <1>7 DEF HoldsOn

\* A rolled back call leaves the order and its reservations as they were.
LEMMA GivesUpHolds ==
  ASSUME WellFormed, SessionsFit, NEW o \in Orders, ChangesApart(o), HoldsOn(o),
         NEW r \in Requests, Rollback(r), End(r)
  PROVE  HoldsOn(o)'
<1>1. /\ UNCHANGED <<order, item, resv>> /\ r # None
      /\ \A i \in Items :
           /\ resvDraft'[i] = (IF resvOwner[i] = r THEN resv[i] ELSE resvDraft[i])
           /\ resvOwner'[i] = (IF resvOwner[i] = r THEN None ELSE resvOwner[i])
      /\ \A s \in Stocks : stockOwner'[s] = (IF stockOwner[s] = r THEN None ELSE stockOwner[s])
  BY NoneIsFresh DEF Rollback, tables
<1>2. OthersRest(r) /\ ~Changes(r, o)'
  BY EndRest DEF Changes, OnOrder
<1>3. LocksStay(r)
  BY <1>1, NoneIsFresh DEF LocksStay, Locks
<1>4. \A i \in ItemsOf(o) : resvDraft'[i] = resvDraft[i] \/ Changes(r, o)
  BY <1>1, HandlerChanges DEF Locks, ItemsOf
<1> QED
  BY <1>1, <1>2, <1>3, <1>4, ChangeStep

\* COMMIT gives the order and the reservations of its items their status at once.
LEMMA CommitHolds ==
  ASSUME WellFormed, SessionsFit, NEW o \in Orders, ChangesApart(o), HoldsOn(o),
         NEW r \in Requests, CommitConfirm(r) \/ CommitCancel(r) \/ CommitComplete(r)
  PROVE  HoldsOn(o)'
<1>1. PICK status :
        /\ \/ call[r].op = "confirm" /\ status = "confirmed"
           \/ call[r].op = "cancel" /\ status = "cancelled"
           \/ call[r].op = "complete" /\ status = "completed"
        /\ pc[r] = "work" /\ todo[r] = {} /\ Commit(r) /\ item' = item
        /\ order' = [order EXCEPT ![call[r].order] = status]
  BY DEF CommitConfirm, CommitCancel, CommitComplete
<1>2. OthersRest(r) /\ pc'[r] \in {"idle", "flush"}
  BY EndRest DEF CommitConfirm, CommitCancel, CommitComplete
<1>3. /\ resvDraft' = resvDraft /\ r # None
      /\ \A i \in Items :
           /\ resv'[i] = (IF resvOwner[i] = r THEN resvDraft[i] ELSE resv[i])
           /\ resvOwner'[i] = (IF resvOwner[i] = r THEN None ELSE resvOwner[i])
      /\ \A s \in Stocks : stockOwner'[s] = (IF stockOwner[s] = r THEN None ELSE stockOwner[s])
  BY <1>1, NoneIsFresh DEF Commit
<1>4. LocksStay(r) /\ ~Changes(r, o)'
  BY <1>2, <1>3, NoneIsFresh DEF LocksStay, Locks, Changes, OnOrder
<1>5. /\ order'[o] = (IF call[r].order = o THEN status ELSE order[o])
      /\ call[r].order = o <=> Changes(r, o)
  BY <1>1 DEF Changes, OnOrder, WellFormed, TypeOK, TablesTyped
<1>6. ItemsOf(o)' = ItemsOf(o) /\ ItemsOf(o) \subseteq Items
  BY <1>1 DEF ItemsOf
<1>7. \A i \in ItemsOf(o) : i \in Locks(r) => Changes(r, o)
  BY HandlerChanges
<1>8. \A i \in ItemsOf(o) : resv'[i] = resv[i] \/ Changes(r, o)
  BY <1>3, <1>6, <1>7 DEF Locks
<1>9. \A q \in Requests \ {r} : Changes(q, o)' => ChangeProgress(q)'
  BY <1>2, <1>3, <1>4, <1>5, <1>6, <1>8, OthersChange
<1>10. ASSUME NEW i \in ItemsOf(o) PROVE resv'[i].status \in HoldsOf(order'[o])
  <2>1. CASE call[r].order = o
    <3>1. /\ order'[o] = status
          /\ \/ i \in Locks(r) /\ resvDraft[i].status = TargetStatus(call[r].op)
             \/ i \notin Locks(r) /\ resv[i] = NoResv
      BY <1>1, <1>5, <1>10, <2>1 DEF HoldsOn, ChangeProgress
    <3>2. TargetStatus(call[r].op) \in HoldsOf(status)
      BY <1>1, HoldsOfStatus DEF TargetStatus, SettledStatus
    <3>3. \/ resv'[i].status = TargetStatus(call[r].op)
          \/ resv'[i].status = "none"
      BY <1>3, <1>6, <3>1, HoldsOfStatus DEF Locks
    <3> QED
      BY <3>1, <3>2, <3>3, HoldsOfStatus
  <2>2. CASE call[r].order # o
    BY <1>5, <1>8, <1>10, <2>2 DEF HoldsOn, HoldsFit
  <2> QED
    BY <2>1, <2>2
<1>11. HoldsFit(o)'
  BY <1>6, <1>10 DEF HoldsFit
<1> QED
  BY <1>4, <1>9, <1>11 DEF HoldsOn

\* Locking a reservation, and a stock row, leaves every item where it was.
LEMMA LockHolds ==
  ASSUME WellFormed, SessionsFit, NEW o \in Orders, ChangesApart(o), HoldsOn(o),
         NEW r \in Requests, NEW i \in Items,
         LockReservation(r, i) \/ ReserveStock(r, i)
  PROVE  HoldsOn(o)'
<1>1. /\ pc[r] = "work" /\ pc'[r] \in {"settle", "reserve"} /\ OthersRest(r) /\ i \in todo[r]
      /\ UNCHANGED <<order, item, resv, resvDraft, call, todo>>
  BY DEF LockReservation, ReserveStock, Settling, Goto, tables, OthersRest, WellFormed, TypeOK,
         SessionTyped
<1>2. /\ LocksStay(r) /\ Locks(r) \subseteq Locks(r)' /\ Locks(r)' \subseteq Locks(r) \cup {i}
  <2>1. CASE LockReservation(r, i)
    <3>1. /\ resvOwner[i] = None /\ stockOwner' = stockOwner
          /\ \A j \in Items : resvOwner'[j] = (IF j = i THEN r ELSE resvOwner[j])
      BY <2>1 DEF LockReservation, WellFormed, TypeOK, LocksTyped
    <3> QED
      BY <3>1, NoneIsFresh DEF LocksStay, Locks
  <2>2. CASE ReserveStock(r, i)
    <3>1. /\ Free(stockOwner[ItemStock(r, i)], r) /\ resvOwner' = resvOwner
          /\ \A s \in Stocks :
               stockOwner'[s] = (IF s = ItemStock(r, i) THEN r ELSE stockOwner[s])
      BY <2>2 DEF ReserveStock, WellFormed, TypeOK, LocksTyped
    <3> QED
      BY <3>1, NoneIsFresh DEF LocksStay, Locks, Free
  <2> QED
    BY <2>1, <2>2
<1>3. ASSUME Changes(r, o)' PROVE ChangeProgress(r)'
  <2>1. Changes(r, o) /\ ChangeProgress(r) /\ ItemsOf(call[r].order)' = ItemsOf(call[r].order)
    BY <1>1, <1>3 DEF Changes, OnOrder, HoldsOn, ItemsOf
  <2> QED
    BY <1>1, <1>2, <2>1 DEF ChangeProgress
<1> QED
  BY <1>1, <1>2, <1>3, ChangeStep

\* An item leaves the loop of confirm_order with its reservation RESERVED, that of
\* cancel_order RELEASED and that of complete_order FULFILLED.
LEMMA HandlingHolds ==
  ASSUME WellFormed, SessionsFit, NEW o \in Orders, ChangesApart(o), HoldsOn(o),
         NEW r \in Requests, NEW i \in Items, i = cur[r], i \in todo[r],
         OthersRest(r), LocksStay(r), UNCHANGED <<order, item, resv, call>>,
         call[r].op \in {"confirm", "cancel", "complete"},
         pc[r] \in {"reserve", "settle"}, pc'[r] = "work", todo'[r] = todo[r] \ {i},
         Locks(r)' = Locks(r) \cup {i},
         resvDraft'[i].status = TargetStatus(call[r].op),
         \A j \in Items \ {i} : resvDraft'[j] = resvDraft[j]
  PROVE  HoldsOn(o)'
<1>1. ItemsOf(call[r].order)' = ItemsOf(call[r].order) /\ ItemsOf(call[r].order) \subseteq Items
  BY DEF ItemsOf
<1>2. ASSUME Changes(r, o)' PROVE ChangeProgress(r)'
  <2>1. Changes(r, o) /\ ChangeProgress(r)
    BY <1>2 DEF Changes, OnOrder, HoldsOn
  <2> QED
    BY <1>1, <2>1 DEF ChangeProgress
<1>3. \A j \in ItemsOf(o) : resvDraft'[j] = resvDraft[j] \/ Changes(r, o)
  BY HandlerChanges DEF ItemsOf
<1> QED
  BY <1>2, <1>3, ChangeStep

\* So confirm_order does,
LEMMA InsertReservationHolds ==
  ASSUME WellFormed, SessionsFit, NEW o \in Orders, ChangesApart(o), HoldsOn(o),
         NEW r \in Requests, InsertReservation(r)
  PROVE  HoldsOn(o)'
<1>1. PICK i \in Items : i = cur[r] /\ i \in todo[r]
  BY DEF InsertReservation, WellFormed, TypeOK, SessionTyped, SessionsMakeSense, StepFitsCall
<1>2. /\ pc[r] = "reserve" /\ resvOwner[i] = None /\ call[r].op = "confirm"
      /\ resvOwner' = [resvOwner EXCEPT ![i] = r]
      /\ todo' = [todo EXCEPT ![r] = todo[r] \ {i}] /\ cur' = [cur EXCEPT ![r] = None]
      /\ pc' = [pc EXCEPT ![r] = "work"]
      /\ UNCHANGED <<order, item, resv, stockOwner, call, seen>>
  BY <1>1 DEF InsertReservation, Goto, tables, WellFormed, TypeOK, SessionTyped,
              SessionsMakeSense, StepFitsCall
<1>3. /\ resvDraft'[i].status = "reserved"
      /\ \A j \in Items \ {i} : resvDraft'[j] = resvDraft[j]
  BY <1>1 DEF InsertReservation, WellFormed, TypeOK, LocksTyped
<1>4. /\ OthersRest(r) /\ pc'[r] = "work" /\ todo'[r] = todo[r] \ {i}
      /\ \A j \in Items : resvOwner'[j] = (IF j = i THEN r ELSE resvOwner[j])
  BY <1>2 DEF OthersRest, WellFormed, TypeOK, SessionTyped, LocksTyped
<1>5. LocksStay(r) /\ Locks(r)' = Locks(r) \cup {i}
  BY <1>2, <1>4, NoneIsFresh DEF LocksStay, Locks
<1>6. TargetStatus(call[r].op) = "reserved"
  BY <1>2 DEF TargetStatus
<1> QED
  BY <1>1, <1>2, <1>3, <1>4, <1>5, <1>6, HandlingHolds

\* and so do cancel_order and complete_order.
LEMMA SettleStockHolds ==
  ASSUME WellFormed, SessionsFit, NEW o \in Orders, ChangesApart(o), HoldsOn(o),
         NEW r \in Requests, SettleStock(r)
  PROVE  HoldsOn(o)'
<1>1. PICK i \in Items, s \in Stocks :
        i = cur[r] /\ i \in todo[r] /\ s = resvDraft[i].stock
  BY SettlingItem DEF SettleStock
<1>2. PICK to \in {"released", "fulfilled"} :
        /\ to = SettledStatus(call[r].op) /\ call[r].op \in {"cancel", "complete"}
        /\ resvDraft' = [resvDraft EXCEPT ![i] = [resvDraft[i] EXCEPT !.status = to]]
  BY <1>1, SettlingItem DEF SettleStock, SettledStatus, WellFormed, TypeOK, LocksTyped
<1>3. /\ pc[r] = "settle" /\ Free(stockOwner[s], r)
      /\ stockOwner' = [stockOwner EXCEPT ![s] = r]
      /\ todo' = [todo EXCEPT ![r] = todo[r] \ {i}] /\ cur' = [cur EXCEPT ![r] = None]
      /\ pc' = [pc EXCEPT ![r] = "work"]
      /\ UNCHANGED <<order, item, resv, resvOwner, call, seen>>
  BY <1>1, SettleStockEffect DEF tables
<1>4. PICK row : row = [resvDraft[i] EXCEPT !.status = to]
  OBVIOUS
<1>5. row.status = to
  BY <1>1, <1>3, <1>4, SettlingItem, SettledResvRow
<1>6. /\ resvDraft'[i].status = TargetStatus(call[r].op)
      /\ \A j \in Items \ {i} : resvDraft'[j] = resvDraft[j]
  BY <1>2, <1>4, <1>5 DEF TargetStatus, WellFormed, TypeOK, LocksTyped
<1>7. /\ OthersRest(r) /\ pc'[r] = "work" /\ todo'[r] = todo[r] \ {i}
      /\ \A t \in Stocks : stockOwner'[t] = (IF t = s THEN r ELSE stockOwner[t])
  BY <1>3 DEF OthersRest, WellFormed, TypeOK, SessionTyped, LocksTyped
<1>8. LocksStay(r) /\ Locks(r)' = Locks(r) /\ i \in Locks(r)
  BY <1>1, <1>3, <1>7, NoneIsFresh DEF LocksStay, Locks, Free, SessionsFit, SessionFits
<1>9. Locks(r)' = Locks(r) \cup {i}
  BY <1>8
<1> QED
  BY <1>1, <1>2, <1>3, <1>6, <1>7, <1>8, <1>9, HandlingHolds

\* One step of the proof per action.
LEMMA NextHoldsOn ==
  ASSUME WellFormed, SessionsFit, NoOrphanHold, NEW o \in Orders, ChangesApart(o), HoldsOn(o),
         [Next]_vars
  PROVE  HoldsOn(o)'
<1>1. ASSUME NEW p \in Orders, CreateOrder(p) PROVE HoldsOn(o)'
  BY <1>1, CreateOrderHolds
<1>2. ASSUME NEW r \in Requests, Arrives(r) PROVE HoldsOn(o)'
  BY <1>2, ReadingHolds, DeskHolds DEF Arrives
<1>3. ASSUME NEW r \in Requests, GivesUp(r) PROVE HoldsOn(o)'
  BY <1>3, GivesUpEffect, GivesUpHolds
<1>4. ASSUME NEW r \in Requests, NEW i \in Items, ItemStep(r, i) PROVE HoldsOn(o)'
  BY <1>3, <1>4, EditingHolds, LockHolds DEF ItemStep, GivesUp
<1>5. ASSUME NEW r \in Requests, Advances(r) PROVE HoldsOn(o)'
  BY <1>3, <1>4, <1>5, ReadingHolds, InsertReservationHolds, CommitHolds, SettleStockHolds,
     DeskHolds
     DEF Advances, GivesUp
<1>6. ASSUME NEW r \in Requests, Fails(r) PROVE HoldsOn(o)'
  BY <1>3, <1>6, DeskHolds DEF Fails, GivesUp
<1>7. CASE UNCHANGED vars
  BY <1>7 DEF vars, tables, locks, session, HoldsOn, HoldsFit, Changes, OnOrder, ChangeProgress,
              ItemsOf, Locks
<1> QED
  BY <1>1, <1>2, <1>5, <1>6, <1>7 DEF Next

\* While the calls that change order o do not overlap, its reservations have a status
\* that fits it, although add_item and remove_item act on a status that may have changed
\* since they read it: nothing is promised to an order that is not confirmed, and nothing
\* of a confirmed one is given back.
THEOREM StatusGovernsHolds ==
  ASSUME NEW o \in Orders
  PROVE  Spec => ([]ChangesApart(o) => []HoldsFit(o))
<1> DEFINE Inv == WellFormed /\ SessionsFit /\ HoldsOn(o)
<1>1. Init => Inv
  <2> SUFFICES ASSUME Init PROVE Inv
    OBVIOUS
  <2>1. WellFormed /\ SessionsFit
    BY InitMirrors
  <2>2. HoldsOn(o)
    BY DEF Init, HoldsOn, HoldsFit, ItemsOf, NoItem, Changes, OnOrder
  <2> QED
    BY <2>1, <2>2
<1>2. Inv /\ NoOrphanHold /\ ChangesApart(o) /\ [Next]_vars => Inv'
  BY NextWF, NextSessionsFit, NextHoldsOn
<1>3. Inv => HoldsFit(o)
  BY DEF HoldsOn
<1> QED
  BY <1>1, <1>2, <1>3, ReservationsKeepTheirItem, PTL DEF Spec

\* So it is with every order.
THEOREM HoldsAlwaysFollowStatus == Spec => HoldsFollowStatus
<1>1. ASSUME NEW o \in Orders PROVE Spec => ([]ChangesApart(o) => []HoldsFit(o))
  BY StatusGovernsHolds
<1> QED
  BY <1>1 DEF HoldsFollowStatus

-----------------------------------------------------------------------------
(* ImplementsBook *)

\* The reservation that confirm_order inserts for an item.
InsertedRow(r, i) ==
    [status |-> "reserved", stock |-> ItemStock(r, i), quantity |-> item[i].quantity]

\* A call is on course for the one step it will appear to take: it handles and locks
\* items of its order only, and has done to each exactly what the step does.
OnCourse(r) ==
    pc[r] \in {"work", "reserve", "settle"} =>
        /\ todo[r] \cup Locks(r) \subseteq ItemsOf(call[r].order)
        /\ call[r].op \in {"cancel", "complete"} =>
             /\ \A i \in todo[r] : resvDraft[i] = resv[i]
             /\ \A i \in Locks(r) \ todo[r] :
                  resvDraft[i] = [resv[i] EXCEPT !.status = SettledStatus(call[r].op)]
        /\ call[r].op = "confirm" =>
             \A i \in Locks(r) : resv[i] = NoResv /\ resvDraft[i] = InsertedRow(r, i)

AllOnCourse == \A r \in Requests : OnCourse(r)

\* What a step of r must respect for the course of the others.
LEMMA OthersCourse ==
  ASSUME WellFormed, SessionsFit, Serial, AllOnCourse, NEW r \in Requests, OthersRest(r),
         LocksStay(r),
         \A i \in Items : \/ resvDraft'[i] = resvDraft[i] /\ resv'[i] = resv[i]
                          \/ i \in todo[r] \/ i \in Locks(r),
         \A i \in Items : item'[i] = item[i] \/ item[i] = NoItem \/ i \in todo[r],
         OnCourse(r)'
  PROVE  AllOnCourse'
<1> SUFFICES ASSUME NEW q \in Requests, q # r, pc[q] \in {"work", "reserve", "settle"}
             PROVE  OnCourse(q)'
  BY DEF OthersRest, OnCourse, AllOnCourse
<1>1. /\ pc'[q] = pc[q] /\ call'[q] = call[q] /\ todo'[q] = todo[q]
      /\ Locks(q)' = Locks(q)
  BY DEF OthersRest, LocksStay
<1>2. todo[q] \cup Locks(q) \subseteq Items
  BY DEF Locks, WellFormed, TypeOK, SessionTyped
<1>3. \A i \in todo[q] \cup Locks(q) : /\ item[i] # NoItem
                                       /\ i \notin todo[r] /\ i \notin Locks(r)
  <2>1. \A i \in todo[q] \cup Locks(q) : item[i] # NoItem /\ OnItsOwn(item[i].order)
    BY <1>2, HandlerIsOnOrder DEF Serial, SessionsFit, SessionFits
  <2> QED
    BY <1>2, <2>1, OneHandlerPerItem
<1>4. \A i \in todo[q] \cup Locks(q) : /\ item'[i] = item[i] /\ resvDraft'[i] = resvDraft[i]
                                       /\ resv'[i] = resv[i]
  BY <1>2, <1>3
<1>5. OnCourse(q)
  BY DEF AllOnCourse
<1>6. todo[q] \cup Locks(q) \subseteq ItemsOf(call[q].order)'
  BY <1>4, <1>5, <1>1 DEF OnCourse, ItemsOf
<1>7. \A i \in todo[q] \cup Locks(q) : InsertedRow(q, i)' = InsertedRow(q, i)
  BY <1>1, <1>4 DEF InsertedRow, ItemStock
<1>8. ASSUME call[q].op \in {"cancel", "complete"}
      PROVE  /\ \A i \in todo[q] : resvDraft'[i] = resv'[i]
             /\ \A i \in Locks(q) \ todo[q] :
                  resvDraft'[i] = [resv'[i] EXCEPT !.status = SettledStatus(call[q].op)]
  BY <1>4, <1>5, <1>8 DEF OnCourse
<1>9. ASSUME call[q].op = "confirm"
      PROVE  \A i \in Locks(q) : resv'[i] = NoResv /\ resvDraft'[i] = InsertedRow(q, i)'
  BY <1>4, <1>5, <1>7, <1>9 DEF OnCourse
<1> QED
  BY <1>1, <1>6, <1>8, <1>9 DEF OnCourse

\* A step that touches no reservation and no item that exists, after which r is not in
\* the middle of a call.
LEMMA QuietCourse ==
  ASSUME WellFormed, SessionsFit, Serial, AllOnCourse, NEW r \in Requests, OthersRest(r),
         UNCHANGED <<resv, resvDraft, resvOwner, stockOwner>>,
         \A i \in Items : item'[i] = item[i] \/ item[i] = NoItem \/ i \in todo[r],
         pc'[r] \notin {"work", "reserve", "settle"}
  PROVE  AllOnCourse'
<1>1. LocksStay(r)
  BY DEF LocksStay, Locks
<1>2. OnCourse(r)'
  BY DEF OnCourse
<1> QED
  BY <1>1, <1>2, OthersCourse

\* Every step that ends a call, begins one, or belongs to the stock desk.
LEMMA EdgesOnCourse ==
  ASSUME WellFormed, SessionsFit, Serial, AllOnCourse, NEW r \in Requests,
         \/ \E c \in OrderCalls : ReadOrder(r, c)
         \/ \E c \in StockCalls : MoveStock(r, c) \/ InitializeStock(r, c)
         \/ RecordMovement(r) \/ RefreshOpened(r) \/ MarkOpened(r)
         \/ \E s \in Stocks : DeferAlert(r, s) \/ LoseAlert(r, s)
         \/ \E i \in Items : AddItem(r, i) \/ RemoveItem(r, i)
  PROVE  AllOnCourse'
<1>1. CASE \E c \in OrderCalls : ReadOrder(r, c)
  <2>1. /\ OthersRest(r) /\ pc'[r] = "read"
        /\ UNCHANGED <<item, resv, resvDraft, resvOwner, stockOwner>>
    BY <1>1 DEF ReadOrder, Goto, OthersRest, tables, locks, WellFormed, TypeOK, SessionTyped
  <2> QED
    BY <2>1, QuietCourse
<1>2. CASE \E c \in StockCalls : MoveStock(r, c) \/ InitializeStock(r, c)
  <2>1. /\ OthersRest(r) /\ pc'[r] \in {"movement", "opened"}
        /\ UNCHANGED <<item, resv, resvDraft, resvOwner, stockOwner>>
    BY <1>2 DEF MoveStock, InitializeStock, Goto, OthersRest, WriteStock, WellFormed, TypeOK,
                SessionTyped
  <2> QED
    BY <2>1, QuietCourse
<1>3. CASE RecordMovement(r) \/ MarkOpened(r)
  <2>1. UNCHANGED <<item, resv, resvDraft, resvOwner, stockOwner>>
    BY <1>3 DEF RecordMovement, MarkOpened, WriteStock
  <2>2. FlushThenEnd(r, pending[r])
    BY <1>3 DEF RecordMovement, MarkOpened
  <2> QED
    BY <2>1, <2>2, EndRest, QuietCourse
<1>4. CASE RefreshOpened(r)
  <2>1. UNCHANGED <<item, resv, resvDraft, resvOwner, stockOwner>>
    BY <1>4 DEF RefreshOpened, tables, locks
  <2>2. OthersRest(r) /\ pc'[r] \in {"idle", "flush", "mark"}
    BY <1>4, EndRest DEF RefreshOpened, Goto, OthersRest, WellFormed, TypeOK, SessionTyped
  <2> QED
    BY <2>1, <2>2, QuietCourse
<1>5. ASSUME NEW s \in Stocks, DeferAlert(r, s) \/ LoseAlert(r, s) PROVE AllOnCourse'
  <2>1. /\ UNCHANGED <<item, resv, resvDraft, resvOwner, stockOwner>>
        /\ FlushThenEnd(r, pending[r] \ {s})
    BY <1>5 DEF DeferAlert, LoseAlert, tables, locks
  <2> QED
    BY <2>1, EndRest, QuietCourse
<1>6. ASSUME NEW i \in Items, AddItem(r, i) PROVE AllOnCourse'
  <2>1. /\ UNCHANGED <<resv, resvDraft, resvOwner, stockOwner>> /\ End(r)
        /\ \A j \in Items : item'[j] = item[j] \/ item[j] = NoItem
    BY <1>6 DEF AddItem, locks, WellFormed, TypeOK, TablesTyped
  <2> QED
    BY <2>1, EndRest, QuietCourse
<1>7. ASSUME NEW i \in Items, RemoveItem(r, i) PROVE AllOnCourse'
  <2>1. /\ UNCHANGED <<resv, resvDraft, resvOwner, stockOwner>> /\ End(r)
        /\ \A j \in Items : item'[j] = item[j] \/ j \in todo[r]
    BY <1>7 DEF RemoveItem, locks, WellFormed, TypeOK, TablesTyped
  <2> QED
    BY <2>1, EndRest, QuietCourse
<1> QED
  BY <1>1, <1>2, <1>3, <1>4, <1>5, <1>6, <1>7

\* COMMIT and ROLLBACK touch only what the request has locked.
LEMMA TransactionsOnCourse ==
  ASSUME WellFormed, SessionsFit, Serial, AllOnCourse, NEW r \in Requests, item' = item,
         Commit(r) \/ Rollback(r), End(r) \/ \E alerts : FlushThenEnd(r, alerts)
  PROVE  AllOnCourse'
<1>1. \A i \in Items : \/ resvDraft'[i] = resvDraft[i] /\ resv'[i] = resv[i]
                       \/ i \in Locks(r)
  BY DEF Commit, Rollback, tables, Locks
<1>2. /\ \A i \in Items : resvOwner'[i] = (IF resvOwner[i] = r THEN None ELSE resvOwner[i])
      /\ \A s \in Stocks : stockOwner'[s] = (IF stockOwner[s] = r THEN None ELSE stockOwner[s])
  BY DEF Commit, Rollback
<1>3. LocksStay(r)
  BY <1>2, NoneIsFresh DEF LocksStay, Locks
<1>4. OthersRest(r) /\ OnCourse(r)'
  BY EndRest DEF OnCourse
<1> QED
  BY <1>1, <1>3, <1>4, OthersCourse

\* The items a call reads are those of its order; nobody else is at work on them.
LEMMA ReadingOnCourse ==
  ASSUME WellFormed, SessionsFit, Serial, ChangedIsOwned, AllOnCourse, NEW r \in Requests,
         ReadItems(r) \/ PickItem(r)
  PROVE  AllOnCourse'
<1>1. /\ pc[r] = "read" /\ pc'[r] = "work" /\ OthersRest(r) /\ call' = call
      /\ UNCHANGED <<item, resv, resvDraft, resvOwner, stockOwner>>
      /\ \/ PickItem(r) /\ call[r].op = "remove_item"
         \/ call[r].op \in {"confirm", "cancel", "complete"}
  BY DEF ReadItems, PickItem, Goto, tables, locks, OthersRest, WellFormed, TypeOK, SessionTyped
<1>2. Locks(r) = {} /\ Locks(r)' = {} /\ LocksStay(r)
  BY <1>1, HoldsNoLock DEF Unlocked, Locks, LocksStay
<1>3. todo'[r] \subseteq ItemsOf(call[r].order)
  BY DEF ReadItems, PickItem, ItemsToHandle, WellFormed, TypeOK, SessionTyped
<1>4. ASSUME call[r].op \in {"cancel", "complete"}, NEW i \in todo'[r]
      PROVE  resvDraft[i] = resv[i]
  <2> SUFFICES ASSUME resvDraft[i] # resv[i] PROVE FALSE
    OBVIOUS
  <2>1. i \in Items /\ item[i].order = call[r].order
    BY <1>3, <1>4 DEF ItemsOf
  <2>2. PICK q \in Requests : resvOwner[i] = q
    BY <2>1 DEF ChangedIsOwned
  <2>3. /\ OnOrder(q, item[i].order) /\ item[i].order \in Orders
        /\ OnOrder(r, item[i].order)
    BY <1>1, <2>1, <2>2, HandlerIsOnOrder DEF Locks, OnOrder
  <2>4. q = r
    BY <2>3 DEF Serial, OnItsOwn
  <2> QED
    BY <1>2, <2>1, <2>2, <2>4 DEF Locks
<1>5. ItemsOf(call[r].order)' = ItemsOf(call[r].order)
  BY <1>1 DEF ItemsOf
<1>6. OnCourse(r)'
  BY <1>1, <1>2, <1>3, <1>4, <1>5 DEF OnCourse
<1> QED
  BY <1>1, <1>2, <1>6, OthersCourse

\* Taking a lock changes nothing that the course depends on.
LEMMA LockingOnCourse ==
  ASSUME WellFormed, SessionsFit, Serial, AllOnCourse, NEW r \in Requests, NEW i \in Items,
         LockReservation(r, i) \/ ReserveStock(r, i)
  PROVE  AllOnCourse'
<1>1. /\ pc[r] = "work" /\ pc'[r] \in {"settle", "reserve"} /\ OthersRest(r)
      /\ UNCHANGED <<item, resv, resvDraft, call, todo>>
  BY DEF LockReservation, ReserveStock, Settling, Goto, tables, OthersRest, WellFormed, TypeOK,
         SessionTyped
<1>2. /\ LocksStay(r)
      /\ \/ Locks(r)' = Locks(r)
         \/ Locks(r)' = Locks(r) \cup {i} /\ i \in todo[r] /\ call[r].op \in {"cancel", "complete"}
  <2>1. CASE LockReservation(r, i)
    <3>1. /\ resvOwner[i] = None /\ stockOwner' = stockOwner
          /\ \A j \in Items : resvOwner'[j] = (IF j = i THEN r ELSE resvOwner[j])
      BY <2>1 DEF LockReservation, WellFormed, TypeOK, LocksTyped
    <3> QED
      BY <2>1, <3>1, NoneIsFresh DEF LocksStay, Locks, LockReservation, Settling
  <2>2. CASE ReserveStock(r, i)
    <3>1. /\ Free(stockOwner[ItemStock(r, i)], r) /\ resvOwner' = resvOwner
          /\ \A s \in Stocks :
               stockOwner'[s] = (IF s = ItemStock(r, i) THEN r ELSE stockOwner[s])
      BY <2>2 DEF ReserveStock, WellFormed, TypeOK, LocksTyped
    <3> QED
      BY <3>1, NoneIsFresh DEF LocksStay, Locks, Free
  <2> QED
    BY <2>1, <2>2
<1>3. OnCourse(r)
  BY DEF AllOnCourse
<1>4. /\ ItemsOf(call[r].order)' = ItemsOf(call[r].order)
      /\ \A j \in Items : InsertedRow(r, j)' = InsertedRow(r, j)
  BY <1>1 DEF ItemsOf, InsertedRow, ItemStock
<1>5. Locks(r) \subseteq Items
  BY DEF Locks
<1>6. OnCourse(r)'
  BY <1>1, <1>2, <1>3, <1>4, <1>5 DEF OnCourse
<1> QED
  BY <1>1, <1>2, <1>6, OthersCourse

\* The INSERT writes the reservation that confirming the item means.
LEMMA InsertingOnCourse ==
  ASSUME WellFormed, SessionsFit, Serial, AllOnCourse, NEW r \in Requests, InsertReservation(r)
  PROVE  AllOnCourse'
<1>1. PICK i \in Items : i = cur[r] /\ i \in todo[r]
  BY DEF InsertReservation, WellFormed, TypeOK, SessionTyped, SessionsMakeSense, StepFitsCall
<1>2. /\ pc[r] = "reserve" /\ resvOwner[i] = None /\ resv[i] = NoResv /\ call[r].op = "confirm"
      /\ resvOwner' = [resvOwner EXCEPT ![i] = r]
      /\ resvDraft' = [resvDraft EXCEPT ![i] = InsertedRow(r, i)]
      /\ todo' = [todo EXCEPT ![r] = todo[r] \ {i}] /\ cur' = [cur EXCEPT ![r] = None]
      /\ pc' = [pc EXCEPT ![r] = "work"]
      /\ UNCHANGED <<order, item, resv, stockOwner, call, seen>>
  BY <1>1 DEF InsertReservation, InsertedRow, Goto, tables, WellFormed, TypeOK, SessionTyped,
              SessionsMakeSense, StepFitsCall
<1>3. \A j \in Items : resvDraft'[j] = (IF j = i THEN InsertedRow(r, i) ELSE resvDraft[j])
  BY <1>2 DEF WellFormed, TypeOK, LocksTyped
<1>4. /\ OthersRest(r) /\ pc'[r] = "work" /\ todo'[r] = todo[r] \ {i}
      /\ \A j \in Items : resvOwner'[j] = (IF j = i THEN r ELSE resvOwner[j])
  BY <1>2 DEF OthersRest, WellFormed, TypeOK, SessionTyped, LocksTyped
<1>5. LocksStay(r) /\ Locks(r)' = Locks(r) \cup {i}
  BY <1>2, <1>4, NoneIsFresh DEF LocksStay, Locks
<1>6. OnCourse(r)
  BY DEF AllOnCourse
<1>7. /\ ItemsOf(call[r].order)' = ItemsOf(call[r].order)
      /\ \A j \in Items : InsertedRow(r, j)' = InsertedRow(r, j)
      /\ Locks(r) \subseteq Items
  BY <1>2 DEF ItemsOf, InsertedRow, ItemStock, Locks
<1>8. OnCourse(r)'
  <2>1. todo'[r] \cup Locks(r)' \subseteq ItemsOf(call[r].order)
    BY <1>1, <1>2, <1>4, <1>5, <1>6 DEF OnCourse
  <2>2. \A j \in Locks(r)' : resv'[j] = NoResv /\ resvDraft'[j] = InsertedRow(r, j)
    BY <1>2, <1>3, <1>5, <1>6, <1>7 DEF OnCourse
  <2> QED
    BY <1>2, <1>4, <1>5, <1>7, <2>1, <2>2 DEF OnCourse
<1> QED
  BY <1>1, <1>2, <1>3, <1>5, <1>4, <1>8, OthersCourse

\* Settling gives the reservation the status its order will have, and nothing else.
LEMMA SettlingOnCourse ==
  ASSUME WellFormed, SessionsFit, Serial, AllOnCourse, NEW r \in Requests, SettleStock(r)
  PROVE  AllOnCourse'
<1>1. PICK i \in Items : i = cur[r] /\ i \in todo[r]
  BY DEF SettleStock, WellFormed, TypeOK, SessionTyped, SessionsMakeSense, StepFitsCall
<1>2. PICK s \in Stocks : s = resvDraft[i].stock
  BY <1>1, SettlingItem DEF SettleStock
<1>3. /\ pc[r] = "settle" /\ Free(stockOwner[s], r)
      /\ call[r].op \in {"cancel", "complete"}
      /\ stockOwner' = [stockOwner EXCEPT ![s] = r]
      /\ resvDraft' = [resvDraft EXCEPT ![i] =
                         [resvDraft[i] EXCEPT !.status = SettledStatus(call[r].op)]]
      /\ todo' = [todo EXCEPT ![r] = todo[r] \ {i}] /\ cur' = [cur EXCEPT ![r] = None]
      /\ pc' = [pc EXCEPT ![r] = "work"]
      /\ UNCHANGED <<order, item, resv, resvOwner, call, seen>>
  BY <1>1, <1>2, SettlingItem, SettleStockEffect
     DEF SettleStock, Goto, tables, WellFormed, TypeOK, LocksTyped
<1>4. OnCourse(r)
  BY DEF AllOnCourse
<1>5. resvDraft[i] = resv[i]
  BY <1>1, <1>3, <1>4 DEF OnCourse
<1>6. PICK row : row = [resv[i] EXCEPT !.status = SettledStatus(call[r].op)]
  OBVIOUS
<1>7. \A j \in Items : resvDraft'[j] = (IF j = i THEN row ELSE resvDraft[j])
  <2>1. resvDraft' = [resvDraft EXCEPT ![i] = row]
    BY <1>3, <1>5, <1>6
  <2> QED
    BY <2>1 DEF WellFormed, TypeOK, LocksTyped
<1>8. /\ OthersRest(r) /\ pc'[r] = "work" /\ todo'[r] = todo[r] \ {i}
      /\ \A t \in Stocks : stockOwner'[t] = (IF t = s THEN r ELSE stockOwner[t])
  BY <1>3 DEF OthersRest, WellFormed, TypeOK, SessionTyped, LocksTyped
<1>9. LocksStay(r) /\ Locks(r)' = Locks(r) /\ i \in Locks(r) /\ Locks(r) \subseteq Items
  BY <1>1, <1>3, <1>8, NoneIsFresh DEF LocksStay, Locks, Free, SessionsFit, SessionFits
<1>10. ItemsOf(call[r].order)' = ItemsOf(call[r].order) /\ todo[r] \subseteq Items
  BY <1>3 DEF ItemsOf, WellFormed, TypeOK, SessionTyped
<1>11. OnCourse(r)'
  <2>1. todo'[r] \cup Locks(r)' \subseteq ItemsOf(call[r].order)
    BY <1>3, <1>4, <1>8, <1>9 DEF OnCourse
  <2>2. \A j \in todo'[r] : resvDraft'[j] = resv[j]
    BY <1>3, <1>4, <1>7, <1>8, <1>10 DEF OnCourse
  <2>3. \A j \in Locks(r)' \ todo'[r] :
           resvDraft'[j] = [resv[j] EXCEPT !.status = SettledStatus(call[r].op)]
    BY <1>3, <1>4, <1>6, <1>7, <1>8, <1>9 DEF OnCourse
  <2> QED
    BY <1>3, <1>8, <1>10, <2>1, <2>2, <2>3 DEF OnCourse
<1> QED
  BY <1>1, <1>3, <1>7, <1>8, <1>9, <1>11, OthersCourse

\* One step of the proof per kind of action.
LEMMA NextOnCourse ==
  ASSUME WellFormed, Consistent, Serial, AllOnCourse, [Next]_vars
  PROVE  AllOnCourse'
<1> USE DEF Consistent, TablesBalance
<1>1. CASE UNCHANGED vars \/ \E o \in Orders : CreateOrder(o)
  <2>1. UNCHANGED <<item, resv, resvDraft, resvOwner, pc, call, todo>>
    BY <1>1 DEF vars, tables, locks, session, CreateOrder
  <2> QED
    BY <2>1 DEF AllOnCourse, OnCourse, Locks, ItemsOf, InsertedRow, ItemStock
<1>2. ASSUME NEW r \in Requests, GivesUp(r) PROVE AllOnCourse'
  <2>1. Rollback(r) /\ End(r)
    BY <1>2, GivesUpEffect
  <2> QED
    BY <2>1, TransactionsOnCourse DEF Rollback, tables
<1>3. ASSUME NEW r \in Requests, CommitConfirm(r) \/ CommitCancel(r) \/ CommitComplete(r)
      PROVE  AllOnCourse'
  BY <1>3, TransactionsOnCourse DEF CommitConfirm, CommitCancel, CommitComplete
<1>4. ASSUME NEW r \in Requests, NEW i \in Items, ItemStep(r, i) PROVE AllOnCourse'
  BY <1>2, <1>4, EdgesOnCourse, LockingOnCourse DEF ItemStep, GivesUp
<1>5. ASSUME NEW r \in Requests, Arrives(r) PROVE AllOnCourse'
  BY <1>5, EdgesOnCourse DEF Arrives
<1>6. ASSUME NEW r \in Requests, Advances(r) PROVE AllOnCourse'
  BY <1>2, <1>3, <1>4, <1>6, EdgesOnCourse, ReadingOnCourse, InsertingOnCourse,
     SettlingOnCourse DEF Advances, GivesUp
<1>7. ASSUME NEW r \in Requests, Fails(r) PROVE AllOnCourse'
  BY <1>2, <1>7, EdgesOnCourse DEF Fails, GivesUp
<1> QED
  BY <1>1, <1>5, <1>6, <1>7 DEF Next

\* The committed reservations in t whose newest version in d has been fulfilled.
DrawnFrom(t, d) ==
    [i \in Items |-> IF t[i].status = "reserved" /\ d[i].status = "fulfilled"
                     THEN t[i] ELSE NoResv]

\* The newest version of a row has lost exactly the units drawn under its lock.
DraftsDraw ==
    \A s \in Stocks :
        Totals(DrawnFrom(resv, resvDraft), s, stock[s].quantity - stockDraft[s].quantity)

\* Nothing held, nothing in total.
LEMMA NoHolds ==
  ASSUME NEW t, NEW s, \A i \in Items : ~HoldsAt(t[i], s) PROVE Totals(t, s, 0)
<1>1. HeldUnits(t, s) = {}
  BY DEF HeldUnits, HeldItems, HoldsAt
<1> QED
  BY <1>1, FS_EmptySet DEF Totals

\* The drawn items of a row are locked by whoever locks the row.
LEMMA DrawnIsOwned ==
  ASSUME ChangedIsOwned, NEW i \in Items, NEW s, HoldsAt(DrawnFrom(resv, resvDraft)[i], s)
  PROVE  /\ resvOwner[i] \in Requests /\ stockOwner[s] = resvOwner[i]
         /\ HoldsAt(resv[i], s) /\ resvDraft[i].status = "fulfilled"
         /\ DrawnFrom(resv, resvDraft)[i] = resv[i]
<1>1. /\ resv[i].status = "reserved" /\ resvDraft[i].status = "fulfilled"
      /\ DrawnFrom(resv, resvDraft)[i] = resv[i] /\ resv[i].stock = s
  BY DEF DrawnFrom, HoldsAt, NoResv
<1>2. resvDraft[i] # resv[i]
  BY <1>1
<1>3. resv[i] # NoResv
  BY <1>1 DEF NoResv
<1> QED
  BY <1>1, <1>2, <1>3 DEF ChangedIsOwned, HoldsAt

\* Steps that draw nothing.
LEMMA NothingDrawn ==
  ASSUME DraftsDraw,
         \A i \in Items : DrawnFrom(resv, resvDraft)'[i] = DrawnFrom(resv, resvDraft)[i],
         \A s \in Stocks : /\ stock'[s].quantity = stock[s].quantity
                           /\ stockDraft'[s].quantity = stockDraft[s].quantity
  PROVE  DraftsDraw'
<1> DEFINE t == DrawnFrom(resv, resvDraft)
           u == DrawnFrom(resv', resvDraft')
<1>1. \A i \in Items : u[i] = t[i]
  BY DEF DrawnFrom
<1> HIDE DEF t, u
<1>2. ASSUME NEW s \in Stocks PROVE Totals(u, s, stock'[s].quantity - stockDraft'[s].quantity)
  <2>1. Totals(t, s, stock[s].quantity - stockDraft[s].quantity)
    BY DEF DraftsDraw, t
  <2> QED
    BY <1>1, <2>1, SameHolds
<1>3. DrawnFrom(resv, resvDraft)' = u
  BY DEF u, DrawnFrom
<1> QED
  BY <1>2, <1>3 DEF DraftsDraw, u, Totals, HeldUnits, HeldItems

\* A one-statement transaction is on a row nobody is drawing from.
LEMMA WriteStockDraws ==
  ASSUME WellFormed, DraftsAgree, DraftsDraw, NEW s \in Stocks, NEW row \in Row,
         WriteStock(s, row)
  PROVE  DraftsDraw'
<1>1. \A t \in Stocks : /\ stock'[t] = (IF t = s THEN row ELSE stock[t])
                        /\ stockDraft'[t] = (IF t = s THEN row ELSE stockDraft[t])
  BY DEF WriteStock, WellFormed, TypeOK, TablesTyped, LocksTyped
<1>2. stockOwner[s] = None /\ stockDraft[s] = stock[s] /\ resv' = resv /\ resvDraft' = resvDraft
  BY DEF WriteStock, DraftsAgree
<1>3. row.quantity \in Int /\ stock[s].quantity \in Int
  BY RowNumbers DEF Row
<1>4. \A t \in Stocks : stock'[t].quantity - stockDraft'[t].quantity
                          = stock[t].quantity - stockDraft[t].quantity
  BY <1>1, <1>2, <1>3
<1>5. PICK u : u = DrawnFrom(resv, resvDraft)
  OBVIOUS
<1>6. DrawnFrom(resv, resvDraft)' = u
  BY <1>2, <1>5 DEF DrawnFrom
<1>7. \A t \in Stocks : Totals(u, t, stock'[t].quantity - stockDraft'[t].quantity)
  BY <1>4, <1>5 DEF DraftsDraw
<1> QED
  BY <1>6, <1>7 DEF DraftsDraw, Totals, HeldUnits, HeldItems

\* COMMIT publishes what was drawn together with the rows it was drawn from.
LEMMA CommitDraws ==
  ASSUME WellFormed, TablesBalance, DraftsDraw, NEW r \in Requests, Commit(r)
  PROVE  DraftsDraw'
<1>1. /\ stockDraft' = stockDraft /\ resvDraft' = resvDraft
      /\ \A s \in Stocks : stock'[s] = (IF stockOwner[s] = r THEN stockDraft[s] ELSE stock[s])
      /\ \A i \in Items : resv'[i] = (IF resvOwner[i] = r THEN resvDraft[i] ELSE resv[i])
  BY DEF Commit
<1> DEFINE t == DrawnFrom(resv, resvDraft)
           u == DrawnFrom(resv', resvDraft)
<1>2. \A i \in Items : u[i] = (IF resvOwner[i] = r THEN NoResv ELSE t[i])
  BY <1>1 DEF DrawnFrom
<1>3. ASSUME NEW i \in Items, NEW s, HoldsAt(t[i], s)
      PROVE  stockOwner[s] = resvOwner[i]
  BY <1>3, DrawnIsOwned DEF TablesBalance
<1> HIDE DEF t, u
<1>4. ASSUME NEW s \in Stocks
      PROVE  Totals(u, s, stock'[s].quantity - stockDraft[s].quantity)
  <2>1. CASE stockOwner[s] = r
    <3>1. \A i \in Items : ~HoldsAt(u[i], s)
      BY <1>2, <1>3, <2>1, NoneIsFresh DEF HoldsAt, NoResv
    <3>2. stock'[s].quantity - stockDraft[s].quantity = 0
      BY <1>1, <2>1, RowNumbers
    <3> QED
      BY <3>1, <3>2, NoHolds
  <2>2. CASE stockOwner[s] # r
    <3>1. \A i \in Items : u[i] = t[i] \/ (~HoldsAt(t[i], s) /\ ~HoldsAt(u[i], s))
      BY <1>2, <1>3, <2>2 DEF HoldsAt, NoResv
    <3>2. Totals(t, s, stock[s].quantity - stockDraft[s].quantity)
      BY DEF DraftsDraw, t
    <3> QED
      BY <1>1, <2>2, <3>1, <3>2, SameHolds
  <2> QED
    BY <2>1, <2>2
<1>5. DrawnFrom(resv, resvDraft)' = u
  BY <1>1 DEF u, DrawnFrom
<1> QED
  BY <1>1, <1>4, <1>5 DEF DraftsDraw, Totals, HeldUnits, HeldItems

\* ROLLBACK gives back what was drawn.
LEMMA RollbackDraws ==
  ASSUME WellFormed, TablesBalance, DraftsDraw, NEW r \in Requests, Rollback(r)
  PROVE  DraftsDraw'
<1>1. /\ stock' = stock /\ resv' = resv
      /\ \A s \in Stocks :
           stockDraft'[s] = (IF stockOwner[s] = r THEN stock[s] ELSE stockDraft[s])
      /\ \A i \in Items : resvDraft'[i] = (IF resvOwner[i] = r THEN resv[i] ELSE resvDraft[i])
  BY DEF Rollback, tables
<1> DEFINE t == DrawnFrom(resv, resvDraft)
           u == DrawnFrom(resv, resvDraft')
<1>2. \A i \in Items : u[i] = (IF resvOwner[i] = r THEN NoResv ELSE t[i])
  BY <1>1 DEF DrawnFrom
<1>3. ASSUME NEW i \in Items, NEW s, HoldsAt(t[i], s)
      PROVE  stockOwner[s] = resvOwner[i]
  BY <1>3, DrawnIsOwned DEF TablesBalance
<1> HIDE DEF t, u
<1>4. ASSUME NEW s \in Stocks
      PROVE  Totals(u, s, stock[s].quantity - stockDraft'[s].quantity)
  <2>1. CASE stockOwner[s] = r
    <3>1. \A i \in Items : ~HoldsAt(u[i], s)
      BY <1>2, <1>3, <2>1, NoneIsFresh DEF HoldsAt, NoResv
    <3>2. stock[s].quantity - stockDraft'[s].quantity = 0
      BY <1>1, <2>1, RowNumbers
    <3> QED
      BY <3>1, <3>2, NoHolds
  <2>2. CASE stockOwner[s] # r
    <3>1. \A i \in Items : u[i] = t[i] \/ (~HoldsAt(t[i], s) /\ ~HoldsAt(u[i], s))
      BY <1>2, <1>3, <2>2 DEF HoldsAt, NoResv
    <3>2. Totals(t, s, stock[s].quantity - stockDraft[s].quantity)
      BY DEF DraftsDraw, t
    <3> QED
      BY <1>1, <2>2, <3>1, <3>2, SameHolds
  <2> QED
    BY <2>1, <2>2
<1>5. DrawnFrom(resv, resvDraft)' = u
  BY <1>1 DEF u, DrawnFrom
<1> QED
  BY <1>1, <1>4, <1>5 DEF DraftsDraw, Totals, HeldUnits, HeldItems

\* Reserving draws nothing.
LEMMA ReservingDraws ==
  ASSUME WellFormed, DraftsDraw, NEW r \in Requests,
         InsertReservation(r) \/ \E i \in Items : ReserveStock(r, i)
  PROVE  DraftsDraw'
<1>1. CASE InsertReservation(r)
  <2>1. PICK i \in Items : i = cur[r]
    BY <1>1 DEF InsertReservation, WellFormed, TypeOK, SessionTyped, SessionsMakeSense,
                StepFitsCall
  <2>2. /\ UNCHANGED <<resv, stock, stockDraft>> /\ resv[i] = NoResv
        /\ \A j \in Items \ {i} : resvDraft'[j] = resvDraft[j]
    BY <1>1, <2>1 DEF InsertReservation, tables, WellFormed, TypeOK, LocksTyped
  <2>3. \A j \in Items : DrawnFrom(resv, resvDraft)'[j] = DrawnFrom(resv, resvDraft)[j]
    BY <2>2 DEF DrawnFrom, NoResv
  <2> QED
    BY <2>2, <2>3, NothingDrawn
<1>2. ASSUME NEW i \in Items, ReserveStock(r, i) PROVE DraftsDraw'
  <2>1. ItemStock(r, i) \in Stocks /\ item[i].quantity \in Int
    <3>1. call[r] \in Calls /\ call[r].op = "confirm" /\ item[i] # NoItem
      BY <1>2 DEF ReserveStock, WellFormed, TypeOK, SessionTyped, SessionsMakeSense,
                  StepFitsCall
    <3>2. call[r].location \in Locations
      BY <3>1, CallFields
    <3>3. item[i].product \in Products /\ item[i].quantity \in Nat
      BY <3>1, ItemFields DEF WellFormed, TypeOK, TablesTyped
    <3> QED
      BY <3>2, <3>3 DEF ItemStock, Stocks
  <2>2. PICK s \in Stocks, q \in Int : s = ItemStock(r, i) /\ q = item[i].quantity
    BY <2>1
  <2> DEFINE held == WithReserved(stockDraft[s], q)
  <2>3. PICK row : row = Synced(held, ReorderPoint[s])
    OBVIOUS
  <2>4. stockDraft[s] \in Row /\ ReorderPoint[s] \in Nat
    BY RowNumbers
  <2>5. held \in Row /\ held.quantity = stockDraft[s].quantity
    BY <2>4, ReservingRow
  <2>6. /\ UNCHANGED <<resv, stock, resvDraft>> /\ stockDraft' = [stockDraft EXCEPT ![s] = row]
    BY <1>2, <2>2, <2>3 DEF ReserveStock, tables
  <2> HIDE DEF held
  <2>7. row.quantity = stockDraft[s].quantity
    BY <2>3, <2>4, <2>5, SyncedRow
  <2>8. \A t \in Stocks : stockDraft'[t] = (IF t = s THEN row ELSE stockDraft[t])
    BY <2>6 DEF WellFormed, TypeOK, LocksTyped
  <2>9. \A j \in Items : DrawnFrom(resv, resvDraft)'[j] = DrawnFrom(resv, resvDraft)[j]
    BY <2>6 DEF DrawnFrom
  <2> QED
    BY <2>6, <2>7, <2>8, <2>9, NothingDrawn
<1> QED
  BY <1>1, <1>2

\* fulfill_for_item draws what the reservation held, release_for_item nothing.
LEMMA SettlingDraws ==
  ASSUME WellFormed, SessionsFit, SeenHolds, AllOnCourse, DraftsDraw,
         NEW r \in Requests, SettleStock(r)
  PROVE  DraftsDraw'
<1>1. pc[r] = "settle" /\ call[r].op \in {"cancel", "complete"}
  BY SettlingItem DEF SettleStock
<1>2. PICK i \in Items, s \in Stocks, q \in Nat :
        /\ i = cur[r] /\ i \in todo[r] /\ s = resvDraft[i].stock /\ q = resvDraft[i].quantity
  <2>1. /\ cur[r] \in Items /\ cur[r] \in todo[r] /\ resvDraft[cur[r]].stock \in Stocks
        /\ resvDraft[cur[r]].quantity \in Nat
    BY <1>1, SettlingItem
  <2> QED
    BY <2>1
<1>3. resvDraft[i] = resv[i] /\ HoldsAt(resv[i], s) /\ resv[i].quantity = q
  <2>1. OnCourse(r) /\ SessionFits(r)
    BY DEF AllOnCourse, SessionsFit
  <2>2. resvDraft[i] = resv[i]
    BY <1>1, <1>2, <2>1 DEF OnCourse
  <2>3. resvDraft[i].status = "reserved"
    BY <1>1, <1>2, <2>1 DEF SessionFits, SeenHolds
  <2> QED
    BY <1>2, <2>2, <2>3 DEF HoldsAt
<1>4. PICK to : to = SettledStatus(call[r].op)
  OBVIOUS
<1>5. to = (IF call[r].op = "complete" THEN "fulfilled" ELSE "released")
  BY <1>4 DEF SettledStatus
<1>6. /\ resv' = resv /\ stock' = stock
      /\ \A j \in Items : resvDraft'[j].status = (IF j = i THEN to ELSE resvDraft[j].status)
  <2>1. resvDraft' = [resvDraft EXCEPT ![i].status = to]
    BY <1>2, <1>4 DEF SettleStock
  <2>2. resvDraft[i] \in ResvRows /\ resvDraft[i] # NoResv
    BY <1>1, <1>2, SettlingItem
  <2>3. [resvDraft[i] EXCEPT !.status = to].status = to
    BY <1>5, <2>2, SettledResvRow
  <2>4. resv' = resv /\ stock' = stock
    BY <1>2, SettleStockEffect DEF tables
  <2> QED
    BY <2>1, <2>3, <2>4 DEF WellFormed, TypeOK, LocksTyped
<1>7. PICK row : row = Synced(SettledRow(r), ReorderPoint[s])
  OBVIOUS
<1>8. \A t \in Stocks : stockDraft'[t] = (IF t = s THEN row ELSE stockDraft[t])
  <2>1. stockDraft' = [stockDraft EXCEPT ![s] = row]
    BY <1>2, <1>7, SettleStockEffect
  <2> QED
    BY <2>1 DEF WellFormed, TypeOK, LocksTyped
<1>9. row.quantity = stockDraft[s].quantity - (IF call[r].op = "complete" THEN q ELSE 0)
  <2>1. SettledRow(r) \in Row /\ stockDraft[s] \in Row /\ ReorderPoint[s] \in Nat
    BY <1>1, <1>2, SettledRowTyped, RowNumbers
  <2>2. row.quantity = SettledRow(r).quantity
    BY <1>7, <2>1, SyncedRow
  <2>3. q \in Int
    OBVIOUS
  <2>4. /\ WithFulfilled(stockDraft[s], q).quantity = stockDraft[s].quantity - q
        /\ WithReleased(stockDraft[s], q).quantity = stockDraft[s].quantity
    BY <2>1, <2>3, FulfillingRow, ReleasingRow
  <2>5. stockDraft[s].quantity \in Int
    BY RowNumbers
  <2> QED
    BY <1>2, <2>2, <2>4, <2>5 DEF SettledRow
<1> DEFINE t == DrawnFrom(resv, resvDraft)
           u == DrawnFrom(resv', resvDraft')
<1>10. /\ \A j \in Items \ {i} : u[j] = t[j]
       /\ t[i] = NoResv
       /\ u[i] = (IF call[r].op = "complete" THEN resv[i] ELSE NoResv)
  BY <1>3, <1>5, <1>6 DEF DrawnFrom, HoldsAt
<1>11. \A p \in Stocks : Totals(t, p, stock[p].quantity - stockDraft[p].quantity)
  BY DEF DraftsDraw
<1> HIDE DEF t, u
<1>12. ASSUME NEW p \in Stocks
       PROVE  Totals(u, p, stock'[p].quantity - stockDraft'[p].quantity)
  <2>1. CASE call[r].op = "complete" /\ p = s
    <3>1. PICK n \in Int : n = stock[s].quantity - stockDraft[s].quantity
      BY RowNumbers
    <3>2. ~HoldsAt(t[i], s) /\ HoldsAt(u[i], s) /\ u[i].quantity = q
      BY <1>3, <1>10, <2>1 DEF HoldsAt, NoResv
    <3>3. Totals(t, s, n)
      BY <1>11, <3>1
    <3>4. Totals(u, s, n + q)
      BY <1>10, <3>2, <3>3, OneHoldMore
    <3>5. stock'[s].quantity - stockDraft'[s].quantity = n + q
      BY <1>6, <1>8, <1>9, <2>1, <3>1, RowNumbers
    <3> QED
      BY <2>1, <3>4, <3>5
  <2>2. CASE ~(call[r].op = "complete" /\ p = s)
    <3>1. \A j \in Items : u[j] = t[j] \/ (~HoldsAt(t[j], p) /\ ~HoldsAt(u[j], p))
      BY <1>3, <1>10, <2>2 DEF HoldsAt, NoResv
    <3>2. stock'[p].quantity - stockDraft'[p].quantity = stock[p].quantity - stockDraft[p].quantity
      BY <1>6, <1>8, <1>9, <2>2, RowNumbers
    <3> QED
      BY <1>11, <3>1, <3>2, SameHolds
  <2> QED
    BY <2>1, <2>2
<1> QED
  BY <1>12 DEF DraftsDraw, u, Totals, HeldUnits, HeldItems, DrawnFrom

\* One step of the proof per kind of action.
LEMMA NextDraws ==
  ASSUME WellFormed, Consistent, SeenHolds, AllOnCourse, DraftsDraw, [Next]_vars
  PROVE  DraftsDraw'
<1> USE DEF Consistent, TablesBalance
<1>1. ASSUME UNCHANGED <<resv, stock, resvDraft, stockDraft>> PROVE DraftsDraw'
  BY <1>1, NothingDrawn DEF DrawnFrom
<1>2. CASE UNCHANGED vars \/ \E o \in Orders : CreateOrder(o)
  BY <1>1, <1>2 DEF vars, tables, locks, CreateOrder
<1>3. ASSUME NEW r \in Requests, GivesUp(r) PROVE DraftsDraw'
  BY <1>3, GivesUpEffect, RollbackDraws
<1>4. ASSUME NEW r \in Requests, Arrives(r) PROVE DraftsDraw'
  <2>1. ASSUME NEW c \in OrderCalls, ReadOrder(r, c) PROVE DraftsDraw'
    BY <1>1, <2>1 DEF ReadOrder, tables, locks
  <2>2. ASSUME NEW c \in StockCalls, MoveStock(r, c) PROVE DraftsDraw'
    <3>1. /\ c.stock \in Stocks /\ Synced(MovedRow(c), ReorderPoint[c.stock]) \in Row
          /\ WriteStock(c.stock, Synced(MovedRow(c), ReorderPoint[c.stock]))
      BY <2>2, MoveStockEffect
    <3> QED
      BY <3>1, WriteStockDraws
  <2>3. ASSUME NEW c \in StockCalls, InitializeStock(r, c) PROVE DraftsDraw'
    <3>1. /\ c \in Calls /\ c.op = "initialize_stock" /\ WriteStock(c.stock, NewRow(c.quantity))
      BY <2>3 DEF InitializeStock, Calls
    <3>2. c.stock \in Stocks /\ c.quantity \in Int
      BY <3>1, CallFields
    <3>3. NewRow(c.quantity) \in Row
      BY <3>2, NewRowTyped
    <3> QED
      BY <3>1, <3>2, <3>3, WriteStockDraws
  <2> QED
    BY <1>4, <2>1, <2>2, <2>3 DEF Arrives
<1>5. ASSUME NEW r \in Requests, NEW i \in Items, ItemStep(r, i) PROVE DraftsDraw'
  <2>1. CASE AddItem(r, i) \/ RemoveItem(r, i) \/ LockReservation(r, i)
    BY <1>1, <2>1 DEF AddItem, RemoveItem, LockReservation, tables, locks
  <2> QED
    BY <1>3, <1>5, <2>1, ReservingDraws DEF ItemStep, GivesUp
<1>6. ASSUME NEW r \in Requests, RecordMovement(r) \/ MarkOpened(r) PROVE DraftsDraw'
  <2>1. CASE RecordMovement(r)
    <3>1. /\ call[r].stock \in Stocks /\ Recorded(stock[call[r].stock], delta[r]) \in Row
          /\ WriteStock(call[r].stock, Recorded(stock[call[r].stock], delta[r]))
      BY <2>1, RecordMovementEffect DEF RecordMovement
    <3> QED
      BY <3>1, WriteStockDraws
  <2>2. CASE MarkOpened(r)
    <3>1. PICK s \in Stocks : s = call[r].stock /\ stock[s] \in Row
      BY <2>2, OpenedStock DEF MarkOpened
    <3>2. [stock[s] EXCEPT !.alerted = TRUE] \in Row
      BY <3>1 DEF Row
    <3>3. WriteStock(s, [stock[s] EXCEPT !.alerted = TRUE])
      BY <2>2, <3>1 DEF MarkOpened
    <3> QED
      BY <3>2, <3>3, WriteStockDraws
  <2> QED
    BY <1>6, <2>1, <2>2
<1>7. ASSUME NEW r \in Requests, Advances(r) PROVE DraftsDraw'
  <2>1. CASE ReadItems(r) \/ PickItem(r) \/ RefreshOpened(r) \/ \E s \in Stocks : DeferAlert(r, s)
    BY <1>1, <2>1 DEF ReadItems, PickItem, RefreshOpened, DeferAlert, tables, locks
  <2>2. CASE CommitConfirm(r) \/ CommitCancel(r) \/ CommitComplete(r)
    BY <2>2, CommitDraws DEF CommitConfirm, CommitCancel, CommitComplete
  <2> QED
    BY <1>3, <1>5, <1>6, <1>7, <2>1, <2>2, ReservingDraws, SettlingDraws DEF Advances, GivesUp
<1>8. ASSUME NEW r \in Requests, Fails(r) PROVE DraftsDraw'
  <2>1. ASSUME NEW s \in Stocks, LoseAlert(r, s) PROVE DraftsDraw'
    BY <1>1, <2>1 DEF LoseAlert, tables, locks
  <2> QED
    BY <1>3, <1>8, <2>1 DEF Fails, GivesUp
<1> QED
  BY <1>2, <1>4, <1>7, <1>8 DEF Next

\* All that the refinement rests on.
OnTheBooks == /\ WellFormed /\ Consistent /\ MapsAreCurrent /\ Mirrored /\ PromiseBacked
              /\ AllOnCourse /\ DraftsDraw

\* The book sees the tables as they are committed.
BookRests == /\ UNCHANGED <<order, item, resv>>
             /\ \A s \in Stocks : stock'[s].quantity = stock[s].quantity

\* A step that leaves the committed tables alone, but for the reserved units, the flags
\* and the movements, is none to the book.
LEMMA RestIsStutter == ASSUME BookRests PROVE UNCHANGED Book!book
  BY DEF BookRests, Book!book

\* create_order is one step of the book.
LEMMA CreateRefines ==
  ASSUME NEW o \in Orders, CreateOrder(o) PROVE Book!Create(o)
  BY DEF CreateOrder, Book!Create

\* add_item adds the line to an order that is still open.
LEMMA AddLineRefines ==
  ASSUME OnTheBooks, NEW r \in Requests, NEW i \in Items, AddItem(r, i)
  PROVE  \E o \in Orders, p \in Products, q \in Quantities : Book!AddLine(o, i, p, q)
<1>1. /\ pc[r] = "read" /\ call[r].op = "add_item" /\ item[i] = NoItem
      /\ item' = [item EXCEPT ![i] =
                    [state |-> "live", order |-> call[r].order,
                     product |-> call[r].product, quantity |-> call[r].quantity]]
      /\ UNCHANGED <<order, resv, stock>>
  BY DEF AddItem
<1>2. /\ call[r].order \in Orders /\ call[r].product \in Products
      /\ call[r].quantity \in Quantities
  BY <1>1, CallFields DEF OrderOps, OnTheBooks, WellFormed, TypeOK, SessionTyped
<1>3. order[call[r].order] = "created"
  BY <1>1, ProgressOfAll DEF OnTheBooks, OrderProgress, AllowedStatuses
<1>4. item[i].state = "unused"
  BY <1>1 DEF NoItem
<1>5. Book!AddLine(call[r].order, i, call[r].product, call[r].quantity)
  BY <1>1, <1>3, <1>4 DEF Book!AddLine
<1> QED
  BY <1>2, <1>5

\* remove_item drops a line of an order that is still open.
LEMMA DropLineRefines ==
  ASSUME OnTheBooks, NEW r \in Requests, NEW i \in Items, RemoveItem(r, i)
  PROVE  \E o \in Orders : Book!DropLine(o, i)
<1>1. /\ pc[r] = "work" /\ call[r].op = "remove_item" /\ i \in todo[r]
      /\ item' = [item EXCEPT ![i].state = "deleted"]
      /\ UNCHANGED <<order, resv, stock>>
  BY DEF RemoveItem
<1>2. call[r].order \in Orders /\ order[call[r].order] = "created"
  BY <1>1, OnAnOrder, ProgressOfAll DEF OnTheBooks, OrderProgress, AllowedStatuses
<1>3. i \in ItemsOf(call[r].order)
  BY <1>1 DEF OnTheBooks, AllOnCourse, OnCourse
<1>4. Book!DropLine(call[r].order, i)
  BY <1>1, <1>2, <1>3 DEF Book!DropLine, Book!LinesOf, ItemsOf
<1> QED
  BY <1>2, <1>4

\* The stock desk moves one row.
LEMMA MoveRefines ==
  ASSUME OnTheBooks, NEW s \in Stocks, NEW row \in Row, WriteStock(s, row)
  PROVE  Book!Move(s)
<1>1. \A t \in Stocks : stock'[t] = (IF t = s THEN row ELSE stock[t])
  BY DEF WriteStock, OnTheBooks, WellFormed, TypeOK, TablesTyped
<1>2. UNCHANGED <<order, item, resv>>
  BY DEF WriteStock
<1>3. row.quantity \in Int
  BY DEF Row
<1> QED
  BY <1>1, <1>2, <1>3 DEF Book!Move

\* The units that leave the shelf with the order o when d is published over t.
Leaving(o, t, d) ==
    [i \in Items |-> IF i \in ItemsOf(o) /\ t[i].status = "reserved" /\ d[i].status = "fulfilled"
                     THEN t[i] ELSE NoResv]

\* COMMIT publishes the reservations of every item of the order, and of no other, and
\* takes off the shelf what was drawn for them.
LEMMA CommitPublishes ==
  ASSUME OnTheBooks, NEW r \in Requests,
         CommitConfirm(r) \/ CommitCancel(r) \/ CommitComplete(r)
  PROVE  LET o == call[r].order
         IN  /\ o \in Orders /\ pc[r] = "work" /\ todo[r] = {} /\ Commit(r) /\ item' = item
             /\ order[o] \in AllowedStatuses(call[r].op)
             /\ \A i \in ItemsOf(o) : /\ i \in Items /\ i \in Locks(r)
                                      /\ resvDraft[i].status = TargetStatus(call[r].op)
             /\ resv' = [i \in Items |-> IF i \in ItemsOf(o) THEN resvDraft[i] ELSE resv[i]]
             /\ \A s \in Stocks : Totals(Leaving(o, resv, resvDraft), s,
                                         stock[s].quantity - stock'[s].quantity)
<1>0. PICK o : o = call[r].order
  OBVIOUS
<1>1. /\ pc[r] = "work" /\ todo[r] = {} /\ Commit(r) /\ item' = item
      /\ call[r].op \in {"confirm", "cancel", "complete"}
  BY DEF CommitConfirm, CommitCancel, CommitComplete
<1>2. o \in Orders /\ order[o] \in AllowedStatuses(call[r].op)
  BY <1>0, <1>1, OnAnOrder, ProgressOfAll DEF OnTheBooks, OrderProgress
<1>3. \A i \in ItemsOf(o) : /\ i \in Items /\ i \in Locks(r)
                            /\ resvDraft[i].status = TargetStatus(call[r].op)
  BY <1>0, <1>1, ProgressOfAll DEF OnTheBooks, OrderProgress, ItemsOf
<1>4. Locks(r) \subseteq ItemsOf(o)
  BY <1>0, <1>1 DEF OnTheBooks, AllOnCourse, OnCourse
<1>5. \A i \in Items : resvOwner[i] = r <=> i \in ItemsOf(o)
  BY <1>3, <1>4 DEF Locks
<1>6. resv' = [i \in Items |-> IF i \in ItemsOf(o) THEN resvDraft[i] ELSE resv[i]]
  BY <1>1, <1>5 DEF Commit
<1>7. \A s \in Stocks : stock'[s] = (IF stockOwner[s] = r THEN stockDraft[s] ELSE stock[s])
  BY <1>1 DEF Commit
<1> DEFINE t == DrawnFrom(resv, resvDraft)
           u == Leaving(o, resv, resvDraft)
<1>8. \A i \in Items : u[i] = (IF i \in ItemsOf(o) THEN t[i] ELSE NoResv)
  BY DEF DrawnFrom, Leaving
<1>9. ASSUME NEW i \in Items, NEW s, HoldsAt(t[i], s)
      PROVE  stockOwner[s] = resvOwner[i]
  BY <1>9, DrawnIsOwned DEF OnTheBooks, Consistent, TablesBalance
<1> HIDE DEF t, u
<1>10. ASSUME NEW s \in Stocks
       PROVE  Totals(u, s, stock[s].quantity - stock'[s].quantity)
  <2>1. CASE stockOwner[s] = r
    <3>1. \A i \in Items : u[i] = t[i] \/ (~HoldsAt(t[i], s) /\ ~HoldsAt(u[i], s))
      BY <1>5, <1>8, <1>9, <2>1 DEF HoldsAt, NoResv
    <3>2. Totals(t, s, stock[s].quantity - stockDraft[s].quantity)
      BY DEF OnTheBooks, DraftsDraw, t
    <3> QED
      BY <1>7, <2>1, <3>1, <3>2, SameHolds
  <2>2. CASE stockOwner[s] # r
    <3>1. \A i \in Items : ~HoldsAt(u[i], s)
      BY <1>5, <1>8, <1>9, <2>2 DEF HoldsAt, NoResv
    <3>2. stock[s].quantity - stock'[s].quantity = 0
      BY <1>7, <2>2, RowNumbers DEF OnTheBooks
    <3> QED
      BY <3>1, <3>2, NoHolds
  <2> QED
    BY <2>1, <2>2
<1> QED
  BY <1>0, <1>1, <1>2, <1>3, <1>6, <1>10 DEF u

\* The book counts as the tables do.
LEMMA BookCounts == ASSUME NEW S PROVE Book!Cardinality(S) = Cardinality(S)
  BY DEF Book!Cardinality, Cardinality

\* If nothing leaves, the shelf stays as it is.
LEMMA NothingLeaves ==
  ASSUME OnTheBooks, OnTheBooks', NEW t, NEW s \in Stocks, \A i \in Items : ~HoldsAt(t[i], s),
         Totals(t, s, stock[s].quantity - stock'[s].quantity)
  PROVE  stock'[s].quantity = stock[s].quantity
<1>1. stock[s].quantity - stock'[s].quantity = 0
  BY NoHolds DEF Totals
<1>2. stock[s].quantity \in Int /\ stock'[s].quantity \in Int
  BY DEF OnTheBooks, WellFormed, TypeOK, TablesTyped, Row
<1> QED
  BY <1>1, <1>2

\* cancel_order releases every hold of the order in one step.
LEMMA CancelRefines ==
  ASSUME OnTheBooks, OnTheBooks', NEW r \in Requests, CommitCancel(r)
  PROVE  \E o \in Orders : Book!Cancel(o)
<1>1. PICK o \in Orders :
        /\ o = call[r].order /\ pc[r] = "work" /\ todo[r] = {} /\ item' = item
        /\ order[o] \in AllowedStatuses(call[r].op)
        /\ \A i \in ItemsOf(o) : /\ i \in Items /\ i \in Locks(r)
                                 /\ resvDraft[i].status = TargetStatus(call[r].op)
        /\ resv' = [i \in Items |-> IF i \in ItemsOf(o) THEN resvDraft[i] ELSE resv[i]]
        /\ \A s \in Stocks : Totals(Leaving(o, resv, resvDraft), s,
                                    stock[s].quantity - stock'[s].quantity)
  BY CommitPublishes
<1>2. call[r].op = "cancel" /\ order' = [order EXCEPT ![o] = "cancelled"]
  BY <1>1 DEF CommitCancel
<1>3. order[o] = "confirmed"
  BY <1>1, <1>2 DEF AllowedStatuses
<1>4. \A i \in ItemsOf(o) : resv[i].status = "reserved"
  BY <1>3, ItemsMirrored DEF OnTheBooks, StatusFor, ItemsOf
<1>5. \A i \in ItemsOf(o) : resvDraft[i] = [resv[i] EXCEPT !.status = "released"]
  BY <1>1, <1>2 DEF OnTheBooks, AllOnCourse, OnCourse, SettledStatus
<1>6. resv' = [i \in Items |-> IF i \in ItemsOf(o) THEN [resv[i] EXCEPT !.status = "released"]
                                ELSE resv[i]]
  BY <1>1, <1>5
<1>7. \A s \in Stocks : stock'[s].quantity = stock[s].quantity
  <2>1. \A i \in Items, s \in Stocks : ~HoldsAt(Leaving(o, resv, resvDraft)[i], s)
    BY <1>1, <1>2 DEF Leaving, HoldsAt, NoResv, TargetStatus, SettledStatus
  <2> QED
    BY <1>1, <2>1, NothingLeaves
<1>8. Book!LinesOf(o) = ItemsOf(o)
  BY DEF Book!LinesOf, ItemsOf
<1>9. Book!Cancel(o)
  BY <1>1, <1>2, <1>3, <1>4, <1>6, <1>7, <1>8 DEF Book!Cancel, Book!Settle
<1> QED
  BY <1>9

\* complete_order takes off the shelf exactly what the order held.
LEMMA CompleteRefines ==
  ASSUME OnTheBooks, OnTheBooks', NEW r \in Requests, CommitComplete(r)
  PROVE  \E o \in Orders : Book!Complete(o)
<1>1. PICK o \in Orders :
        /\ o = call[r].order /\ pc[r] = "work" /\ todo[r] = {} /\ item' = item
        /\ order[o] \in AllowedStatuses(call[r].op)
        /\ \A i \in ItemsOf(o) : /\ i \in Items /\ i \in Locks(r)
                                 /\ resvDraft[i].status = TargetStatus(call[r].op)
        /\ resv' = [i \in Items |-> IF i \in ItemsOf(o) THEN resvDraft[i] ELSE resv[i]]
        /\ \A s \in Stocks : Totals(Leaving(o, resv, resvDraft), s,
                                    stock[s].quantity - stock'[s].quantity)
  BY CommitPublishes
<1>2. call[r].op = "complete" /\ order' = [order EXCEPT ![o] = "completed"]
  BY <1>1 DEF CommitComplete
<1>3. order[o] = "confirmed"
  BY <1>1, <1>2 DEF AllowedStatuses
<1>4. \A i \in ItemsOf(o) : resv[i].status = "reserved"
  BY <1>3, ItemsMirrored DEF OnTheBooks, StatusFor, ItemsOf
<1>5. \A i \in ItemsOf(o) : resvDraft[i] = [resv[i] EXCEPT !.status = "fulfilled"]
  BY <1>1, <1>2 DEF OnTheBooks, AllOnCourse, OnCourse, SettledStatus
<1>6. resv' = [i \in Items |-> IF i \in ItemsOf(o) THEN [resv[i] EXCEPT !.status = "fulfilled"]
                                ELSE resv[i]]
  BY <1>1, <1>5
<1>7. Book!LinesOf(o) = ItemsOf(o)
  BY DEF Book!LinesOf, ItemsOf
<1>8. ASSUME NEW s \in Stocks
      PROVE  stock'[s].quantity
               = stock[s].quantity - Book!Units(Book!LinesOf(o) \cap Book!HeldOn(s))
  <2>1. \A i \in Items : Leaving(o, resv, resvDraft)[i]
                           = IF i \in ItemsOf(o) THEN resv[i] ELSE NoResv
    BY <1>1, <1>2, <1>4 DEF Leaving, TargetStatus, SettledStatus
  <2> DEFINE u == Leaving(o, resv, resvDraft)
  <2>2. HeldItems(u, s) = ItemsOf(o) \cap Book!HeldOn(s)
    BY <2>1 DEF HeldItems, Book!HeldOn, NoResv, ItemsOf
  <2>3. HeldUnits(u, s)
          = UNION {{i} \X (1 .. resv[i].quantity) : i \in ItemsOf(o) \cap Book!HeldOn(s)}
    BY <2>1, <2>2 DEF HeldUnits, ItemsOf
  <2>4. Cardinality(HeldUnits(u, s)) = stock[s].quantity - stock'[s].quantity
    BY <1>1 DEF Totals
  <2>5. stock[s].quantity \in Int /\ stock'[s].quantity \in Int
    BY DEF OnTheBooks, WellFormed, TypeOK, TablesTyped, Row
  <2>6. Book!Units(Book!LinesOf(o) \cap Book!HeldOn(s)) = Cardinality(HeldUnits(u, s))
    BY <1>7, <2>3, BookCounts DEF Book!Units
  <2> QED
    BY <2>4, <2>5, <2>6
<1>9. Book!Complete(o)
  BY <1>1, <1>2, <1>3, <1>4, <1>6, <1>7, <1>8 DEF Book!Complete, Book!Settle, Book!Stocks, Stocks
<1> QED
  BY <1>9

\* confirm_order holds every line of the order in one step, and no row it takes from
\* is overdrawn: the row was locked from the check on.
LEMMA ConfirmRefines ==
  ASSUME OnTheBooks, OnTheBooks', NEW r \in Requests, CommitConfirm(r)
  PROVE  \E o \in Orders, l \in Locations : Book!Confirm(o, l)
<1>1. PICK o \in Orders :
        /\ o = call[r].order /\ pc[r] = "work" /\ todo[r] = {} /\ item' = item /\ Commit(r)
        /\ order[o] \in AllowedStatuses(call[r].op)
        /\ \A i \in ItemsOf(o) : /\ i \in Items /\ i \in Locks(r)
                                 /\ resvDraft[i].status = TargetStatus(call[r].op)
        /\ resv' = [i \in Items |-> IF i \in ItemsOf(o) THEN resvDraft[i] ELSE resv[i]]
        /\ \A s \in Stocks : Totals(Leaving(o, resv, resvDraft), s,
                                    stock[s].quantity - stock'[s].quantity)
  BY CommitPublishes
<1>2. call[r].op = "confirm" /\ order' = [order EXCEPT ![o] = "confirmed"]
  BY <1>1 DEF CommitConfirm
<1>3. PICK l \in Locations : l = call[r].location
  BY <1>2, CallFields DEF OnTheBooks, WellFormed, TypeOK, SessionTyped
<1>4. order[o] = "created"
  BY <1>1, <1>2 DEF AllowedStatuses
<1>5. \A i \in Locks(r) : resv[i] = NoResv /\ resvDraft[i] = InsertedRow(r, i)
  BY <1>1, <1>2 DEF OnTheBooks, AllOnCourse, OnCourse
<1>6. \A i \in ItemsOf(o) : resvDraft[i] = InsertedRow(r, i) /\ resv[i] = NoResv
  BY <1>1, <1>5
<1>7. resv' = [i \in Items |-> IF i \in ItemsOf(o)
                               THEN [status |-> "reserved", stock |-> <<item[i].product, l>>,
                                     quantity |-> item[i].quantity]
                               ELSE resv[i]]
  BY <1>1, <1>3, <1>6 DEF InsertedRow, ItemStock
<1>8. \A s \in Stocks : stock'[s].quantity = stock[s].quantity
  <2>1. \A i \in ItemsOf(o) : resv[i].status = "none"
    BY <1>6 DEF NoResv
  <2>2. \A i \in Items, s \in Stocks : ~HoldsAt(Leaving(o, resv, resvDraft)[i], s)
    BY <2>1 DEF Leaving, HoldsAt, NoResv
  <2> QED
    BY <1>1, <2>2, NothingLeaves
<1>9. ASSUME NEW i \in ItemsOf(o), NEW s, s = <<item[i].product, l>>
      PROVE  /\ Cardinality(HeldUnits(resv', s)) <= stock[s].quantity
  <2>1. /\ i \in Items /\ i \in Locks(r) /\ resvDraft[i].status = "reserved" /\ resv[i] = NoResv
        /\ resvDraft[i].stock = s /\ resvDraft[i].quantity = item[i].quantity
    <3>1. /\ InsertedRow(r, i).status = "reserved" /\ InsertedRow(r, i).stock = s
          /\ InsertedRow(r, i).quantity = item[i].quantity
      BY <1>3, <1>9 DEF InsertedRow, ItemStock
    <3> QED
      BY <1>1, <1>6, <3>1
  <2>2. s \in Stocks /\ item[i].quantity \in Nat \ {0}
    <3>1. item[i] \in ItemRows /\ item[i] # NoItem
      BY <2>1 DEF ItemsOf, NoItem, OnTheBooks, WellFormed, TypeOK, TablesTyped
    <3>2. item[i].product \in Products /\ item[i].quantity \in Quantities
      BY <3>1, ItemFields
    <3> QED
      BY <1>9, <3>2, QuantitiesPositive DEF Stocks
  <2>3. stockOwner[s] = r
    <3>1. resvDraft[i] # resv[i] /\ resvOwner[i] = r
      BY <2>1 DEF NoResv, Locks
    <3> QED
      BY <2>1, <3>1 DEF OnTheBooks, Consistent, TablesBalance, ChangedIsOwned
  <2>4. stock'[s] = stockDraft[s]
    BY <1>1, <2>2, <2>3 DEF Commit
  <2>5. Totals(resvDraft, s, stockDraft[s].reserved) /\ Totals(resv, s, stock[s].reserved)
    <3>1. Loose(s)
      BY <1>1, <2>2, <2>3 DEF Loose, InHand, OnTheBooks, Consistent, TablesBalance, DraftsBalance
    <3> QED
      BY <2>2, <3>1 DEF OnTheBooks, Consistent, TablesBalance, DraftsBalance, Balanced
  <2>6. HeldUnits(resv, s) \subseteq HeldUnits(resvDraft, s)
    <3>1. ASSUME NEW j \in Items, HoldsAt(resv[j], s) PROVE resvDraft[j] = resv[j]
      <4> SUFFICES ASSUME resvDraft[j] # resv[j] PROVE FALSE
        OBVIOUS
      <4>1. resvOwner[j] = stockOwner[s]
        BY <3>1, ChangedHolds DEF OnTheBooks, Consistent, TablesBalance
      <4>2. resv[j] = NoResv
        BY <1>5, <2>3, <4>1 DEF Locks
      <4> QED
        BY <3>1, <4>2 DEF HoldsAt, NoResv
    <3> QED
      BY <3>1 DEF HeldUnits, HeldItems, HoldsAt
  <2>7. <<i, 1>> \in HeldUnits(resvDraft, s) /\ <<i, 1>> \notin HeldUnits(resv, s)
    BY <2>1, <2>2 DEF HeldUnits, HeldItems, NoResv
  <2>8. stock[s].reserved < stockDraft[s].reserved
    <3>1. /\ IsFiniteSet(HeldUnits(resvDraft, s))
          /\ Cardinality(HeldUnits(resvDraft, s)) = stockDraft[s].reserved
          /\ Cardinality(HeldUnits(resv, s)) = stock[s].reserved
      BY <2>5 DEF Totals
    <3>2. /\ Cardinality(HeldUnits(resv, s)) <= Cardinality(HeldUnits(resvDraft, s))
          /\ Cardinality(HeldUnits(resv, s)) = Cardinality(HeldUnits(resvDraft, s))
               => HeldUnits(resv, s) = HeldUnits(resvDraft, s)
      BY <2>6, <3>1, FS_Subset
    <3> QED
      BY <2>2, <2>7, <3>1, <3>2, RowNumbers DEF OnTheBooks
  <2>9. stockDraft[s].reserved <= stockDraft[s].quantity
    BY <2>2, <2>8, RowNumbers DEF OnTheBooks, PromiseBacked
  <2>10. Cardinality(HeldUnits(resv', s)) = stock'[s].reserved
    BY <2>2 DEF OnTheBooks, Consistent, TablesBalance, Balanced, Totals, HeldUnits, HeldItems
  <2> QED
    BY <1>8, <2>2, <2>4, <2>9, <2>10
<1>10. Book!LinesOf(o) = ItemsOf(o)
  BY DEF Book!LinesOf, ItemsOf
<1>11. ASSUME NEW i \in Book!LinesOf(o), NEW s, s = <<item[i].product, l>>
       PROVE  Book!Units(Book!HeldOn(s))' <= [t \in Stocks |-> stock[t].quantity][s]
  <2>1. Book!Units(Book!HeldOn(s))' = Cardinality(HeldUnits(resv', s))
    <3>1. Book!Units(Book!HeldOn(s))' = Book!Cardinality(HeldUnits(resv', s))
      BY DEF Book!Units, Book!HeldOn, HeldUnits, HeldItems
    <3> QED
      BY <3>1, BookCounts
  <2>2. s \in Stocks
    <3>1. item[i] \in ItemRows /\ item[i] # NoItem
      BY <1>10 DEF ItemsOf, NoItem, OnTheBooks, WellFormed, TypeOK, TablesTyped
    <3> QED
      BY <1>11, <3>1, ItemFields DEF Stocks
  <2> QED
    BY <1>9, <1>10, <1>11, <2>1, <2>2
<1>12. Book!Confirm(o, l)
  BY <1>1, <1>2, <1>4, <1>7, <1>8, <1>10, <1>11 DEF Book!Confirm
<1> QED
  BY <1>12

\* The stock desk moves a row or leaves every quantity alone.
LEMMA DeskRefines ==
  ASSUME OnTheBooks, NEW r \in Requests,
         \/ \E c \in StockCalls : MoveStock(r, c) \/ InitializeStock(r, c)
         \/ RecordMovement(r) \/ MarkOpened(r)
  PROVE  \E s \in Stocks : Book!Move(s)
<1> USE DEF OnTheBooks
<1>1. ASSUME NEW c \in StockCalls, MoveStock(r, c) PROVE \E s \in Stocks : Book!Move(s)
  <2>1. /\ c.stock \in Stocks /\ Synced(MovedRow(c), ReorderPoint[c.stock]) \in Row
        /\ WriteStock(c.stock, Synced(MovedRow(c), ReorderPoint[c.stock]))
    BY <1>1, MoveStockEffect
  <2> QED
    BY <2>1, MoveRefines
<1>2. ASSUME NEW c \in StockCalls, InitializeStock(r, c) PROVE \E s \in Stocks : Book!Move(s)
  <2>1. c \in Calls /\ c.op = "initialize_stock" /\ WriteStock(c.stock, NewRow(c.quantity))
    BY <1>2 DEF InitializeStock, Calls
  <2>2. c.stock \in Stocks /\ c.quantity \in Int
    BY <2>1, CallFields
  <2>3. NewRow(c.quantity) \in Row
    BY <2>2, NewRowTyped
  <2> QED
    BY <2>1, <2>2, <2>3, MoveRefines
<1>3. CASE RecordMovement(r)
  <2>1. /\ call[r].stock \in Stocks /\ Recorded(stock[call[r].stock], delta[r]) \in Row
        /\ WriteStock(call[r].stock, Recorded(stock[call[r].stock], delta[r]))
    BY <1>3, RecordMovementEffect DEF RecordMovement
  <2> QED
    BY <2>1, MoveRefines
<1>4. CASE MarkOpened(r)
  <2>1. PICK s \in Stocks : s = call[r].stock /\ stock[s] \in Row
    BY <1>4, OpenedStock DEF MarkOpened
  <2>2. [stock[s] EXCEPT !.alerted = TRUE] \in Row
    BY <2>1 DEF Row
  <2>3. WriteStock(s, [stock[s] EXCEPT !.alerted = TRUE])
    BY <1>4, <2>1 DEF MarkOpened
  <2> QED
    BY <2>2, <2>3, MoveRefines
<1> QED
  BY <1>1, <1>2, <1>3, <1>4

\* Every step is one of the book or none.
LEMMA NextRefines ==
  ASSUME OnTheBooks, OnTheBooks', [Next]_vars
  PROVE  [Book!Next]_(Book!book)
<1>1. ASSUME UNCHANGED <<order, item, resv, stock>> PROVE UNCHANGED Book!book
  BY <1>1, RestIsStutter DEF BookRests
<1>2. CASE UNCHANGED vars
  BY <1>1, <1>2 DEF vars, tables
<1>3. ASSUME NEW o \in Orders, CreateOrder(o) PROVE Book!Next
  BY <1>3, CreateRefines DEF Book!Next
<1>4. ASSUME NEW r \in Requests, GivesUp(r) PROVE UNCHANGED Book!book
  BY <1>1, <1>4, GivesUpEffect DEF OnTheBooks, Rollback, tables
<1>5. ASSUME NEW r \in Requests, Arrives(r) PROVE [Book!Next]_(Book!book)
  <2>1. ASSUME NEW c \in OrderCalls, ReadOrder(r, c) PROVE UNCHANGED Book!book
    BY <1>1, <2>1 DEF ReadOrder, tables
  <2> QED
    BY <1>5, <2>1, DeskRefines DEF Arrives, Book!Next, Book!Stocks, Stocks
<1>6. ASSUME NEW r \in Requests, NEW i \in Items, ItemStep(r, i) PROVE [Book!Next]_(Book!book)
  <2>1. CASE ReserveStock(r, i) \/ LockReservation(r, i)
    BY <1>1, <2>1 DEF ReserveStock, LockReservation, tables
  <2>2. CASE AddItem(r, i)
    BY <2>2, AddLineRefines DEF Book!Next
  <2>3. CASE RemoveItem(r, i)
    BY <2>3, DropLineRefines DEF Book!Next
  <2> QED
    BY <1>4, <1>6, <2>1, <2>2, <2>3 DEF ItemStep, GivesUp
<1>7. ASSUME NEW r \in Requests, CommitConfirm(r) \/ CommitCancel(r) \/ CommitComplete(r)
      PROVE  Book!Next
  BY <1>7, ConfirmRefines, CancelRefines, CompleteRefines DEF Book!Next
<1>8. ASSUME NEW r \in Requests, Advances(r) PROVE [Book!Next]_(Book!book)
  <2>1. CASE \/ ReadItems(r) \/ PickItem(r) \/ RefreshOpened(r) \/ InsertReservation(r)
             \/ SettleStock(r) \/ \E s \in Stocks : DeferAlert(r, s)
    BY <1>1, <2>1 DEF ReadItems, PickItem, RefreshOpened, InsertReservation, SettleStock,
                      DeferAlert, tables
  <2>2. CASE RecordMovement(r) \/ MarkOpened(r)
    BY <2>2, DeskRefines DEF Book!Next, Book!Stocks, Stocks
  <2> QED
    BY <1>4, <1>6, <1>7, <1>8, <2>1, <2>2 DEF Advances, GivesUp
<1>9. ASSUME NEW r \in Requests, Fails(r) PROVE UNCHANGED Book!book
  <2>1. ASSUME NEW s \in Stocks, LoseAlert(r, s) PROVE UNCHANGED Book!book
    BY <1>1, <2>1 DEF LoseAlert, tables
  <2> QED
    BY <1>4, <1>9, <2>1 DEF Fails, GivesUp
<1> QED
  BY <1>2, <1>3, <1>5, <1>8, <1>9 DEF Next

\* What the refinement rests on holds at the start.
LEMMA InitOnTheBooks == ASSUME Init PROVE OnTheBooks
<1>1. WellFormed /\ Consistent /\ MapsAreCurrent /\ Mirrored
  BY InitCounted, InitMirrors DEF Counted, Mirrored
<1>2. PromiseBacked
  BY <1>1, RowNumbers DEF Init, PromiseBacked
<1>3. AllOnCourse
  BY DEF Init, AllOnCourse, OnCourse
<1>4. DraftsDraw
  <2>1. PICK t : t = DrawnFrom(resv, resvDraft)
    OBVIOUS
  <2>2. \A s : \A i \in Items : ~HoldsAt(t[i], s)
    BY <2>1 DEF Init, DrawnFrom, HoldsAt, NoResv
  <2>3. \A s \in Stocks : stock[s].quantity - stockDraft[s].quantity = 0
    BY <1>1, RowNumbers DEF Init
  <2> QED
    BY <2>1, <2>2, <2>3, NoHolds DEF DraftsDraw
<1> QED
  BY <1>1, <1>2, <1>3, <1>4 DEF OnTheBooks

\* It is inductive while one call at a time is on each order.
LEMMA NextOnTheBooks == ASSUME OnTheBooks, Serial, [Next]_vars PROVE OnTheBooks'
<1> USE DEF OnTheBooks
<1>1. WellFormed' /\ Consistent' /\ MapsAreCurrent'
  BY SerialIsApart, NextCounted DEF Counted
<1>2. Mirrored'
  BY NextMirrorsOn DEF Mirrored, Serial, Consistent
<1>3. AllOnCourse' /\ DraftsDraw' /\ PromiseBacked'
  BY NextOnCourse, NextDraws, NextBacked DEF MapsAreCurrent
<1> QED
  BY <1>1, <1>2, <1>3

\* As long as the calls on each order happen not to overlap, the order endpoints do what
\* ReservationBook says, for any number of requests, orders, items and rows: an order is
\* confirmed, cancelled or completed in one step for all its items or not at all, a
\* confirm never overdraws a row, and what leaves the shelf is what was held.
THEOREM SerialCallsKeepTheBook == Spec => ([]Serial => ImplementsBook)
<1>1. Init => OnTheBooks /\ Book!Init
  BY InitOnTheBooks DEF Init, Book!Init, Book!Start, NoItem
<1>2. OnTheBooks /\ Serial /\ [Next]_vars => OnTheBooks'
  BY NextOnTheBooks
<1>3. OnTheBooks /\ OnTheBooks' /\ [Next]_vars => [Book!Next]_(Book!book)
  BY NextRefines
<1> QED
  BY <1>1, <1>2, <1>3, PTL DEF Spec, ImplementsBook, Book!Spec

\* Callers who wait for the answer to one call on an order before they make the next
\* see nothing else.
THEOREM OrdersKeepTheBook ==
  ASSUME SerialOrders
  PROVE  Spec => ImplementsBook
<1>1. Spec => [](WellFormed /\ Serial)
  BY SerialCallers
<1> QED
  BY <1>1, SerialCallsKeepTheBook, PTL

-----------------------------------------------------------------------------
(* Every call comes to its end *)

\* The items that exist.
Rows == {i \in Items : item[i] # NoItem}

\* There are finitely many of them, and of the alerts a request has pending.
Finite == IsFiniteSet(Rows) /\ \A r \in Requests : IsFiniteSet(pending[r])

\* A bound on the steps that a call past its read may still take: the steps on each item
\* of its loop and the alert that the item may queue, the commit, each alert queued.
Left(r) ==
    LET items == Cardinality(todo[r])
        alerts == Cardinality(pending[r])
    IN  CASE pc[r] = "work"                 -> 4 * items + alerts + 3
          [] pc[r] \in {"reserve", "settle"} -> 4 * items + alerts + 1
          [] pc[r] \in {"movement", "mark"}  -> alerts + 2
          [] pc[r] = "opened"               -> 4
          [] pc[r] = "flush"                -> alerts + 1
          [] OTHER                          -> 0

\* r has got on: past the read of its items, or nearer to its end.
Nearer(r) == \/ pc[r] = "read" /\ pc'[r] # "read"
             \/ Left(r)' \in Nat /\ Left(r)' < Left(r)

\* A request whose loop handles finitely many items is finitely many steps from its end.
LEMMA LeftIsNat ==
  ASSUME WellFormed, SessionsFit, Finite, NEW r \in Requests
  PROVE  /\ IsFiniteSet(todo[r]) /\ IsFiniteSet(pending[r])
         /\ Cardinality(todo[r]) \in Nat /\ Cardinality(pending[r]) \in Nat
         /\ Left(r) \in Nat /\ (pc[r] \notin {"idle", "read"} => Left(r) > 0)
<1>1. todo[r] \in SUBSET Rows
  BY DEF SessionsFit, SessionFits, Rows, WellFormed, TypeOK, SessionTyped
<1>2. /\ IsFiniteSet(todo[r]) /\ IsFiniteSet(pending[r])
      /\ Cardinality(todo[r]) \in Nat /\ Cardinality(pending[r]) \in Nat
  BY <1>1, FS_Subset, FS_CardinalityType DEF Finite
<1>3. pc[r] \in PCs
  BY DEF WellFormed, TypeOK, SessionTyped
<1> QED
  BY <1>2, <1>3 DEF Left, PCs

\* The other requests keep their pending alerts; those of r stay finitely many.
PendingFinite(r) ==
    /\ \A q \in Requests \ {r} : pending'[q] = pending[q]
    /\ IsFiniteSet(pending'[r])

\* A finite set and at most one more.
LEMMA OneMore ==
  ASSUME NEW S, IsFiniteSet(S), NEW T, NEW x, T = S \/ T = S \cup {x}
  PROVE  IsFiniteSet(T) /\ Cardinality(T) \in Nat /\ Cardinality(T) <= Cardinality(S) + 1
<1>1. Cardinality(S) \in Nat
  BY FS_CardinalityType
<1>2. IsFiniteSet(S \cup {x}) /\ Cardinality(S \cup {x}) \in {Cardinality(S), Cardinality(S) + 1}
  BY FS_AddElement
<1> QED
  BY <1>1, <1>2

\* A request that is over has no more to do.
LEMMA EndNears ==
  ASSUME WellFormed, NEW r \in Requests, End(r)
  PROVE  pc'[r] = "idle" /\ OthersRest(r) /\ PendingFinite(r)
<1>1. /\ pc'[r] = "idle" /\ OthersRest(r) /\ pending'[r] = {}
      /\ \A q \in Requests \ {r} : pending'[q] = pending[q]
  BY DEF End, OthersRest, WellFormed, TypeOK, SessionTyped
<1> QED
  BY <1>1, FS_EmptySet DEF PendingFinite

\* One that has committed has only its alerts to send.
LEMMA FlushNears ==
  ASSUME WellFormed, NEW r \in Requests, NEW alerts, IsFiniteSet(alerts),
         FlushThenEnd(r, alerts)
  PROVE  /\ pc'[r] = "idle" \/ (pc'[r] = "flush" /\ pending'[r] = alerts)
         /\ OthersRest(r) /\ PendingFinite(r)
<1>1. CASE alerts = {}
  BY <1>1, EndNears DEF FlushThenEnd
<1>2. CASE alerts # {}
  <2>1. pc'[r] = "flush" /\ OthersRest(r)
    BY <1>2 DEF FlushThenEnd, OthersRest, WellFormed, TypeOK, SessionTyped
  <2>2. pending'[r] = alerts /\ \A q \in Requests \ {r} : pending'[q] = pending[q]
    BY <1>2 DEF FlushThenEnd, WellFormed, TypeOK, SessionTyped
  <2> QED
    BY <2>1, <2>2 DEF PendingFinite
<1> QED
  BY <1>1, <1>2

\* A step inside the loop of a call.
LEMMA LoopNears ==
  ASSUME WellFormed, SessionsFit, Finite, NEW r \in Requests,
         \/ ReadItems(r) \/ PickItem(r) \/ InsertReservation(r) \/ SettleStock(r)
         \/ \E i \in Items : ReserveStock(r, i) \/ LockReservation(r, i)
  PROVE  OthersRest(r) /\ PendingFinite(r) /\ Nearer(r)
<1>0. /\ IsFiniteSet(todo[r]) /\ IsFiniteSet(pending[r])
      /\ Cardinality(todo[r]) \in Nat /\ Cardinality(pending[r]) \in Nat
  BY LeftIsNat
<1>1. CASE ReadItems(r) \/ PickItem(r)
  <2>1. /\ pc[r] = "read" /\ pc' = [pc EXCEPT ![r] = "work"] /\ UNCHANGED <<call, pending, cur>>
        /\ \A q \in Requests \ {r} : todo'[q] = todo[q] /\ seen'[q] = seen[q]
    BY <1>1 DEF ReadItems, PickItem, Goto, WellFormed, TypeOK, SessionTyped
  <2>2. OthersRest(r) /\ pc'[r] = "work"
    BY <2>1 DEF OthersRest, WellFormed, TypeOK, SessionTyped
  <2> QED
    BY <1>0, <2>1, <2>2 DEF PendingFinite, Nearer
<1>2. ASSUME NEW i \in Items, LockReservation(r, i)
      PROVE  OthersRest(r) /\ PendingFinite(r) /\ Nearer(r)
  <2>1. /\ pc[r] = "work" /\ pc' = [pc EXCEPT ![r] = "settle"] /\ cur' = [cur EXCEPT ![r] = i]
        /\ UNCHANGED <<call, todo, seen, pending>>
    BY <1>2 DEF LockReservation, Settling, Goto
  <2>2. OthersRest(r) /\ pc'[r] = "settle"
    BY <2>1 DEF OthersRest, WellFormed, TypeOK, SessionTyped
  <2>3. Left(r) = 4 * Cardinality(todo[r]) + Cardinality(pending[r]) + 3
    BY <2>1 DEF Left
  <2>4. Left(r)' = 4 * Cardinality(todo[r]) + Cardinality(pending[r]) + 1
    BY <2>1, <2>2 DEF Left
  <2> QED
    BY <1>0, <2>1, <2>2, <2>3, <2>4 DEF PendingFinite, Nearer
<1>3. ASSUME NEW i \in Items, ReserveStock(r, i)
      PROVE  OthersRest(r) /\ PendingFinite(r) /\ Nearer(r)
  <2>1. /\ pc[r] = "work" /\ pc' = [pc EXCEPT ![r] = "reserve"] /\ cur' = [cur EXCEPT ![r] = i]
        /\ UNCHANGED <<call, todo, seen>>
    BY <1>3 DEF ReserveStock, Goto
  <2>2. OthersRest(r) /\ pc'[r] = "reserve"
    BY <2>1 DEF OthersRest, WellFormed, TypeOK, SessionTyped
  <2>3. /\ \A q \in Requests \ {r} : pending'[q] = pending[q]
        /\ \/ pending'[r] = pending[r]
           \/ pending'[r] = pending[r] \cup {ItemStock(r, i)}
    BY <1>3 DEF ReserveStock, WellFormed, TypeOK, SessionTyped
  <2>4. /\ IsFiniteSet(pending'[r]) /\ Cardinality(pending'[r]) \in Nat
        /\ Cardinality(pending'[r]) <= Cardinality(pending[r]) + 1
    BY <1>0, <2>3, OneMore
  <2>5. Left(r) = 4 * Cardinality(todo[r]) + Cardinality(pending[r]) + 3
    BY <2>1 DEF Left
  <2>6. Left(r)' = 4 * Cardinality(todo[r]) + Cardinality(pending'[r]) + 1
    BY <2>1, <2>2 DEF Left
  <2> QED
    BY <1>0, <2>2, <2>3, <2>4, <2>5, <2>6 DEF PendingFinite, Nearer
<1>4. CASE InsertReservation(r) \/ SettleStock(r)
  <2>1. /\ pc[r] \in {"reserve", "settle"} /\ pc' = [pc EXCEPT ![r] = "work"]
        /\ cur' = [cur EXCEPT ![r] = None] /\ todo' = [todo EXCEPT ![r] = todo[r] \ {cur[r]}]
        /\ UNCHANGED <<call, seen>>
    BY <1>4 DEF InsertReservation, SettleStock, Goto
  <2>2. OthersRest(r) /\ pc'[r] = "work" /\ todo'[r] = todo[r] \ {cur[r]}
    BY <2>1 DEF OthersRest, WellFormed, TypeOK, SessionTyped
  <2>3. /\ \A q \in Requests \ {r} : pending'[q] = pending[q]
        /\ \/ pending'[r] = pending[r]
           \/ pending'[r] = pending[r] \cup {resvDraft[cur[r]].stock}
    <3>1. CASE InsertReservation(r)
      BY <3>1 DEF InsertReservation
    <3>2. CASE SettleStock(r)
      <4> DEFINE s == resvDraft[cur[r]].stock
      <4>1. \E more \in SUBSET {s} : pending' = [pending EXCEPT ![r] = pending[r] \cup more]
        BY <3>2 DEF SettleStock
      <4> HIDE DEF s
      <4>2. \/ pending' = [pending EXCEPT ![r] = pending[r]]
            \/ pending' = [pending EXCEPT ![r] = pending[r] \cup {s}]
        BY <4>1
      <4>3. \/ pending'[r] = pending[r]
            \/ pending'[r] = pending[r] \cup {s}
        BY <4>2 DEF WellFormed, TypeOK, SessionTyped
      <4>4. \A q \in Requests \ {r} : pending'[q] = pending[q]
        BY <4>1 DEF WellFormed, TypeOK, SessionTyped
      <4> QED
        BY <4>3, <4>4 DEF s
    <3> QED
      BY <1>4, <3>1, <3>2
  <2>4. /\ IsFiniteSet(pending'[r]) /\ Cardinality(pending'[r]) \in Nat
        /\ Cardinality(pending'[r]) <= Cardinality(pending[r]) + 1
    BY <1>0, <2>3, OneMore
  <2>5. cur[r] \in todo[r]
    BY <2>1 DEF WellFormed, SessionsMakeSense, StepFitsCall
  <2>6. Cardinality(todo'[r]) = Cardinality(todo[r]) - 1 /\ Cardinality(todo'[r]) \in Nat
    <3>1. /\ IsFiniteSet(todo[r] \ {cur[r]})
          /\ Cardinality(todo[r] \ {cur[r]}) = Cardinality(todo[r]) - 1
      BY <1>0, <2>5, FS_RemoveElement
    <3>2. Cardinality(todo[r] \ {cur[r]}) \in Nat
      BY <3>1, FS_CardinalityType
    <3> QED
      BY <2>2, <3>1, <3>2
  <2>7. Left(r) = 4 * Cardinality(todo[r]) + Cardinality(pending[r]) + 1
    BY <2>1 DEF Left
  <2>8. Left(r)' = 4 * Cardinality(todo'[r]) + Cardinality(pending'[r]) + 3
    BY <2>2 DEF Left
  <2> QED
    BY <1>0, <2>2, <2>3, <2>4, <2>6, <2>7, <2>8 DEF PendingFinite, Nearer
<1> QED
  BY <1>1, <1>2, <1>3, <1>4

\* A step after which a request is over, or has only alerts left to send.
LEMMA LeavingNears ==
  ASSUME WellFormed, SessionsFit, Finite, NEW r \in Requests, pc[r] # "idle",
         \/ GivesUp(r)
         \/ CommitConfirm(r) \/ CommitCancel(r) \/ CommitComplete(r)
         \/ RecordMovement(r) \/ MarkOpened(r)
         \/ \E i \in Items : AddItem(r, i) \/ RemoveItem(r, i)
         \/ \E s \in Stocks : DeferAlert(r, s) \/ LoseAlert(r, s)
  PROVE  OthersRest(r) /\ PendingFinite(r) /\ Nearer(r)
<1>0. /\ IsFiniteSet(todo[r]) /\ IsFiniteSet(pending[r])
      /\ Cardinality(todo[r]) \in Nat /\ Cardinality(pending[r]) \in Nat
      /\ Left(r) \in Nat /\ (pc[r] \notin {"idle", "read"} => Left(r) > 0)
  BY LeftIsNat
<1>1. CASE End(r)
  <2>1. pc'[r] = "idle" /\ OthersRest(r) /\ PendingFinite(r)
    BY <1>1, EndNears
  <2>2. Left(r)' = 0
    BY <2>1 DEF Left
  <2> QED
    BY <1>0, <2>1, <2>2 DEF Nearer
<1>2. CASE /\ pc[r] \in {"work", "movement", "mark"}
           /\ FlushThenEnd(r, pending[r])
  <2>1. /\ pc'[r] = "idle" \/ (pc'[r] = "flush" /\ pending'[r] = pending[r])
        /\ OthersRest(r) /\ PendingFinite(r)
    BY <1>0, <1>2, FlushNears
  <2>2. Left(r) > Cardinality(pending[r]) + 1
    BY <1>0, <1>2 DEF Left
  <2>3. Left(r)' = 0 \/ Left(r)' = Cardinality(pending[r]) + 1
    BY <2>1 DEF Left
  <2> QED
    BY <1>0, <2>1, <2>2, <2>3 DEF Nearer
<1>3. ASSUME NEW s \in Stocks, DeferAlert(r, s) \/ LoseAlert(r, s)
      PROVE  OthersRest(r) /\ PendingFinite(r) /\ Nearer(r)
  <2>1. pc[r] = "flush" /\ s \in pending[r] /\ FlushThenEnd(r, pending[r] \ {s})
    BY <1>3 DEF DeferAlert, LoseAlert
  <2>2. /\ IsFiniteSet(pending[r] \ {s})
        /\ Cardinality(pending[r] \ {s}) = Cardinality(pending[r]) - 1
    BY <1>0, <2>1, FS_RemoveElement
  <2>3. Cardinality(pending[r] \ {s}) \in Nat
    BY <2>2, FS_CardinalityType
  <2>4. /\ pc'[r] = "idle" \/ (pc'[r] = "flush" /\ pending'[r] = pending[r] \ {s})
        /\ OthersRest(r) /\ PendingFinite(r)
    BY <2>1, <2>2, FlushNears
  <2>5. Left(r) = Cardinality(pending[r]) + 1
    BY <2>1 DEF Left
  <2>6. Left(r)' = 0 \/ Left(r)' = Cardinality(pending[r] \ {s}) + 1
    BY <2>4 DEF Left
  <2> QED
    BY <1>0, <2>2, <2>3, <2>4, <2>5, <2>6 DEF Nearer
<1> QED
  BY <1>1, <1>2, <1>3, GivesUpEffect
     DEF CommitConfirm, CommitCancel, CommitComplete, RecordMovement, MarkOpened, AddItem,
         RemoveItem

\* Every step of a call that is under way is a step towards its end.
LEMMA StepNears ==
  ASSUME WellFormed, SessionsFit, Finite, NEW r \in Requests, Advances(r) \/ Fails(r)
  PROVE  pc[r] # "idle" /\ OthersRest(r) /\ PendingFinite(r) /\ Nearer(r)
<1>1. ASSUME NEW i \in Items, ItemStep(r, i)
      PROVE  pc[r] # "idle" /\ OthersRest(r) /\ PendingFinite(r) /\ Nearer(r)
  <2>1. pc[r] # "idle"
    BY <1>1 DEF ItemStep, AddItem, RemoveItem, RemoveItemRefused, ReserveStock,
                ReserveRefused, LockReservation, SettleRefused, Settling
  <2> QED
    BY <1>1, <2>1, LoopNears, LeavingNears DEF ItemStep, GivesUp
<1>2. CASE RefreshOpened(r)
  <2>1. CASE End(r)
    <3>1. pc[r] = "opened"
      BY <1>2 DEF RefreshOpened
    <3>2. pc'[r] = "idle" /\ OthersRest(r) /\ PendingFinite(r)
      BY <2>1, EndNears
    <3> QED
      BY <3>1, <3>2 DEF Nearer, Left
  <2>2. CASE ~End(r)
    <3>1. /\ pc[r] = "opened" /\ pc' = [pc EXCEPT ![r] = "mark"]
          /\ pending' = [pending EXCEPT ![r] = {call[r].stock}]
          /\ UNCHANGED <<call, todo, seen, cur>>
      BY <1>2, <2>2 DEF RefreshOpened, Goto
    <3>2. /\ OthersRest(r) /\ pc'[r] = "mark" /\ pending'[r] = {call[r].stock}
          /\ \A q \in Requests \ {r} : pending'[q] = pending[q]
      BY <3>1 DEF OthersRest, WellFormed, TypeOK, SessionTyped
    <3>3. IsFiniteSet(pending'[r]) /\ Cardinality(pending'[r]) = 1
      BY <3>2, FS_Singleton
    <3>4. Left(r) = 4 /\ Left(r)' = 3
      BY <3>1, <3>2, <3>3 DEF Left
    <3> QED
      BY <3>1, <3>2, <3>3, <3>4 DEF PendingFinite, Nearer
  <2> QED
    BY <2>1, <2>2
<1>3. CASE \/ ReadItems(r) \/ PickItem(r) \/ InsertReservation(r) \/ SettleStock(r)
  <2>1. pc[r] # "idle"
    BY <1>3 DEF ReadItems, PickItem, InsertReservation, SettleStock
  <2> QED
    BY <1>3, <2>1, LoopNears
<1>4. CASE \/ NoSuchItem(r) \/ InsertRefused(r) \/ LockWaitAborted(r)
           \/ SecondCommitTimesOut(r) \/ Crash(r)
           \/ CommitConfirm(r) \/ CommitCancel(r) \/ CommitComplete(r)
           \/ RecordMovement(r) \/ MarkOpened(r)
           \/ \E s \in Stocks : DeferAlert(r, s) \/ LoseAlert(r, s)
  <2>1. pc[r] # "idle"
    BY <1>4 DEF NoSuchItem, InsertRefused, LockWaitAborted, SecondCommitTimesOut, Crash,
                CommitConfirm, CommitCancel, CommitComplete, RecordMovement, MarkOpened,
                DeferAlert, LoseAlert
  <2> QED
    BY <1>4, <2>1, LeavingNears DEF GivesUp
<1> QED
  BY <1>1, <1>2, <1>3, <1>4 DEF Advances, Fails

\* Only add_item and remove_item write order_items.
LEMMA ItemSteps ==
  ASSUME WellFormed, [Next]_vars
  PROVE  item' = item \/ \E r \in Requests, i \in Items : AddItem(r, i) \/ RemoveItem(r, i)
<1>1. ASSUME NEW r \in Requests, Arrives(r) PROVE item' = item
  BY <1>1 DEF Arrives, ReadOrder, MoveStock, InitializeStock, WriteStock, tables
<1>2. ASSUME NEW r \in Requests, GivesUp(r) PROVE item' = item
  BY <1>2, GivesUpEffect DEF Rollback, tables
<1>3. ASSUME NEW r \in Requests, NEW i \in Items, ItemStep(r, i)
      PROVE  item' = item \/ AddItem(r, i) \/ RemoveItem(r, i)
  BY <1>2, <1>3 DEF ItemStep, GivesUp, ReserveStock, LockReservation, tables
<1>4. ASSUME NEW r \in Requests, Advances(r)
      PROVE  item' = item \/ \E i \in Items : AddItem(r, i) \/ RemoveItem(r, i)
  <2>1. CASE \/ ReadItems(r) \/ PickItem(r) \/ InsertReservation(r) \/ SettleStock(r)
             \/ RefreshOpened(r) \/ \E s \in Stocks : DeferAlert(r, s)
    BY <2>1 DEF ReadItems, PickItem, InsertReservation, SettleStock, RefreshOpened,
                DeferAlert, tables
  <2>2. CASE \/ CommitConfirm(r) \/ CommitCancel(r) \/ CommitComplete(r)
             \/ RecordMovement(r) \/ MarkOpened(r)
    BY <2>2 DEF CommitConfirm, CommitCancel, CommitComplete, RecordMovement, MarkOpened,
                WriteStock
  <2> QED
    BY <1>2, <1>3, <1>4, <2>1, <2>2 DEF Advances, GivesUp
<1>5. ASSUME NEW r \in Requests, Fails(r) PROVE item' = item
  BY <1>2, <1>5 DEF Fails, GivesUp, LoseAlert, tables
<1>6. CASE UNCHANGED vars \/ \E o \in Orders : CreateOrder(o)
  BY <1>6 DEF CreateOrder, vars, tables
<1> QED
  BY <1>1, <1>4, <1>5, <1>6 DEF Next

\* Finitely many things are under way: a call adds one item at most.
LEMMA NextFinite == ASSUME WellFormed, SessionsFit, Finite, [Next]_vars PROVE Finite'
<1>1. IsFiniteSet(Rows')
  <2>1. CASE item' = item
    BY <2>1 DEF Rows, Finite
  <2>2. ASSUME NEW r \in Requests, NEW i \in Items, AddItem(r, i) \/ RemoveItem(r, i)
        PROVE  IsFiniteSet(Rows')
    <3>1. Rows' \in SUBSET (Rows \cup {i})
      BY <2>2 DEF AddItem, RemoveItem, Rows, WellFormed, TypeOK, TablesTyped
    <3>2. IsFiniteSet(Rows \cup {i})
      BY FS_AddElement DEF Finite
    <3> QED
      BY <3>1, <3>2, FS_Subset
  <2> QED
    BY <2>1, <2>2, ItemSteps
<1>2. ASSUME NEW r \in Requests, PendingFinite(r) PROVE \A q \in Requests : IsFiniteSet(pending'[q])
  BY <1>2 DEF PendingFinite, Finite
<1>3. ASSUME NEW r \in Requests, Advances(r) \/ Fails(r)
      PROVE  \A q \in Requests : IsFiniteSet(pending'[q])
  BY <1>2, <1>3, StepNears
<1>4. ASSUME NEW r \in Requests, Arrives(r)
      PROVE  \A q \in Requests : IsFiniteSet(pending'[q])
  <2>1. CASE pending' = pending
    BY <2>1 DEF Finite
  <2>2. ASSUME NEW c \in StockCalls, MoveStock(r, c)
        PROVE  \A q \in Requests : IsFiniteSet(pending'[q])
    <3>1. /\ \A q \in Requests \ {r} : pending'[q] = pending[q]
          /\ pending'[r] = {} \/ pending'[r] = {c.stock}
      <4>1. \E p : pending' = [pending EXCEPT ![r] = {t \in {c.stock} : p}]
        BY <2>2 DEF MoveStock
      <4> QED
        BY <4>1 DEF WellFormed, TypeOK, SessionTyped
    <3> QED
      BY <1>2, <3>1, FS_EmptySet, FS_Singleton DEF PendingFinite
  <2> QED
    BY <1>4, <2>1, <2>2 DEF Arrives, ReadOrder, InitializeStock
<1>5. ASSUME UNCHANGED vars \/ \E o \in Orders : CreateOrder(o)
      PROVE  \A q \in Requests : IsFiniteSet(pending'[q])
  <2>1. pending' = pending
    BY <1>5 DEF CreateOrder, vars, session
  <2> QED
    BY <2>1 DEF Finite
<1>6. \A q \in Requests : IsFiniteSet(pending'[q])
  BY <1>3, <1>4, <1>5 DEF Next
<1> QED
  BY <1>1, <1>6 DEF Finite

\* The session of r as it was.
Rests(r) == /\ pc'[r] = pc[r] /\ call'[r] = call[r] /\ todo'[r] = todo[r]
            /\ seen'[r] = seen[r] /\ cur'[r] = cur[r]

\* Nothing is under way at the start, and no order has an item.
LEMMA InitEnds == Init => WellFormed /\ SessionsFit /\ Finite
<1>1. Init => Finite
  <2>1. Init => Rows = {}
    BY DEF Init, Rows
  <2>2. Init => \A r \in Requests : pending[r] = {}
    BY DEF Init
  <2> QED
    BY <2>1, <2>2, FS_EmptySet DEF Finite
<1> QED
  BY <1>1, InitTypeOK, InitSense, InitConsistent DEF WellFormed, Consistent

\* No call goes in circles: every step of a call that is under way, whether it succeeds,
\* is refused, is aborted or crashes, takes it past the read of its items or nearer to
\* its end, and no step of another takes it back.
THEOREM CallsOnlyGetNearer ==
  Spec => [][\A r \in Requests :
               /\ Advances(r) \/ Fails(r) => Nearer(r)
               /\ pc[r] # "idle" => Nearer(r) \/ (Rests(r) /\ Left(r)' = Left(r))]_vars
<1> DEFINE Inv == WellFormed /\ SessionsFit /\ Finite
           Step == \A r \in Requests :
                     /\ Advances(r) \/ Fails(r) => Nearer(r)
                     /\ pc[r] # "idle" => Nearer(r) \/ (Rests(r) /\ Left(r)' = Left(r))
<1>1. Init => Inv
  BY InitEnds
<1>2. Inv /\ [Next]_vars => Inv'
  BY NextWF, NextSessionsFit, NextFinite
<1>3. Inv /\ [Next]_vars => [Step]_vars
  <2> SUFFICES ASSUME Inv, [Next]_vars, NEW r \in Requests
               PROVE  /\ Advances(r) \/ Fails(r) => Nearer(r)
                      /\ pc[r] # "idle" => Nearer(r) \/ (Rests(r) /\ Left(r)' = Left(r))
    OBVIOUS
  <2>1. Advances(r) \/ Fails(r) => Nearer(r)
    BY StepNears
  <2>2. ASSUME Rests(r), pending'[r] = pending[r] PROVE Rests(r) /\ Left(r)' = Left(r)
    BY <2>2 DEF Rests, Left
  <2>3. ASSUME NEW q \in Requests \ {r}, Arrives(q) \/ Advances(q) \/ Fails(q)
        PROVE  Rests(r) /\ pending'[r] = pending[r]
    <3>1. CASE Arrives(q)
      <4>1. OthersRest(q) /\ pending'[r] = pending[r]
        BY <3>1, DeskFits DEF Arrives, ReadOrder, MoveStock, InitializeStock, Goto,
              OthersRest, WellFormed, TypeOK, SessionTyped
      <4> QED
        BY <2>3, <4>1 DEF OthersRest, Rests
    <3>2. CASE Advances(q) \/ Fails(q)
      <4>1. OthersRest(q) /\ PendingFinite(q)
        BY <3>2, StepNears
      <4> QED
        BY <2>3, <4>1 DEF OthersRest, PendingFinite, Rests
    <3> QED
      BY <2>3, <3>1, <3>2
  <2>4. Arrives(r) => pc[r] = "idle"
    BY DEF Arrives, ReadOrder, MoveStock, InitializeStock
  <2>5. CASE UNCHANGED vars \/ \E o \in Orders : CreateOrder(o)
    <3>1. Rests(r) /\ pending'[r] = pending[r]
      BY <2>5 DEF CreateOrder, vars, session, Rests
    <3> QED
      BY <2>1, <2>2, <3>1
  <2>6. ASSUME NEW q \in Requests, Arrives(q) \/ Advances(q) \/ Fails(q), pc[r] # "idle"
        PROVE  Nearer(r) \/ (Rests(r) /\ Left(r)' = Left(r))
    BY <2>1, <2>2, <2>3, <2>4, <2>6
  <2> QED
    BY <2>1, <2>5, <2>6 DEF Next
<1> QED
  BY <1>1, <1>2, <1>3, PTL DEF Spec

\* What a loop has still to handle it has not locked yet, but for the item in hand.
LocksOnce(r) == Locks(r) \cap todo[r] \subseteq IF pc[r] = "settle" THEN {cur[r]} ELSE {}

LocksAreOnce == \A r \in Requests : LocksOnce(r)

\* A step of r locks reservations for r, or frees them.
LEMMA OwnerSteps ==
  ASSUME WellFormed, NEW r \in Requests, Arrives(r) \/ Advances(r) \/ Fails(r)
  PROVE  \A i \in Items : resvOwner'[i] \in {resvOwner[i], None, r}
<1>1. CASE resvOwner' = resvOwner
  BY <1>1
<1>2. CASE Commit(r) \/ Rollback(r)
  BY <1>2 DEF Commit, Rollback
<1>3. ASSUME NEW i \in Items, InsertReservation(r) \/ LockReservation(r, i)
      PROVE  \A j \in Items : resvOwner'[j] \in {resvOwner[j], None, r}
  BY <1>3 DEF InsertReservation, LockReservation, WellFormed, TypeOK, LocksTyped
<1>4. ASSUME Arrives(r) PROVE resvOwner' = resvOwner
  BY <1>4 DEF Arrives, ReadOrder, MoveStock, InitializeStock, WriteStock, locks
<1>5. ASSUME GivesUp(r) PROVE Rollback(r)
  BY <1>5, GivesUpEffect
<1>6. ASSUME NEW i \in Items, ItemStep(r, i)
      PROVE  resvOwner' = resvOwner \/ Rollback(r) \/ LockReservation(r, i)
  BY <1>5, <1>6 DEF ItemStep, GivesUp, AddItem, RemoveItem, ReserveStock, locks
<1>7. ASSUME Advances(r)
      PROVE  \/ resvOwner' = resvOwner \/ Commit(r) \/ Rollback(r) \/ InsertReservation(r)
             \/ \E i \in Items : LockReservation(r, i)
  <2>1. CASE \/ ReadItems(r) \/ PickItem(r) \/ SettleStock(r) \/ RecordMovement(r)
             \/ RefreshOpened(r) \/ MarkOpened(r) \/ \E s \in Stocks : DeferAlert(r, s)
    BY <2>1 DEF ReadItems, PickItem, SettleStock, RecordMovement, RefreshOpened, MarkOpened,
                DeferAlert, WriteStock, locks
  <2>2. CASE CommitConfirm(r) \/ CommitCancel(r) \/ CommitComplete(r)
    BY <2>2 DEF CommitConfirm, CommitCancel, CommitComplete
  <2> QED
    BY <1>5, <1>6, <1>7, <2>1, <2>2 DEF Advances, GivesUp
<1>8. ASSUME Fails(r) PROVE resvOwner' = resvOwner \/ Rollback(r)
  BY <1>5, <1>8 DEF Fails, GivesUp, LoseAlert, locks
<1> QED
  BY <1>1, <1>2, <1>3, <1>4, <1>7, <1>8

\* A step of r that keeps it so of r keeps it so.
LEMMA OnceByStep ==
  ASSUME WellFormed, LocksAreOnce, NEW r \in Requests, OthersRest(r), LocksOnce(r)',
         \A i \in Items : resvOwner'[i] \in {resvOwner[i], None, r}
  PROVE  LocksAreOnce'
<1> SUFFICES ASSUME NEW q \in Requests, q # r PROVE LocksOnce(q)'
  BY DEF LocksAreOnce
<1>1. pc'[q] = pc[q] /\ todo'[q] = todo[q] /\ cur'[q] = cur[q]
  BY DEF OthersRest
<1>2. Locks(q)' \subseteq Locks(q)
  BY NoneIsFresh DEF Locks
<1>3. LocksOnce(q)
  BY DEF LocksAreOnce
<1> QED
  BY <1>1, <1>2, <1>3 DEF LocksOnce

\* An item leaves the loop when its lock is taken for good.
LEMMA NextOnce ==
  ASSUME WellFormed, SessionsFit, Finite, LocksAreOnce, [Next]_vars
  PROVE  LocksAreOnce'
<1>1. WellFormed' /\ SessionsFit'
  BY NextWF, NextSessionsFit
<1>2. ASSUME NEW r \in Requests, pc'[r] \notin {"work", "reserve", "settle"} PROVE LocksOnce(r)'
  <2>1. todo'[r] = {}
    BY <1>1, <1>2 DEF WellFormed, SessionsMakeSense, StepFitsCall
  <2> QED
    BY <2>1 DEF LocksOnce
<1>3. ASSUME NEW r \in Requests, Arrives(r) \/ Advances(r) \/ Fails(r), LocksOnce(r)'
      PROVE  LocksAreOnce'
  <2>1. OthersRest(r)
    <3>1. CASE Arrives(r)
      BY <3>1, DeskFits DEF Arrives, ReadOrder, Goto, OthersRest, WellFormed, TypeOK,
            SessionTyped
    <3> QED
      BY <1>3, <3>1, StepNears
  <2> QED
    BY <1>3, <2>1, OwnerSteps, OnceByStep
<1>4. ASSUME NEW r \in Requests, Arrives(r) PROVE LocksOnce(r)'
  BY <1>2, <1>4 DEF Arrives, ReadOrder, MoveStock, InitializeStock, Goto, WellFormed, TypeOK,
        SessionTyped
<1>5. ASSUME NEW r \in Requests, End(r) \/ \E alerts : FlushThenEnd(r, alerts)
      PROVE  LocksOnce(r)'
  BY <1>2, <1>5, EndRest
<1>6. ASSUME NEW r \in Requests, GivesUp(r) PROVE LocksOnce(r)'
  BY <1>5, <1>6, GivesUpEffect
<1>7. ASSUME NEW r \in Requests, NEW i \in Items, ReserveStock(r, i) PROVE LocksOnce(r)'
  <2>1. pc[r] = "work" /\ pc' = [pc EXCEPT ![r] = "reserve"] /\ UNCHANGED <<resvOwner, todo>>
    BY <1>7 DEF ReserveStock, Goto
  <2>2. pc'[r] = "reserve"
    BY <2>1 DEF WellFormed, TypeOK, SessionTyped
  <2> QED
    BY <2>1, <2>2 DEF LocksAreOnce, LocksOnce, Locks
<1>8. ASSUME NEW r \in Requests, NEW i \in Items, LockReservation(r, i) PROVE LocksOnce(r)'
  <2>1. /\ pc[r] = "work" /\ pc' = [pc EXCEPT ![r] = "settle"] /\ cur' = [cur EXCEPT ![r] = i]
        /\ resvOwner' = [resvOwner EXCEPT ![i] = r] /\ UNCHANGED todo
    BY <1>8 DEF LockReservation, Settling, Goto
  <2>2. pc'[r] = "settle" /\ cur'[r] = i /\ Locks(r)' \subseteq Locks(r) \cup {i}
    BY <2>1 DEF Locks, WellFormed, TypeOK, SessionTyped, LocksTyped
  <2> QED
    BY <2>1, <2>2 DEF LocksAreOnce, LocksOnce
<1>9. ASSUME NEW r \in Requests, ReadItems(r) \/ PickItem(r) PROVE LocksOnce(r)'
  <2>1. pc[r] = "read" /\ resvOwner' = resvOwner
    BY <1>9 DEF ReadItems, PickItem, locks
  <2>2. Locks(r)' = {}
    BY <2>1, HoldsNoLock DEF Unlocked, Locks
  <2> QED
    BY <2>2 DEF LocksOnce
<1>10. ASSUME NEW r \in Requests, InsertReservation(r) PROVE LocksOnce(r)'
  <2>1. PICK i \in Items : i = cur[r]
    BY <1>10 DEF InsertReservation, WellFormed, SessionsMakeSense, StepFitsCall, TypeOK,
                 SessionTyped
  <2>2. /\ pc[r] = "reserve" /\ todo' = [todo EXCEPT ![r] = todo[r] \ {i}]
        /\ resvOwner' = [resvOwner EXCEPT ![i] = r]
    BY <1>10, <2>1 DEF InsertReservation
  <2>3. todo'[r] = todo[r] \ {i} /\ Locks(r)' \subseteq Locks(r) \cup {i}
    BY <2>2 DEF Locks, WellFormed, TypeOK, SessionTyped, LocksTyped
  <2> QED
    BY <2>2, <2>3 DEF LocksAreOnce, LocksOnce
<1>11. ASSUME NEW r \in Requests, SettleStock(r) PROVE LocksOnce(r)'
  <2>1. /\ pc[r] = "settle" /\ todo' = [todo EXCEPT ![r] = todo[r] \ {cur[r]}]
        /\ resvOwner' = resvOwner
    BY <1>11 DEF SettleStock
  <2>2. todo'[r] = todo[r] \ {cur[r]} /\ Locks(r)' = Locks(r)
    BY <2>1 DEF Locks, WellFormed, TypeOK, SessionTyped
  <2> QED
    BY <2>1, <2>2 DEF LocksAreOnce, LocksOnce
<1>12. ASSUME NEW r \in Requests, RefreshOpened(r) PROVE LocksOnce(r)'
  <2>1. End(r) \/ pc' = [pc EXCEPT ![r] = "mark"]
    BY <1>12 DEF RefreshOpened, Goto
  <2> QED
    BY <1>2, <1>5, <2>1 DEF WellFormed, TypeOK, SessionTyped
<1>13. ASSUME NEW r \in Requests, NEW i \in Items, ItemStep(r, i) PROVE LocksOnce(r)'
  BY <1>5, <1>6, <1>7, <1>8, <1>13 DEF ItemStep, GivesUp, AddItem, RemoveItem
<1>14. ASSUME NEW r \in Requests, Advances(r) PROVE LocksOnce(r)'
  <2>1. CASE \/ CommitConfirm(r) \/ CommitCancel(r) \/ CommitComplete(r) \/ RecordMovement(r)
             \/ MarkOpened(r) \/ \E s \in Stocks : DeferAlert(r, s)
    BY <1>5, <2>1 DEF CommitConfirm, CommitCancel, CommitComplete, RecordMovement, MarkOpened,
                      DeferAlert
  <2> QED
    BY <1>6, <1>9, <1>10, <1>11, <1>12, <1>13, <1>14, <2>1 DEF Advances, GivesUp
<1>15. ASSUME NEW r \in Requests, Fails(r) PROVE LocksOnce(r)'
  BY <1>5, <1>6, <1>15 DEF Fails, GivesUp, LoseAlert
<1>16. CASE UNCHANGED vars \/ \E o \in Orders : CreateOrder(o)
  BY <1>16 DEF CreateOrder, vars, session, locks, LocksAreOnce, LocksOnce, Locks
<1> QED
  BY <1>3, <1>4, <1>14, <1>15, <1>16 DEF Next

\* The stock row that confirm_order is after is one of the catalog's.
LEMMA ConfirmStock ==
  ASSUME WellFormed, NEW r \in Requests, pc[r] = "work", call[r].op = "confirm",
         NEW i \in todo[r]
  PROVE  i \in Items /\ ItemStock(r, i) \in Stocks
<1>1. call[r] \in Calls /\ i \in Items /\ item[i] \in ItemRows /\ item[i] # NoItem
  BY DEF WellFormed, TypeOK, SessionTyped, TablesTyped, SessionsMakeSense, StepFitsCall
<1>2. call[r].location \in Locations
  BY <1>1, CallFields
<1>3. item[i].product \in Products
  BY <1>1, ItemFields
<1> QED
  BY <1>1, <1>2, <1>3 DEF ItemStock, Stocks

\* So is the row that a stock call is about to write.
LEMMA MovingStock ==
  ASSUME WellFormed, NEW r \in Requests, pc[r] \in {"movement", "mark"}
  PROVE  call[r].stock \in Stocks
<1>1. CASE pc[r] = "mark"
  BY <1>1, OpenedStock
<1>2. CASE pc[r] = "movement"
  <2>1. call[r] \in Calls /\ call[r].op \in MoveOps
    BY <1>2 DEF WellFormed, TypeOK, SessionTyped, SessionsMakeSense, StepFitsCall
  <2> QED
    BY <2>1, CallFields
<1> QED
  BY <1>1, <1>2

\* r is at work on an order and holds a row.
Holds(r) == /\ pc[r] \in {"work", "reserve", "settle"}
            /\ Locks(r) # {} \/ \E s \in Stocks : stockOwner[s] = r

\* Nobody waits for a row that nobody will give back, or for a row of its own: whoever
\* waits, waits for another request that is still at work.
THEOREM WaitersHaveHolders ==
  Spec => [](\A r \in Requests : Blocked(r) => \E q \in Requests \ {r} : Holds(q))
<1> DEFINE Inv == WellFormed /\ SessionsFit /\ Finite /\ LocksAreOnce
           Waited == \A r \in Requests : Blocked(r) => \E q \in Requests \ {r} : Holds(q)
<1>1. Init => Inv
  BY InitEnds, NoneIsFresh DEF Init, LocksAreOnce, LocksOnce
<1>2. Inv /\ [Next]_vars => Inv'
  BY NextWF, NextSessionsFit, NextFinite, NextOnce
<1>3. Inv => Waited
  <2> SUFFICES ASSUME Inv, NEW r \in Requests, Blocked(r)
               PROVE  \E q \in Requests \ {r} : Holds(q)
    OBVIOUS
  <2>1. ASSUME NEW i \in Items, resvOwner[i] # None PROVE Holds(resvOwner[i])
    BY <2>1 DEF Holds, Locks, SessionsFit, SessionFits, WellFormed, TypeOK, LocksTyped
  <2>2. ASSUME NEW s \in Stocks, stockOwner[s] # None PROVE Holds(stockOwner[s])
    BY <2>2 DEF Holds, SessionsFit, SessionFits, WellFormed, TypeOK, LocksTyped
  <2>3. ASSUME NEW s \in Stocks, ~Free(stockOwner[s], r)
        PROVE  \E q \in Requests \ {r} : Holds(q)
    BY <2>2, <2>3 DEF Free, WellFormed, TypeOK, LocksTyped
  <2>4. ASSUME NEW i \in Items, i \in todo[r], pc[r] # "settle", resvOwner[i] # None
        PROVE  \E q \in Requests \ {r} : Holds(q)
    <3>1. resvOwner[i] # r
      BY <2>4 DEF LocksAreOnce, LocksOnce, Locks
    <3> QED
      BY <2>1, <2>4, <3>1 DEF WellFormed, TypeOK, LocksTyped
  <2>5. CASE pc[r] = "work" /\ call[r].op = "confirm"
    <3>1. PICK i \in todo[r] : ~Free(stockOwner[ItemStock(r, i)], r)
      BY <2>5 DEF Blocked
    <3>2. ItemStock(r, i) \in Stocks
      BY <2>5, <3>1, ConfirmStock
    <3> QED
      BY <2>3, <3>1, <3>2
  <2>6. CASE pc[r] = "work" /\ call[r].op # "confirm"
    BY <2>4, <2>6 DEF Blocked, WellFormed, TypeOK, SessionTyped
  <2>7. CASE pc[r] = "reserve"
    BY <2>4, <2>7 DEF Blocked, WellFormed, SessionsMakeSense, StepFitsCall, TypeOK, SessionTyped
  <2>8. CASE pc[r] = "settle"
    <3>1. resvDraft[cur[r]].stock \in Stocks
      BY <2>8, SettlingItem
    <3> QED
      BY <2>3, <2>8, <3>1 DEF Blocked
  <2>9. CASE pc[r] \in {"movement", "mark"}
    <3>1. call[r].stock \in Stocks /\ stockOwner[call[r].stock] # None
      BY <2>9, MovingStock DEF Blocked
    <3>2. stockOwner[call[r].stock] # r
      BY <2>9, <3>1 DEF SessionsFit, SessionFits
    <3> QED
      BY <2>2, <3>1, <3>2 DEF WellFormed, TypeOK, LocksTyped
  <2> QED
    BY <2>5, <2>6, <2>7, <2>8, <2>9 DEF Blocked
<1> QED
  BY <1>1, <1>2, <1>3, PTL DEF Spec
=============================================================================
