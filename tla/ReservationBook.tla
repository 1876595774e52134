--------------------------- MODULE ReservationBook ---------------------------
(***************************************************************************)
(* What the order endpoints promise a caller who makes one call on an order *)
(* at a time: confirm, cancel and complete each happen in one step for all  *)
(* the lines of the order, or not at all.  There is no reserved_quantity,   *)
(* no lock and no session here: what a row has promised is the sum of the   *)
(* holds on it.                                                             *)
(***************************************************************************)
EXTENDS Integers, FiniteSets

CONSTANTS Orders, Items, Products, Locations, Quantities, NoHold

Stocks == Products \X Locations

VARIABLES
    status,   \* status[o]
    line,     \* line[i]: the order line
    hold,     \* hold[i]: what is held for the line, and where
    onHand    \* onHand[s]: physical units

book == <<status, line, hold, onHand>>

LinesOf(o) == {i \in Items : line[i].state = "live" /\ line[i].order = o}

HeldOn(s) == {i \in Items : hold[i].status = "reserved" /\ hold[i].stock = s}

\* The units held for these items.
Units(items) == Cardinality(UNION {{i} \X (1 .. hold[i].quantity) : i \in items})

Start(statusOf, lines, holds) ==
    /\ \A o \in Orders : statusOf[o] = "none"
    /\ \A i \in Items : lines[i].state = "unused" /\ holds[i] = NoHold

Create(o) ==
    /\ status[o] = "none"
    /\ status' = [status EXCEPT ![o] = "created"]
    /\ UNCHANGED <<line, hold, onHand>>

AddLine(o, i, p, q) ==
    /\ status[o] = "created"
    /\ line[i].state = "unused"
    /\ line' = [line EXCEPT ![i] =
                  [state |-> "live", order |-> o, product |-> p, quantity |-> q]]
    /\ UNCHANGED <<status, hold, onHand>>

DropLine(o, i) ==
    /\ status[o] = "created"
    /\ i \in LinesOf(o)
    /\ line' = [line EXCEPT ![i].state = "deleted"]
    /\ UNCHANGED <<status, hold, onHand>>

\* Every line is held at location l, and no row it takes from is overdrawn.
Confirm(o, l) ==
    /\ status[o] = "created"
    /\ status' = [status EXCEPT ![o] = "confirmed"]
    /\ hold' = [i \in Items |->
                  IF i \in LinesOf(o)
                  THEN [status |-> "reserved", stock |-> <<line[i].product, l>>,
                        quantity |-> line[i].quantity]
                  ELSE hold[i]]
    /\ \A i \in LinesOf(o) :
         LET s == <<line[i].product, l>>
         IN  Units(HeldOn(s))' <= onHand[s]
    /\ UNCHANGED <<line, onHand>>

Settle(o, to) ==
    /\ status[o] = "confirmed"
    /\ \A i \in LinesOf(o) : hold[i].status = "reserved"
    /\ hold' = [i \in Items |->
                  IF i \in LinesOf(o) THEN [hold[i] EXCEPT !.status = to] ELSE hold[i]]
    /\ UNCHANGED line

\* Nothing leaves the shelf.
Cancel(o) ==
    /\ Settle(o, "released")
    /\ status' = [status EXCEPT ![o] = "cancelled"]
    /\ UNCHANGED onHand

\* Exactly what was held leaves the shelf, from the rows that held it.
Complete(o) ==
    /\ Settle(o, "fulfilled")
    /\ status' = [status EXCEPT ![o] = "completed"]
    /\ onHand' = [s \in Stocks |-> onHand[s] - Units(LinesOf(o) \cap HeldOn(s))]

\* The stock desk may set the physical quantity of a row to anything.
Move(s) ==
    /\ onHand'[s] \in Int
    /\ onHand' = [onHand EXCEPT ![s] = onHand'[s]]
    /\ UNCHANGED <<status, line, hold>>

Init == Start(status, line, hold)

Next ==
    \/ \E o \in Orders :
         \/ Create(o) \/ Cancel(o) \/ Complete(o)
         \/ \E l \in Locations : Confirm(o, l)
         \/ \E i \in Items : DropLine(o, i)
         \/ \E i \in Items, p \in Products, q \in Quantities : AddLine(o, i, p, q)
    \/ \E s \in Stocks : Move(s)

Spec == Init /\ [][Next]_book
=============================================================================
