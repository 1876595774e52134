------------------------ MODULE LowStockAlertsProofs ------------------------
(***************************************************************************)
(* For any number of rows, recipients, jobs, retries and faults: the queue  *)
(* never forgets a drop, mails tell of drops only and are no more than      *)
(* drops and failures, and the suggestion for every row is right.  The      *)
(* lemmas on one row and the restock arithmetic, for every row, policy,     *)
(* consumption and whatever the floats round, come first.                   *)
(*                                                                         *)
(* AlertInv has the flags true to the level: a row that stays flagged owes  *)
(* no new alert.  NoMailStorm is not inductive, for a job or an alert that  *)
(* waits will mail; StormInv counts what is due to a user, too, and each    *)
(* step only moves it on (DueMoves).                                        *)
(***************************************************************************)
EXTENDS LowStockAlerts, FiniteSetTheorems, TLAPS

\* A row is inserted with every column it needs.
LEMMA NewRowTyped == ASSUME NEW q \in Int PROVE NewRow(q) \in Row /\ NoRow \in Row
  BY DEF NewRow, NoRow, Row

\* _sync_low_stock touches nothing but the flag, and leaves it true to the level.
LEMMA SyncedRow ==
  ASSUME NEW row \in Row, NEW p \in Nat
  PROVE  /\ Synced(row, p) \in Row
         /\ Synced(row, p).live = row.live
         /\ Synced(row, p).quantity = row.quantity
         /\ Synced(row, p).reserved = row.reserved
         /\ Synced(row, p).alerted = IsLow(Synced(row, p), p)
  BY DEF Synced, IsLow, Available, Row

\* Reserving, releasing and fulfilling change the counters by exactly q.
LEMMA ReservingRow ==
  ASSUME NEW row \in Row, NEW q \in Int
  PROVE  /\ WithReserved(row, q) \in Row
         /\ WithReserved(row, q).live = row.live
         /\ WithReserved(row, q).reserved = row.reserved + q
         /\ WithReserved(row, q).quantity = row.quantity
  BY DEF WithReserved, Row

\* Releasing lowers `reserved` by exactly q.
LEMMA ReleasingRow ==
  ASSUME NEW row \in Row, NEW q \in Int
  PROVE  /\ WithReleased(row, q) \in Row
         /\ WithReleased(row, q).live = row.live
         /\ WithReleased(row, q).reserved = row.reserved - q
         /\ WithReleased(row, q).quantity = row.quantity
  BY DEF WithReleased, Row

\* The movement row changes no column of the stock row.
LEMMA RecordedRow ==
  ASSUME NEW row \in Row, NEW d \in Int, NEW p \in Nat
  PROVE  /\ Recorded(row, d) \in Row
         /\ Recorded(row, d).live = row.live
         /\ Recorded(row, d).quantity = row.quantity
         /\ Recorded(row, d).reserved = row.reserved
         /\ Recorded(row, d).alerted = row.alerted
         /\ IsLow(Recorded(row, d), p) = IsLow(row, p)
  BY DEF Recorded, IsLow, Available, Row

\* The three stock changes write an integer quantity.
LEMMA MovedTyped ==
  ASSUME NEW row \in Row, NEW q \in Int,
         NEW op \in {"add_stock", "remove_stock", "adjust_stock"}
  PROVE  /\ MovedQuantity(row, op, q) \in Int
         /\ [row EXCEPT !.quantity = MovedQuantity(row, op, q)] \in Row
  BY DEF MovedQuantity, Row

-----------------------------------------------------------------------------

\* A quotient that is rounded up is the least whole number that covers it.
LEMMA WholeUnitsIsLeast ==
    ASSUME NEW a \in Nat, NEW b \in Nat \ {0}
    PROVE  /\ WholeUnits(a, b) \in Nat
           /\ WholeUnits(a, b) * b >= a
           /\ \A k \in Int : k < WholeUnits(a, b) => k * b < a
<1> DEFINE n == a + b - 1
           q == n \div b
<1>1. n \in Nat
  OBVIOUS
<1>2. q \in Nat /\ n = (b * q) + (n % b) /\ n % b \in 0..(b - 1)
  BY <1>1
<1>3. b * q >= a /\ b * q <= n
  BY <1>1, <1>2
<1>4. q * b = b * q
  BY <1>2
<1>5. ASSUME NEW k \in Int, k < q
      PROVE  k * b < a
  <2>1. (q - 1 - k) * b >= 0
    BY <1>2, <1>5, SMT
  <2>2. (q - 1 - k) * b = q * b - b - k * b
    BY <1>2, SMT
  <2> QED
    BY <2>1, <2>2, <1>2, <1>3, <1>4
<1> QED
  BY <1>2, <1>3, <1>4, <1>5 DEF WholeUnits

\* Multiplication by a natural number keeps the order.
LEMMA ProductsKeepOrder ==
    ASSUME NEW a \in Int, NEW b \in Int, NEW c \in Nat, a <= b
    PROVE  a * c <= b * c
<1>1. (b - a) * c >= 0
  BY SMT
<1>2. (b - a) * c = b * c - a * c
  BY SMT
<1> QED
  BY <1>1, <1>2, SMT

\* What the target days use up is covered by the demand, and only just.
LEMMA DemandCovers ==
    ASSUME NEW used \in Nat, NEW rounding \in Roundings
    PROVE  /\ Demand(used, rounding) \in Nat
           /\ Demand(used, rounding) * WindowDays >= used * TargetDays
           /\ \A k \in Int : k < Demand(used, rounding) - rounding.up
                               => k * WindowDays < used * TargetDays
<1> DEFINE need == used * TargetDays
           units == WholeUnits(need, WindowDays)
           extra == IF used > 0 /\ (used * TargetDays) % WindowDays = 0 THEN rounding.up ELSE 0
<1>1. need \in Nat /\ WindowDays \in Nat \ {0}
  BY PolicyIsValid, SMT
<1>2. /\ units \in Nat /\ units * WindowDays >= need
      /\ \A k \in Int : k < units => k * WindowDays < need
  BY <1>1, WholeUnitsIsLeast
<1>3. extra \in {0, rounding.up} /\ rounding.up \in {0, 1} /\ extra <= rounding.up
  BY DEF Roundings
<1>4. Demand(used, rounding) = units + extra
  BY DEF Demand
<1> HIDE DEF need, units, extra
<1>5. (units + extra) * WindowDays >= units * WindowDays
  BY <1>1, <1>2, <1>3, ProductsKeepOrder
<1>6. units + extra \in Nat /\ units * WindowDays \in Int /\ (units + extra) * WindowDays \in Int
  BY <1>1, <1>2, <1>3, SMT
<1>7. (units + extra) * WindowDays >= need
  BY <1>1, <1>2, <1>5, <1>6
<1>8. \A k \in Int : k < units + extra - rounding.up => k * WindowDays < need
  BY <1>2, <1>3
<1>9. need = used * TargetDays
  BY DEF need
<1> DEFINE demand == units + extra
<1>10. demand \in Nat /\ demand * WindowDays >= need
  BY <1>6, <1>7
<1>11. \A k \in Int : k < demand - rounding.up => k * WindowDays < need
  BY <1>2, <1>3, <1>8
<1>12. Demand(used, rounding) = demand
  BY <1>4
<1> HIDE DEF demand
<1> QED
  BY <1>9, <1>10, <1>11, <1>12, Zenon

\* Restocking adds to what is available and leaves the flag true to the level.
LEMMA RestockedRow ==
    ASSUME NEW row \in Row, NEW p \in Nat, NEW q \in Int
    PROVE  /\ Restocked(row, p, q) \in Row
           /\ Available(row) \in Int
           /\ Available(Restocked(row, p, q)) = Available(row) + q
<1> DEFINE moved == [row EXCEPT !.quantity = MovedQuantity(row, "add_stock", q)]
<1>1. moved \in Row /\ moved.quantity = row.quantity + q /\ moved.reserved = row.reserved
  BY DEF MovedQuantity, Row
<1> HIDE DEF moved
<1>2. /\ Synced(moved, p) \in Row
      /\ Synced(moved, p).quantity = moved.quantity
      /\ Synced(moved, p).reserved = moved.reserved
  BY <1>1, SyncedRow
<1>3. Restocked(row, p, q) = Synced(moved, p)
  BY DEF Restocked, moved
<1> QED
  BY <1>1, <1>2, <1>3 DEF Available, Row

\* The suggestion for a row that needs restocking leaves it above its reorder point
\* and stocked for the target days; the same question asked again suggests nothing,
\* and less would not do but for a unit of rounding: evaluate, for every row, policy,
\* consumption and rounding.
THEOREM SuggestionSettles ==
    ASSUME NEW row \in Row, NEW p \in Nat, NEW used \in Nat,
           NEW horizon \in Horizons, NEW rounding \in Roundings
    PROVE  RestockSettles(row, p, used, horizon, rounding)
<1> DEFINE q     == Suggested(row, p, used, horizon, rounding)
           level == TargetLevel(p, used, rounding)
           have  == Available(row)
           after == Restocked(row, p, q)
           short == Restocked(row, p, q - rounding.up - 1)
<1> SUFFICES ASSUME NeedsRestock(row, p, used, horizon, rounding)
             PROVE  /\ ~IsLow(after, p)
                    /\ Available(after) * WindowDays >= used * TargetDays
                    /\ Suggested(after, p, used, horizon, rounding) = 0
                    /\ q > rounding.up =>
                         \/ Available(short) <= p
                         \/ Available(short) * WindowDays < used * TargetDays
  BY DEF RestockSettles
<1>0. rounding.up \in {0, 1} /\ WindowDays \in Nat \ {0} /\ used * TargetDays \in Nat
  BY PolicyIsValid, SMT DEF Roundings
<1>1. /\ level \in Nat /\ level >= p + 1 /\ level >= Demand(used, rounding)
      /\ level \in {p + 1, Demand(used, rounding)}
      /\ Demand(used, rounding) \in Nat
  BY DemandCovers DEF TargetLevel, Greater
<1>2. have \in Int
  BY RestockedRow
<1>3. q = IF level >= have THEN level - have ELSE 0
  BY <1>1, <1>2 DEF Suggested, Greater
<1> HIDE DEF q, level, have
<1>4. q \in Nat /\ have + q >= level
  BY <1>1, <1>2, <1>3
<1>5. Available(after) = have + q /\ Available(short) = have + q - rounding.up - 1
  <2>1. q \in Int /\ q - rounding.up - 1 \in Int
    BY <1>0, <1>4
  <2>2. /\ Available(after) = Available(row) + q
        /\ Available(short) = Available(row) + (q - rounding.up - 1)
    BY <2>1, RestockedRow
  <2> QED
    BY <2>1, <2>2, <1>0, <1>2 DEF have
<1> HIDE DEF after, short
<1>6. ~IsLow(after, p)
  BY <1>1, <1>2, <1>4, <1>5 DEF IsLow
<1>7. Available(after) * WindowDays >= used * TargetDays
  <2>1. Demand(used, rounding) * WindowDays >= used * TargetDays
    BY DemandCovers
  <2>2. Demand(used, rounding) * WindowDays <= (have + q) * WindowDays
    BY <1>0, <1>1, <1>2, <1>4, ProductsKeepOrder
  <2>3. /\ Demand(used, rounding) * WindowDays \in Int
        /\ (have + q) * WindowDays \in Int
    BY <1>0, <1>1, <1>2, <1>4, SMT
  <2> QED
    BY <2>1, <2>2, <2>3, <1>0, <1>5
<1>8. Suggested(after, p, used, horizon, rounding) = 0
  BY <1>1, <1>2, <1>4, <1>5 DEF Suggested, Greater, level
<1>9. ASSUME q > rounding.up
      PROVE  Available(short) <= p \/ Available(short) * WindowDays < used * TargetDays
  <2>1. Available(short) = level - rounding.up - 1
    BY <1>0, <1>1, <1>2, <1>3, <1>5, <1>9
  <2>2. CASE level = p + 1
    BY <2>1, <2>2, <1>0
  <2>3. CASE level = Demand(used, rounding)
    <3>1. level - rounding.up - 1 \in Int
      BY <1>0, <1>1
    <3>2. level - rounding.up - 1 < Demand(used, rounding) - rounding.up
      BY <2>3, <1>0, <1>1
    <3> QED
      BY <2>1, <3>1, <3>2, DemandCovers
  <2> QED
    BY <1>1, <2>2, <2>3
<1> QED
  BY <1>6, <1>7, <1>8, <1>9

-----------------------------------------------------------------------------

FlagsTrue == \A s \in Stocks : stock[s].alerted = IsLow(stock[s], ReorderPoint)

\* A job that was queued has its row, and a mail its job.
RowsKnown ==
    /\ \A j \in Jobs : job[j].status # "unused" => job[j].row \in Stocks
    /\ \A m \in Mails : mail[m].status # "unused" => job[m[1]].status # "unused"

AlertInv == TypeOK /\ RowsKnown /\ FlagsTrue /\ DropIsAnnounced

-----------------------------------------------------------------------------

\* The initial state is typed, flagged, and owes an alert for every low row.
LEMMA InitAlertInv == Init => AlertInv
<1> SUFFICES ASSUME Init PROVE AlertInv
  OBVIOUS
<1>1. \A s \in Stocks : /\ stock[s] \in Row
                        /\ stock[s].alerted = IsLow(stock[s], ReorderPoint)
  BY AlertConstants, NewRowTyped, SyncedRow DEF Init
<1>2. TypeOK
  <2>1. NoJob \in JobRows /\ NoMail \in MailRows
    BY AlertConstants DEF NoJob, JobRows, NoMail, MailRows, Attempts
  <2> QED
    BY <1>1, <2>1 DEF Init, TypeOK
<1>3. DropIsAnnounced
  BY DEF Init, DropIsAnnounced
<1>4. RowsKnown
  BY DEF Init, RowsKnown, NoJob, NoMail
<1> QED
  BY <1>1, <1>2, <1>3, <1>4 DEF AlertInv, FlagsTrue

\* A change of row s leaves it typed and its flag true; the queue owes an alert if
\* the flag went up, and nothing is new if it was up before.
LEMMA CommitKeepsInv ==
    ASSUME AlertInv, NEW s \in Stocks, NEW row \in Row,
           row.alerted = stock[s].alerted, CommitRow(s, row)
    PROVE  AlertInv'
<1> USE AlertConstants DEF AlertInv
<1>1. stock' = [stock EXCEPT ![s] = Synced(row, ReorderPoint)]
  BY DEF CommitRow
<1>2. /\ Synced(row, ReorderPoint) \in Row
      /\ Synced(row, ReorderPoint).alerted = IsLow(Synced(row, ReorderPoint), ReorderPoint)
  BY SyncedRow
<1>3. stock' \in [Stocks -> Row]
  BY <1>1, <1>2 DEF TypeOK
<1>4. TypeOK'
  BY <1>3 DEF TypeOK, CommitRow, queue
<1>5. FlagsTrue'
  BY <1>1, <1>2 DEF FlagsTrue, TypeOK
<1>6. ASSUME NEW t \in Stocks, t \notin lost', stock'[t].alerted
      PROVE  owed'[t] > 0 \/ Unread(t)' # {} \/ ReadNow(t)' # {}
  <2>1. job' = job /\ lost' = lost
    BY DEF CommitRow, queue
  <2>2. CASE t # s
    <3>1. stock'[t] = stock[t] /\ owed'[t] = owed[t] /\ fall'[t] = fall[t]
      BY <2>2 DEF CommitRow, TypeOK
    <3> QED
      BY <1>6, <2>1, <3>1 DEF DropIsAnnounced, Unread, ReadNow
  <2>3. CASE t = s /\ ~stock[s].alerted
    <3>1. IsLow(row, ReorderPoint)
      BY <1>1, <1>6, <2>3 DEF Synced, TypeOK, Row
    <3>2. Raises(row, ReorderPoint)
      BY <3>1, <2>3 DEF Raises
    <3> QED
      BY <3>2, <2>3 DEF CommitRow, TypeOK
  <2>4. CASE t = s /\ stock[s].alerted
    <3>1. ~Raises(row, ReorderPoint)
      BY <2>4 DEF Raises
    <3>2. IsLow(stock[s], ReorderPoint)
      BY <2>4 DEF FlagsTrue
    <3>3. owed' = owed /\ fall' = fall
      BY <3>1, <3>2 DEF CommitRow
    <3> QED
      BY <1>6, <2>1, <2>4, <3>3 DEF DropIsAnnounced, Unread, ReadNow
  <2> QED
    BY <2>2, <2>3, <2>4 DEF TypeOK, Row
<1>7. DropIsAnnounced'
  BY <1>6 DEF DropIsAnnounced
<1>8. RowsKnown'
  BY DEF RowsKnown, CommitRow, queue
<1> QED
  BY <1>4, <1>5, <1>7, <1>8

\* What the calls of the API write is a row, with the flag it had before.
LEMMA ApiCommitsRow ==
    ASSUME AlertInv, NEW s \in Stocks, Api(s), ~LoseAlert(s)
    PROVE  \E row \in Row : row.alerted = stock[s].alerted /\ CommitRow(s, row)
<1> DEFINE Committed == \E row \in Row : row.alerted = stock[s].alerted /\ CommitRow(s, row)
<1> USE AlertConstants DEF AlertInv
<1>1. stock[s] \in Row
  BY DEF TypeOK
<1>2. ASSUME NEW op \in {"add_stock", "remove_stock", "adjust_stock"}, NEW q \in Quantities,
             Move(s, op, q)
      PROVE  Committed
  <2> DEFINE d == MovedQuantity(stock[s], op, q) - stock[s].quantity
             moved == [stock[s] EXCEPT !.quantity = @ + d]
  <2>1. d \in Int
    <3>1. q \in Int
      OBVIOUS
    <3>2. MovedQuantity(stock[s], op, q) \in Int /\ stock[s].quantity \in Int
      BY <1>1, <3>1, MovedTyped DEF Row
    <3> QED
      BY <3>2
  <2> HIDE DEF d
  <2>2. moved \in Row /\ moved.alerted = stock[s].alerted
    BY <1>1, <2>1 DEF Row
  <2> HIDE DEF moved
  <2>3. Recorded(moved, d) \in Row /\ Recorded(moved, d).alerted = stock[s].alerted
    BY <2>1, <2>2, RecordedRow
  <2>4. CommitRow(s, Recorded(moved, d))
    BY <1>2 DEF Move, moved, d
  <2> QED
    BY <2>3, <2>4
<1>3. ASSUME NEW q \in Quantities, Reserve(s, q) \/ Release(s, q) \/ Fulfill(s, q)
      PROVE  Committed
  <2>0. q \in Int
    OBVIOUS
  <2>1. /\ WithReserved(stock[s], q) \in Row
        /\ WithReserved(stock[s], q).alerted = stock[s].alerted
    BY <1>1, <2>0, ReservingRow DEF WithReserved, Row
  <2>2. /\ WithReleased(stock[s], q) \in Row
        /\ WithReleased(stock[s], q).alerted = stock[s].alerted
    BY <1>1, <2>0, ReleasingRow DEF WithReleased, Row
  <2>3. /\ WithFulfilled(stock[s], q) \in Row
        /\ WithFulfilled(stock[s], q).alerted = stock[s].alerted
    <3> DEFINE released == WithReleased(stock[s], q)
               drawn    == Drawn(released, q)
    <3>0. released \in Row /\ released.alerted = stock[s].alerted
      BY <2>2
    <3> HIDE DEF released
    <3>1. drawn \in Row /\ drawn.alerted = stock[s].alerted
      BY <2>0, <3>0 DEF Drawn, Row
    <3> HIDE DEF drawn
    <3>2. Recorded(drawn, -q) \in Row /\ Recorded(drawn, -q).alerted = drawn.alerted
      <4>1. -q \in Int
        BY <2>0
      <4> QED
        BY <3>1, <4>1, RecordedRow
    <3> QED
      BY <3>1, <3>2 DEF WithFulfilled, drawn, released
  <2> QED
    BY <1>3, <2>1, <2>2, <2>3 DEF Reserve, Release, Fulfill
<1> QED
  BY <1>2, <1>3 DEF Api

\* A call of the API keeps the invariant; so does an alert that is lost.
LEMMA ApiKeepsInv ==
    ASSUME AlertInv, NEW s \in Stocks, Api(s)
    PROVE  AlertInv'
<1> USE AlertConstants DEF AlertInv
<1>1. CASE ~LoseAlert(s)
  BY <1>1, ApiCommitsRow, CommitKeepsInv
<1>2. CASE LoseAlert(s)
  <2>1. TypeOK' /\ FlagsTrue' /\ RowsKnown'
    BY <1>2 DEF LoseAlert, Fault, TypeOK, FlagsTrue, RowsKnown, queue
  <2>2. DropIsAnnounced'
    BY <1>2 DEF LoseAlert, TypeOK, DropIsAnnounced, Unread, ReadNow, queue
  <2> QED
    BY <2>1, <2>2
<1> QED
  BY <1>1, <1>2

\* The alert of row s is queued, or refused because a job waits that has yet to
\* read the row.
LEMMA EnqueueKeepsInv ==
    ASSUME AlertInv, NEW s \in Stocks, Enqueue(s)
    PROVE  AlertInv'
<1> USE AlertConstants DEF AlertInv
<1>1. /\ owed' = [owed EXCEPT ![s] = @ - 1] /\ owed[s] > 0
      /\ UNCHANGED <<stock, mail, holders, fall, lost, moves, faults>>
  BY DEF Enqueue
<1>2. owed' \in [Stocks -> Nat]
  BY <1>1 DEF TypeOK
<1>3. FlagsTrue'
  BY <1>1 DEF FlagsTrue
<1>4. CASE Waiting(s) # {}
  <2>1. job' = job
    BY <1>4 DEF Enqueue
  <2>2. TypeOK'
    BY <1>1, <1>2, <2>1 DEF TypeOK
  <2>3. Unread(s)' # {}
    BY <1>4, <2>1 DEF Waiting, Unread
  <2>4. DropIsAnnounced'
    BY <1>1, <2>1, <2>3 DEF DropIsAnnounced, Unread, ReadNow, TypeOK
  <2>5. RowsKnown'
    BY <1>1, <2>1 DEF RowsKnown
  <2> QED
    BY <1>3, <2>2, <2>4, <2>5
<1>5. CASE Waiting(s) = {}
  <2>1. PICK j \in Jobs : /\ job[j] = NoJob
                          /\ job' = [job EXCEPT ![j].status = "todo", ![j].row = s]
    BY <1>5 DEF Enqueue
  <2>2. /\ job'[j].status = "todo" /\ job'[j].row = s /\ job'[j] \in JobRows
        /\ \A i \in Jobs \ {j} : job'[i] = job[i]
    BY <2>1 DEF TypeOK, NoJob, JobRows, Attempts
  <2>3. TypeOK'
    BY <1>1, <1>2, <2>1, <2>2 DEF TypeOK
  <2>4. j \in Unread(s)'
    BY <2>2 DEF Unread
  <2>5. ASSUME NEW t \in Stocks \ {s}
        PROVE  Unread(t) \subseteq Unread(t)' /\ ReadNow(t) \subseteq ReadNow(t)'
    <3>1. j \notin Unread(t) \cup ReadNow(t)
      BY <2>1 DEF Unread, ReadNow, NoJob
    <3> QED
      BY <1>1, <2>2, <3>1 DEF Unread, ReadNow
  <2>6. DropIsAnnounced'
    BY <1>1, <2>4, <2>5 DEF DropIsAnnounced, TypeOK
  <2>7. RowsKnown'
    BY <1>1, <2>2 DEF RowsKnown, Mails
  <2> QED
    BY <1>3, <2>3, <2>6, <2>7
<1> QED
  BY <1>4, <1>5

-----------------------------------------------------------------------------

\* A step of job j, of any kind, that touches nothing else: drops stay announced if
\* the job still has its row to read, or has read it as it is, or another job of
\* the row waits, or the alert is given up.
LEMMA JobStepAnnounces ==
    ASSUME AlertInv, NEW j \in Jobs, NEW s \in Stocks,
           job[j].row = s,
           job' \in [Jobs -> JobRows], job'[j].row = s,
           \A i \in Jobs \ {j} : job'[i] = job[i],
           stock' = stock, owed' = owed, fall' = fall, lost \subseteq lost',
           \/ s \in lost'
           \/ ~stock[s].alerted
           \/ Waiting(s) \ {j} # {}
           \/ j \in Unread(s)'
           \/ j \in ReadNow(s)'
           \/ j \notin Unread(s) \cup ReadNow(s)
    PROVE  DropIsAnnounced'
<1> USE DEF AlertInv
<1> SUFFICES ASSUME NEW t \in Stocks, t \notin lost', stock'[t].alerted
             PROVE  owed'[t] > 0 \/ Unread(t)' # {} \/ ReadNow(t)' # {}
  BY DEF DropIsAnnounced
<1>1. owed[t] > 0 \/ Unread(t) # {} \/ ReadNow(t) # {}
  BY DEF DropIsAnnounced
<1>2. \A i \in Jobs \ {j} : /\ i \in Unread(t) => i \in Unread(t)'
                            /\ i \in ReadNow(t) => i \in ReadNow(t)'
  BY DEF Unread, ReadNow
<1>3. CASE t # s
  BY <1>1, <1>2, <1>3 DEF Unread, ReadNow
<1>4. CASE t = s
  <2>1. CASE Waiting(s) \ {j} # {}
    BY <1>4, <2>1 DEF Waiting, Unread
  <2>2. CASE j \in Unread(s)' \/ j \in ReadNow(s)'
    BY <1>4, <2>2
  <2>3. CASE j \notin Unread(s) \cup ReadNow(s)
    <3>1. CASE owed[t] > 0
      BY <3>1
    <3>2. CASE Unread(t) # {}
      <4>1. PICK i \in Jobs \ {j} : i \in Unread(t)
        BY <1>4, <2>3, <3>2 DEF Unread
      <4> QED
        BY <4>1, <1>2
    <3>3. CASE ReadNow(t) # {}
      <4>1. PICK i \in Jobs \ {j} : i \in ReadNow(t)
        BY <1>4, <2>3, <3>3 DEF ReadNow
      <4> QED
        BY <4>1, <1>2
    <3> QED
      BY <1>1, <3>1, <3>2, <3>3
  <2> QED
    BY <1>4, <2>1, <2>2, <2>3
<1> QED
  BY <1>3, <1>4

\* A step of a job that neither frees it nor takes its row away.
LEMMA JobStepIsKnown ==
    ASSUME AlertInv, NEW j \in Jobs, NEW row \in JobRows,
           job' = [job EXCEPT ![j] = row], row.row = job[j].row, row.row \in Stocks,
           row.status # "unused"
    PROVE  /\ job' \in [Jobs -> JobRows]
           /\ job'[j] = row
           /\ \A i \in Jobs \ {j} : job'[i] = job[i]
           /\ \A i \in Jobs : job'[i].status # "unused" => job'[i].row \in Stocks
           /\ \A i \in Jobs : job[i].status # "unused" => job'[i].status # "unused"
<1> USE DEF AlertInv
<1>1. job \in [Jobs -> JobRows]
  BY DEF TypeOK
<1>2. /\ job' \in [Jobs -> JobRows] /\ job'[j] = row
      /\ \A i \in Jobs \ {j} : job'[i] = job[i]
  BY <1>1
<1> QED
  BY <1>2 DEF RowsKnown

\* A worker takes a job up, and reads the row.
LEMMA ReadingKeepsInv ==
    ASSUME AlertInv, NEW j \in Jobs, Start(j) \/ Read(j)
    PROVE  AlertInv'
<1> USE AlertConstants DEF AlertInv
<1> DEFINE s == job[j].row
<1>1. s \in Stocks /\ job[j] \in JobRows /\ stock[s] \in Row /\ fall[s] \in Nat
      /\ job \in [Jobs -> JobRows]
  BY DEF Start, Read, RowsKnown, TypeOK
<1>2. UNCHANGED <<stock, owed, mail, holders, fall, lost, moves, faults>>
  BY DEF Start, Read
<1>3. PICK row \in JobRows :
          /\ job' = [job EXCEPT ![j] = row] /\ row.row = s /\ row.status # "unused"
          /\ row.status = "read" \/ (row.status \in {"defer", "done"} /\ row.fall = fall[s])
  <2>1. CASE Start(j)
    <3> DEFINE row == [job[j] EXCEPT !.status = "read"]
    <3>1. row \in JobRows /\ row.row = s /\ row.status = "read"
      BY <1>1 DEF JobRows
    <3>2. job' = [job EXCEPT ![j] = row]
      BY <1>1, <2>1 DEF Start
    <3> QED
      BY <3>1, <3>2
  <2>2. CASE Read(j)
    <3> DEFINE to == IF StillLow(stock[s]) THEN holders ELSE {}
               row == [job[j] EXCEPT !.status = IF to = {} THEN "done" ELSE "defer",
                                     !.left = to, !.available = Available(stock[s]),
                                     !.fall = fall[s]]
    <3>1. to \in SUBSET Users /\ Available(stock[s]) \in Int
      BY <1>1 DEF TypeOK, Available, Row
    <3>2. job' = [job EXCEPT ![j] = row]
      BY <1>1, <2>2 DEF Read, Recipients
    <3> HIDE DEF to
    <3>3. row \in JobRows /\ row.row = s /\ row.fall = fall[s]
          /\ row.status \in {"defer", "done"}
      BY <1>1, <3>1 DEF JobRows
    <3> QED
      BY <3>2, <3>3
  <2> QED
    BY <2>1, <2>2
<1>4. /\ job' \in [Jobs -> JobRows] /\ job'[j] = row
      /\ \A i \in Jobs \ {j} : job'[i] = job[i]
      /\ \A i \in Jobs : job'[i].status # "unused" => job'[i].row \in Stocks
      /\ \A i \in Jobs : job[i].status # "unused" => job'[i].status # "unused"
  BY <1>1, <1>3, JobStepIsKnown
<1>5. TypeOK' /\ FlagsTrue' /\ RowsKnown'
  BY <1>2, <1>4 DEF TypeOK, FlagsTrue, RowsKnown, Mails
<1>6. j \in Unread(s)' \/ j \in ReadNow(s)'
  BY <1>2, <1>3, <1>4 DEF Unread, ReadNow
<1>7. DropIsAnnounced'
  BY <1>1, <1>2, <1>3, <1>4, <1>6, JobStepAnnounces
<1> QED
  BY <1>5, <1>7

\* A job queues one of its mails; it has read its row or is history as before.
LEMMA QueueMailKeepsInv ==
    ASSUME AlertInv, NEW j \in Jobs, NEW u \in Users, QueueMail(j, u)
    PROVE  AlertInv'
<1> USE AlertConstants DEF AlertInv
<1> DEFINE s == job[j].row
           rest == Rest(job[j].left, u)
           row == [job[j] EXCEPT !.left = rest, !.status = IF rest = {} THEN "done" ELSE "defer"]
           m == <<j, job[j].attempt, u>>
           new == [NoMail EXCEPT !.status = "todo", !.available = job[j].available,
                                 !.fall = job[j].fall]
<1>1. s \in Stocks /\ job[j] \in JobRows /\ job \in [Jobs -> JobRows]
  BY DEF QueueMail, RowsKnown, TypeOK
<1>2. /\ UNCHANGED <<stock, owed, holders, fall, lost, moves, faults>>
      /\ job' = [job EXCEPT ![j] = row] /\ mail' = [mail EXCEPT ![m] = new]
      /\ job[j].status = "defer"
  BY <1>1 DEF QueueMail
<1>3. rest \in SUBSET Users
  BY <1>1 DEF Rest, JobRows
<1> HIDE DEF rest
<1>4. row \in JobRows /\ row.row = s /\ row.fall = job[j].fall /\ row.status \in {"defer", "done"}
  BY <1>1, <1>3 DEF JobRows
<1>5. /\ job' \in [Jobs -> JobRows] /\ job'[j] = row
      /\ \A i \in Jobs \ {j} : job'[i] = job[i]
      /\ \A i \in Jobs : job'[i].status # "unused" => job'[i].row \in Stocks
      /\ \A i \in Jobs : job[i].status # "unused" => job'[i].status # "unused"
  BY <1>1, <1>2, <1>4, JobStepIsKnown
<1>6. m \in Mails /\ m[1] = j /\ new \in MailRows
  <2>1. /\ job[j].attempt \in Attempts /\ job[j].available \in Int /\ job[j].fall \in Nat
        /\ 0 \in Attempts
    BY <1>1 DEF JobRows, Attempts
  <2>2. new \in MailRows
    BY <2>1 DEF MailRows, NoMail
  <2> QED
    BY <2>1, <2>2 DEF Mails
<1> HIDE DEF m, new, row
<1>7. /\ mail' \in [Mails -> MailRows]
      /\ \A n \in Mails \ {m} : mail'[n] = mail[n]
  BY <1>2, <1>6 DEF TypeOK
<1>8. TypeOK' /\ FlagsTrue'
  BY <1>2, <1>5, <1>7 DEF TypeOK, FlagsTrue
<1>9. RowsKnown'
  <2>1. ASSUME NEW n \in Mails, mail'[n].status # "unused"
        PROVE  job[n[1]].status # "unused"
    BY <1>2, <1>6, <1>7, <2>1 DEF RowsKnown
  <2>2. ASSUME NEW n \in Mails, mail'[n].status # "unused"
        PROVE  job'[n[1]].status # "unused"
    BY <1>5, <2>1, <2>2 DEF Mails
  <2> QED
    BY <1>5, <2>2 DEF RowsKnown
<1>10. j \in ReadNow(s)' \/ j \notin Unread(s) \cup ReadNow(s)
  BY <1>2, <1>4, <1>5 DEF Unread, ReadNow
<1>11. DropIsAnnounced'
  BY <1>1, <1>2, <1>4, <1>5, <1>10, JobStepAnnounces
<1> QED
  BY <1>8, <1>9, <1>11

\* A job that is to be run again is typed.
LEMMA RetryTyped ==
    ASSUME NEW s, NEW attempt
    PROVE  LET retry == [NoJob EXCEPT !.status = "todo", !.row = s, !.attempt = attempt]
           IN  /\ retry.row = s /\ retry.status = "todo"
               /\ s \in Stocks /\ attempt \in Attempts => retry \in JobRows
<1>1. 0 \in Int /\ 0 \in Nat /\ {} \in SUBSET Users
  OBVIOUS
<1> QED
  BY <1>1 DEF NoJob, JobRows

\* A job fails: it will be run again, or another of its row waits, or its row is
\* given up; and it is given up when the worker dies.
LEMMA FailingKeepsInv ==
    ASSUME AlertInv, NEW j \in Jobs, AlertJobFails(j) \/ AlertJobStalls(j)
    PROVE  AlertInv'
<1> USE AlertConstants DEF AlertInv
<1> DEFINE s == job[j].row
<1>1. /\ s \in Stocks /\ job[j] \in JobRows /\ job \in [Jobs -> JobRows]
      /\ job[j].status \in {"read", "defer"}
  BY DEF AlertJobFails, AlertJobStalls, Running, RowsKnown, TypeOK
<1>2. /\ UNCHANGED <<stock, owed, mail, holders, fall, moves>>
      /\ lost' \in {lost, lost \cup {s}} /\ faults' = faults + 1
  BY DEF AlertJobFails, AlertJobStalls, Fault
<1>3. PICK row \in JobRows :
          /\ job' = [job EXCEPT ![j] = row] /\ row.row = s /\ row.status # "unused"
          /\ row.status = "todo" \/ Waiting(s) # {} \/ s \in lost'
  <2>1. CASE AlertJobFails(j)
    <3> DEFINE retry == [NoJob EXCEPT !.status = "todo", !.row = s,
                                      !.attempt = job[j].attempt + 1]
               failed == [job[j] EXCEPT !.status = "failed"]
               again == MayRetry(job[j].attempt)
    <3>1. failed \in JobRows /\ failed.row = s /\ failed.status = "failed"
      BY <1>1 DEF JobRows
    <3>2. retry.row = s /\ retry.status = "todo" /\ (again => retry \in JobRows)
      <4>1. job[j].attempt \in 0..MaxRetries
        BY <1>1 DEF JobRows, Attempts
      <4>2. again => job[j].attempt + 1 \in Attempts
        BY <4>1 DEF MayRetry, Attempts
      <4>3. again => retry \in JobRows
        BY <1>1, <4>2, RetryTyped
      <4> QED
        BY <4>3, RetryTyped
    <3>3. /\ job' = [job EXCEPT ![j] = IF again /\ Waiting(s) = {} THEN retry ELSE failed]
          /\ ~again => s \in lost'
      BY <1>1, <2>1 DEF AlertJobFails
    <3> HIDE DEF retry, failed, again
    <3>4. CASE again /\ Waiting(s) = {}
      BY <3>2, <3>3, <3>4
    <3>5. CASE ~(again /\ Waiting(s) = {})
      BY <3>1, <3>3, <3>5
    <3> QED
      BY <3>4, <3>5
  <2>2. CASE AlertJobStalls(j)
    <3> DEFINE row == [job[j] EXCEPT !.status = "stalled"]
    <3>1. row \in JobRows /\ row.row = s /\ row.status = "stalled"
      BY <1>1 DEF JobRows
    <3>2. job' = [job EXCEPT ![j] = row] /\ s \in lost'
      BY <1>1, <2>2 DEF AlertJobStalls
    <3> QED
      BY <3>1, <3>2
  <2> QED
    BY <2>1, <2>2
<1>4. /\ job' \in [Jobs -> JobRows] /\ job'[j] = row
      /\ \A i \in Jobs \ {j} : job'[i] = job[i]
      /\ \A i \in Jobs : job'[i].status # "unused" => job'[i].row \in Stocks
      /\ \A i \in Jobs : job[i].status # "unused" => job'[i].status # "unused"
  BY <1>1, <1>3, JobStepIsKnown
<1>5. TypeOK' /\ FlagsTrue' /\ RowsKnown'
  BY <1>1, <1>2, <1>4 DEF TypeOK, FlagsTrue, RowsKnown, Mails
<1>6. s \in lost' \/ Waiting(s) \ {j} # {} \/ j \in Unread(s)'
  BY <1>1, <1>3, <1>4 DEF Unread, Waiting
<1>7. DropIsAnnounced'
  BY <1>1, <1>2, <1>3, <1>4, <1>6, JobStepAnnounces
<1> QED
  BY <1>5, <1>7

\* The columns of a mail job that sending it changes.
LEMMA MailUpdated ==
    ASSUME NEW old \in MailRows, NEW status \in {"todo", "sent", "failed", "stalled"},
           NEW attempt \in Attempts, NEW n \in Nat
    PROVE  /\ [old EXCEPT !.status = status, !.attempt = attempt, !.delivered = n] \in MailRows
           /\ [old EXCEPT !.status = status, !.delivered = n] \in MailRows
  BY DEF MailRows

\* What becomes of a mail changes no job; a mail given up gives its row up.
LEMMA MailKeepsInv ==
    ASSUME AlertInv, NEW m \in Mails, NEW n \in {0, 1},
           SendMail(m) \/ SendFails(m, n) \/ MailJobStalls(m, n)
    PROVE  AlertInv'
<1> USE AlertConstants DEF AlertInv
<1>1. /\ mail[m] \in MailRows /\ mail[m].status = "todo" /\ RowOf(m) \in Stocks
      /\ mail \in [Mails -> MailRows]
  BY DEF SendMail, SendFails, MailJobStalls, RowsKnown, TypeOK, RowOf, Mails
<1>2. /\ UNCHANGED <<stock, owed, job, holders, fall, moves>>
      /\ lost \subseteq lost' /\ lost' \subseteq lost \cup {RowOf(m)}
      /\ faults' \in {faults, faults + 1}
  BY DEF SendMail, SendFails, MailJobStalls, Fault
<1> DEFINE d == mail[m].delivered
<1>0. /\ d + 1 \in Nat /\ d + n \in Nat
      /\ MayRetry(mail[m].attempt) => mail[m].attempt + 1 \in Attempts
      /\ mail[m].attempt \in Attempts
  BY <1>1 DEF MailRows, MayRetry, Attempts
<1>3. PICK new \in MailRows : mail' = [mail EXCEPT ![m] = new]
  <2>1. CASE SendMail(m)
    <3> DEFINE new == [mail[m] EXCEPT !.status = "sent", !.delivered = d + 1]
    <3>1. new \in MailRows
      BY <1>0, <1>1, MailUpdated DEF MailRows
    <3> QED
      BY <1>1, <2>1, <3>1 DEF SendMail
  <2>2. CASE SendFails(m, n)
    <3> DEFINE again == MayRetry(mail[m].attempt)
               status == IF again THEN "todo" ELSE "failed"
               attempt == IF again THEN mail[m].attempt + 1 ELSE mail[m].attempt
               new == [mail[m] EXCEPT !.status = status, !.attempt = attempt,
                                      !.delivered = d + n]
    <3>1. new \in MailRows
      <4>1. attempt \in Attempts /\ status \in {"todo", "failed"}
        BY <1>0
      <4> HIDE DEF attempt, status
      <4> QED
        BY <1>0, <1>1, <4>1, MailUpdated
    <3> QED
      BY <1>1, <2>2, <3>1 DEF SendFails
  <2>3. CASE MailJobStalls(m, n)
    <3> DEFINE new == [mail[m] EXCEPT !.status = "stalled", !.delivered = d + n]
    <3>1. new \in MailRows
      BY <1>0, <1>1, MailUpdated DEF MailRows
    <3> QED
      BY <1>1, <2>3, <3>1 DEF MailJobStalls
  <2> QED
    BY <2>1, <2>2, <2>3
<1>4. TypeOK' /\ FlagsTrue'
  BY <1>1, <1>2, <1>3 DEF TypeOK, FlagsTrue
<1>5. RowsKnown'
  BY <1>1, <1>2, <1>3 DEF RowsKnown, TypeOK
<1>6. DropIsAnnounced'
  BY <1>2 DEF DropIsAnnounced, Unread, ReadNow
<1> QED
  BY <1>4, <1>5, <1>6

-----------------------------------------------------------------------------

\* The strengthened invariant holds in every reachable state.
LEMMA AlertInvHolds == Spec => []AlertInv
<1>1. ASSUME AlertInv, Next PROVE AlertInv'
  <2>1. ASSUME NEW s \in Stocks, Api(s) \/ Enqueue(s) PROVE AlertInv'
    BY <1>1, <2>1, ApiKeepsInv, EnqueueKeepsInv
  <2>2. ASSUME NEW j \in Jobs, AlertStep(j) \/ AlertJobFails(j) \/ AlertJobStalls(j)
        PROVE  AlertInv'
    BY <1>1, <2>2, ReadingKeepsInv, QueueMailKeepsInv, FailingKeepsInv DEF AlertStep
  <2>3. ASSUME NEW m \in Mails, NEW n \in {0, 1},
               SendMail(m) \/ SendFails(m, n) \/ MailJobStalls(m, n)
        PROVE  AlertInv'
    BY <1>1, <2>3, MailKeepsInv
  <2> QED
    BY <1>1, <2>1, <2>2, <2>3 DEF Next
<1>2. ASSUME AlertInv, UNCHANGED vars PROVE AlertInv'
  BY <1>2 DEF AlertInv, TypeOK, RowsKnown, FlagsTrue, DropIsAnnounced, Unread, ReadNow,
              vars, queue
<1> QED
  BY InitAlertInv, <1>1, <1>2, PTL DEF Spec

\* A flagged row is never forgotten by the queue, and every variable keeps its type:
\* for any number of rows, jobs, recipients, retries and faults, while requests and
\* workers interleave; defer_low_stock_alert and low_stock_alert_job.
THEOREM AlertsStayAnnounced == Spec => [](TypeOK /\ DropIsAnnounced)
<1>1. AlertInv => TypeOK /\ DropIsAnnounced
  BY DEF AlertInv
<1> QED
  BY AlertInvHolds, <1>1, PTL

\* Every suggestion about every row that calls can lead to is enough and not too
\* much: evaluate, on the rows that orders and the stock desk leave behind.
THEOREM SuggestionsSettle == Spec => []RestocksSettle
<1>1. ASSUME AlertInv PROVE RestocksSettle
  <2> SUFFICES ASSUME NEW s \in Stocks, NEW used \in Consumptions,
                      NEW h \in Horizons, NEW r \in Roundings
               PROVE  RestockSettles(stock[s], ReorderPoint, used, h, r)
    BY DEF RestocksSettle
  <2>1. stock[s] \in Row /\ ReorderPoint \in Nat /\ used \in Nat
    BY <1>1, AlertConstants DEF AlertInv, TypeOK
  <2> QED
    BY <2>1, SuggestionSettles
<1> QED
  BY AlertInvHolds, <1>1, PTL

-----------------------------------------------------------------------------
(* MailsTellLow: what a job has read of a flagged row is of a drop.          *)

TellInv ==
    /\ \A s \in Stocks : stock[s].alerted => fall[s] > 0
    /\ \A j \in Jobs :
         job[j].status = "defer" => job[j].available <= ReorderPoint /\ job[j].fall > 0
    /\ MailsTellLow

(* NoMailStorm: besides the mails that were delivered, those count that are  *)
(* still due to user u: the mails that wait, the jobs that have yet to mail  *)
(* u, and the alerts that are yet to be queued.                              *)

MailDue == [m \in Mails |-> mail[m].delivered + IF mail[m].status = "todo" THEN 1 ELSE 0]

MayMail(j, u) ==
    job[j].status \in {"todo", "read"} \/ (job[j].status = "defer" /\ u \in job[j].left)

JobDue(u) == [j \in Jobs |-> IF MayMail(j, u) THEN 1 ELSE 0]

DueTo(u) ==
    /\ IsFiniteSet(UnitsOf(MailDue, MailsTo(u))) /\ IsFiniteSet(UnitsOf(JobDue(u), Jobs))
    /\ Total(MailDue, MailsTo(u)) + Total(JobDue(u), Jobs) + Total(owed, Stocks)
         <= Total(fall, Stocks) + faults

StormInv == \A u \in Users : DueTo(u)

-----------------------------------------------------------------------------
(* Sums *)

\* A term of n stands for n units.
LEMMA PileOf ==
    ASSUME NEW x, NEW n \in Nat
    PROVE  IsFiniteSet({x} \X (1 .. n)) /\ Cardinality({x} \X (1 .. n)) = n
<1>1. IsFiniteSet({x}) /\ Cardinality({x}) = 1
  BY FS_Singleton
<1>2. IsFiniteSet(1 .. n) /\ Cardinality(1 .. n) = IF 1 > n THEN 0 ELSE n - 1 + 1
  BY FS_Interval
<1>3. /\ IsFiniteSet({x} \X (1 .. n))
      /\ Cardinality({x} \X (1 .. n)) = Cardinality({x}) * Cardinality(1 .. n)
  BY <1>1, <1>2, FS_Product
<1> QED
  BY <1>1, <1>2, <1>3

\* Finitely many terms stand for finitely many units.
LEMMA UnitsFinite ==
    ASSUME NEW S, IsFiniteSet(S), NEW f \in [S -> Nat]
    PROVE  IsFiniteSet(UnitsOf(f, S))
<1> DEFINE piles == {{x} \X (1 .. f[x]) : x \in S}
           pile == [x \in S |-> {x} \X (1 .. f[x])]
<1>1. pile \in Surjection(S, piles)
  <2>1. \A T \in piles : \E x \in S : pile[x] = T
    BY Zenon
  <2>2. pile \in [S -> piles]
    BY Zenon
  <2> QED
    BY <2>1, <2>2, Zenon DEF Surjection
<1>2. IsFiniteSet(piles)
  BY <1>1, FS_Surjection
<1>3. ASSUME NEW T \in piles PROVE IsFiniteSet(T)
  <2>1. PICK x \in S : T = {x} \X (1 .. f[x])
    OBVIOUS
  <2>2. f[x] \in Nat
    OBVIOUS
  <2> QED
    BY <2>1, <2>2, PileOf
<1> QED
  BY <1>2, <1>3, FS_UNION DEF UnitsOf

\* A sum changes by what one of its terms changes, if it has that term.
LEMMA OneTermChanges ==
    ASSUME NEW S, NEW f, NEW g, NEW x, x \in S => f[x] \in Nat /\ g[x] \in Nat,
           \A y \in S \ {x} : g[y] = f[y], IsFiniteSet(UnitsOf(f, S))
    PROVE  /\ IsFiniteSet(UnitsOf(g, S)) /\ Total(f, S) \in Nat /\ Total(g, S) \in Nat
           /\ Total(g, S) = Total(f, S) + (IF x \in S THEN g[x] - f[x] ELSE 0)
<1>1. CASE x \notin S
  <2>1. UnitsOf(g, S) = UnitsOf(f, S)
    BY <1>1 DEF UnitsOf
  <2>2. Total(g, S) = Total(f, S) /\ Total(f, S) \in Nat
    BY <2>1, FS_CardinalityType DEF Total
  <2> QED
    BY <1>1, <2>1, <2>2
<1>2. CASE x \in S
  <2> DEFINE rest == UnitsOf(f, S \ {x})
             old == {x} \X (1 .. f[x])
             new == {x} \X (1 .. g[x])
  <2>1. UnitsOf(f, S) = rest \cup old /\ UnitsOf(g, S) = rest \cup new
    <3>1. UnitsOf(g, S \ {x}) = rest
      BY DEF UnitsOf
    <3>2. S = (S \ {x}) \cup {x}
      BY <1>2
    <3>3. /\ UnitsOf(f, (S \ {x}) \cup {x}) = rest \cup old
          /\ UnitsOf(g, (S \ {x}) \cup {x}) = UnitsOf(g, S \ {x}) \cup new
      BY DEF UnitsOf
    <3> QED
      BY <3>1, <3>2, <3>3
  <2>2. /\ rest \cap old = {} /\ rest \cap new = {}
        /\ f[x] \in Nat /\ g[x] \in Nat
    BY <1>2 DEF UnitsOf
  <2>3. IsFiniteSet(old) /\ Cardinality(old) = f[x]
    BY <2>2, PileOf
  <2>4. IsFiniteSet(new) /\ Cardinality(new) = g[x]
    BY <2>2, PileOf
  <2>5. IsFiniteSet(rest)
    BY <2>1, FS_Subset
  <2> HIDE DEF rest, old, new
  <2>6. Cardinality(rest) \in Nat /\ Cardinality({}) = 0
    BY <2>5, FS_CardinalityType, FS_EmptySet
  <2>7. Cardinality(rest \cup old) = Cardinality(rest) + f[x]
    <3>1. Cardinality(rest \cup old)
            = Cardinality(rest) + Cardinality(old) - Cardinality(rest \cap old)
      BY <2>3, <2>5, FS_Union
    <3>2. Cardinality(rest \cap old) = 0
      BY <2>2, <2>6
    <3> QED
      BY <2>2, <2>3, <2>6, <3>1, <3>2
  <2>8. IsFiniteSet(rest \cup new) /\ Cardinality(rest \cup new) = Cardinality(rest) + g[x]
    <3>1. /\ IsFiniteSet(rest \cup new)
          /\ Cardinality(rest \cup new)
               = Cardinality(rest) + Cardinality(new) - Cardinality(rest \cap new)
      BY <2>4, <2>5, FS_Union
    <3> QED
      BY <2>2, <2>4, <2>6, <3>1
  <2> QED
    BY <1>2, <2>1, <2>2, <2>6, <2>7, <2>8 DEF Total
<1> QED
  BY <1>1, <1>2

\* A sum of smaller terms is no greater.
LEMMA SmallerTerms ==
    ASSUME NEW S, NEW f, NEW g, IsFiniteSet(UnitsOf(g, S)),
           \A x \in S : f[x] \in Nat /\ g[x] \in Nat /\ f[x] <= g[x]
    PROVE  Total(f, S) \in Nat /\ Total(g, S) \in Nat /\ Total(f, S) <= Total(g, S)
<1>1. UnitsOf(f, S) \subseteq UnitsOf(g, S)
  <2>1. ASSUME NEW x \in S PROVE (1 .. f[x]) \subseteq (1 .. g[x])
    <3>1. f[x] \in Nat /\ g[x] \in Nat /\ f[x] <= g[x]
      OBVIOUS
    <3> QED
      BY <3>1
  <2> QED
    BY <2>1 DEF UnitsOf
<1>2. /\ IsFiniteSet(UnitsOf(f, S))
      /\ Cardinality(UnitsOf(f, S)) <= Cardinality(UnitsOf(g, S))
  BY <1>1, FS_Subset
<1> QED
  BY <1>2, FS_CardinalityType DEF Total

\* A sum without terms but zeros is zero.
LEMMA ZeroTerms ==
    ASSUME NEW S, NEW f, \A x \in S : f[x] = 0
    PROVE  Total(f, S) = 0 /\ IsFiniteSet(UnitsOf(f, S))
<1>1. UnitsOf(f, S) = {}
  BY SMT DEF UnitsOf
<1> QED
  BY <1>1, FS_EmptySet DEF Total

\* A step touches mail m, job j and row s at most: a more mails are due to u, b more by
\* jobs, and c more alerts, and no more than fell and failed.
Moves(u, m, j, s, a, b, c) ==
    /\ \A n \in MailsTo(u) \ {m} : mail'[n] = mail[n]
    /\ m \in MailsTo(u) => MailDue'[m] <= MailDue[m] + a
    /\ m \notin MailsTo(u) => a >= 0
    /\ \A i \in Jobs \ {j} : job'[i] = job[i]
    /\ j \in Jobs => JobDue(u)'[j] <= JobDue(u)[j] + b
    /\ j \notin Jobs => b >= 0
    /\ \A t \in Stocks \ {s} : owed'[t] = owed[t] /\ fall'[t] = fall[t]
    /\ owed'[s] = owed[s] + c
    /\ a + b + c <= (fall'[s] - fall[s]) + (faults' - faults)

\* Such a step leaves no more due than there were drops and failures.
LEMMA DueMoves ==
    ASSUME TypeOK, TypeOK', NEW u \in Users, DueTo(u), NEW m, NEW j, NEW s \in Stocks,
           NEW a \in Int, NEW b \in Int, NEW c \in Int, Moves(u, m, j, s, a, b, c)
    PROVE  DueTo(u)'
<1>1. PICK f, g, p, q, S :
          f = MailDue /\ g = MailDue' /\ p = JobDue(u) /\ q = JobDue(u)' /\ S = MailsTo(u)
  OBVIOUS
<1>2. PICK v, w, x, y : v = owed /\ w = owed' /\ x = fall /\ y = fall'
  OBVIOUS
<1>3. /\ \A n \in S \ {m} : g[n] = f[n]
      /\ m \in S => f[m] \in Nat /\ g[m] \in Nat
  <2>1. mail \in [Mails -> MailRows] /\ mail' \in [Mails -> MailRows]
    BY DEF TypeOK
  <2>2. \A n \in Mails : mail[n].delivered \in Nat /\ mail'[n].delivered \in Nat
    BY <2>1 DEF MailRows
  <2>3. \A n \in Mails : /\ f[n] = mail[n].delivered + IF mail[n].status = "todo" THEN 1 ELSE 0
                         /\ g[n] = mail'[n].delivered + IF mail'[n].status = "todo" THEN 1 ELSE 0
    BY <1>1 DEF MailDue
  <2>4. S \in SUBSET Mails
    BY <1>1 DEF MailsTo
  <2> QED
    BY <1>1, <2>2, <2>3, <2>4 DEF Moves
<1>4. /\ \A i \in Jobs \ {j} : q[i] = p[i]
      /\ j \in Jobs => p[j] \in Nat /\ q[j] \in Nat
  BY <1>1 DEF JobDue, MayMail, Moves
<1>5. /\ v \in [Stocks -> Nat] /\ w \in [Stocks -> Nat]
      /\ x \in [Stocks -> Nat] /\ y \in [Stocks -> Nat]
  BY <1>2 DEF TypeOK
<1>6. /\ IsFiniteSet(UnitsOf(g, S)) /\ Total(f, S) \in Int /\ Total(g, S) \in Int
      /\ Total(g, S) <= Total(f, S) + a
  <2>1. /\ IsFiniteSet(UnitsOf(g, S)) /\ Total(f, S) \in Nat /\ Total(g, S) \in Nat
        /\ Total(g, S) = Total(f, S) + (IF m \in S THEN g[m] - f[m] ELSE 0)
    <3>1. IsFiniteSet(UnitsOf(f, S))
      BY <1>1 DEF DueTo
    <3> QED
      BY <1>3, <3>1, OneTermChanges
  <2>2. (IF m \in S THEN g[m] - f[m] ELSE 0) <= a
    BY <1>1, <1>3 DEF Moves
  <2> QED
    BY <1>3, <2>1, <2>2
<1>7. /\ IsFiniteSet(UnitsOf(q, Jobs)) /\ Total(p, Jobs) \in Int /\ Total(q, Jobs) \in Int
      /\ Total(q, Jobs) <= Total(p, Jobs) + b
  <2>1. /\ IsFiniteSet(UnitsOf(q, Jobs)) /\ Total(p, Jobs) \in Nat /\ Total(q, Jobs) \in Nat
        /\ Total(q, Jobs) = Total(p, Jobs) + (IF j \in Jobs THEN q[j] - p[j] ELSE 0)
    <3>1. IsFiniteSet(UnitsOf(p, Jobs))
      BY <1>1 DEF DueTo
    <3> QED
      BY <1>4, <3>1, OneTermChanges
  <2>2. (IF j \in Jobs THEN q[j] - p[j] ELSE 0) <= b
    BY <1>1, <1>4 DEF Moves
  <2> QED
    BY <1>4, <2>1, <2>2
<1>8. /\ Total(v, Stocks) \in Int /\ Total(w, Stocks) \in Int
      /\ Total(w, Stocks) = Total(v, Stocks) + c
  <2>1. IsFiniteSet(UnitsOf(v, Stocks))
    BY <1>5, AlertConstants, UnitsFinite
  <2>2. v[s] \in Nat /\ w[s] \in Nat /\ \A t \in Stocks \ {s} : w[t] = v[t]
    BY <1>2, <1>5 DEF Moves
  <2>3. /\ Total(v, Stocks) \in Nat /\ Total(w, Stocks) \in Nat
        /\ Total(w, Stocks) = Total(v, Stocks) + (IF s \in Stocks THEN w[s] - v[s] ELSE 0)
    BY <2>1, <2>2, OneTermChanges
  <2>4. w[s] = v[s] + c
    BY <1>2 DEF Moves
  <2> QED
    BY <2>2, <2>3, <2>4
<1>9. /\ Total(x, Stocks) \in Int /\ Total(y, Stocks) \in Int
      /\ Total(y, Stocks) = Total(x, Stocks) + (y[s] - x[s])
  <2>1. IsFiniteSet(UnitsOf(x, Stocks))
    BY <1>5, AlertConstants, UnitsFinite
  <2>2. x[s] \in Nat /\ y[s] \in Nat /\ \A t \in Stocks \ {s} : y[t] = x[t]
    BY <1>2, <1>5 DEF Moves
  <2>3. /\ Total(x, Stocks) \in Nat /\ Total(y, Stocks) \in Nat
        /\ Total(y, Stocks) = Total(x, Stocks) + (IF s \in Stocks THEN y[s] - x[s] ELSE 0)
    BY <2>1, <2>2, OneTermChanges
  <2> QED
    BY <2>2, <2>3
<1>10. /\ faults \in Int /\ faults' \in Int /\ y[s] - x[s] \in Int
       /\ a + b + c <= (y[s] - x[s]) + (faults' - faults)
  BY <1>2, <1>5 DEF TypeOK, Moves
<1>11. Total(f, S) + Total(p, Jobs) + Total(v, Stocks) <= Total(x, Stocks) + faults
  BY <1>1, <1>2 DEF DueTo
<1>12. Total(g, S) + Total(q, Jobs) + Total(w, Stocks) <= Total(y, Stocks) + faults'
  <2>1. PICK d1, d2, d3, d4, e1, e2, e3, e4, k, n1, n2 :
           /\ d1 = Total(f, S) /\ d2 = Total(p, Jobs) /\ d3 = Total(v, Stocks)
           /\ d4 = Total(x, Stocks) /\ e1 = Total(g, S) /\ e2 = Total(q, Jobs)
           /\ e3 = Total(w, Stocks) /\ e4 = Total(y, Stocks) /\ k = y[s] - x[s]
           /\ n1 = faults /\ n2 = faults'
    OBVIOUS
  <2>2. /\ d1 \in Int /\ d2 \in Int /\ d3 \in Int /\ d4 \in Int /\ e1 \in Int /\ e2 \in Int
        /\ k \in Int /\ n1 \in Int /\ n2 \in Int
    BY <1>6, <1>7, <1>8, <1>9, <1>10, <2>1
  <2>3. e1 <= d1 + a /\ e2 <= d2 + b /\ e3 = d3 + c /\ e4 = d4 + k
    BY <1>6, <1>7, <1>8, <1>9, <2>1
  <2>4. a + b + c <= k + (n2 - n1) /\ d1 + d2 + d3 <= d4 + n1
    BY <1>10, <1>11, <2>1
  <2>5. e1 + e2 + e3 <= e4 + n2
    BY <2>2, <2>3, <2>4
  <2> QED
    BY <2>1, <2>5
<1> QED
  BY <1>1, <1>2, <1>6, <1>7, <1>12 DEF DueTo, MailsTo

-----------------------------------------------------------------------------
(* Nothing is due but for a drop *)

\* A change of a row owes an alert only if the row has just fallen.
LEMMA CommitKeepsStorm ==
    ASSUME AlertInv, TypeOK', NEW u \in Users, DueTo(u), NEW s \in Stocks, NEW row \in Row,
           row.alerted = stock[s].alerted, CommitRow(s, row)
    PROVE  DueTo(u)'
<1>1. /\ mail' = mail /\ job' = job /\ faults' = faults
      /\ owed' = IF Raises(row, ReorderPoint) THEN [owed EXCEPT ![s] = @ + 1] ELSE owed
      /\ fall' = IF IsLow(row, ReorderPoint) /\ ~IsLow(stock[s], ReorderPoint)
                 THEN [fall EXCEPT ![s] = @ + 1] ELSE fall
  BY DEF CommitRow, queue
<1>2. TypeOK /\ owed \in [Stocks -> Nat] /\ fall \in [Stocks -> Nat] /\ faults \in Nat
  BY DEF AlertInv, TypeOK
<1>3. MailDue' = MailDue /\ JobDue(u)' = JobDue(u)
  BY <1>1 DEF MailDue, JobDue, MayMail
<1>4. Raises(row, ReorderPoint) <=>
         IsLow(row, ReorderPoint) /\ ~IsLow(stock[s], ReorderPoint)
  BY DEF AlertInv, FlagsTrue, Raises
<1>5. PICK c : c = IF Raises(row, ReorderPoint) THEN 1 ELSE 0
  OBVIOUS
<1>6. /\ c \in Int /\ owed'[s] = owed[s] + c /\ fall'[s] - fall[s] = c
      /\ \A t \in Stocks \ {s} : owed'[t] = owed[t] /\ fall'[t] = fall[t]
  BY <1>1, <1>2, <1>4, <1>5
<1>7. PICK m, j : m \notin MailsTo(u) /\ j \notin Jobs
  <2>1. \E m : m \notin MailsTo(u)
    BY NoSetContainsEverything
  <2>2. \E j : j \notin Jobs
    BY NoSetContainsEverything
  <2> QED
    BY <2>1, <2>2
<1>8. 0 + 0 + c <= (fall'[s] - fall[s]) + (faults' - faults)
  BY <1>1, <1>2, <1>6
<1>9. Moves(u, m, j, s, 0, 0, c)
  BY <1>1, <1>3, <1>6, <1>7, <1>8 DEF Moves, MailDue, JobDue
<1> QED
  BY <1>2, <1>6, <1>9, DueMoves

\* An alert is queued as one job, or dropped, or lost.
LEMMA EnqueueKeepsStorm ==
    ASSUME AlertInv, TypeOK', NEW u \in Users, DueTo(u), NEW s \in Stocks,
           Enqueue(s) \/ LoseAlert(s)
    PROVE  DueTo(u)'
<1>1. /\ mail' = mail /\ fall' = fall /\ faults' \in {faults, faults + 1}
      /\ owed' = [owed EXCEPT ![s] = @ - 1]
  BY DEF Enqueue, LoseAlert, Fault, queue
<1>2. /\ TypeOK /\ owed \in [Stocks -> Nat] /\ fall[s] \in Int /\ faults \in Int
      /\ job \in [Jobs -> JobRows]
  BY DEF AlertInv, TypeOK
<1>3. PICK m : m \notin MailsTo(u)
  BY NoSetContainsEverything
<1>4. /\ owed'[s] = owed[s] + (0 - 1) /\ owed[s] \in Int
      /\ \A t \in Stocks \ {s} : owed'[t] = owed[t] /\ fall'[t] = fall[t]
  BY <1>1, <1>2
<1>5. PICK j : /\ \A i \in Jobs \ {j} : job'[i] = job[i]
               /\ j \in Jobs => JobDue(u)'[j] <= JobDue(u)[j] + 1
  <2>1. CASE job' = job
    <3>1. PICK j : j \notin Jobs
      BY NoSetContainsEverything
    <3> QED
      BY <2>1, <3>1
  <2>2. CASE job' # job
    <3>1. PICK j \in Jobs : job' = [job EXCEPT ![j].status = "todo", ![j].row = s]
      BY <2>2 DEF Enqueue, LoseAlert, queue
    <3>2. \A i \in Jobs \ {j} : job'[i] = job[i]
      BY <1>2, <3>1
    <3>3. JobDue(u)'[j] <= JobDue(u)[j] + 1
      BY DEF JobDue
    <3> QED
      BY <3>2, <3>3
  <2> QED
    BY <2>1, <2>2
<1>6. 0 + 1 + (0 - 1) <= (fall'[s] - fall[s]) + (faults' - faults)
  BY <1>1, <1>2
<1>7. Moves(u, m, j, s, 0, 1, 0 - 1)
  BY <1>1, <1>3, <1>4, <1>5, <1>6 DEF Moves
<1> QED
  BY <1>2, <1>7, DueMoves

\* A job that begins, reads or fails may mail nobody it might not have mailed, but for
\* the failure.
LEMMA JobKeepsStorm ==
    ASSUME AlertInv, TypeOK', NEW u \in Users, DueTo(u), NEW j \in Jobs,
           Start(j) \/ Read(j) \/ AlertJobFails(j) \/ AlertJobStalls(j)
    PROVE  DueTo(u)'
<1>1. /\ mail' = mail /\ fall' = fall /\ owed' = owed
      /\ \A i \in Jobs \ {j} : job'[i] = job[i]
  BY DEF Start, Read, AlertJobFails, AlertJobStalls, AlertInv, TypeOK
<1>2. /\ TypeOK /\ job[j].row \in Stocks /\ fall[job[j].row] \in Int
      /\ owed[job[j].row] \in Int /\ faults \in Int
  <2>1. job[j].status # "unused"
    BY DEF Start, Read, AlertJobFails, AlertJobStalls, Running
  <2> QED
    BY <2>1 DEF AlertInv, RowsKnown, TypeOK
<1>3. PICK m : m \notin MailsTo(u)
  BY NoSetContainsEverything
<1>4. PICK b \in {0, 1} : JobDue(u)'[j] <= JobDue(u)[j] + b /\ faults' = faults + b
  <2>1. CASE Start(j) \/ Read(j)
    <3>1. MayMail(j, u) /\ faults' = faults
      BY <2>1 DEF Start, Read, MayMail
    <3>2. JobDue(u)'[j] <= JobDue(u)[j]
      BY <3>1 DEF JobDue
    <3> QED
      BY <1>2, <3>1, <3>2 DEF JobDue
  <2>2. CASE AlertJobFails(j) \/ AlertJobStalls(j)
    <3>1. faults' = faults + 1
      BY <2>2 DEF AlertJobFails, AlertJobStalls, Fault
    <3>2. JobDue(u)'[j] <= JobDue(u)[j] + 1
      BY DEF JobDue
    <3> QED
      BY <3>1, <3>2
  <2> QED
    BY <2>1, <2>2
<1>5. PICK s : s = job[j].row
  OBVIOUS
<1>6. /\ s \in Stocks /\ owed'[s] = owed[s] + 0 /\ b \in Int
      /\ \A t \in Stocks \ {s} : owed'[t] = owed[t] /\ fall'[t] = fall[t]
  BY <1>1, <1>2, <1>4, <1>5
<1>7. 0 + b + 0 <= (fall'[s] - fall[s]) + (faults' - faults)
  BY <1>1, <1>2, <1>4, <1>5
<1>8. Moves(u, m, j, s, 0, b, 0)
  BY <1>1, <1>3, <1>4, <1>6, <1>7 DEF Moves
<1> QED
  BY <1>2, <1>6, <1>8, DueMoves

\* A mail that is queued for u is one its job owes u no more.
LEMMA QueueMailKeepsStorm ==
    ASSUME AlertInv, TypeOK', NEW u \in Users, DueTo(u),
           NEW j \in Jobs, NEW v \in Users, QueueMail(j, v)
    PROVE  DueTo(u)'
<1>1. /\ fall' = fall /\ owed' = owed /\ faults' = faults
      /\ \A i \in Jobs \ {j} : job'[i] = job[i]
      /\ job[j].status = "defer" /\ v \in job[j].left
  BY DEF QueueMail, AlertInv, TypeOK
<1>2. /\ TypeOK /\ job[j] \in JobRows /\ job[j].row \in Stocks /\ fall[job[j].row] \in Int
      /\ owed[job[j].row] \in Int /\ faults \in Int /\ mail \in [Mails -> MailRows]
  BY <1>1 DEF AlertInv, RowsKnown, TypeOK
<1>3. PICK m : m = <<j, job[j].attempt, v>>
  OBVIOUS
<1>4. m \in Mails /\ m[3] = v
  BY <1>2, <1>3 DEF Mails, JobRows
<1>5. /\ \A n \in Mails \ {m} : mail'[n] = mail[n]
      /\ mail'[m].status = "todo" /\ mail'[m].delivered = 0
  <2>1. mail' = [mail EXCEPT ![m] = [NoMail EXCEPT !.status = "todo",
                                       !.available = job[j].available, !.fall = job[j].fall]]
    BY <1>3 DEF QueueMail
  <2> QED
    BY <1>2, <1>4, <2>1 DEF NoMail
<1>6. /\ job'[j].status = "defer" => job'[j].left = job[j].left \ {v}
      /\ job'[j].status \in {"defer", "done"}
  <2>1. job' = [job EXCEPT ![j].left = job[j].left \ {v},
                           ![j].status = IF job[j].left \ {v} = {} THEN "done" ELSE "defer"]
    BY DEF QueueMail, Rest
  <2>2. job \in [Jobs -> JobRows]
    BY DEF AlertInv, TypeOK
  <2> QED
    BY <2>1, <2>2 DEF JobRows
<1>7. PICK a \in {0, 1} : a = IF u = v THEN 1 ELSE 0
  OBVIOUS
<1>8. /\ m \in MailsTo(u) => MailDue'[m] <= MailDue[m] + a
      /\ m \notin MailsTo(u) => a >= 0
      /\ \A n \in MailsTo(u) \ {m} : mail'[n] = mail[n]
  <2>1. MailDue'[m] = 1 /\ MailDue[m] >= 0 /\ MailDue[m] \in Nat
    BY <1>2, <1>4, <1>5 DEF MailDue, MailRows
  <2>2. m \in MailsTo(u) => a = 1
    BY <1>4, <1>7 DEF MailsTo
  <2> QED
    BY <1>5, <1>7, <2>1, <2>2 DEF MailsTo
<1>9. JobDue(u)'[j] <= JobDue(u)[j] + (0 - a)
  <2>1. CASE u = v
    <3>1. MayMail(j, u) /\ ~MayMail(j, u)'
      BY <1>1, <1>6, <2>1 DEF MayMail
    <3> QED
      BY <1>7, <2>1, <3>1 DEF JobDue
  <2>2. CASE u # v
    <3>1. MayMail(j, u)' => MayMail(j, u)
      BY <1>1, <1>6, <2>2 DEF MayMail
    <3> QED
      BY <1>7, <2>2, <3>1 DEF JobDue
  <2> QED
    BY <2>1, <2>2
<1>10. PICK s, b : s = job[j].row /\ b = 0 - a
  OBVIOUS
<1>11. /\ s \in Stocks /\ owed'[s] = owed[s] + 0 /\ b \in Int
       /\ \A t \in Stocks \ {s} : owed'[t] = owed[t] /\ fall'[t] = fall[t]
  BY <1>1, <1>2, <1>7, <1>10
<1>12. a + b + 0 <= (fall'[s] - fall[s]) + (faults' - faults)
  BY <1>1, <1>2, <1>7, <1>10
<1>13. Moves(u, m, j, s, a, b, 0)
  BY <1>1, <1>8, <1>9, <1>10, <1>11, <1>12 DEF Moves
<1> QED
  BY <1>2, <1>7, <1>11, <1>13, DueMoves

\* A mail is delivered once, and once more for a failure at most.
LEMMA MailKeepsStorm ==
    ASSUME AlertInv, TypeOK', NEW u \in Users, DueTo(u), NEW m \in Mails, NEW n \in {0, 1},
           SendMail(m) \/ SendFails(m, n) \/ MailJobStalls(m, n)
    PROVE  DueTo(u)'
<1>1. /\ fall' = fall /\ owed' = owed /\ job' = job /\ mail[m].status = "todo"
      /\ \A k \in Mails \ {m} : mail'[k] = mail[k]
  BY DEF SendMail, SendFails, MailJobStalls, AlertInv, TypeOK
<1>2. /\ TypeOK /\ RowOf(m) \in Stocks /\ fall[RowOf(m)] \in Int
      /\ owed[RowOf(m)] \in Int /\ faults \in Int /\ mail \in [Mails -> MailRows]
      /\ mail[m].delivered \in Nat
  BY <1>1 DEF AlertInv, RowsKnown, TypeOK, RowOf, Mails, MailRows
<1>3. PICK j : j \notin Jobs
  BY NoSetContainsEverything
<1>4. PICK a \in {0, 1} : /\ MailDue'[m] <= MailDue[m] + a
                          /\ faults' = faults + a
  <2>1. MailDue[m] = mail[m].delivered + 1
    BY <1>1 DEF MailDue
  <2>2. MailDue'[m] = mail'[m].delivered + IF mail'[m].status = "todo" THEN 1 ELSE 0
    BY DEF MailDue
  <2>3. CASE SendMail(m)
    <3>1. /\ mail'[m].status = "sent" /\ mail'[m].delivered = mail[m].delivered + 1
          /\ faults' = faults
      BY <1>2, <2>3 DEF SendMail, MailRows
    <3> QED
      BY <1>2, <2>1, <2>2, <3>1
  <2>4. CASE SendFails(m, n) \/ MailJobStalls(m, n)
    <3>1. mail'[m].delivered = mail[m].delivered + n /\ faults' = faults + 1
      BY <1>2, <2>4 DEF SendFails, MailJobStalls, Fault, MailRows
    <3> QED
      BY <1>2, <2>1, <2>2, <3>1
  <2> QED
    BY <2>3, <2>4
<1>5. PICK s : s = RowOf(m)
  OBVIOUS
<1>6. /\ s \in Stocks /\ owed'[s] = owed[s] + 0 /\ a \in Int /\ a >= 0
      /\ \A t \in Stocks \ {s} : owed'[t] = owed[t] /\ fall'[t] = fall[t]
      /\ \A k \in MailsTo(u) \ {m} : mail'[k] = mail[k]
  BY <1>1, <1>2, <1>4, <1>5 DEF MailsTo
<1>7. a + 0 + 0 <= (fall'[s] - fall[s]) + (faults' - faults)
  BY <1>1, <1>2, <1>4, <1>5
<1>8. Moves(u, m, j, s, a, 0, 0)
  BY <1>1, <1>3, <1>4, <1>6, <1>7 DEF Moves
<1> QED
  BY <1>2, <1>6, <1>8, DueMoves

\* In the beginning every row that is low has fallen once and owes one alert.
LEMMA InitStorm == Init => StormInv /\ TellInv
<1> SUFFICES ASSUME Init PROVE StormInv /\ TellInv
  OBVIOUS
<1>1. TypeOK
  BY InitAlertInv DEF AlertInv
<1>2. ASSUME NEW u \in Users PROVE DueTo(u)
  <2>1. Total(MailDue, MailsTo(u)) = 0 /\ IsFiniteSet(UnitsOf(MailDue, MailsTo(u)))
    <3>1. PICK f : f = MailDue
      OBVIOUS
    <3>2. \A m \in MailsTo(u) : f[m] = 0
      BY <3>1 DEF Init, NoMail, MailDue, MailsTo
    <3> QED
      BY <3>1, <3>2, ZeroTerms
  <2>2. Total(JobDue(u), Jobs) = 0 /\ IsFiniteSet(UnitsOf(JobDue(u), Jobs))
    <3>1. PICK f : f = JobDue(u)
      OBVIOUS
    <3>2. \A j \in Jobs : f[j] = 0
      BY <3>1 DEF Init, NoJob, JobDue, MayMail
    <3> QED
      BY <3>1, <3>2, ZeroTerms
  <2>3. Total(owed, Stocks) \in Int /\ Total(fall, Stocks) = Total(owed, Stocks) /\ faults = 0
    <3>1. IsFiniteSet(UnitsOf(owed, Stocks))
      BY <1>1, AlertConstants, UnitsFinite DEF TypeOK
    <3> QED
      BY <3>1, FS_CardinalityType DEF Init, Total
  <2> QED
    BY <2>1, <2>2, <2>3 DEF DueTo
<1>3. TellInv
  <2>1. \A s \in Stocks : stock[s].alerted => fall[s] > 0
    BY DEF Init
  <2>2. \A j \in Jobs : job[j].status # "defer"
    BY DEF Init, NoJob
  <2>3. \A m \in Mails : mail[m].status = "unused"
    BY DEF Init, NoMail
  <2> QED
    BY <2>1, <2>2, <2>3 DEF TellInv, MailsTellLow
<1> QED
  BY <1>2, <1>3 DEF StormInv

\* A row that falls is counted before its flag is seen.
LEMMA ApiKeepsTell ==
    ASSUME AlertInv, TellInv, NEW s \in Stocks, Api(s) \/ Enqueue(s)
    PROVE  TellInv'
<1>1. TypeOK /\ FlagsTrue
  BY DEF AlertInv
<1>2. CASE Enqueue(s) \/ LoseAlert(s)
  <2>1. UNCHANGED <<stock, fall, mail>>
    BY <1>2 DEF Enqueue, LoseAlert, queue
  <2>2. \A j \in Jobs : job'[j].status = "defer" => job'[j] = job[j]
    <3>1. CASE job' # job
      <4>1. PICK i \in Jobs : job' = [job EXCEPT ![i].status = "todo", ![i].row = s]
        BY <1>2, <3>1 DEF Enqueue, LoseAlert, queue
      <4>2. job \in [Jobs -> JobRows]
        BY <1>1 DEF TypeOK
      <4>3. job'[i].status = "todo" /\ \A j \in Jobs \ {i} : job'[j] = job[j]
        BY <4>1, <4>2 DEF JobRows
      <4> QED
        BY <4>3
    <3> QED
      BY <3>1
  <2> QED
    BY <2>1, <2>2 DEF TellInv, MailsTellLow
<1>3. CASE Api(s) /\ ~LoseAlert(s)
  <2>1. PICK row \in Row : row.alerted = stock[s].alerted /\ CommitRow(s, row)
    BY <1>3, ApiCommitsRow
  <2>2. /\ stock' = [stock EXCEPT ![s] = Synced(row, ReorderPoint)]
        /\ fall' = IF IsLow(row, ReorderPoint) /\ ~IsLow(stock[s], ReorderPoint)
                   THEN [fall EXCEPT ![s] = @ + 1] ELSE fall
        /\ mail' = mail /\ job' = job
    BY <2>1 DEF CommitRow, queue
  <2>3. ASSUME NEW t \in Stocks, stock'[t].alerted PROVE fall'[t] > 0
    <3>1. stock \in [Stocks -> Row] /\ fall \in [Stocks -> Nat]
      BY <1>1 DEF TypeOK
    <3>2. CASE t # s
      BY <2>2, <2>3, <3>1, <3>2 DEF TellInv
    <3>3. CASE t = s
      <4>1. IsLow(row, ReorderPoint)
        BY <2>1, <2>2, <2>3, <3>1, <3>3 DEF Synced, Row
      <4>2. IsLow(stock[s], ReorderPoint) => fall[s] > 0
        BY <1>1 DEF FlagsTrue, TellInv
      <4> QED
        BY <2>2, <3>1, <3>3, <4>1, <4>2
    <3> QED
      BY <3>2, <3>3
  <2> QED
    BY <2>2, <2>3 DEF TellInv, MailsTellLow
<1> QED
  BY <1>2, <1>3

\* What a job has read stays what it tells, until it reads anew.
LEMMA JobKeepsTell ==
    ASSUME AlertInv, TellInv, NEW j \in Jobs, AlertStep(j) \/ AlertJobFails(j) \/ AlertJobStalls(j)
    PROVE  TellInv'
<1>1. TypeOK /\ FlagsTrue /\ job \in [Jobs -> JobRows] /\ mail \in [Mails -> MailRows]
  BY DEF AlertInv, TypeOK
<1>2. UNCHANGED <<stock, fall>> /\ \A i \in Jobs \ {j} : job'[i] = job[i]
  BY <1>1 DEF AlertStep, Start, Read, QueueMail, AlertJobFails, AlertJobStalls
<1>3. CASE Start(j) \/ AlertJobFails(j) \/ AlertJobStalls(j)
  <2>1. job'[j].status # "defer" /\ mail' = mail
    BY <1>1, <1>3 DEF Start, AlertJobFails, AlertJobStalls, NoJob, JobRows
  <2> QED
    BY <1>2, <2>1 DEF TellInv, MailsTellLow
<1>4. CASE Read(j)
  <2>1. PICK s \in Stocks : s = job[j].row
    BY <1>4 DEF Read, AlertInv, RowsKnown
  <2>2. mail' = mail
    BY <1>4 DEF Read
  <2>3. ASSUME job'[j].status = "defer"
        PROVE  job'[j].available <= ReorderPoint /\ job'[j].fall > 0
    <3>1. /\ job'[j].available = Available(stock[s]) /\ job'[j].fall = fall[s]
          /\ stock[s].alerted
      BY <1>1, <1>4, <2>1, <2>3 DEF Read, StillLow, JobRows
    <3>2. IsLow(stock[s], ReorderPoint) /\ fall[s] > 0
      BY <1>1, <3>1 DEF FlagsTrue, TellInv
    <3> QED
      BY <3>1, <3>2 DEF IsLow
  <2> QED
    BY <1>2, <2>2, <2>3 DEF TellInv, MailsTellLow
<1>5. ASSUME NEW u \in Users, QueueMail(j, u) PROVE TellInv'
  <2>1. job[j].status = "defer" /\ job[j].available <= ReorderPoint /\ job[j].fall > 0
    BY <1>5 DEF QueueMail, TellInv
  <2>2. job'[j].available = job[j].available /\ job'[j].fall = job[j].fall
    BY <1>1, <1>5 DEF QueueMail, JobRows
  <2>3. PICK m : m = <<j, job[j].attempt, u>>
    OBVIOUS
  <2>4. m \in Mails
    BY <1>1, <2>3 DEF Mails, JobRows
  <2>5. mail' = [mail EXCEPT ![m] = [NoMail EXCEPT !.status = "todo",
                                       !.available = job[j].available, !.fall = job[j].fall]]
    BY <1>5, <2>3 DEF QueueMail
  <2>6. mail'[m].available = job[j].available /\ mail'[m].fall = job[j].fall
    BY <1>1, <2>4, <2>5 DEF NoMail
  <2>7. \A n \in Mails \ {m} : mail'[n] = mail[n]
    BY <1>1, <2>5
  <2> QED
    BY <1>2, <2>1, <2>2, <2>4, <2>6, <2>7 DEF TellInv, MailsTellLow
<1> QED
  BY <1>3, <1>4, <1>5 DEF AlertStep

\* Sending a mail does not change what it says.
LEMMA MailKeepsTell ==
    ASSUME AlertInv, TellInv, NEW m \in Mails, NEW n \in {0, 1},
           SendMail(m) \/ SendFails(m, n) \/ MailJobStalls(m, n)
    PROVE  TellInv'
<1>1. UNCHANGED <<stock, fall, job>>
  BY DEF SendMail, SendFails, MailJobStalls
<1>2. /\ mail[m].status = "todo" /\ mail'[m].available = mail[m].available
      /\ mail'[m].fall = mail[m].fall
      /\ \A k \in Mails \ {m} : mail'[k] = mail[k]
  <2>1. mail \in [Mails -> MailRows]
    BY DEF AlertInv, TypeOK
  <2> QED
    BY <2>1 DEF SendMail, SendFails, MailJobStalls, MailRows
<1> QED
  BY <1>1, <1>2 DEF TellInv, MailsTellLow

\* No mail tells of a row that was not low when its job read it, and its numbers are of
\* that moment, for any number of rows, jobs, recipients, retries and faults.
THEOREM MailsTellOfDrops == Spec => []MailsTellLow
<1>1. ASSUME AlertInv, TellInv, Next PROVE TellInv'
  BY <1>1, ApiKeepsTell, JobKeepsTell, MailKeepsTell DEF Next
<1>2. ASSUME TellInv, UNCHANGED vars PROVE TellInv'
  BY <1>2 DEF TellInv, MailsTellLow, vars, queue
<1>3. Init => TellInv
  BY InitStorm
<1>4. TellInv => MailsTellLow
  BY DEF TellInv
<1> QED
  BY <1>1, <1>2, <1>3, <1>4, AlertInvHolds, PTL DEF Spec

\* Nobody is mailed more often than the rows fell low and jobs failed: deferring,
\* retrying and repeating together never mail more, however they interleave.
THEOREM MailsAreFewerThanDrops == Spec => []NoMailStorm
<1>1. ASSUME AlertInv, AlertInv', StormInv, Next PROVE StormInv'
  <2>1. TypeOK'
    BY <1>1 DEF AlertInv
  <2>2. ASSUME NEW u \in Users PROVE DueTo(u)'
    <3>0. AlertInv /\ TypeOK' /\ DueTo(u)
      BY <1>1, <2>1 DEF StormInv
    <3>1. ASSUME NEW s \in Stocks, Api(s), ~LoseAlert(s) PROVE DueTo(u)'
      <4>1. PICK row \in Row : row.alerted = stock[s].alerted /\ CommitRow(s, row)
        BY <3>0, <3>1, ApiCommitsRow
      <4> QED
        BY <3>0, <4>1, CommitKeepsStorm
    <3>2. ASSUME NEW s \in Stocks, Enqueue(s) \/ LoseAlert(s) PROVE DueTo(u)'
      BY <3>0, <3>2, EnqueueKeepsStorm
    <3>3. ASSUME NEW j \in Jobs, AlertStep(j) \/ AlertJobFails(j) \/ AlertJobStalls(j)
          PROVE  DueTo(u)'
      BY <3>0, <3>3, JobKeepsStorm, QueueMailKeepsStorm DEF AlertStep
    <3>4. ASSUME NEW m \in Mails, NEW n \in {0, 1},
                 SendMail(m) \/ SendFails(m, n) \/ MailJobStalls(m, n)
          PROVE  DueTo(u)'
      BY <3>0, <3>4, MailKeepsStorm
    <3> QED
      BY <1>1, <3>1, <3>2, <3>3, <3>4 DEF Next
  <2> QED
    BY <2>2 DEF StormInv
<1>2. ASSUME StormInv, UNCHANGED vars PROVE StormInv'
  BY <1>2 DEF StormInv, DueTo, MailDue, JobDue, MayMail, vars, queue
<1>3. Init => StormInv
  BY InitStorm
<1>4. ASSUME AlertInv, StormInv PROVE NoMailStorm
  <2> SUFFICES ASSUME NEW u \in Users
               PROVE  Total([m \in Mails |-> mail[m].delivered], MailsTo(u))
                        <= Total(fall, Stocks) + faults
    BY DEF NoMailStorm
  <2>1. PICK f, g, p, v, x : /\ f = [m \in Mails |-> mail[m].delivered] /\ g = MailDue
                             /\ p = JobDue(u) /\ v = owed /\ x = fall
    OBVIOUS
  <2>2. /\ IsFiniteSet(UnitsOf(g, MailsTo(u))) /\ IsFiniteSet(UnitsOf(p, Jobs))
        /\ Total(g, MailsTo(u)) + Total(p, Jobs) + Total(v, Stocks) <= Total(x, Stocks) + faults
    BY <1>4, <2>1 DEF StormInv, DueTo
  <2>3. \A m \in MailsTo(u) : f[m] \in Nat /\ g[m] \in Nat /\ f[m] <= g[m]
    <3>1. ASSUME NEW m \in MailsTo(u) PROVE m \in Mails /\ mail[m].delivered \in Nat
      BY <1>4 DEF MailsTo, AlertInv, TypeOK, MailRows
    <3> QED
      BY <2>1, <3>1 DEF MailDue
  <2>4. /\ Total(f, MailsTo(u)) \in Nat /\ Total(g, MailsTo(u)) \in Nat
        /\ Total(f, MailsTo(u)) <= Total(g, MailsTo(u))
    BY <2>2, <2>3, SmallerTerms
  <2>5. Total(p, Jobs) \in Nat
    BY <2>2, FS_CardinalityType DEF Total
  <2>6. Total(v, Stocks) \in Nat /\ Total(x, Stocks) \in Nat /\ faults \in Nat
    <3>1. v \in [Stocks -> Nat] /\ x \in [Stocks -> Nat] /\ faults \in Nat
      BY <1>4, <2>1 DEF AlertInv, TypeOK
    <3>2. IsFiniteSet(UnitsOf(v, Stocks)) /\ IsFiniteSet(UnitsOf(x, Stocks))
      BY <3>1, AlertConstants, UnitsFinite
    <3> QED
      BY <3>1, <3>2, FS_CardinalityType DEF Total
  <2>7. Total(f, MailsTo(u)) <= Total(x, Stocks) + faults
    BY <2>2, <2>4, <2>5, <2>6
  <2> QED
    BY <2>1, <2>7
<1> QED
  BY <1>1, <1>2, <1>3, <1>4, AlertInvHolds, PTL DEF Spec
=============================================================================
