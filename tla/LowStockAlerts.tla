--------------------------- MODULE LowStockAlerts ---------------------------
(***************************************************************************)
(* From a stock row that falls to its reorder point to the mails about it.  *)
(*                                                                         *)
(* A request commits the row, its alert flag included, and only then queues *)
(* a job.  A worker runs the job in another process: it reads the row and   *)
(* the recipients again and queues one mail job for each of them; further   *)
(* jobs send the mails.  Requests and jobs interleave, jobs fail and are    *)
(* run again from their start, workers die.                                 *)
(*                                                                         *)
(* The queue is a library: it refuses a job whose queueing lock another     *)
(* waiting job has, it runs a failed job again until its retries are spent, *)
(* and it leaves a job alone whose worker died.  OrderFulfillment has the   *)
(* transactions inside a request; here its commit is one step.  `fall`      *)
(* counts how often a row fell low; it is read by properties only, like     *)
(* `lost` and `delivered`.                                                  *)
(***************************************************************************)
EXTENDS Replenishment, Sums

CONSTANTS
    Stocks, Users, Jobs,
    OpeningQuantity,
    ReorderPoint,     \* of every row
    Quantities,       \* that a call may name
    MaxQuantity,      \* bound on what a row holds
    Consumptions,     \* units that may have left a row in the window
    MaxRetries,       \* of a job: RetryStrategy(max_attempts)
    MaxMoves,         \* bound on the changes of stock
    MaxFaults,        \* bound on failures
    None

ASSUME AlertConstants ==
    /\ OpeningQuantity \in Nat /\ ReorderPoint \in Nat /\ MaxQuantity \in Nat
    /\ Quantities \subseteq Nat /\ Consumptions \subseteq Nat
    /\ MaxRetries \in Nat /\ MaxMoves \in Nat /\ MaxFaults \in Nat
    /\ IsFiniteSet(Stocks) /\ None \notin Stocks

VARIABLES
    stock,      \* the committed rows
    owed,       \* owed[s]: alerts whose change is committed and that are not queued yet
    job,        \* the low_stock_alert jobs
    mail,       \* the send_low_stock_email jobs, by alert job, its attempt, and user
    holders,    \* active users with the permission stock:alert
    fall,       \* fall[s]: how often the row fell low
    lost,       \* rows an alert of which was given up
    moves, faults

queue == <<job, mail>>
vars  == <<stock, owed, queue, holders, fall, lost, moves, faults>>

Attempts == 0..MaxRetries

\* A job waits ("todo"), runs ("read", "defer"), or is over.
NoJob == [status |-> "unused", row |-> None, attempt |-> 0, left |-> {},
          available |-> 0, fall |-> 0]
JobRows == [status: {"unused", "todo", "read", "defer", "done", "failed", "stalled"},
            row: Stocks \cup {None}, attempt: Attempts, left: SUBSET Users,
            available: Int, fall: Nat]

NoMail == [status |-> "unused", attempt |-> 0, available |-> 0, fall |-> 0, delivered |-> 0]
MailRows == [status: {"unused", "todo", "sent", "failed", "stalled"}, attempt: Attempts,
             available: Int, fall: Nat, delivered: Nat]

Mails == Jobs \X Attempts \X Users

Init ==
    /\ stock = [s \in Stocks |-> Synced(NewRow(OpeningQuantity), ReorderPoint)]
    /\ owed = [s \in Stocks |-> IF stock[s].alerted THEN 1 ELSE 0]
    /\ job = [j \in Jobs |-> NoJob]
    /\ mail = [m \in Mails |-> NoMail]
    /\ holders \in SUBSET Users
    /\ fall = owed
    /\ lost = {}
    /\ moves = 0 /\ faults = 0

-----------------------------------------------------------------------------
(* The API *)

\* A call commits row s as `row`; its flag follows, and an alert is owed if it went up.
CommitRow(s, row) ==
    /\ moves < MaxMoves /\ moves' = moves + 1
    /\ row.quantity <= MaxQuantity
    /\ stock' = [stock EXCEPT ![s] = Synced(row, ReorderPoint)]
    /\ owed' = IF Raises(row, ReorderPoint) THEN [owed EXCEPT ![s] = @ + 1] ELSE owed
    /\ fall' = IF IsLow(row, ReorderPoint) /\ ~IsLow(stock[s], ReorderPoint)
               THEN [fall EXCEPT ![s] = @ + 1] ELSE fall
    /\ UNCHANGED <<queue, holders, lost, faults>>

\* add_stock, remove_stock, adjust_stock
Move(s, op, q) ==
    LET d == MovedQuantity(stock[s], op, q) - stock[s].quantity IN
    /\ MoveAllowed(stock[s], op, q)
    /\ CommitRow(s, Recorded([stock[s] EXCEPT !.quantity = @ + d], d))

\* What a confirmed, cancelled or completed order does to a row.
Reserve(s, q) == Covers(stock[s], q) /\ CommitRow(s, WithReserved(stock[s], q))
Release(s, q) == stock[s].reserved >= q /\ CommitRow(s, WithReleased(stock[s], q))
Fulfill(s, q) == stock[s].reserved >= q /\ CommitRow(s, WithFulfilled(stock[s], q))

\* Slip: a job that runs keeps the lock.
Unfinished(s) == {j \in Jobs : job[j].row = s /\ job[j].status \in {"todo", "read", "defer"}}

\* The jobs that hold the queueing lock of row s.
Waiting(s) == {j \in Jobs : job[j].row = s /\ job[j].status = "todo"}

\* defer_low_stock_alert: AlreadyEnqueued is no error.
Enqueue(s) ==
    /\ owed[s] > 0
    /\ owed' = [owed EXCEPT ![s] = @ - 1]
    /\ IF Waiting(s) # {} THEN UNCHANGED job
       ELSE \E j \in Jobs :
                /\ job[j] = NoJob
                /\ job' = [job EXCEPT ![j].status = "todo", ![j].row = s]
    /\ UNCHANGED <<stock, mail, holders, fall, lost, moves, faults>>

Fault == faults < MaxFaults /\ faults' = faults + 1

\* Any other exception is swallowed, and a process that dies tells nobody either.
LoseAlert(s) ==
    /\ owed[s] > 0
    /\ owed' = [owed EXCEPT ![s] = @ - 1]
    /\ lost' = lost \cup {s}
    /\ Fault
    /\ UNCHANGED <<stock, queue, holders, fall, moves>>

-----------------------------------------------------------------------------
(* The worker: low_stock_alert_job *)

Start(j) ==
    /\ job[j].status = "todo"
    /\ job' = [job EXCEPT ![j].status = "read"]
    /\ UNCHANGED <<stock, owed, mail, holders, fall, lost, moves, faults>>

\* Slip: the job believes what it was queued for.
StillLowAnyway(row) == TRUE

\* The alert is for a row that is low now.
StillLow(row) == row.alerted

\* list_emails_with_permission
Recipients == holders

\* The job's session: the row and the recipients; nothing to do ends the job.
Read(j) ==
    LET row == stock[job[j].row]
        to  == IF StillLow(row) THEN Recipients ELSE {}
    IN
    /\ job[j].status = "read"
    /\ job' = [job EXCEPT ![j].status = IF to = {} THEN "done" ELSE "defer",
                          ![j].left = to,
                          ![j].available = Available(row),
                          ![j].fall = fall[job[j].row]]
    /\ UNCHANGED <<stock, owed, mail, holders, fall, lost, moves, faults>>

\* Slip: the loop ends before the last recipient.
RestButLast(left, u) == IF Cardinality(left) <= 2 THEN {} ELSE left \ {u}

Rest(left, u) == left \ {u}

\* One mail job for the next recipient, a transaction of its own.
QueueMail(j, u) ==
    LET rest == Rest(job[j].left, u) IN
    /\ job[j].status = "defer" /\ u \in job[j].left
    /\ mail' = [mail EXCEPT ![<<j, job[j].attempt, u>>] =
                   [NoMail EXCEPT !.status = "todo", !.available = job[j].available,
                                  !.fall = job[j].fall]]
    /\ job' = [job EXCEPT ![j].left = rest,
                          ![j].status = IF rest = {} THEN "done" ELSE "defer"]
    /\ UNCHANGED <<stock, owed, holders, fall, lost, moves, faults>>

\* RetryStrategy
MayRetry(attempt) == attempt < MaxRetries

Running == {j \in Jobs : job[j].status \in {"read", "defer"}}

\* An exception: the job waits to be run again, unless another job of its row does.
AlertJobFails(j) ==
    /\ j \in Running
    /\ Fault
    /\ LET again == MayRetry(job[j].attempt)
           retry == [NoJob EXCEPT !.status = "todo", !.row = job[j].row,
                                  !.attempt = job[j].attempt + 1]
       IN
       /\ job' = [job EXCEPT ![j] = IF again /\ Waiting(@.row) = {} THEN retry
                                    ELSE [@ EXCEPT !.status = "failed"]]
       /\ lost' = IF again THEN lost ELSE lost \cup {job[j].row}
    /\ UNCHANGED <<stock, owed, mail, holders, fall, moves>>

\* The worker dies; nobody takes the job over.
AlertJobStalls(j) ==
    /\ j \in Running
    /\ Fault
    /\ job' = [job EXCEPT ![j].status = "stalled"]
    /\ lost' = lost \cup {job[j].row}
    /\ UNCHANGED <<stock, owed, mail, holders, fall, moves>>

-----------------------------------------------------------------------------
(* The worker: send_low_stock_email_job *)

RowOf(m) == job[m[1]].row

SendMail(m) ==
    /\ mail[m].status = "todo"
    /\ mail' = [mail EXCEPT ![m].status = "sent", ![m].delivered = @ + 1]
    /\ UNCHANGED <<stock, owed, job, holders, fall, lost, moves, faults>>

\* The provider refuses the mail, or takes it and its answer is lost (n = 1).
SendFails(m, n) ==
    /\ mail[m].status = "todo"
    /\ Fault
    /\ LET again == MayRetry(mail[m].attempt) IN
       /\ mail' = [mail EXCEPT ![m].status = IF again THEN "todo" ELSE "failed",
                               ![m].attempt = IF again THEN @ + 1 ELSE @,
                               ![m].delivered = @ + n]
       /\ lost' = IF again THEN lost ELSE lost \cup {RowOf(m)}
    /\ UNCHANGED <<stock, owed, job, holders, fall, moves>>

MailJobStalls(m, n) ==
    /\ mail[m].status = "todo"
    /\ Fault
    /\ mail' = [mail EXCEPT ![m].status = "stalled", ![m].delivered = @ + n]
    /\ lost' = lost \cup {RowOf(m)}
    /\ UNCHANGED <<stock, owed, job, holders, fall, moves>>

-----------------------------------------------------------------------------

Api(s) ==
    \/ \E op \in {"add_stock", "remove_stock", "adjust_stock"}, q \in Quantities : Move(s, op, q)
    \/ \E q \in Quantities : Reserve(s, q) \/ Release(s, q) \/ Fulfill(s, q)
    \/ LoseAlert(s)

AlertStep(j) == Start(j) \/ Read(j) \/ \E u \in Users : QueueMail(j, u)

Next ==
    \/ \E s \in Stocks : Api(s) \/ Enqueue(s)
    \/ \E j \in Jobs : AlertStep(j) \/ AlertJobFails(j) \/ AlertJobStalls(j)
    \/ \E m \in Mails : SendMail(m) \/ \E n \in {0, 1} : SendFails(m, n) \/ MailJobStalls(m, n)

Spec == Init /\ [][Next]_vars

\* A request that has committed goes on, and a worker runs every job it finds.
FairSpec ==
    /\ Spec
    /\ \A s \in Stocks : WF_vars(Enqueue(s))
    /\ \A j \in Jobs : WF_vars(AlertStep(j))
    /\ \A m \in Mails : WF_vars(SendMail(m))

-----------------------------------------------------------------------------
(* Properties *)

\* Every variable has its type.
TypeOK ==
    /\ stock \in [Stocks -> Row]
    /\ owed \in [Stocks -> Nat]
    /\ job \in [Jobs -> JobRows]
    /\ mail \in [Mails -> MailRows]
    /\ holders \subseteq Users
    /\ fall \in [Stocks -> Nat]
    /\ lost \subseteq Stocks
    /\ moves \in Nat /\ faults \in Nat

\* Jobs that will look at row s, or have looked at it since it last fell.
Unread(s)  == {j \in Jobs : job[j].row = s /\ job[j].status \in {"todo", "read"}}
ReadNow(s) == {j \in Jobs : job[j].row = s /\ job[j].fall = fall[s]
                            /\ job[j].status \in {"defer", "done"}}

\* A drop is never forgotten: while a row is flagged and no failure lost its alert,
\* a request is about to queue a job, or a job has yet to read the row, or one has
\* read this very drop.  So the alert that defer_low_stock_alert throws away
\* because another waits is one that the waiting job makes good.
DropIsAnnounced ==
    \A s \in Stocks \ lost :
        stock[s].alerted => owed[s] > 0 \/ Unread(s) # {} \/ ReadNow(s) # {}

\* No mail tells of a row that is not low: a row that had recovered before the job
\* ran sends nothing, and the numbers of a mail are those of the moment the flag was
\* read, however long the job and its retries take.
MailsTellLow ==
    \A m \in Mails :
        mail[m].status # "unused" => mail[m].available <= ReorderPoint /\ mail[m].fall > 0

MailsTo(u) == {m \in Mails : m[3] = u}

\* Nobody is mailed more often than the rows fell low, but for one mail more with
\* every failure: a burst of changes queues one job, and only a job run again, or
\* a mail sent again, repeats a mail.
NoMailStorm ==
    \A u \in Users :
        Total([m \in Mails |-> mail[m].delivered], MailsTo(u)) <= Total(fall, Stocks) + faults

\* The suggestion for any row there is, whatever left it in the window, is right.
RestocksSettle ==
    \A s \in Stocks, used \in Consumptions, h \in Horizons, r \in Roundings :
        RestockSettles(stock[s], ReorderPoint, used, h, r)

ToldOf(s, d, u) ==
    \E m \in Mails : /\ RowOf(m) = s /\ m[3] = u
                     /\ mail[m].fall = d /\ mail[m].delivered > 0

\* Everyone who is to be alerted gets a mail about every drop, unless the row has
\* recovered by then or a failure lost the alert; a failed job alone does not.
DropIsMailed ==
    \A s \in Stocks, u \in Users, d \in 1..Cardinality(Jobs) :
        (stock[s].alerted /\ fall[s] = d /\ u \in holders)
            ~> (~stock[s].alerted \/ fall[s] # d \/ s \in lost \/ ToldOf(s, d, u))
=============================================================================
