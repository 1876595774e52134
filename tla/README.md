# Verification of Operations Management

TLA+ models of the Management API (FastAPI, SQLAlchemy, PostgreSQL, Redis, a
Procrastinate worker), the TLC configurations that check them on small
instances, and theorems checked by TLAPS.

## 1. The system

| Component | State it keeps | Operations | Talks to |
|---|---|---|---|
| Orders (`app/orders`) | `orders` (status), `order_items` | create, add item, remove item, confirm, cancel, complete | calls the inventory service in its own transaction |
| Inventory stock (`app/inventory/service.py`, `stock_repo.py`) | `inventory_stock` (quantity, reserved, alert flag), movements, `stock_reservation` | initialize, add, remove, adjust; reserve, release, fulfil | hands low-stock alerts to the worker after a commit |
| Inventory catalog (`product_repo`, `category_repo`, `location_repo`) | products, categories, locations | create, update, deactivate, delete | stock refers to products and locations |
| Replenishment (`replenishment.py`) | none | suggested order quantity | reads stock and movements |
| Low-stock alerts (`app/worker`) | job queue with a queueing lock per stock row | defer, run, retry | re-reads the row, mails every holder of `stock:alert` |
| Authentication (`app/auth`) | refresh tokens, reset tokens | login, refresh, logout, forgot, reset | users, mailer jobs |
| Users (`app/users`) | users (email, username, audit columns) | register, update profile, disable, enable | every call on an account reads it |
| RBAC (`app/rbac`) | roles, permissions, assignments | create and rename roles, assign and remove roles and permissions, check | guards every route |
| Rate limiter (`app/infra/rate_limit`) | a token bucket per key in Redis | take | guards public routes, fails open |
| Assistant (`app/assistant`) | usage counters in Redis | chat loop with tool calls | language model, inventory (read only) |
| Database session (`app/infra/database`) | one session per request | commit on success, roll back on error | all services |

The process is asynchronous: every `await` is a point where another request may
run, several processes may serve requests, and the database works at READ
COMMITTED. What is hard here:

- **Unlocked reads.** An order is read without a lock, its status is checked
  once, and it is written blindly at commit.
- **Row locks and the identity map.** Stock rows and reservations are read `FOR
  UPDATE`, but an object that is already in the session keeps the attributes it
  was first loaded with.
- **Two commits.** The stock desk commits a quantity and then its movement;
  `initialize_stock` commits the row and then its alert flag.
- **After the commit.** Alerts are deferred once the transaction is over, and
  may be lost.
- **Lock order.** `confirm_order` locks rows in the order of its items.
- **Look first, write later.** Catalogue, registration and roles look a name up
  before they write it, without a lock; what then stands in the way is a
  constraint of the table, if there is one.
- **After the answer.** What the rbac service writes is committed when the
  session dependency is left, after the response was sent.
- **At least once.** A job that fails is run again from its start.

What makes each part correct: an order's status, its reservations and the rows'
`reserved_quantity` agree; no commit promises more than there is; terminal
statuses stay; every unit has its movement; the flag of a row follows its level
and every raised flag is announced; every request ends. Tokens are used at most
once and never after revocation; a bucket never grants more than its capacity
and rate allow; a quota is never overdrawn by more than the requests in flight;
a drop of stock is mailed once, and once more per failure at most; a suggested
order is enough and not too much; nothing refers to a row that is gone, and an
identity belongs to one user.

## 2. Modules and how they correspond to the code

| Module | Models |
|---|---|
| `StockRow` | one `inventory_stock` row and what the service does to it in memory: `_sync_low_stock`, the availability check, reserve, release, fulfil, the three desk changes |
| `OrderFulfillment` | the orders and inventory services, the repositories and the database session, statement by statement |
| `ReservationBook` | the abstract promise: confirm, cancel and complete take effect in one step |
| `MCOrderFulfillment` | small instances for TLC |
| `Accounts` | login, logout, refresh, forgotten, reset and changed passwords, and disabling and enabling an account, commit by commit |
| `MCAccounts` | a small instance of it |
| `TokenBucket` | the Lua script of the rate limiter, the clock and the key expiry of Redis |
| `AssistantChat` | concurrent chats: the loop, the deadline, the budget, the daily quota and the connection pool |
| `Replenishment` | the arithmetic of restock suggestions, as operators on a `StockRow` |
| `LowStockAlerts` | from a committed drop of a row to the mails: the job queue, the worker, retries and failures |
| `Catalog`, `MCCatalog` | products, categories, locations and the opening of stock, statement by statement, and a small instance |
| `Directory`, `MCDirectory` | registration and profiles, roles, their assignment and the permission check, and small instances |
| `Sums` | sums as numbers of units, used by the two modules whose properties add up mails and costs |
| `OrderFulfillmentProofs`, `StockSafetyProofs`, `AccountsProofs`, `TokenBucketProofs`, `AssistantChatProofs`, `LowStockAlertsProofs`, `CatalogProofs`, `DirectoryProofs` | theorems |

`OrderFulfillment` composes orders and stock, which share a transaction.
`LowStockAlerts` takes over where a request's commit ends: it builds on the same
`StockRow`, through `Replenishment`, and composes the API, the queue and the
workers. The other modules share no state with these or with one another: the
services ask them only whether a request may go on.

### OrderFulfillment

A request `r` is one HTTP call with its SQLAlchemy session. `pc[r]` says which
statement comes next, `call[r]` holds the endpoint and its arguments.

| Variable | Code |
|---|---|
| `order`, `item` | `orders.status`, `order_items` |
| `resv`, `stock` | the committed `stock_reservation` and `inventory_stock` rows |
| `resvDraft`/`resvOwner`, `stockDraft`/`stockOwner` | newest row versions and who holds the row lock |
| `todo`, `cur` | what the `for item in order.items` loop still has, and where it is |
| `seen` | reservations the identity map shows RESERVED |
| `pending` | `InventoryService._pending_low_stock` |
| `delta` | the change whose `StockMovement` is still to be written |
| `announced` | low rows for which an alert was deferred since they fell; a row leaves it when it recovers |
| `audited` (in a row) | the quantity that the opening balance and the movements explain |

`Commit` publishes the versions `r` owns and frees its locks; `Rollback`
discards them. An order call is `ReadOrder` (which checks the status), then
`AddItem`, or `PickItem` and `RemoveItem`, or `ReadItems` and a loop:
`ReserveStock` (lock, check, `reserved += q`, sync the flag) and
`InsertReservation` per item for confirm; `LockReservation` (lock, check the
status the session knows) and `SettleStock` per reservation for cancel and
complete; and one commit. A refused step rolls everything back. A stock change
is `MoveStock` (lock, check, write, first commit) and `RecordMovement` (second
commit); opening a row is `InitializeStock`, `RefreshOpened`, `MarkOpened`.
`DeferAlert` is `flush_low_stock_alerts`.

Choices a reader should know of:

- A call that its first check rejects changes nothing and is not a step.
- The two `selectinload` queries of `get_order` are one step, after the one that
  reads the order row: items and reservations are read together.
- The loops visit items in any order: the query has no ORDER BY.
- `Blocked` looks at all the rows a loop has left, so an abort may come a little
  earlier than in PostgreSQL; aborting is always possible there, by
  `statement_timeout`.
- A stock change holds its row lock only between its SELECT and its first
  commit, with no other wait in between, so `MoveStock` is one step; the same
  for the insert of `initialize_stock`, whose unique constraint makes the loser
  of a race fail without effect.
- A second commit that times out leaves the first one in place. It is counted as
  a fault (`SecondCommitTimesOut`), together with crashes and lost alerts.
- Product and location lookups only read; where the service looks at what it read,
  their failure is a rejected call. `initialize_stock` does not look at the product:
  the unhandled error of an unknown one is `Catalog`'s, which models the opening of
  stock as a reference to a product and a location.
- `remove_item` waits for an uncommitted reservation of its item and is refused by a
  committed one (`Unreserved`: the foreign key of `stock_reservation`).
- `MarkOpened` writes the flag from the level that `RefreshOpened` read. When the row
  has recovered in between, the flag is up on a row that is not low, and the alert
  deferred for it announces nothing: `announced` does not take the row in.
- Order codes, names, timestamps and who did it are left out.

### Accounts

The auth repositories commit after every write, so a call is a chain of small
transactions and each action is one of them: `CheckUser` (the account is read
after the token), `Revoke` and `Issue` (rotation), `InvalidateResets` and
`StoreReset` (forgotten password), `SavePassword`, `SpendReset` and `RevokeAll`
(reset; a changed password has no token to spend), `Mark` (the audit columns).
`Crash` cuts a call off between two of them.

| Variable | Code |
|---|---|
| `password` | `users.hashed_password`, as the number of changes |
| `disabled` | `users.disabled_at`, `disabled_by`, `reason`; `is_active` follows from the first |
| `refresh`, `reset` | the two token tables |
| `expired` | tokens whose `expires_at` has passed |
| `pc`, `call`, `seen` | the next commit of a call, its arguments, the audit columns it loaded |

A refresh token also remembers its `parent` and the password its session was
opened with. These two, and `shared`, `crossed`, `closed`, `spent`, `unrevoked`
and `late`, are history: only properties read them. `Writes` is SQLAlchemy's
UPDATE, which names the columns whose value differs from the loaded one: this is
how two admin calls can leave half of an audit trail. A user is in `crossed`
while the last admin call on the account was overtaken by another between its
read and its write. Hashes, the mail and the
access token, which is stateless, are left out.

### TokenBucket

A token is `Part` parts and a tick of the clock refills `Refill` of them, so
fractional levels are exact; `Second` ticks are the unit of EXPIRE and of
Retry-After. `Consume` is the whole script: refill, decide, write back (a
refused request rewrites the bucket, too), set the expiry; it lets the request
in when Redis cannot be reached. `SetBack` is a correction of the server's
clock. A clock that is put forward is, to the script, time that has passed.
`used` and `earned` watch a window that may start at any moment, `promise` keeps
the first Retry-After a refused caller was given.

### AssistantChat

`pc` follows `AssistantService.chat`; `meter` is the `UsageMeter`, `used` the
Redis counter of a user and a day, `conn` the chats that hold a connection.
`Open` takes one for the permission check and `LoadPermissions` gives it back
before the first call of the model, `RunTools` and `CommitTools` likewise.
`Answer` is any answer of the model, at any cost in `Costs`; `Deadline` is the
cancellation by `wait_for`, at any await inside it; `Charge` is the `finally`
clause. A call that the deadline cuts off has returned no usage, so it is
metered nowhere: that is not counted as an answer. Whether the rate limiter and
the location check let a request through is left open here. `billed`,
`forgiven` and `lapses` are history.

### LowStockAlerts and Replenishment

| Variable | Code |
|---|---|
| `stock` | the committed `inventory_stock` rows, alert flag included |
| `owed` | alerts of committed changes that `flush_low_stock_alerts` has not deferred yet |
| `job` | `low_stock_alert` jobs: waiting (`todo`), running before and after their session (`read`, `defer`), or over |
| `mail` | `send_low_stock_email` jobs, by alert job, its attempt and the recipient |
| `holders` | active users with `stock:alert` |

A call of the API is one step here, its commit (`CommitRow`); what happens
inside it is `OrderFulfillment`'s. `Enqueue` is the deferral: a waiting job of
the same row (`Waiting`) holds the queueing lock and the alert is dropped; any
other exception is swallowed (`LoseAlert`). `Read` is the job's session, which
reads row and recipients again; `QueueMail` queues one mail, a transaction of
its own. `AlertJobFails` runs the job again from the start while retries are
left, unless another job of the row waits by then; a mail job is retried
likewise, and may have been delivered (`n = 1`) although it failed. A worker
that dies leaves its job running for ever (`AlertJobStalls`, `MailJobStalls`):
nothing in the code fetches stalled jobs. The queue is a library and modelled
from its use. Recipients do not change during a behaviour. `fall` numbers the
drops of a row; with `lost` and `delivered` it is history.

`Replenishment` is `evaluate`, cross-multiplied: no fractions, and what the
program's floats may get wrong is an input (`rounding`): a whole product may come
out a unit high after `ceil`, a coverage that equals the horizon may come out
above it.

### Catalog

`Catalog` has the calls of the inventory service that take no row lock. A call is
its statements in order: `CheckName` or `CheckSku` (the lookup), `Load` (the row
it changes), `CheckStock`, one write with its flush and commit, and `Refresh`
(the row is read once more after the commit). A write that a constraint forbids
is an unhandled error (`Fails`): the service catches none. The session keeps a
row as it first read it, so an UPDATE names the columns that differ from that
(`Column`), a renamed location is compared with the loaded name (`named`), and a
deleted category takes along the links that were loaded with it. `crossed`
of a call, `doubled` and `unlinked` are history.

An id that no row has is "not found" to the calls that look at what they read, and
those calls are left out. Three calls read a product and do not look:
`add_product_to_category` appends `None`, which the flush refuses,
`initialize_stock` meets the foreign key, `remove_product_from_category` finds
nothing to take out. They may name `Unknown`, a product that never exists
(`MayAskFor`).

### Directory

The users service commits inside the call, the rbac service does not: between
`Write` and `Commit` the call is `answered`, its write invisible to others, and a
second write of the same key waits (`Holders`). An assignment is a pair, of a
user and a role or of a role and a permission: the four calls have the same
shape. A permission check is three reads: the roles `get_current_user` loads,
the roles again, and the permissions of these; the loop then walks the first
roles, and one whose permissions were not loaded raises an error (`Decide`).
Nobody checks that the user a role is given to exists; the foreign key does,
and its error is not caught: a grant may name `Unknown`, a user that never exists,
and ends in an error. A DELETE waits for another DELETE of the same pair and then
finds nothing to do; a pair whose insert is not committed it does not see. `None` is
a field of a profile that is not given, `Null` one that is given as null, which the
columns refuse and the service answers as a taken identity. `Crash` matters only
between the answer and the commit.

## 3. Runs

Every run says `CHECK_DEADLOCK FALSE`: when all orders are settled and all item
identities, calls, chats or ticks are used up, the system may really stop.
Bounds: `MaxQuantity` caps what receipts and adjustments may reach, `MaxFaults`
the faults, `Items` the order lines ever created, `MaxPassword` the password
changes, `MaxCalls`, `MaxChats` and `MaxMoves` the calls, chats and changes of
stock of a behaviour, `MaxDay` the midnights, `MaxClock` the ticks and `MaxSteps`
the clock's corrections. `MaxRetries` is the code's own parameter, made smaller.

| Run | Instance | Shows |
|---|---|---|
| `serial_orders` | 2 orders, 2 items, 1 row, 2 requests, 1 fault; calls on one order do not overlap | types; `reserved` is the sum of the open reservations; only remove and adjust take promised goods; refinement of `ReservationBook` |
| `racing_orders` | 1 order, 2 items, 1 row, 3 requests, no restriction on callers | no commit oversells; every unit has a movement written or under way; the flag follows the level; every raised flag is announced or about to be; no reservation is left without its item |
| `waits_and_alerts` | 1 order, 2 rows of which one is opened during the run, 2 requests, fairness | every request ends, also when two confirms lock rows in opposite orders; a low row is announced, unless its flag has been up while it was not low; only `initialize_stock` sets a flag that disagrees with the level; `reserved` goes wrong only when two settlements of an order overlap; reservations follow the status of their order unless calls that change it overlap |
| `double_settlement` (violation) | 1 order, 2 requests | the identity map lets two settlements of one reservation through |
| `missing_movement` (violation) | desk, 1 crash | a quantity without its movement |
| `accounts` | 1 user, 1 admin, 3 refresh and 2 reset tokens, 3 requests, 5 calls, 1 fault | rotation neither forks nor resurrects a session; a session outlives a new password only where calls overlap or one is cut off; a reset token sets one password and only the latest is valid, unless calls on it overlap; a disabled account stays out; an audit trail is torn only by overlapping admin calls |
| `limiter` | 1 bucket of 2 tokens, 12 ticks, the clock set back once | no window of time is granted more than a full bucket and its refill; Retry-After is long enough and not a second too long |
| `assistant` | 1 user, 2 chats at a time, 3 in all, 1 connection, 1 midnight, 1 fault, fairness | every answer is charged or accounted for; the quota is overdrawn by at most the chats under way; the model never waits on a connection; every chat ends |
| `jobs` | 1 row, 2 recipients, 2 alert jobs, 1 retry, 3 changes of stock, 2 faults; 3 days of history, 2 days restocked for, 0, 3 or 4 units consumed; fairness | no drop is forgotten; a mail tells of a row that was low; nobody is mailed more often than rows fell plus failures; suggestions settle what they are about; every recipient hears of every lasting drop |
| `catalog` | 2 products and an unknown one, 3 categories, 3 locations, 2 SKUs, 2 names of each kind, 2 requests, 4 calls | nothing refers to what is gone; names are doubled only where calls overlap; errors are unhandled only there, of a doubled name, or of an unknown product; a product is born with a category; what was answered is in effect |
| `directory` | 3 users and an unknown one, 3 roles, 2 emails, usernames and role names, 1 permission, 2 requests, 4 calls, 1 fault | emails, usernames and role names are unique; a user call never ends in an unhandled error, a role call only when overtaken or of an unknown user; a pair is assigned once; a check overtaken by one change at most tells the truth of some moment |
| `late_revocation` (violation) | 1 user, 1 role, 2 requests, 2 calls | a revocation that was answered does not hold yet |

The instances are small because the interesting conflicts are between two
requests: two orders and one row make them compete for units, one order makes
them compete for its status, two rows make a lock cycle, a third request makes a
bystander whose commit falls between two steps of the others. Quantities of 1
with 2 units on hand and a reorder point of 1 reach "available", "low",
"exhausted" and "recovered". Requests, orders and items are symmetric in the
safety runs; the liveness run uses no symmetry.

In `accounts`, five calls are enough for a login, a forgotten password and a
reset with another login or refresh between any two of their commits, and three
requests for two racing calls and one that is cut off. In `limiter`, twelve
ticks are more than a key's life and a whole refill of the bucket, with a rate
that does not divide a token. In `assistant`, a budget of 3 with answers of 1
and 3 lets a chat stop at the budget, one below it and beyond it, and one
connection makes two chats wait for each other.

In `jobs`, three changes let a row fall, recover and fall again with a job of
the first drop still waiting or running, and two faults fail one job twice or
two jobs once; consumption of 3 and 4 in a window of 3 days gives a demand that
is whole and one that is rounded. In `catalog` and `directory`, four calls are two that race and
two that prepare or follow, such as a rename that meets a name just doubled; a third identity is
what a call creates beside those that are there.

The type invariants of `TokenBucket`, `LowStockAlerts`, `Accounts`, `AssistantChat` and
`Directory` are not run: they are part of what section 4 proves. `Catalog`'s is part
of `NothingDangles`.

The two safety runs of the orders differ in `SerialOrders`. Overselling, the ledger
and the flag do not depend on it. What reservations promise does: `serial_orders`
checks it for callers who make one call on an order at a time, `double_settlement`
shows what two overlapping settlements do, and `waits_and_alerts`, where all overlaps
happen, that nothing but overlapping settlements does it (`OnlySettlementsMiscount`).
Section 4 proves more: each promise under a condition on what the callers have done
so far, per order where it is about an order.

`FairSpec` assumes that an accepted request goes on (weak fairness of
`Advances`: the event loop runs every task that is ready, and a lock wait is
ended by the holder, the deadlock detector or `statement_timeout`) and that
`RecordMovement` and `MarkOpened`, which wait for a row that others may take
again and again, are served (strong fairness: PostgreSQL queues those that wait
for a row). No fairness is assumed of arriving calls, crashes or lost alerts.

`FairSpec` of `AssistantChat` assumes that a chat's own steps are run on by the
event loop and that the timer of `wait_for` goes off. Nothing is assumed of the
model: it may never answer.

`FairSpec` of `LowStockAlerts` assumes that a request that has committed goes on
to defer its alerts, and that a worker runs every job it finds (both are tasks of
an event loop). Failures, deaths of workers and the calls of the API happen or
not.

### Divergences found

The three violation runs, and, without a run of their own:

- Two overlapping calls on one order both pass the status check, and the later
  commit overwrites a terminal status (`orders/service.py:137`), which
  `docs/modules/orders.md:36` calls final.
- An item added while the order is being confirmed has no reservation
  (`orders/repository.py:66`; `docs/modules/orders.md:20`).
- `remove_stock` looks at the quantity and not at what is promised of it
  (`inventory/service.py:407`), so a completed order can leave a negative quantity
  (`docs/modules/inventory.md:41`). `OnlyTheDeskUncovers` is what holds.
- Two overlapping admin calls leave an account that was disabled by nobody for
  no reason (`users/service.py:127`; `docs/modules/users.md:23`).
  `AuditTrailTornByOverlap` is what holds.
- `initialize_stock` may flag a row that has recovered since it read it
  (`inventory/service.py:349`). The next drop of that row finds the flag up and is
  not alerted, though `docs/modules/inventory.md:52` has the flag cleared on recovery
  so that the next drop alerts again. `LowRowIsAnnounced` therefore leaves out rows
  that were flagged while they were not low, and `FlagsStrayAtOpening` says that
  nothing but `initialize_stock` makes such a row, and that the next change of its
  level puts the flag right.
- A product that does not exist, put into a category (`inventory/service.py:270`) or
  into stock (`inventory/service.py:330`), is an unhandled error and not "not found";
  so is a role given to a user who does not exist (`rbac/service.py:62`), and a
  category or location name that racing calls have doubled. `ErrorsExplained` of
  `Catalog` and of `Directory` say that, besides these, only calls that were
  overtaken fail so.
- A profile whose email or username is sent as null is answered "user already exists"
  (`users/router.py:57`, `users/service.py:64`).
- `docs/modules/orders.md` draws an arrow from CREATED to CANCELLED, and
  `Order.cancel` allows it, but `cancel_order` rejects an order that is not
  CONFIRMED (`orders/service.py:128`).

## 4. Proofs

Assumptions on the constants: `QuantitiesPositive` (the schema and the services
reject quantities below 1), `StockConstants` and `AlertConstants` (types of the
parameters; finitely many stock rows), `NoneIsFresh`, `BucketConstants` (positive
sizes and rates, a request costs no more than a full bucket), `AccountConstants`
(the kinds of identities are disjoint), `ChatConstants` (finitely many chats; an
answer costs between nothing and a largest amount), `PolicyIsValid` (a window and
a target of at least a day), `CatalogConstants` and `DirectoryConstants` (`None`,
`Null` and `Gone` are no identity and no name, and `Unknown` is an identity that
no call creates; roles are neither users nor permissions, names of categories are
not names of locations: different columns of different tables). Nothing is assumed
of how many requests, orders, items, users, tokens, jobs, products or roles there
are.

Two habits run through the proofs. A property about what has been done is seldom
inductive, because work that is half done breaks it; the strengthening says what
each call still has to do, or knows, at each step. And a sum is stated as the
number of the units its terms stand for (the cardinality of a union of piles,
`Sums`), so that "one term changes, the sum changes by as much" is a fact about
finite sets and needs no induction over them.

### Orders and stock under every race (`OrderFulfillmentProofs`)

- `StateWellFormed`: `Spec => [](TypeOK /\
  SessionsMakeSense)`. `TypeOK` alone is not inductive: that `SettleStock`
  writes a row needs the reservation at hand to exist, which is what
  `StepFitsCall` says of each step; it is preserved because items and
  reservations are never taken back (`Grows`) and committed reservations have
  newest versions (`DraftsCover`). One lemma per action.
- `NoStepOversells`: `Spec => NeverOversold`, with no restriction on callers. The
  inductive part is `PromiseBacked`: a newest version that promises more than the
  committed row is covered by its own quantity. `ReserveStock` establishes it
  because the check is made on the version it then writes; nobody else raises
  `reserved`.
- `FlagFollowsLevel`: with no `initialize_stock` in the workload,
  `Spec => []AlertFlagFollowsLevel`. Each committed row and each newest version is
  synced; every writer either syncs or leaves the level alone.
- `LedgerAccountsForStock`: `Spec => [](faults = 0 => LedgerBalances)`. The
  hypothesis is needed: `missing_movement` is the run in which a crash falls
  between the two commits. `Gap` is what a row holds and its movements do not
  explain; `Accounted` says that it is the units of the requests at `movement`, and
  `DraftsBooked` that a newest version has the gap of its committed row.
- `ReservationsKeepTheirItem`: `Spec => []NoOrphanHold`. A reservation is inserted only
  for an item that is there, its row is locked from then to the commit, and
  `RemoveItem` needs that lock free and the committed reservation absent.
- `RaisedFlagsAreAnnounced`: `Spec => ([]HonestFlags => []RaisedAlertIsAnnounced)`.
  `cancel_order` never flushes, so an alert it raised would be lost. It raises none,
  because what it releases is held on a row that was synced when the hold was
  committed and ever since (`AlertsInHand`, which faults do not break). From there
  `AlertsInTime`: who raises a flag owes its alert; and a flag that is up on low rows
  only is owed or announced. The condition is needed: an alert deferred for a row
  that is not low counts for nothing. `RaisedFlagsAreAnnouncedUnlessOpening` shows
  that it holds where no row is opened.
- `FlagsStrayOnlyAtOpening`: `Spec => FlagsStrayAtOpening`. A synced newest version
  belongs to every change of a level, so a step that leaves a flag wrong is one of
  `initialize_stock`, or leaves level and flag of the row alone; and a request that
  opened a low row keeps it in hand until it has flagged it.

### What the overlap of calls can do to an order (`StockSafetyProofs`)

Here the callers matter. The theorems do not restrict them by a constant: they say
what holds as long as a condition on the calls under way has held (`[]C => ...`), and
`SerialOrders`, the setting of `serial_orders`, is shown to imply every condition
(`SerialCallers`). Weakest first:

- Nothing is assumed for `SessionsFit`: a session handles and locks items of its own
  order, inside its loop only, and what it settles it has locked and has in its
  identity map. From it, also without an assumption:
  - `CallsOnlyGetNearer`, the part of `RequestsEnd` that is not fairness: `Left` bounds
    the steps a call has ahead of it once its items are read; every step of the call
    from there on, failures included, makes it smaller, and nobody else's step
    changes it.
  - `WaitersHaveHolders`: whoever waits for a row waits for another request that is
    still in its loop, never for one that has gone or for itself. A request does not
    meet a reservation of its own in its loop, as what it has locked has left the
    loop but for the item in hand (`LocksOnce`).
- `SettlementsApart`: no two of cancel and complete are at work on one order. Then
  what a loop's identity map shows RESERVED is still so (`MapsAreCurrent`): a
  confirmation cannot take the place of a reservation that is open, and only
  settlements close one. On it rests `TablesBalance`: a changed reservation and the
  row it is held on are locked by the same request (`ChangedIsOwned`); the counters
  balance in the committed rows and in the newest versions, but for the units a
  confirmation has reserved and not yet inserted a reservation for
  (`DraftsBalance`). One reservation more or less changes the held units by its
  quantity (`OneHoldMore`, `OneHoldLess`).
  - `OnlySettlementsCanMiscount`: `Spec => OnlySettlementsMiscount`. With
    `SerialOrders`, `CountersMatchReservations`.
  - `OnlySettlementsCanUncover`: `Spec => ([]SettlementsApart => OnlyTheDeskUncovers)`.
    Counts are never negative, so settling a reservation takes from `quantity` no more
    than it takes from `reserved`; a newest version fits whenever its committed one
    does (`DraftsFit`). With `SerialOrders`, `OrdersNeverUncover`.
- `OnItsOwn(o)`: one call at a time is on order `o`, while the calls on other orders
  overlap as they like. `MirroredOn(o)` says how far the call has come: the items of
  its order are either still in its loop, or locked with the status the call gives
  them (`OrderProgress`). COMMIT then moves the order and its reservations at once.
  - `OrdersAreIsolated`: the items of `o` have the reservations its status promises.
  - `OrdersMoveForward`: `o` goes from CREATED to CONFIRMED to CANCELLED or COMPLETED
    and no further, and a line of it is edited only while it is CREATED.
- `ChangesApart(o)`: no two of confirm, cancel and complete are at work on order `o`;
  add_item and remove_item overlap them as they like. `StatusGovernsHolds`: the items of
  `o` have no reservation, or the one its status calls for; `HoldsAlwaysFollowStatus` is
  the same of every order, `Spec => HoldsFollowStatus`. The one call that changes the
  order either still has an item in its loop or has locked its reservation with the
  status it will have; an item that was added meanwhile has none.
- `Serial`: all orders are on their own. `SerialCallsKeepTheBook`:
  `Spec => ([]Serial => ImplementsBook)`, the refinement of `ReservationBook`; with
  `SerialOrders`, `OrdersKeepTheBook`. Every step but a COMMIT of an order call or a
  step of the desk leaves the book alone. For a COMMIT, `OnCourse` says that the call
  has done to its items exactly what the book's step does to its lines, and
  `DraftsDraw` that what it takes from a row is what the reservations it fulfils held
  there; that a confirm does not overdraw is `PromiseBacked` again.

The conditions are needed: `double_settlement` is a run without the first, the
unreserved item of section 3 is a behaviour without the second, and the overwritten
terminal status one without the third.

### Accounts (`AccountsProofs`)

One strengthening, `AccountInv`, carries all results: `CallsMakeSense` says at which
transaction a call may be and with which token (`Fits`), `HeldIsStored` and
`FreshUnspent` that a token nobody stored is held by nobody. On top of it:

- `ResetTokensSpentOnce`: `SpentInv`. That a spent token is no longer valid is
  not inductive: between `save_user` and `invalidate` it is, and then its one
  holder is about to invalidate it.
- `LatestResetOnly`: `LatestInv` adds that a call about to store a token finds
  no valid one of its user, but for those stored across calls.
- `OneHeirPerToken`: `RotationInv`, that an unshared token has one holder, who
  finds it active until he revokes it, and that revoked but unclosed tokens have
  an heir or a holder at `issue`. Counting comes last (`SoundInNumbers`).
- `OldSessionsExplained`: `OldInv` adds the calls that are about to store a
  session, whose password may be old for the same reasons as a stored one's.
- `DisabledGetNothing`, an action property, from `LateInv`: a call begun on a
  disabled account is one that will check it again, or stores nothing.
- `AuditTornByOverlapOnly`: `AuditInv` adds `MarksAreInformed`, that a call
  nobody overtook has loaded the columns as they still are.

### Rate limiter (`TokenBucketProofs`)

- `WindowIsBounded`: `LimiterSpec => []WindowBounded`. `WindowBounded` is not
  inductive: a bucket could be fuller than the window has earned. `LevelBounded`
  counts what is left in the bucket, too; an expired key counts as a full bucket,
  so one needs that a key outlives its refill: `ExpiresOnTime` and the arithmetic
  of `LifetimeSuffices`.
- `RetryAfterIsKept`: `LimiterSpec => []RetryAfterHolds`. The promise is about a
  moment to come; `Due` says what it takes now: with the refill of the time until
  then the bucket suffices, and a second earlier it does not (`PromiseInv`). A tick
  moves as much from the time to come into the bucket, a refused request writes
  back the level it found, and a key that expires was full.

### Assistant (`AssistantChatProofs`)

- `QuotaOverdrawnByChatsUnderWay`: what is charged is not inductive, as the quota
  is read at one moment and charged at another; `OvershootInv` adds the largest cost
  of every chat that has passed the quota and is not charged yet.
- `ModelWaitsWithoutConnection` follows from where a chat may hold a connection
  (`ChatsMakeSense`).
- `EveryAnswerIsAccountedFor`: `Spec => []UsageAccounted`. The costs of an answer
  move from the meter to the counter of the day, or are lost, one chat and one day
  at a time (`AccountsStayRight`); a chat that is not under way has nothing on its
  meter (`MetersFit`), so nothing is set back to zero that was not charged.

### Low-stock alerts and suggestions (`LowStockAlertsProofs`)

- `AlertsStayAnnounced`: `DropIsAnnounced` is inductive once every job's row is
  known (`RowsKnown`) and the flags are true (`FlagsTrue`); `JobStepAnnounces` is
  the step of any job.
- `MailsTellOfDrops`: `TellInv`, that a flagged row has fallen and a job that is
  queueing mails has read a flagged row.
- `MailsAreFewerThanDrops`: `StormInv` counts, besides the mails delivered to a
  user, what is due: mails that wait, jobs that have yet to mail the user, alerts
  that are yet to be queued. Each step only moves that on, and it grows with a drop
  or a failure only (`DueMoves`). The jobs may be infinitely many.
- `SuggestionSettles`: for every row, policy, consumption and rounding, the
  suggested order leaves the row above its reorder point and stocked for the
  target days, is asked for once, and a unit less, rounding aside, would not do.
  From `WholeUnitsIsLeast` (a rounded-up quotient is the least whole number that
  covers) and `DemandCovers`. `SuggestionsSettle` applies it to every reachable row.

### Catalog (`CatalogProofs`)

`NothingRefersToWhatIsGone`, `OnlyCrossedCallsShareNames`,
`ProductsAreBornCategorised`, `ErrorsAreExplained` and `WhatIsDoneIsInEffect` are
conjuncts or consequences of one invariant, `CatalogInv`. A call that no other call
about the same thing has crossed still knows what it has read (`Knows`): the name or
SKU it looked up is free, the row it loaded is there with its columns, the location
is without stock. A commit changes only what its call is about (`CommitsOnly`), and
the calls it crosses are those about the same. So an uncrossed call writes what it knows to be possible,
which excludes errors, namesakes and dangling references, and what it wrote is in
effect when it is done.

### Directory (`DirectoryProofs`)

`DirectoryInv` says what a call at each step knows of the tables. A writer that has
answered and not yet committed owns its key (`KeyIsHeld`), and no second one of the
key may have answered; a call that has only looked knows the key is free until
another crosses it (`KeyUnlessCrossed`).

- `KeysStayUnique`, `PairsGrantedOnce` (an action property) and `ErrorsAreExplained`
  follow from these. `DirectoryWellTyped` is the type invariant alone.
- `VerdictsWereTrue`: `Spec => []VerdictsExplained`. A check remembers the roles of a
  table `was` from which at most one change leads to the present one (`Explains`).
  One change either adds or removes, so a mixture of the two tables grants no more
  than the larger and no less than the smaller of them.

### Only model-checked

The liveness properties (`RequestsEnd`, `LowRowIsAnnounced`, `ChatsEnd`,
`DropIsMailed`): fairness and `ENABLED` are out of the prover's reach. Of
`RequestsEnd`, the two theorems above are proved. They leave out that waiting requests
can wait for each other in a circle, which the fairness of the database's deadlock
detector ends. Every other property of a passing run is proved, some of them under a
hypothesis that the runs make by their settings, as said above: callers who do not
overlap calls on one order, no fault, or no `initialize_stock`.

## 5. Not modelled

- Configuration, logging, tracing, the health check, the mailer, the
  language-model client, password hashing and token encoding: pure I/O or
  libraries. Seeding and migrations run once, before the program.
- The connection pool, but for the assistant's chats, which wait on something
  slow: elsewhere it only delays requests.
- The generation of order codes and its retry on a collision: a fresh order is
  inserted, or nothing was written.
- The job that mails a reset link: one more job with retries, without a queueing
  lock, and nothing reads its outcome.
- Columns that only describe (names of products, addresses, timestamps), and the
  order and the paging of lists.
- `FAILED` of `ReservationStatus` is never assigned.

## 6. Plan

The components with state of their own are modelled, and every safety property of a
passing run is a theorem. What could be added:

- a common refinement of `OrderFulfillment` and `LowStockAlerts`, which share
  `StockRow` and meet at `CommitRow`, so that one behaviour reaches from an order to
  the mails; the product of the two is beyond TLC at useful bounds;
- the retry of `OrderRepository.create_order` after a collision of order codes, with
  the session that the collision has rolled back (`orders/repository.py:49`).
