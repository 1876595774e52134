--------------------------- MODULE AssistantChat ---------------------------
(***************************************************************************)
(* The assistant: concurrent chat requests that loop over calls of the      *)
(* language model and of read-only tools, under a budget per request, a     *)
(* daily quota per user that lives in Redis, and one deadline.              *)
(*                                                                         *)
(* The quota is read when a chat starts and charged when it has ended, in   *)
(* whatever way it ended.  A chat borrows a database connection from a      *)
(* bounded pool for its queries and gives it back before it waits for the   *)
(* model.  What the model says is one of the ways the loop can go on, and   *)
(* whether the rate limiter (TokenBucket) admits the request is left open.  *)
(***************************************************************************)
EXTENDS Integers, FiniteSets, FiniteSetsExt, Sums

CONSTANTS
    Users,
    Chats,           \* requests that may be open at the same time
    Costs,           \* what one answer of the model may cost
    MaxIterations, MaxCostPerRequest, DailyCostPerUser,
    PoolSize,        \* connections of the database pool
    MaxChats,        \* bound on the chats of a behaviour
    MaxDay,          \* bound on midnights
    MaxFaults,       \* bound on crashes and outages of Redis
    None

ASSUME ChatConstants ==
    /\ IsFiniteSet(Chats)
    /\ Costs \subseteq Nat /\ \E most \in Costs : \A c \in Costs : c <= most
    /\ MaxIterations \in Nat \ {0} /\ MaxCostPerRequest \in Nat \ {0}
    /\ DailyCostPerUser \in Nat \ {0} /\ PoolSize \in Nat \ {0}
    /\ MaxChats \in Nat /\ MaxDay \in Nat /\ MaxFaults \in Nat
    /\ None \notin Users

VARIABLES
    pc, user,    \* where each chat is, and whose it is
    meter,       \* UsageMeter.cost_units
    turns,       \* answers of the model
    conn,        \* chats that hold a database connection
    used,        \* used[u][d]: the quota counter of user u and day d
    day, reachable,
    billed,      \* billed[u]: the cost of every answer u was given
    forgiven,    \* forgiven[u]: costs lost in an outage of Redis or a crash
    lapses,      \* lapses[u]: chats let in because Redis did not answer
    chats, faults

chat    == <<pc, user, meter, turns>>
history == <<billed, forgiven, lapses>>
vars    == <<chat, conn, used, day, reachable, history, chats, faults>>

PCs == {"idle", "limit", "quota", "permissions", "loop", "llm", "tools", "commit",
        "charge", "close"}

Days == 0..MaxDay

Init ==
    /\ pc = [c \in Chats |-> "idle"]
    /\ user = [c \in Chats |-> None]
    /\ meter = [c \in Chats |-> 0]
    /\ turns = [c \in Chats |-> 0]
    /\ conn = {}
    /\ used = [u \in Users |-> [d \in Days |-> 0]]
    /\ day = 0 /\ reachable = TRUE
    /\ billed = [u \in Users |-> 0]
    /\ forgiven = [u \in Users |-> 0]
    /\ lapses = [u \in Users |-> 0]
    /\ chats = 0 /\ faults = 0

Goto(c, next) == pc' = [pc EXCEPT ![c] = next]

-----------------------------------------------------------------------------
(* Before the loop *)

\* require_permission opens the session's transaction.
Open(c, u) ==
    /\ pc[c] = "idle" /\ chats < MaxChats
    /\ Cardinality(conn) < PoolSize
    /\ conn' = conn \cup {c}
    /\ user' = [user EXCEPT ![c] = u]
    /\ chats' = chats + 1
    /\ Goto(c, "limit")
    /\ UNCHANGED <<meter, turns, used, day, reachable, history, faults>>

\* rate_limit("assistant") and the current location.
Limit(c) ==
    /\ pc[c] = "limit"
    /\ Goto(c, "quota") \/ Goto(c, "close")
    /\ UNCHANGED <<user, meter, turns, conn, used, day, reachable, history, chats, faults>>

\* used_today: 0 when Redis does not answer.
UsedToday(u) == IF reachable THEN used[u][day] ELSE 0

CheckQuota(c) ==
    LET u == user[c] IN
    /\ pc[c] = "quota"
    /\ Goto(c, IF UsedToday(u) >= DailyCostPerUser THEN "close" ELSE "permissions")
    /\ lapses' = IF reachable THEN lapses ELSE [lapses EXCEPT ![u] = @ + 1]
    /\ UNCHANGED <<user, meter, turns, conn, used, day, reachable, billed, forgiven, chats, faults>>

\* Slip: the transaction stays open.
StillHeld(c) == conn

\* db.commit() gives the connection back to the pool.
Released(c) == conn \ {c}

LoadPermissions(c) ==
    /\ pc[c] = "permissions"
    /\ conn' = Released(c)
    /\ Goto(c, "loop")
    /\ UNCHANGED <<user, meter, turns, used, day, reachable, history, chats, faults>>

-----------------------------------------------------------------------------
(* The loop *)

\* Slip: only the calls are counted.
MayAskAnyway(c) == turns[c] < MaxIterations

MayAsk(c) == turns[c] < MaxIterations /\ meter[c] < MaxCostPerRequest

\* The head of the loop; without a call the chat ends with a fixed answer.
AskModel(c) ==
    /\ pc[c] = "loop"
    /\ Goto(c, IF MayAsk(c) THEN "llm" ELSE "charge")
    /\ UNCHANGED <<user, meter, turns, conn, used, day, reachable, history, chats, faults>>

\* The model pauses its turn, asks for tools, or ends (text, refusal, max_tokens).
Answer(c, cost) ==
    /\ pc[c] = "llm"
    /\ meter' = [meter EXCEPT ![c] = @ + cost]
    /\ turns' = [turns EXCEPT ![c] = @ + 1]
    /\ billed' = [billed EXCEPT ![user[c]] = @ + cost]
    /\ Goto(c, "loop") \/ Goto(c, "tools") \/ Goto(c, "charge")
    /\ UNCHANGED <<user, conn, used, day, reachable, forgiven, lapses, chats, faults>>

\* Slip: a chat that failed is not charged.
SkipCharge == "close"

\* The finally clause runs next.
OnFailure == "charge"

\* LLMError
ModelFails(c) ==
    /\ pc[c] = "llm"
    /\ Goto(c, OnFailure)
    /\ UNCHANGED <<user, meter, turns, conn, used, day, reachable, history, chats, faults>>

\* The tools run one after the other on the session: the first query takes a
\* connection.  Their own errors are results; another one ends the chat.
RunTools(c) ==
    /\ pc[c] = "tools"
    /\ \/ /\ Cardinality(conn) < PoolSize
          /\ conn' = conn \cup {c}
          /\ Goto(c, "commit") \/ Goto(c, OnFailure)
       \/ UNCHANGED conn /\ Goto(c, "commit")
    /\ UNCHANGED <<user, meter, turns, used, day, reachable, history, chats, faults>>

CommitTools(c) ==
    /\ pc[c] = "commit"
    /\ conn' = Released(c)
    /\ Goto(c, "loop")
    /\ UNCHANGED <<user, meter, turns, used, day, reachable, history, chats, faults>>

\* Slip: the timeout guards the queries only.
GuardedButModel == {"permissions", "loop", "tools", "commit"}

\* What asyncio.wait_for may cancel.
Guarded == {"permissions", "loop", "llm", "tools", "commit"}

Deadline(c) ==
    /\ pc[c] \in Guarded
    /\ Goto(c, OnFailure)
    /\ UNCHANGED <<user, meter, turns, conn, used, day, reachable, history, chats, faults>>

-----------------------------------------------------------------------------
(* After the loop *)

Charge(c) ==
    LET u == user[c] IN
    /\ pc[c] = "charge"
    /\ IF reachable
       THEN used' = [used EXCEPT ![u][day] = @ + meter[c]] /\ UNCHANGED forgiven
       ELSE forgiven' = [forgiven EXCEPT ![u] = @ + meter[c]] /\ UNCHANGED used
    /\ meter' = [meter EXCEPT ![c] = 0]
    /\ Goto(c, "close")
    /\ UNCHANGED <<user, turns, conn, day, reachable, billed, lapses, chats, faults>>

\* get_session closes the session.
Close(c) ==
    /\ pc[c] = "close"
    /\ conn' = conn \ {c}
    /\ user' = [user EXCEPT ![c] = None]
    /\ meter' = [meter EXCEPT ![c] = 0]
    /\ turns' = [turns EXCEPT ![c] = 0]
    /\ Goto(c, "idle")
    /\ UNCHANGED <<used, day, reachable, history, chats, faults>>

-----------------------------------------------------------------------------
(* The surroundings *)

Crash(c) ==
    /\ pc[c] # "idle" /\ faults < MaxFaults
    /\ faults' = faults + 1
    /\ forgiven' = [forgiven EXCEPT ![user[c]] = @ + meter[c]]
    /\ conn' = conn \ {c}
    /\ user' = [user EXCEPT ![c] = None]
    /\ meter' = [meter EXCEPT ![c] = 0]
    /\ turns' = [turns EXCEPT ![c] = 0]
    /\ Goto(c, "idle")
    /\ UNCHANGED <<used, day, reachable, billed, lapses, chats>>

LoseRedis ==
    /\ reachable /\ faults < MaxFaults
    /\ reachable' = FALSE /\ faults' = faults + 1
    /\ UNCHANGED <<chat, conn, used, day, history, chats>>

RedisBack ==
    /\ ~reachable
    /\ reachable' = TRUE
    /\ UNCHANGED <<chat, conn, used, day, history, chats, faults>>

\* Midnight UTC: the counter has the day in its key.
NextDay ==
    /\ day < MaxDay
    /\ day' = day + 1
    /\ UNCHANGED <<chat, conn, used, reachable, history, chats, faults>>

\* What the request does by itself; an answer of the model is not its doing.
Step(c) ==
    \/ Limit(c) \/ CheckQuota(c) \/ LoadPermissions(c) \/ AskModel(c)
    \/ RunTools(c) \/ CommitTools(c) \/ Charge(c) \/ Close(c)

Next ==
    \/ \E c \in Chats :
         \/ Step(c) \/ Deadline(c) \/ ModelFails(c) \/ Crash(c)
         \/ \E u \in Users : Open(c, u)
         \/ \E cost \in Costs : Answer(c, cost)
    \/ LoseRedis \/ RedisBack \/ NextDay

Spec == Init /\ [][Next]_vars

\* The event loop runs every request on and the timer of wait_for goes off.
FairSpec == Spec /\ \A c \in Chats : WF_vars(Step(c)) /\ WF_vars(Deadline(c))

-----------------------------------------------------------------------------
(* Properties *)

\* Types; no chat asks the model more often than MAX_ITERATIONS.
TypeOK ==
    /\ pc \in [Chats -> PCs]
    /\ user \in [Chats -> Users \cup {None}]
    /\ meter \in [Chats -> Nat]
    /\ turns \in [Chats -> 0..MaxIterations]
    /\ conn \subseteq Chats
    /\ used \in [Users -> [Days -> Nat]]
    /\ day \in Days /\ reachable \in BOOLEAN
    /\ billed \in [Users -> Nat]
    /\ forgiven \in [Users -> Nat]
    /\ lapses \in [Users -> Nat]
    /\ chats \in 0..MaxChats /\ faults \in 0..MaxFaults

ChatsOf(u) == {c \in Chats : user[c] = u}

\* Every answer the model gave is paid for: it is in a daily counter, still on the
\* meter of an open chat, or was lost with Redis or with the process, whether the
\* chat was answered, refused, failed, timed out or ran into its budget.
UsageAccounted ==
    \A u \in Users :
        billed[u] = Total(used[u], Days) + Total(meter, ChatsOf(u)) + forgiven[u]

\* What one chat can cost at most: the budget is looked at before a call, not during it.
MostPerChat == MaxCostPerRequest - 1 + Max(Costs)

\* The quota is read before and charged after a chat, so chats of one user at the same
\* time can exceed it, but by no more than they and those let in without a look at the
\* counter can cost.
QuotaOvershootBounded ==
    \A u \in Users, d \in Days :
        used[u][d] <= DailyCostPerUser - 1 + (Cardinality(Chats) + lapses[u]) * MostPerChat

\* No chat keeps a connection of the pool while it waits for the model
\* (assistant/service.py:94 and :164).
ModelHoldsNoConnection == \A c \in Chats : pc[c] = "llm" => c \notin conn

\* Every chat ends, even if the model never answers.
ChatsEnd == \A c \in Chats : pc[c] # "idle" ~> pc[c] = "idle"
=============================================================================
