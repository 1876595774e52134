------------------------- MODULE AssistantChatProofs -------------------------
(***************************************************************************)
(* For any number of chats, users, connections, days and faults: no chat    *)
(* waits for the model with a connection in its hands, the chats of a user  *)
(* overdraw the daily quota by no more than they may cost, and whatever the *)
(* model was paid for is accounted for.                                     *)
(*                                                                         *)
(* The quota is read at one moment and charged at another, so what has been *)
(* charged says too little: the chats that have passed the quota and were   *)
(* not charged yet count, too (OvershootInv).  The accounts are right       *)
(* because only one term of their sums changes at a time, and a meter that  *)
(* is set back to zero was charged or lost (MetersFit, AccountsStayRight).  *)
(***************************************************************************)
EXTENDS AssistantChat, FiniteSetTheorems, TLAPS

\* Where a chat may hold a connection, and where it has passed the quota.
Connected == {"limit", "quota", "permissions", "commit", "charge", "close"}
Admitted  == {"permissions", "loop", "llm", "tools", "commit", "charge"}

\* A chat has a user, holds a connection only around its queries, asks the model only
\* within its limits, and costs no more than it may.
ChatsMakeSense ==
    \A c \in Chats :
        /\ pc[c] # "idle" => user[c] \in Users
        /\ c \in conn => pc[c] \in Connected
        /\ pc[c] = "llm" => turns[c] < MaxIterations /\ meter[c] < MaxCostPerRequest
        /\ meter[c] <= MostPerChat

Uncharged(u) == {c \in Chats : user[c] = u /\ pc[c] \in Admitted}

Allowance(n) == n * MostPerChat

OvershootInv ==
    \A u \in Users, d \in Days :
        /\ d > day => used[u][d] = 0
        /\ used[u][d] + (IF d = day THEN Allowance(Cardinality(Uncharged(u))) ELSE 0)
             <= DailyCostPerUser - 1 + Allowance(Cardinality(Chats) + lapses[u])

ChatInv == TypeOK /\ ChatsMakeSense /\ OvershootInv

-----------------------------------------------------------------------------
(* Allowances and sets of chats *)

\* The budget is a number, and one answer costs no more than it leaves room for.
LEMMA MostPerChatTyped ==
    /\ MostPerChat \in Nat
    /\ \A cost \in Costs, m \in Nat :
          m < MaxCostPerRequest => m + cost <= MostPerChat
<1>1. /\ Max(Costs) \in Costs
      /\ \A cost \in Costs : cost <= Max(Costs)
  BY ChatConstants DEF Max
<1> DEFINE most == Max(Costs)
<1>2. most \in Nat /\ MostPerChat = MaxCostPerRequest - 1 + most
  BY <1>1, ChatConstants DEF MostPerChat
<1>3. \A cost \in Costs : cost \in Nat /\ cost <= most
  BY <1>1, ChatConstants
<1> HIDE DEF most
<1> QED
  BY <1>2, <1>3, ChatConstants

\* An allowance is a number and grows with the chats it is for.
LEMMA AllowanceGrows ==
    ASSUME NEW n \in Nat
    PROVE  /\ Allowance(n) \in Nat
           /\ Allowance(0) = 0
           /\ Allowance(n + 1) = Allowance(n) + MostPerChat
           /\ \A k \in Nat : n <= k => Allowance(n) <= Allowance(k)
BY MostPerChatTyped DEF Allowance

\* The uncharged chats of a user are finitely many, and no more than there are chats.
LEMMA UnchargedBounded ==
    ASSUME NEW u \in Users
    PROVE  /\ IsFiniteSet(Uncharged(u)) /\ IsFiniteSet(Uncharged(u)')
           /\ Cardinality(Uncharged(u)) \in Nat
           /\ Cardinality(Uncharged(u)') \in Nat
           /\ Cardinality(Chats) \in Nat
           /\ Cardinality(Uncharged(u)) <= Cardinality(Chats)
           /\ Cardinality(Uncharged(u)') <= Cardinality(Chats)
<1>1. IsFiniteSet(Chats)
  BY ChatConstants
<1>2. Uncharged(u) \subseteq Chats /\ Uncharged(u)' \subseteq Chats
  BY DEF Uncharged
<1>3. \A S \in SUBSET Chats : IsFiniteSet(S) /\ Cardinality(S) <= Cardinality(Chats)
  BY <1>1, FS_Subset
<1> QED
  BY <1>1, <1>2, <1>3, FS_CardinalityType

\* Where the counters stay and nobody passes the quota, the bound stays.
LEMMA BoundStays ==
    ASSUME ChatInv, UNCHANGED <<used, day, lapses>>,
           \A u \in Users : Uncharged(u)' \subseteq Uncharged(u)
    PROVE  OvershootInv'
<1> SUFFICES ASSUME NEW u \in Users, NEW d \in Days
             PROVE  /\ d > day => used[u][d] = 0
                    /\ used[u][d] + (IF d = day THEN Allowance(Cardinality(Uncharged(u)')) ELSE 0)
                         <= DailyCostPerUser - 1 + Allowance(Cardinality(Chats) + lapses[u])
  BY DEF OvershootInv
<1> DEFINE n == Cardinality(Uncharged(u))
           k == Cardinality(Uncharged(u)')
           bound == DailyCostPerUser - 1 + Allowance(Cardinality(Chats) + lapses[u])
<1>1. n \in Nat /\ k \in Nat /\ k <= n
  BY UnchargedBounded, FS_Subset
<1>2. /\ d > day => used[u][d] = 0
      /\ used[u][d] + (IF d = day THEN Allowance(n) ELSE 0) <= bound
  BY DEF ChatInv, OvershootInv
<1>3. used[u][d] \in Nat /\ day \in Nat /\ d \in Nat
  BY ChatConstants DEF ChatInv, TypeOK, Days
<1>4. Allowance(k) \in Nat /\ Allowance(n) \in Nat /\ Allowance(k) <= Allowance(n)
  <2> HIDE DEF n, k
  <2> QED
    BY <1>1, AllowanceGrows
<1>5. bound \in Int
  BY UnchargedBounded, AllowanceGrows, ChatConstants DEF ChatInv, TypeOK
<1> HIDE DEF n, k, bound
<1> QED
  BY <1>2, <1>3, <1>4, <1>5 DEF n, k, bound

\* A chat that goes from one step to the next passes the quota only at CheckQuota.
LEMMA StepPassesNoQuota ==
    ASSUME ChatInv, NEW c \in Chats, NEW next \in PCs, Goto(c, next),
           pc[c] \in Admitted \/ next \notin Admitted,
           UNCHANGED user \/ next \notin Admitted,
           \A b \in Chats \ {c} : user'[b] = user[b]
    PROVE  \A u \in Users : Uncharged(u)' \subseteq Uncharged(u)
<1>1. \A b \in Chats \ {c} : pc'[b] = pc[b]
  BY DEF ChatInv, TypeOK, Goto
<1>2. pc'[c] = next
  BY DEF ChatInv, TypeOK, Goto
<1> QED
  BY <1>1, <1>2 DEF Uncharged

-----------------------------------------------------------------------------
(* Initial states and steps *)

\* No chat is open and nothing was used.
LEMMA InitChatInv == Init => ChatInv
<1> SUFFICES ASSUME Init PROVE ChatInv
  OBVIOUS
<1> USE ChatConstants, MostPerChatTyped
<1>1. TypeOK
  BY DEF Init, TypeOK, PCs, Days
<1>2. ChatsMakeSense
  BY DEF Init, ChatsMakeSense
<1>3. ASSUME NEW u \in Users, NEW d \in Days
      PROVE  /\ d > day => used[u][d] = 0
             /\ used[u][d] + (IF d = day THEN Allowance(Cardinality(Uncharged(u))) ELSE 0)
                  <= DailyCostPerUser - 1 + Allowance(Cardinality(Chats) + lapses[u])
  <2>1. Uncharged(u) = {}
    BY DEF Init, Uncharged, Admitted
  <2>2. Allowance(Cardinality(Uncharged(u))) = 0
    BY <2>1, FS_EmptySet, AllowanceGrows
  <2>3. Allowance(Cardinality(Chats) + lapses[u]) \in Nat
    <3>1. Cardinality(Chats) \in Nat /\ lapses[u] \in Nat
      BY <1>1, UnchargedBounded DEF TypeOK
    <3>2. Cardinality(Chats) + lapses[u] \in Nat
      BY <3>1
    <3> QED
      BY <3>2, AllowanceGrows
  <2>4. used[u][d] = 0
    BY DEF Init
  <2> QED
    BY <2>2, <2>3, <2>4
<1> QED
  BY <1>1, <1>2, <1>3 DEF ChatInv, OvershootInv

\* Steps before the loop.
LEMMA ChatBegins ==
    ASSUME ChatInv, NEW c \in Chats, NEW u \in Users, Open(c, u)
    PROVE  ChatInv'
<1> USE ChatConstants, MostPerChatTyped
<1>1. TypeOK'
  BY DEF ChatInv, TypeOK, Open, Goto, PCs, history
<1>2. ChatsMakeSense'
  BY DEF ChatInv, TypeOK, ChatsMakeSense, Open, Goto, history, Connected
<1>3. OvershootInv'
  <2>1. "limit" \in PCs /\ "limit" \notin Admitted
    BY DEF PCs, Admitted
  <2>2. \A b \in Chats \ {c} : user'[b] = user[b]
    BY DEF Open, ChatInv, TypeOK
  <2>3. \A v \in Users : Uncharged(v)' \subseteq Uncharged(v)
    BY <2>1, <2>2, StepPassesNoQuota DEF Open
  <2> QED
    BY <2>3, BoundStays DEF Open, history
<1> QED
  BY <1>1, <1>2, <1>3 DEF ChatInv

\* Steps of a chat in which it neither passes the quota nor is charged.
LEMMA ChatGoesOn ==
    ASSUME ChatInv, NEW c \in Chats,
           \/ Limit(c) \/ LoadPermissions(c) \/ AskModel(c) \/ RunTools(c) \/ CommitTools(c)
           \/ Deadline(c) \/ ModelFails(c) \/ (\E cost \in Costs : Answer(c, cost))
    PROVE  ChatInv'
<1> USE ChatConstants, MostPerChatTyped
<1>1. CASE Limit(c)
  <2>1. TypeOK' /\ ChatsMakeSense'
    BY <1>1 DEF ChatInv, TypeOK, ChatsMakeSense, Limit, Goto, PCs, history, Connected
  <2>2. \A v \in Users : Uncharged(v)' \subseteq Uncharged(v)
    BY <1>1, StepPassesNoQuota DEF Limit, PCs, Admitted
  <2> QED
    BY <1>1, <2>1, <2>2, BoundStays DEF ChatInv, Limit, history
<1>2. CASE LoadPermissions(c)
  <2>1. TypeOK' /\ ChatsMakeSense'
    BY <1>2 DEF ChatInv, TypeOK, ChatsMakeSense, LoadPermissions, Released, Goto, PCs, history, Connected
  <2>2. \A v \in Users : Uncharged(v)' \subseteq Uncharged(v)
    BY <1>2, StepPassesNoQuota DEF LoadPermissions, PCs, Admitted
  <2> QED
    BY <1>2, <2>1, <2>2, BoundStays DEF ChatInv, LoadPermissions, history
<1>3. CASE AskModel(c)
  <2>1. TypeOK' /\ ChatsMakeSense'
    BY <1>3 DEF ChatInv, TypeOK, ChatsMakeSense, AskModel, MayAsk, Goto, PCs, history, Connected
  <2>2. \A v \in Users : Uncharged(v)' \subseteq Uncharged(v)
    BY <1>3, StepPassesNoQuota DEF AskModel, PCs, Admitted
  <2> QED
    BY <1>3, <2>1, <2>2, BoundStays DEF ChatInv, AskModel, history
<1>4. CASE RunTools(c)
  <2>1. TypeOK' /\ ChatsMakeSense'
    BY <1>4 DEF ChatInv, TypeOK, ChatsMakeSense, RunTools, OnFailure, Goto, PCs, history, Connected
  <2>2. \A v \in Users : Uncharged(v)' \subseteq Uncharged(v)
    BY <1>4, StepPassesNoQuota DEF RunTools, OnFailure, PCs, Admitted
  <2> QED
    BY <1>4, <2>1, <2>2, BoundStays DEF ChatInv, RunTools, history
<1>5. CASE CommitTools(c)
  <2>1. TypeOK' /\ ChatsMakeSense'
    BY <1>5 DEF ChatInv, TypeOK, ChatsMakeSense, CommitTools, Released, Goto, PCs, history, Connected
  <2>2. \A v \in Users : Uncharged(v)' \subseteq Uncharged(v)
    BY <1>5, StepPassesNoQuota DEF CommitTools, PCs, Admitted
  <2> QED
    BY <1>5, <2>1, <2>2, BoundStays DEF ChatInv, CommitTools, history
<1>6. CASE Deadline(c) \/ ModelFails(c)
  <2>1. TypeOK' /\ ChatsMakeSense'
    BY <1>6 DEF ChatInv, TypeOK, ChatsMakeSense, Deadline, ModelFails, Guarded, OnFailure, Goto, PCs,
                history, Connected
  <2>2. \A v \in Users : Uncharged(v)' \subseteq Uncharged(v)
    BY <1>6, StepPassesNoQuota DEF Deadline, ModelFails, Guarded, OnFailure, PCs, Admitted
  <2> QED
    BY <1>6, <2>1, <2>2, BoundStays DEF ChatInv, Deadline, ModelFails, history
<1>7. ASSUME NEW cost \in Costs, Answer(c, cost)
      PROVE  ChatInv'
  <2>0. cost \in Nat /\ pc[c] = "llm" /\ user[c] \in Users
    BY <1>7 DEF Answer, ChatInv, ChatsMakeSense
  <2>1. /\ meter'[c] = meter[c] + cost /\ turns'[c] = turns[c] + 1
        /\ meter[c] \in Nat /\ turns[c] \in 0..MaxIterations
        /\ turns[c] < MaxIterations /\ meter[c] < MaxCostPerRequest
    BY <1>7, <2>0 DEF Answer, ChatInv, TypeOK, ChatsMakeSense
  <2>2. TypeOK'
    <3>1. meter[c] + cost \in Nat /\ turns[c] + 1 \in 0..MaxIterations
      BY <2>0, <2>1
    <3>2. meter' \in [Chats -> Nat] /\ turns' \in [Chats -> 0..MaxIterations]
      BY <1>7, <3>1 DEF ChatInv, TypeOK, Answer
    <3>3. billed' \in [Users -> Nat]
      BY <1>7, <2>0 DEF ChatInv, TypeOK, Answer
    <3>4. pc' \in [Chats -> PCs]
      BY <1>7 DEF ChatInv, TypeOK, Answer, Goto, PCs
    <3> QED
      BY <1>7, <3>2, <3>3, <3>4 DEF ChatInv, TypeOK, Answer
  <2>3. meter'[c] <= MostPerChat
    BY <2>1
  <2>4. ChatsMakeSense'
    BY <1>7, <2>0, <2>3 DEF ChatInv, TypeOK, ChatsMakeSense, Answer, Goto, Connected
  <2>5. \A v \in Users : Uncharged(v)' \subseteq Uncharged(v)
    BY <1>7, StepPassesNoQuota DEF Answer, PCs, Admitted
  <2> QED
    BY <1>7, <2>2, <2>4, <2>5, BoundStays DEF ChatInv, Answer
<1> QED
  BY <1>1, <1>2, <1>3, <1>4, <1>5, <1>6, <1>7

\* The quota is read: who passes was seen below it, or counts as a lapse.
LEMMA QuotaKeepsInv ==
    ASSUME ChatInv, NEW c \in Chats, CheckQuota(c)
    PROVE  ChatInv'
<1> USE ChatConstants, MostPerChatTyped
<1> DEFINE u == user[c]
<1>0. u \in Users /\ pc[c] = "quota"
  BY DEF CheckQuota, ChatInv, ChatsMakeSense
<1>1. TypeOK' /\ ChatsMakeSense'
  BY <1>0 DEF ChatInv, TypeOK, ChatsMakeSense, CheckQuota, Goto, PCs, Connected
<1>9. UsedToday(u) \in Int
  BY <1>0 DEF UsedToday, ChatInv, TypeOK
<1>2. CASE UsedToday(u) >= DailyCostPerUser
  <2>1. reachable
    BY <1>2 DEF UsedToday
  <2>2. \A v \in Users : Uncharged(v)' \subseteq Uncharged(v)
    BY <1>2, StepPassesNoQuota DEF CheckQuota, PCs, Admitted
  <2> QED
    BY <1>1, <2>1, <2>2, BoundStays DEF ChatInv, CheckQuota
<1>3. CASE UsedToday(u) < DailyCostPerUser
  <2>0. UNCHANGED <<user, used, day>> /\ pc' = [pc EXCEPT ![c] = "permissions"]
    <3>1. ~(UsedToday(u) >= DailyCostPerUser)
      BY <1>3, <1>9
    <3> QED
      BY <3>1 DEF CheckQuota, Goto
  <2> SUFFICES ASSUME NEW v \in Users, NEW d \in Days
               PROVE  /\ d > day => used[v][d] = 0
                      /\ used[v][d] + (IF d = day THEN Allowance(Cardinality(Uncharged(v)')) ELSE 0)
                           <= DailyCostPerUser - 1 + Allowance(Cardinality(Chats) + lapses'[v])
    BY <1>1, <2>0 DEF OvershootInv, ChatInv
  <2> DEFINE n == Cardinality(Uncharged(v))
             k == Cardinality(Uncharged(v)')
             all == Cardinality(Chats)
  <2>1. n \in Nat /\ k \in Nat /\ all \in Nat /\ n <= all /\ k <= all
    BY UnchargedBounded
  <2>2. /\ d > day => used[v][d] = 0
        /\ used[v][d] + (IF d = day THEN Allowance(n) ELSE 0)
             <= DailyCostPerUser - 1 + Allowance(all + lapses[v])
        /\ used[v][d] \in Nat /\ lapses[v] \in Nat /\ lapses'[v] \in Nat
    BY <1>1 DEF ChatInv, OvershootInv, TypeOK
  <2>3. CASE v # u
    <3>1. Uncharged(v)' = Uncharged(v) /\ lapses'[v] = lapses[v]
      BY <2>0, <2>3 DEF Uncharged, CheckQuota, ChatInv, TypeOK
    <3> QED
      BY <2>2, <3>1
  <2>4. CASE v = u /\ reachable
    <3>1. used[v][day] <= DailyCostPerUser - 1
      <4>1. used[v][day] < DailyCostPerUser /\ used[v][day] \in Int
        BY <1>3, <1>9, <2>4 DEF UsedToday
      <4> QED
        BY <4>1
    <3>2. lapses'[v] = lapses[v]
      BY <2>4 DEF CheckQuota
    <3>3. Allowance(k) <= Allowance(all + lapses[v]) /\ Allowance(k) \in Nat
          /\ Allowance(all + lapses[v]) \in Nat /\ Allowance(n) \in Nat
      <4> HIDE DEF n, k, all
      <4>1. all + lapses[v] \in Nat /\ k <= all + lapses[v]
        BY <2>1, <2>2
      <4> QED
        BY <2>1, <4>1, AllowanceGrows
    <3> HIDE DEF n, k, all
    <3> QED
      BY <2>2, <3>1, <3>2, <3>3 DEF n, k, all
  <2>5. CASE v = u /\ ~reachable
    <3>1. lapses'[v] = lapses[v] + 1
      BY <2>5 DEF CheckQuota, ChatInv, TypeOK
    <3>2. k = n + 1
      <4>1. Uncharged(v)' = Uncharged(v) \cup {c} /\ c \notin Uncharged(v)
        BY <1>0, <2>0, <2>5 DEF Uncharged, Admitted, ChatInv, TypeOK
      <4> QED
        BY <4>1, UnchargedBounded, FS_AddElement
    <3>3. /\ Allowance(n) \in Nat /\ Allowance(k) = Allowance(n) + MostPerChat
          /\ Allowance(all + lapses[v]) \in Nat
          /\ Allowance(all + lapses'[v]) = Allowance(all + lapses[v]) + MostPerChat
      <4> HIDE DEF n, k, all
      <4>1. all + lapses'[v] = (all + lapses[v]) + 1 /\ all + lapses[v] \in Nat
        BY <2>1, <2>2, <3>1
      <4> QED
        BY <2>1, <3>2, <4>1, AllowanceGrows
    <3> HIDE DEF n, k, all
    <3> QED
      BY <2>2, <3>3 DEF n, k, all
  <2> QED
    BY <2>3, <2>4, <2>5
<1> QED
  BY <1>2, <1>3, <1>9

\* A chat is charged: what it has cost moves to the counter of the day.
LEMMA ChargeKeepsInv ==
    ASSUME ChatInv, NEW c \in Chats, Charge(c)
    PROVE  ChatInv'
<1> USE ChatConstants, MostPerChatTyped
<1> DEFINE u == user[c]
<1>0. /\ u \in Users /\ pc[c] = "charge" /\ day \in Days /\ day \in Nat
      /\ meter[c] \in Nat /\ meter[c] <= MostPerChat
      /\ pc' = [pc EXCEPT ![c] = "close"]
      /\ UNCHANGED <<user, turns, conn, day, reachable, billed, lapses, chats, faults>>
  BY DEF Charge, Goto, ChatInv, TypeOK, ChatsMakeSense, Days
<1>1. TypeOK'
  <2>1. used' \in [Users -> [Days -> Nat]]
    BY <1>0 DEF ChatInv, TypeOK, Charge
  <2>2. forgiven' \in [Users -> Nat]
    BY <1>0 DEF ChatInv, TypeOK, Charge
  <2> QED
    BY <1>0, <2>1, <2>2 DEF ChatInv, TypeOK, Charge, PCs
<1>2. ChatsMakeSense'
  BY <1>0 DEF ChatInv, TypeOK, ChatsMakeSense, Charge, Connected
<1>3. ASSUME NEW v \in Users, NEW d \in Days
      PROVE  /\ d > day => used'[v][d] = 0
             /\ used'[v][d] + (IF d = day THEN Allowance(Cardinality(Uncharged(v)')) ELSE 0)
                  <= DailyCostPerUser - 1 + Allowance(Cardinality(Chats) + lapses[v])
  <2> DEFINE n == Cardinality(Uncharged(v))
             k == Cardinality(Uncharged(v)')
             bound == DailyCostPerUser - 1 + Allowance(Cardinality(Chats) + lapses[v])
  <2>1. n \in Nat /\ k \in Nat
    BY UnchargedBounded
  <2>2. /\ d > day => used[v][d] = 0
        /\ used[v][d] + (IF d = day THEN Allowance(n) ELSE 0) <= bound
        /\ used[v][d] \in Nat /\ d \in Nat
    BY DEF ChatInv, OvershootInv, TypeOK, Days
  <2>3. bound \in Int
    <3>1. Cardinality(Chats) \in Nat /\ lapses[v] \in Nat
      BY UnchargedBounded DEF ChatInv, TypeOK
    <3>2. Cardinality(Chats) + lapses[v] \in Nat
      BY <3>1
    <3>3. Allowance(Cardinality(Chats) + lapses[v]) \in Nat
      BY <3>2, AllowanceGrows
    <3> QED
      BY <3>3
  <2>4. CASE v # u
    <3>1. Uncharged(v)' = Uncharged(v) /\ used'[v] = used[v]
      <4>1. Uncharged(v)' = Uncharged(v)
        BY <1>0, <2>4 DEF Uncharged, ChatInv, TypeOK
      <4>2. used' = used \/ used' = [used EXCEPT ![u][day] = @ + meter[c]]
        BY DEF Charge
      <4>3. used'[v] = used[v]
        BY <2>4, <4>2 DEF ChatInv, TypeOK
      <4> QED
        BY <4>1, <4>3
    <3> QED
      BY <2>2, <3>1
  <2>5. CASE v = u
    <3>1. n = k + 1
      <4>1. Uncharged(v)' = Uncharged(v) \ {c} /\ c \in Uncharged(v)
        BY <1>0, <2>5 DEF Uncharged, Admitted, ChatInv, TypeOK
      <4> QED
        <5>1. IsFiniteSet(Uncharged(v))
          BY UnchargedBounded
        <5>2. Cardinality(Uncharged(v) \ {c}) = Cardinality(Uncharged(v)) - 1
          BY <4>1, <5>1, FS_RemoveElement
        <5>3. k = n - 1
          BY <4>1, <5>2
        <5> HIDE DEF n, k
        <5> QED
          BY <2>1, <5>3
    <3>2. Allowance(k) \in Nat /\ Allowance(n) = Allowance(k) + MostPerChat
      <4> HIDE DEF n, k
      <4> QED
        BY <2>1, <3>1, AllowanceGrows
    <3>3. CASE d # day \/ ~reachable
      <4>1. used'[v][d] = used[v][d]
        <5>1. CASE ~reachable
          BY <5>1 DEF Charge
        <5>2. CASE reachable /\ d # day
          <6>1. used' = [used EXCEPT ![u][day] = @ + meter[c]]
            BY <5>2 DEF Charge
          <6>2. used'[u] = [used[u] EXCEPT ![day] = @ + meter[c]]
            BY <1>0, <6>1 DEF ChatInv, TypeOK
          <6> QED
            BY <1>0, <2>5, <5>2, <6>2 DEF ChatInv, TypeOK
        <5> QED
          BY <3>3, <5>1, <5>2
      <4> HIDE DEF n, k, bound
      <4> QED
        BY <2>2, <2>3, <3>2, <4>1 DEF n, k, bound
    <3>4. CASE d = day /\ reachable
      <4>1. used'[v][d] = used[v][d] + meter[c]
        BY <1>0, <2>5, <3>4 DEF Charge, ChatInv, TypeOK
      <4> HIDE DEF n, k, bound
      <4> QED
        BY <1>0, <2>2, <2>3, <3>2, <3>4, <4>1 DEF n, k, bound
    <3> QED
      BY <3>3, <3>4
  <2> QED
    BY <2>4, <2>5
<1>4. OvershootInv'
  BY <1>0, <1>3 DEF OvershootInv
<1> QED
  BY <1>1, <1>2, <1>4 DEF ChatInv

\* A chat ends, by itself or with its process.
LEMMA ChatEnds ==
    ASSUME ChatInv, NEW c \in Chats, Close(c) \/ Crash(c)
    PROVE  ChatInv'
<1> USE ChatConstants, MostPerChatTyped
<1>1. TypeOK'
  <2>1. CASE Close(c)
    BY <2>1 DEF ChatInv, TypeOK, Close, Goto, PCs, history
  <2>2. CASE Crash(c)
    <3>1. user[c] \in Users /\ meter[c] \in Nat
      BY <2>2 DEF ChatInv, TypeOK, ChatsMakeSense, Crash
    <3>2. forgiven' \in [Users -> Nat]
      BY <2>2, <3>1 DEF ChatInv, TypeOK, Crash
    <3> QED
      BY <2>2, <3>2 DEF ChatInv, TypeOK, Crash, Goto, PCs
  <2> QED
    BY <2>1, <2>2
<1>2. ChatsMakeSense'
  BY DEF ChatInv, TypeOK, ChatsMakeSense, Close, Crash, Goto
<1>3. OvershootInv'
  <2>1. \A b \in Chats \ {c} : user'[b] = user[b]
    BY DEF Close, Crash, ChatInv, TypeOK
  <2>2. \A v \in Users : Uncharged(v)' \subseteq Uncharged(v)
    BY <2>1, StepPassesNoQuota DEF Close, Crash, PCs, Admitted
  <2> QED
    BY <2>2, BoundStays DEF Close, Crash, history
<1> QED
  BY <1>1, <1>2, <1>3 DEF ChatInv

\* A new day starts with an empty counter, for which no chat was charged yet.
LEMMA MidnightKeepsInv ==
    ASSUME ChatInv, NextDay
    PROVE  ChatInv'
<1> USE ChatConstants, MostPerChatTyped
<1>0. /\ day \in Nat /\ day' = day + 1 /\ day' \in Days
      /\ UNCHANGED <<chat, conn, used, reachable, history, chats, faults>>
  BY DEF NextDay, ChatInv, TypeOK, Days
<1>1. TypeOK' /\ ChatsMakeSense'
  BY <1>0 DEF ChatInv, TypeOK, ChatsMakeSense, chat, history
<1>2. ASSUME NEW u \in Users, NEW d \in Days
      PROVE  /\ d > day' => used[u][d] = 0
             /\ used[u][d] + (IF d = day' THEN Allowance(Cardinality(Uncharged(u)')) ELSE 0)
                  <= DailyCostPerUser - 1 + Allowance(Cardinality(Chats) + lapses[u])
  <2> DEFINE n == Cardinality(Uncharged(u))
             k == Cardinality(Uncharged(u)')
             all == Cardinality(Chats)
  <2>1. n \in Nat /\ k \in Nat /\ all \in Nat /\ k <= all
    BY UnchargedBounded
  <2>2. /\ d > day => used[u][d] = 0
        /\ used[u][d] + (IF d = day THEN Allowance(n) ELSE 0)
             <= DailyCostPerUser - 1 + Allowance(all + lapses[u])
        /\ used[u][d] \in Nat /\ d \in Nat /\ lapses[u] \in Nat
    BY DEF ChatInv, OvershootInv, TypeOK, Days
  <2> HIDE DEF n, k, all
  <2>3. all + lapses[u] \in Nat /\ k <= all + lapses[u]
    BY <2>1, <2>2
  <2>4. /\ Allowance(n) \in Nat /\ Allowance(k) \in Nat
        /\ Allowance(all + lapses[u]) \in Nat /\ Allowance(k) <= Allowance(all + lapses[u])
    BY <2>1, <2>3, AllowanceGrows
  <2> QED
    BY <1>0, <2>2, <2>4 DEF n, k, all
<1>3. OvershootInv'
  BY <1>0, <1>2 DEF OvershootInv, history
<1> QED
  BY <1>1, <1>3 DEF ChatInv

\* Redis goes away or comes back.
LEMMA RedisKeepsInv ==
    ASSUME ChatInv, LoseRedis \/ RedisBack
    PROVE  ChatInv'
<1> USE ChatConstants
<1>0. UNCHANGED <<pc, user, meter, turns, conn, used, day, billed, forgiven, lapses, chats>>
  BY DEF LoseRedis, RedisBack, chat, history
<1>1. TypeOK'
  <2>1. reachable' \in BOOLEAN
    BY DEF LoseRedis, RedisBack
  <2>2. faults \in 0..MaxFaults
    BY DEF ChatInv, TypeOK
  <2>3. faults' \in 0..MaxFaults
    BY <2>2 DEF LoseRedis, RedisBack
  <2> QED
    BY <1>0, <2>1, <2>3 DEF ChatInv, TypeOK
<1>4. ChatsMakeSense'
  BY <1>0 DEF ChatInv, ChatsMakeSense, MostPerChat
<1>2. \A v \in Users : Uncharged(v)' = Uncharged(v)
  BY <1>0 DEF Uncharged
<1>3. OvershootInv'
  BY <1>0, <1>2, BoundStays
<1> QED
  BY <1>1, <1>3, <1>4 DEF ChatInv

\* What the bound says of the counters alone.
LEMMA OvershootFollows ==
    ASSUME ChatInv
    PROVE  QuotaOvershootBounded
<1> SUFFICES ASSUME NEW u \in Users, NEW d \in Days
             PROVE  used[u][d] <= DailyCostPerUser - 1 + Allowance(Cardinality(Chats) + lapses[u])
  BY DEF QuotaOvershootBounded, Allowance
<1> DEFINE n == Cardinality(Uncharged(u))
           all == Cardinality(Chats)
<1>1. n \in Nat /\ all \in Nat
  BY UnchargedBounded
<1>2. /\ used[u][d] + (IF d = day THEN Allowance(n) ELSE 0)
             <= DailyCostPerUser - 1 + Allowance(all + lapses[u])
      /\ used[u][d] \in Nat /\ lapses[u] \in Nat
  BY DEF ChatInv, OvershootInv, TypeOK
<1> HIDE DEF n, all
<1>3. all + lapses[u] \in Nat
  BY <1>1, <1>2
<1>4. Allowance(n) \in Nat /\ Allowance(all + lapses[u]) \in Nat
  BY <1>1, <1>3, AllowanceGrows
<1> QED
  BY <1>2, <1>4, ChatConstants DEF all

\* Every step keeps the invariant.
LEMMA ChatInvHolds == Spec => []ChatInv
<1>1. Init => ChatInv
  BY InitChatInv
<1>2. ChatInv /\ [Next]_vars => ChatInv'
  <2> SUFFICES ASSUME ChatInv, [Next]_vars PROVE ChatInv'
    OBVIOUS
  <2>1. ASSUME NEW c \in Chats, NEW u \in Users, Open(c, u) PROVE ChatInv'
    BY <2>1, ChatBegins
  <2>2. ASSUME NEW c \in Chats, Step(c) \/ Deadline(c) \/ ModelFails(c) \/ Crash(c)
        PROVE  ChatInv'
    BY <2>2, ChatGoesOn, QuotaKeepsInv, ChargeKeepsInv, ChatEnds DEF Step
  <2>3. ASSUME NEW c \in Chats, NEW cost \in Costs, Answer(c, cost) PROVE ChatInv'
    BY <2>3, ChatGoesOn
  <2>4. CASE LoseRedis \/ RedisBack \/ NextDay
    BY <2>4, RedisKeepsInv, MidnightKeepsInv
  <2>5. CASE UNCHANGED vars
    <3>1. \A v \in Users : Uncharged(v)' = Uncharged(v)
      BY <2>5 DEF vars, chat, Uncharged
    <3>2. OvershootInv'
      BY <2>5, <3>1, BoundStays DEF vars, history
    <3>3. TypeOK' /\ ChatsMakeSense'
      BY <2>5 DEF ChatInv, TypeOK, ChatsMakeSense, vars, chat, history
    <3> QED
      BY <3>2, <3>3 DEF ChatInv
  <2> QED
    BY <2>1, <2>2, <2>3, <2>4, <2>5 DEF Next
<1> QED
  BY <1>1, <1>2, PTL DEF Spec

-----------------------------------------------------------------------------
(* The theorems *)

\* Wherever chats, faults and midnights interleave, the daily quota is overdrawn by at
\* most the chats under way and those let in while Redis did not answer; every variable
\* has its type.
THEOREM QuotaOverdrawnByChatsUnderWay == Spec => [](TypeOK /\ QuotaOvershootBounded)
<1>1. ChatInv => TypeOK /\ QuotaOvershootBounded
  BY OvershootFollows DEF ChatInv
<1> QED
  BY <1>1, ChatInvHolds, PTL

\* No chat holds a database connection while it waits for the model, wherever the
\* deadline, a failure or a crash may cut it off.
THEOREM ModelWaitsWithoutConnection == Spec => []ModelHoldsNoConnection
<1>1. ChatInv => ModelHoldsNoConnection
  BY DEF ChatInv, ChatsMakeSense, Connected, ModelHoldsNoConnection
<1> QED
  BY <1>1, ChatInvHolds, PTL

-----------------------------------------------------------------------------
(* UsageAccounted: only one term of its sums changes at a time.              *)

\* What chats of user u have on their meters; nothing on those of others.
Share(u) == [c \in Chats |-> IF user[c] = u THEN meter[c] ELSE 0]

\* A chat that is not under way has nothing on its meter.
MetersFit ==
    \A c \in Chats :
        pc[c] \in {"idle", "limit", "quota", "permissions", "close"} => meter[c] = 0

\* A term of n stands for n units.
LEMMA PileOf ==
    ASSUME NEW x, NEW n \in Nat
    PROVE  IsFiniteSet({x} \X (1 .. n)) /\ Cardinality({x} \X (1 .. n)) = n
<1>1. IsFiniteSet({x}) /\ Cardinality({x}) = 1
  BY FS_Singleton
<1>2. IsFiniteSet(1 .. n) /\ Cardinality(1 .. n) = IF 1 > n THEN 0 ELSE n - 1 + 1
  BY FS_Interval
<1>3. /\ IsFiniteSet({x} \X (1 .. n))
      /\ Cardinality({x} \X (1 .. n)) = Cardinality({x}) * Cardinality(1 .. n)
  BY <1>1, <1>2, FS_Product
<1> QED
  BY <1>1, <1>2, <1>3

\* A sum changes by what one of its terms changes.
LEMMA OneTermChanges ==
    ASSUME NEW S, IsFiniteSet(S), NEW f, NEW g, NEW x \in S, f[x] \in Nat, g[x] \in Nat,
           \A y \in S \ {x} : g[y] = f[y], IsFiniteSet(UnitsOf(f, S))
    PROVE  /\ Total(f, S) \in Int /\ Total(g, S) \in Int
           /\ Total(g, S) = Total(f, S) - f[x] + g[x]
<1> DEFINE rest == UnitsOf(f, S \ {x})
           old == {x} \X (1 .. f[x])
           new == {x} \X (1 .. g[x])
<1>1. UnitsOf(f, S) = rest \cup old /\ UnitsOf(g, S) = rest \cup new
  <2>1. UnitsOf(g, S \ {x}) = rest
    BY DEF UnitsOf
  <2>2. S = (S \ {x}) \cup {x}
    OBVIOUS
  <2>3. /\ UnitsOf(f, (S \ {x}) \cup {x}) = rest \cup old
        /\ UnitsOf(g, (S \ {x}) \cup {x}) = UnitsOf(g, S \ {x}) \cup new
    BY DEF UnitsOf
  <2> QED
    BY <2>1, <2>2, <2>3
<1>2. rest \cap old = {} /\ rest \cap new = {}
  BY DEF UnitsOf
<1>4. IsFiniteSet(old) /\ Cardinality(old) = f[x]
  BY PileOf
<1>5. IsFiniteSet(new) /\ Cardinality(new) = g[x]
  BY PileOf
<1>6. Total(f, S) = Cardinality(UnitsOf(f, S)) /\ Total(g, S) = Cardinality(UnitsOf(g, S))
  BY DEF Total, UnitsOf
<1>7. IsFiniteSet(rest)
  BY <1>1, FS_Subset
<1> HIDE DEF rest, old, new
<1>8. Cardinality(rest) \in Nat /\ Cardinality({}) = 0
  BY <1>7, FS_CardinalityType, FS_EmptySet
<1>9. Cardinality(rest \cup old) = Cardinality(rest) + f[x]
  <2>1. Cardinality(rest \cup old)
          = Cardinality(rest) + Cardinality(old) - Cardinality(rest \cap old)
    BY <1>4, <1>7, FS_Union
  <2> QED
    BY <1>2, <1>4, <1>8, <2>1
<1>10. Cardinality(rest \cup new) = Cardinality(rest) + g[x]
  <2>1. Cardinality(rest \cup new)
          = Cardinality(rest) + Cardinality(new) - Cardinality(rest \cap new)
    BY <1>5, <1>7, FS_Union
  <2> QED
    BY <1>2, <1>5, <1>8, <2>1
<1> QED
  BY <1>1, <1>6, <1>8, <1>9, <1>10

\* A sum without terms but zeros is zero.
LEMMA ZeroTerms ==
    ASSUME NEW S, NEW f, \A x \in S : f[x] = 0
    PROVE  Total(f, S) = 0 /\ UnitsOf(f, S) = {}
<1>1. UnitsOf(f, S) = {}
  BY SMT DEF UnitsOf
<1> QED
  BY <1>1, FS_EmptySet DEF Total, UnitsOf

\* A sum of the same terms is the same.
LEMMA SameTerms ==
    ASSUME NEW S, NEW f, NEW g, \A x \in S : g[x] = f[x]
    PROVE  Total(g, S) = Total(f, S) /\ UnitsOf(g, S) = UnitsOf(f, S)
<1>1. UnitsOf(g, S) = UnitsOf(f, S)
  BY DEF UnitsOf
<1> QED
  BY <1>1 DEF Total, UnitsOf

\* Finitely many terms stand for finitely many units.
LEMMA UnitsFinite ==
    ASSUME NEW S, IsFiniteSet(S), NEW f \in [S -> Nat]
    PROVE  IsFiniteSet(UnitsOf(f, S))
<1> DEFINE piles == {{x} \X (1 .. f[x]) : x \in S}
           pile == [x \in S |-> {x} \X (1 .. f[x])]
<1>1. pile \in Surjection(S, piles)
  <2>1. \A T \in piles : \E x \in S : pile[x] = T
    BY Zenon
  <2>2. pile \in [S -> piles]
    BY Zenon
  <2> QED
    BY <2>1, <2>2, Zenon DEF Surjection
<1>2. IsFiniteSet(piles)
  BY <1>1, FS_Surjection
<1>3. ASSUME NEW T \in piles PROVE IsFiniteSet(T)
  <2>1. PICK x \in S : T = {x} \X (1 .. f[x])
    OBVIOUS
  <2>2. f[x] \in Nat
    OBVIOUS
  <2> QED
    BY <2>1, <2>2, PileOf
<1> QED
  BY <1>2, <1>3, FS_UNION DEF UnitsOf

\* What is on the meters of user u's chats is a sum over all chats.
LEMMA SharesAddUp ==
    ASSUME NEW m \in [Chats -> Nat], NEW mine \in SUBSET Chats, NEW share \in [Chats -> Nat],
           \A c \in Chats : share[c] = IF c \in mine THEN m[c] ELSE 0
    PROVE  IsFiniteSet(UnitsOf(share, Chats)) /\ Total(m, mine) = Total(share, Chats)
<1>1. \A c \in Chats : {c} \X (1 .. share[c])
                         = IF c \in mine THEN {c} \X (1 .. m[c]) ELSE {}
  OBVIOUS
<1>2. IsFiniteSet(UnitsOf(share, Chats))
  BY ChatConstants, UnitsFinite
<1>3. UnitsOf(m, mine) = UnitsOf(share, Chats)
  BY <1>1 DEF UnitsOf
<1>4. Total(m, mine) = Total(share, Chats)
  BY <1>3 DEF Total, UnitsOf
<1> QED
  BY <1>2, <1>4

\* What a step has to see to, in one chat and on one day, for the accounts to be right.
LEMMA AccountsStayRight ==
    ASSUME TypeOK, TypeOK', UsageAccounted, NEW c \in Chats, NEW u \in Users,
           \A b \in Chats \ {c} : user'[b] = user[b] /\ meter'[b] = meter[b],
           \A d \in Days \ {day} : used'[u][d] = used[u][d],
           billed'[u] - billed[u] = (Share(u)'[c] - Share(u)[c])
                                      + (used'[u][day] - used[u][day])
                                      + (forgiven'[u] - forgiven[u])
    PROVE  billed'[u] = Total(used'[u], Days) + Total(meter', ChatsOf(u)') + forgiven'[u]
<1>1. PICK f : /\ f = Share(u) /\ f \in [Chats -> Nat] /\ IsFiniteSet(UnitsOf(f, Chats))
               /\ Total(meter, ChatsOf(u)) = Total(f, Chats)
  <2>1. meter \in [Chats -> Nat]
    BY DEF TypeOK
  <2>2. ChatsOf(u) \in SUBSET Chats
    BY DEF ChatsOf
  <2>3. Share(u) \in [Chats -> Nat]
    BY <2>1 DEF Share
  <2>4. PICK m, mine, f : m = meter /\ mine = ChatsOf(u) /\ f = Share(u)
    OBVIOUS
  <2>5. \A b \in Chats : f[b] = IF b \in mine THEN m[b] ELSE 0
    BY <2>4 DEF ChatsOf, Share
  <2>6. m \in [Chats -> Nat] /\ mine \in SUBSET Chats /\ f \in [Chats -> Nat]
    BY <2>1, <2>2, <2>3, <2>4
  <2>7. IsFiniteSet(UnitsOf(f, Chats)) /\ Total(m, mine) = Total(f, Chats)
    BY <2>5, <2>6, SharesAddUp
  <2> QED
    BY <2>4, <2>6, <2>7
<1>2. PICK g : /\ g = Share(u)' /\ g \in [Chats -> Nat]
               /\ Total(meter', ChatsOf(u)') = Total(g, Chats)
  <2>1. meter' \in [Chats -> Nat]
    BY DEF TypeOK
  <2>2. ChatsOf(u)' \in SUBSET Chats
    BY DEF ChatsOf
  <2>3. Share(u)' \in [Chats -> Nat]
    BY <2>1 DEF Share
  <2>4. PICK m, mine, g : m = meter' /\ mine = ChatsOf(u)' /\ g = Share(u)'
    OBVIOUS
  <2>5. \A b \in Chats : g[b] = IF b \in mine THEN m[b] ELSE 0
    BY <2>4 DEF ChatsOf, Share
  <2>6. m \in [Chats -> Nat] /\ mine \in SUBSET Chats /\ g \in [Chats -> Nat]
    BY <2>1, <2>2, <2>3, <2>4
  <2>7. IsFiniteSet(UnitsOf(g, Chats)) /\ Total(m, mine) = Total(g, Chats)
    BY <2>5, <2>6, SharesAddUp
  <2> QED
    BY <2>4, <2>6, <2>7
<1>3. f[c] = Share(u)[c] /\ g[c] = Share(u)'[c]
  BY <1>1, <1>2
<1>4. /\ Total(f, Chats) \in Int /\ Total(g, Chats) \in Int
      /\ Total(g, Chats) = Total(f, Chats) - f[c] + g[c]
  <2>1. \A b \in Chats \ {c} : g[b] = f[b]
    BY <1>1, <1>2 DEF Share
  <2>2. f[c] \in Nat /\ g[c] \in Nat /\ IsFiniteSet(UnitsOf(f, Chats)) /\ IsFiniteSet(Chats)
    BY <1>1, <1>2, ChatConstants
  <2> QED
    BY <2>1, <2>2, OneTermChanges
<1>5. PICK v, w : v = used[u] /\ w = used'[u] /\ v \in [Days -> Nat] /\ w \in [Days -> Nat]
  BY DEF TypeOK
<1>6. /\ Total(v, Days) \in Int /\ Total(w, Days) \in Int
      /\ Total(w, Days) = Total(v, Days) - v[day] + w[day]
  <2>1. IsFiniteSet(Days)
    <3>1. 0 \in Int /\ MaxDay \in Int
      BY ChatConstants
    <3>2. IsFiniteSet(0 .. MaxDay)
      BY <3>1, FS_Interval
    <3> QED
      BY <3>2 DEF Days
  <2>2. v[day] \in Nat /\ w[day] \in Nat /\ day \in Days /\ IsFiniteSet(UnitsOf(v, Days))
    BY <1>5, <2>1, UnitsFinite DEF TypeOK
  <2>3. \A d \in Days \ {day} : w[d] = v[d]
    BY <1>5
  <2> QED
    BY <2>1, <2>2, <2>3, OneTermChanges
<1>7. /\ billed[u] \in Int /\ billed'[u] \in Int /\ forgiven[u] \in Int /\ forgiven'[u] \in Int
      /\ f[c] \in Int /\ g[c] \in Int /\ v[day] \in Int /\ w[day] \in Int
  BY <1>1, <1>2, <1>3, <1>5 DEF TypeOK
<1>8. billed[u] = Total(v, Days) + Total(f, Chats) + forgiven[u]
  BY <1>1, <1>3, <1>5 DEF UsageAccounted
<1>9. billed'[u] - billed[u] = (g[c] - f[c]) + (w[day] - v[day]) + (forgiven'[u] - forgiven[u])
  BY <1>3, <1>5
<1>10. billed'[u] = Total(w, Days) + Total(g, Chats) + forgiven'[u]
  <2>1. PICK x, y, p, q, b, k, s, t, m, n :
           /\ x = Total(v, Days) /\ y = Total(w, Days) /\ p = Total(f, Chats)
           /\ q = Total(g, Chats) /\ b = billed[u] /\ k = billed'[u]
           /\ s = forgiven[u] /\ t = forgiven'[u] /\ m = g[c] - f[c] /\ n = w[day] - v[day]
    OBVIOUS
  <2>2. x \in Int /\ p \in Int /\ b \in Int /\ k \in Int /\ s \in Int /\ t \in Int
        /\ m \in Int /\ n \in Int
    BY <1>4, <1>6, <1>7, <2>1
  <2>3. y = x + n /\ q = p + m
    BY <1>4, <1>6, <1>7, <2>1
  <2>4. b = x + p + s /\ k - b = m + n + (t - s)
    BY <1>8, <1>9, <2>1
  <2>5. k = y + q + t
    BY <2>2, <2>3, <2>4
  <2> QED
    BY <2>1, <2>5
<1> QED
  BY <1>2, <1>5, <1>10, Zenon

\* What moves no cost leaves the accounts as they are.
LEMMA QuietAccounts ==
    ASSUME UsageAccounted, UNCHANGED <<user, meter, used, billed, forgiven>>
    PROVE  UsageAccounted'
<1>1. \A u \in Users : ChatsOf(u)' = ChatsOf(u)
  BY DEF ChatsOf
<1> QED
  BY <1>1 DEF UsageAccounted

\* A chat goes on without an answer of the model: its meter stays.
LEMMA QuietStepKeepsBill ==
    ASSUME ChatInv, MetersFit, UsageAccounted, NEW c \in Chats,
           \/ Limit(c) \/ CheckQuota(c) \/ LoadPermissions(c) \/ AskModel(c)
           \/ ModelFails(c) \/ RunTools(c) \/ CommitTools(c) \/ Deadline(c)
    PROVE  MetersFit' /\ UsageAccounted'
<1>1. UNCHANGED <<user, meter, used, billed, forgiven>>
  BY DEF Limit, CheckQuota, LoadPermissions, AskModel, ModelFails, RunTools, CommitTools,
         Deadline, history
<1>2. UsageAccounted'
  BY <1>1, QuietAccounts
<1>3. /\ \A b \in Chats \ {c} : pc'[b] = pc[b]
      /\ \/ pc'[c] \in {"loop", "llm", "tools", "commit", "charge"}
         \/ pc[c] \in {"limit", "quota"}
  BY DEF Limit, CheckQuota, LoadPermissions, AskModel, ModelFails, RunTools, CommitTools,
         Deadline, Goto, OnFailure, ChatInv, TypeOK
<1>4. MetersFit'
  BY <1>1, <1>3 DEF MetersFit
<1> QED
  BY <1>2, <1>4

\* A chat begins with nothing on its meter.
LEMMA OpenKeepsBill ==
    ASSUME ChatInv, TypeOK', MetersFit, UsageAccounted,
           NEW c \in Chats, NEW v \in Users, Open(c, v)
    PROVE  MetersFit' /\ UsageAccounted'
<1>1. /\ pc[c] = "idle" /\ meter[c] = 0 /\ UNCHANGED <<meter, used, billed, forgiven, day>>
      /\ \A b \in Chats \ {c} : pc'[b] = pc[b] /\ user'[b] = user[b]
  BY DEF Open, Goto, ChatInv, TypeOK, MetersFit, history
<1>2. MetersFit'
  BY <1>1 DEF MetersFit
<1>3. ASSUME NEW u \in Users
      PROVE  billed'[u] = Total(used'[u], Days) + Total(meter', ChatsOf(u)') + forgiven'[u]
  <2>1. Share(u)[c] = 0 /\ Share(u)'[c] = 0
    BY <1>1 DEF Share
  <2>2. billed'[u] - billed[u] = (Share(u)'[c] - Share(u)[c])
                                   + (used'[u][day] - used[u][day])
                                   + (forgiven'[u] - forgiven[u])
    BY <1>1, <2>1 DEF ChatInv, TypeOK
  <2>3. TypeOK
    BY DEF ChatInv
  <2> QED
    BY <1>1, <2>2, <2>3, AccountsStayRight
<1> QED
  BY <1>2, <1>3 DEF UsageAccounted

\* What an answer costs is on the meter of the chat that asked.
LEMMA AnswerKeepsBill ==
    ASSUME ChatInv, TypeOK', MetersFit, UsageAccounted,
           NEW c \in Chats, NEW cost \in Costs, Answer(c, cost)
    PROVE  MetersFit' /\ UsageAccounted'
<1>1. /\ user' = user /\ used' = used /\ forgiven' = forgiven
      /\ pc'[c] \in {"loop", "tools", "charge"}
      /\ \A b \in Chats \ {c} : pc'[b] = pc[b] /\ meter'[b] = meter[b]
      /\ meter'[c] = meter[c] + cost
      /\ billed' = [billed EXCEPT ![user[c]] = @ + cost]
  BY DEF Answer, Goto, ChatInv, TypeOK
<1>2. MetersFit'
  BY <1>1 DEF MetersFit
<1>3. ASSUME NEW u \in Users
      PROVE  billed'[u] = Total(used'[u], Days) + Total(meter', ChatsOf(u)') + forgiven'[u]
  <2>1. /\ cost \in Int /\ meter[c] \in Int /\ billed[u] \in Int
        /\ used[u][day] \in Int /\ forgiven[u] \in Int
    BY ChatConstants DEF ChatInv, TypeOK
  <2>2. billed'[u] - billed[u] = IF user[c] = u THEN cost ELSE 0
    BY <1>1, <2>1 DEF ChatInv, TypeOK
  <2>3. Share(u)'[c] - Share(u)[c] = IF user[c] = u THEN cost ELSE 0
    <3>1. Share(u)[c] = IF user[c] = u THEN meter[c] ELSE 0
      BY DEF Share
    <3>2. Share(u)'[c] = IF user[c] = u THEN meter[c] + cost ELSE 0
      BY <1>1 DEF Share
    <3> QED
      BY <2>1, <3>1, <3>2
  <2>4. used'[u][day] - used[u][day] = 0 /\ forgiven'[u] - forgiven[u] = 0
    BY <1>1, <2>1
  <2>5. billed'[u] - billed[u] = (Share(u)'[c] - Share(u)[c])
                                   + (used'[u][day] - used[u][day])
                                   + (forgiven'[u] - forgiven[u])
    BY <2>1, <2>2, <2>3, <2>4
  <2>6. TypeOK
    BY DEF ChatInv
  <2> QED
    BY <1>1, <2>5, <2>6, AccountsStayRight
<1> QED
  BY <1>2, <1>3 DEF UsageAccounted

\* The charge takes the meter to the counter of the day, or it is lost with Redis.
LEMMA ChargeKeepsBill ==
    ASSUME ChatInv, TypeOK', MetersFit, UsageAccounted, NEW c \in Chats, Charge(c)
    PROVE  MetersFit' /\ UsageAccounted'
<1>1. /\ user[c] \in Users /\ user' = user /\ billed' = billed
      /\ meter'[c] = 0
      /\ \A b \in Chats \ {c} : pc'[b] = pc[b] /\ meter'[b] = meter[b]
  BY DEF Charge, Goto, ChatInv, TypeOK, ChatsMakeSense
<1>2. MetersFit'
  BY <1>1 DEF MetersFit
<1>3. ASSUME NEW u \in Users
      PROVE  billed'[u] = Total(used'[u], Days) + Total(meter', ChatsOf(u)') + forgiven'[u]
  <2>1. /\ meter[c] \in Int /\ billed[u] \in Int /\ day \in Days
        /\ used[u][day] \in Int /\ forgiven[u] \in Int
    BY DEF ChatInv, TypeOK
  <2>2. billed'[u] - billed[u] = 0
    BY <1>1, <2>1
  <2>3. Share(u)'[c] - Share(u)[c] = IF user[c] = u THEN 0 - meter[c] ELSE 0
    <3>1. Share(u)[c] = IF user[c] = u THEN meter[c] ELSE 0
      BY DEF Share
    <3>2. Share(u)'[c] = 0
      BY <1>1 DEF Share
    <3> QED
      BY <2>1, <3>1, <3>2
  <2>4. /\ (used'[u][day] - used[u][day]) + (forgiven'[u] - forgiven[u])
             = IF user[c] = u THEN meter[c] ELSE 0
        /\ used'[u][day] \in Int /\ forgiven'[u] \in Int
        /\ \A d \in Days \ {day} : used'[u][d] = used[u][d]
    <3>1. CASE reachable
      <4>1. used' = [used EXCEPT ![user[c]][day] = @ + meter[c]] /\ forgiven' = forgiven
        BY <3>1 DEF Charge
      <4>2. /\ used'[u][day] = used[u][day] + (IF user[c] = u THEN meter[c] ELSE 0)
            /\ \A d \in Days \ {day} : used'[u][d] = used[u][d]
        BY <2>1, <4>1 DEF ChatInv, TypeOK
      <4> QED
        BY <2>1, <4>1, <4>2
    <3>2. CASE ~reachable
      <4>1. forgiven' = [forgiven EXCEPT ![user[c]] = @ + meter[c]] /\ used' = used
        BY <3>2 DEF Charge
      <4>2. forgiven'[u] = forgiven[u] + (IF user[c] = u THEN meter[c] ELSE 0)
        BY <2>1, <4>1 DEF ChatInv, TypeOK
      <4> QED
        BY <2>1, <4>1, <4>2
    <3> QED
      BY <3>1, <3>2
  <2>5. billed'[u] - billed[u] = (Share(u)'[c] - Share(u)[c])
                                   + (used'[u][day] - used[u][day])
                                   + (forgiven'[u] - forgiven[u])
    BY <2>1, <2>2, <2>3, <2>4
  <2>6. TypeOK
    BY DEF ChatInv
  <2> QED
    BY <1>1, <2>4, <2>5, <2>6, AccountsStayRight
<1> QED
  BY <1>2, <1>3 DEF UsageAccounted

\* A chat ends with its meter charged, or its meter is lost with the process.
LEMMA EndKeepsBill ==
    ASSUME ChatInv, TypeOK', MetersFit, UsageAccounted, NEW c \in Chats, Close(c) \/ Crash(c)
    PROVE  MetersFit' /\ UsageAccounted'
<1>1. /\ user[c] \in Users /\ used' = used /\ billed' = billed
      /\ meter'[c] = 0
      /\ \A b \in Chats \ {c} : /\ pc'[b] = pc[b] /\ meter'[b] = meter[b]
                                /\ user'[b] = user[b]
  BY DEF Close, Crash, Goto, ChatInv, TypeOK, ChatsMakeSense, history
<1>2. MetersFit'
  BY <1>1 DEF MetersFit
<1>3. ASSUME NEW u \in Users
      PROVE  billed'[u] = Total(used'[u], Days) + Total(meter', ChatsOf(u)') + forgiven'[u]
  <2>1. /\ meter[c] \in Int /\ billed[u] \in Int /\ day \in Days
        /\ used[u][day] \in Int /\ forgiven[u] \in Int
    BY DEF ChatInv, TypeOK
  <2>2. billed'[u] - billed[u] = 0 /\ used'[u][day] - used[u][day] = 0
    BY <1>1, <2>1
  <2>3. Share(u)'[c] - Share(u)[c] = IF user[c] = u THEN 0 - meter[c] ELSE 0
    <3>1. Share(u)[c] = IF user[c] = u THEN meter[c] ELSE 0
      BY DEF Share
    <3>2. Share(u)'[c] = 0
      BY <1>1 DEF Share
    <3> QED
      BY <2>1, <3>1, <3>2
  <2>4. /\ forgiven'[u] - forgiven[u] = IF user[c] = u THEN meter[c] ELSE 0
        /\ forgiven'[u] \in Int
    <3>1. CASE Close(c)
      <4>1. forgiven' = forgiven /\ meter[c] = 0
        BY <3>1 DEF Close, MetersFit, history
      <4> QED
        BY <2>1, <4>1
    <3>2. CASE Crash(c)
      <4>1. forgiven' = [forgiven EXCEPT ![user[c]] = @ + meter[c]]
        BY <3>2 DEF Crash
      <4>2. forgiven'[u] = forgiven[u] + (IF user[c] = u THEN meter[c] ELSE 0)
        BY <2>1, <4>1 DEF ChatInv, TypeOK
      <4> QED
        BY <2>1, <4>2
    <3> QED
      BY <3>1, <3>2
  <2>5. billed'[u] - billed[u] = (Share(u)'[c] - Share(u)[c])
                                   + (used'[u][day] - used[u][day])
                                   + (forgiven'[u] - forgiven[u])
    BY <2>1, <2>2, <2>3, <2>4
  <2>6. TypeOK
    BY DEF ChatInv
  <2> QED
    BY <1>1, <2>5, <2>6, AccountsStayRight
<1> QED
  BY <1>2, <1>3 DEF UsageAccounted

\* In the beginning nothing was billed.
LEMMA InitBill == Init => MetersFit /\ UsageAccounted
<1> SUFFICES ASSUME Init PROVE MetersFit /\ UsageAccounted
  OBVIOUS
<1>1. MetersFit
  BY DEF Init, MetersFit
<1>2. ASSUME NEW u \in Users
      PROVE  billed[u] = Total(used[u], Days) + Total(meter, ChatsOf(u)) + forgiven[u]
  <2>1. Total(used[u], Days) = 0
    <3>1. \A d \in Days : used[u][d] = 0
      BY DEF Init
    <3> QED
      BY <3>1, ZeroTerms
  <2>2. Total(meter, ChatsOf(u)) = 0
    <3>1. \A c \in ChatsOf(u) : meter[c] = 0
      BY DEF Init, ChatsOf
    <3> QED
      BY <3>1, ZeroTerms
  <2> QED
    BY <2>1, <2>2 DEF Init
<1> QED
  BY <1>1, <1>2 DEF UsageAccounted

\* Every answer the model gave is in a daily counter, on the meter of an open chat, or
\* was lost with Redis or with the process, in whatever way the chat went on.
THEOREM EveryAnswerIsAccountedFor == Spec => []UsageAccounted
<1>1. Init => MetersFit /\ UsageAccounted
  BY InitBill
<1>2. ChatInv /\ ChatInv' /\ MetersFit /\ UsageAccounted /\ [Next]_vars
        => MetersFit' /\ UsageAccounted'
  <2> SUFFICES ASSUME ChatInv, ChatInv', MetersFit, UsageAccounted, [Next]_vars
               PROVE  MetersFit' /\ UsageAccounted'
    OBVIOUS
  <2>0. TypeOK'
    BY DEF ChatInv
  <2>1. ASSUME NEW c \in Chats, NEW u \in Users, Open(c, u)
        PROVE  MetersFit' /\ UsageAccounted'
    BY <2>0, <2>1, OpenKeepsBill
  <2>2. ASSUME NEW c \in Chats, NEW cost \in Costs, Answer(c, cost)
        PROVE  MetersFit' /\ UsageAccounted'
    BY <2>0, <2>2, AnswerKeepsBill
  <2>3. ASSUME NEW c \in Chats, Charge(c) PROVE MetersFit' /\ UsageAccounted'
    BY <2>0, <2>3, ChargeKeepsBill
  <2>4. ASSUME NEW c \in Chats, Close(c) \/ Crash(c) PROVE MetersFit' /\ UsageAccounted'
    BY <2>0, <2>4, EndKeepsBill
  <2>5. ASSUME NEW c \in Chats, Step(c) \/ Deadline(c) \/ ModelFails(c)
        PROVE  MetersFit' /\ UsageAccounted'
    BY <2>3, <2>4, <2>5, QuietStepKeepsBill DEF Step
  <2>6. CASE LoseRedis \/ RedisBack \/ NextDay \/ UNCHANGED vars
    <3>1. UNCHANGED <<pc, user, meter, used, billed, forgiven>>
      BY <2>6 DEF LoseRedis, RedisBack, NextDay, vars, chat, history
    <3>2. UsageAccounted'
      BY <3>1, QuietAccounts
    <3> QED
      BY <3>1, <3>2 DEF MetersFit
  <2> QED
    BY <2>1, <2>2, <2>4, <2>5, <2>6 DEF Next
<1> QED
  BY <1>1, <1>2, ChatInvHolds, PTL DEF Spec
=============================================================================
